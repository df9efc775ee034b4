----------------------------- MODULE MCBnocTool -----------------------------
EXTENDS BnocTool

Plain(text) == [minus |-> FALSE, text |-> text]
Minus(text) == [minus |-> TRUE, text |-> text]

MCNodes == <<"bluenoc_1", "bluenoc_2">>
MCOthers == {"tty"}

\* One line at least for each mode; names, no names, words and mistakes.
MCLines ==
  { <<>>, <<Plain("help")>>, <<Minus("x")>>,
    <<Plain("bluenoc_2")>>,
    <<Plain("status")>>,
    <<Plain("reset"), Plain("bluenoc_1")>>,
    <<Plain("down"), Plain("bluenoc_1"), Plain("tty")>>,
    <<Plain("up")>>,
    <<Plain("debug"), Plain("off"), Plain("on")>>,
    <<Plain("debug"), Minus("dma"), Plain("data"), Plain("bluenoc_1")>>,
    <<Plain("debug"), Plain("dma")>>,
    <<Plain("debug"), Plain("tty"), Plain("bluenoc_2")>>,
    <<Plain("profile"), Plain("start")>>,
    <<Plain("profile"), Plain("stop"), Plain("bluenoc_1")>>,
    <<Plain("clock"), Plain("bluenoc_2")>> }
=============================================================================
