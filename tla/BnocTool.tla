------------------------------ MODULE BnocTool ------------------------------
(***************************************************************************)
(* The user's tool of the BlueNoC boards, src/bluenoc/bluenoc/bluenoc.c:   *)
(* the command line, the files a command works on, and what it does with   *)
(* each of them.  Several processes of it may run at once; boards come and *)
(* go meanwhile.                                                           *)
(*                                                                         *)
(* open and each ioctl are a step.  The driver's side of an ioctl is what  *)
(* bluenoc_ioctl does, activate and deactivate as a whole (BnocBoards has  *)
(* their cases); the accesses of the clock mode are in ClockGen.           *)
(***************************************************************************)
EXTENDS Integers, Sequences, FiniteSets, SequencesExt

CONSTANTS
  Tools,        \* processes that may run the tool
  Nodes,        \* the names in /dev that is_bluenoc_file matches, in order
  Others,       \* other names given as arguments
  Lines,        \* the command lines, sequences of arguments
  OtherDriver,  \* may the driver be one that does not know some of the requests?
  MaxCommands,  \* bound on the commands run
  MaxChanges    \* bound on the boards that come and go

ASSUME ToolAssumption ==
  /\ Nodes \in Seq(ToSet(Nodes))
  /\ IsInjective(Nodes)
  /\ ToSet(Nodes) \cap Others = {}
  /\ OtherDriver \in BOOLEAN
  /\ MaxCommands \in Nat
  /\ MaxChanges \in Nat

VARIABLES
  pc,        \* where a process is
  line,      \* its command line, as main has taken it apart
  left,      \* the files still to work on
  is_active, \* what BNOC_IDENTIFY said of the board at hand
  dbg_level, \* the debug level it has read
  failed,    \* process_failed
  exit,      \* the exit code of its last command
  results,   \* history: a record for each file worked on
  steady,    \* history: boards that have been there since the command began
  files,     \* what stands behind each name: nothing, a board, another file
  active,    \* boards at the level BLUENOC_ACTIVE
  level,     \* the debug level of each board
  asked,     \* history: the level the commands on a board have asked for
  raced,     \* history: boards whose level was changed between reading and writing
  commands,  \* commands started
  changes    \* boards that have come or gone

toolVars  == <<pc, line, left, is_active, dbg_level, failed, exit, results>>
boardVars == <<files, active, level, asked, raced>>
vars == <<toolVars, steady, boardVars, commands, changes>>

Names == ToSet(Nodes) \cup Others
-----------------------------------------------------------------------------
(***************************************************************************)
(* The command line.  An argument is a word or a name and may begin with a *)
(* minus sign; a plus sign makes no difference and is left out.            *)
(***************************************************************************)
DebugBits == {"CALLS", "DATA", "DMA", "INTR"}
DEBUG_PROFILE == "PROFILE"
Bits == DebugBits \cup {DEBUG_PROFILE}

Modes == {"HELP", "INFO", "BUILD", "BOARD", "RESET", "DOWN", "UP", "DEBUG",
          "PROFILE", "STATUS", "CLOCK", "BOARDS"}

\* The first argument and the mode it stands for.
ModeWords ==
  [help |-> "HELP", info |-> "INFO", build |-> "BUILD", boards |-> "BOARDS",
   board |-> "BOARD", status |-> "STATUS", reset |-> "RESET", down |-> "DOWN",
   up |-> "UP", debug |-> "DEBUG", prof |-> "PROFILE", profile |-> "PROFILE",
   clock |-> "CLOCK"]

\* Mutant of DebugWords: off and on take profiling with them.
DebugWordsAllBits ==
  [call |-> {"CALLS"}, calls |-> {"CALLS"}, data |-> {"DATA"}, dma |-> {"DMA"},
   intr |-> {"INTR"}, intrs |-> {"INTR"}, off |-> Bits, on |-> Bits]

\* The bits behind each debug mode.
DebugWords ==
  [call |-> {"CALLS"}, calls |-> {"CALLS"}, data |-> {"DATA"}, dma |-> {"DMA"},
   intr |-> {"INTR"}, intrs |-> {"INTR"}, off |-> DebugBits, on |-> DebugBits]

IsDebugWord(a) == a.text \in DOMAIN DebugWords
SwitchesOff(a) == a.minus \/ a.text = "off"

\* A command: what to do, the bits to turn off and on, the files named.
Command(mode, off, on, names) ==
  [mode |-> mode, off |-> off, on |-> on,
   names |-> [i \in DOMAIN names |-> names[i].text]]

\* The words up to the first that is no debug mode; the rest are file names.
ParseDebug(args) ==
  LET n == CHOOSE k \in 0..Len(args) :
             /\ \A i \in 1..k : IsDebugWord(args[i])
             /\ k < Len(args) => ~IsDebugWord(args[k + 1])
      off == UNION {DebugWords[args[i].text] : i \in {j \in 1..n : SwitchesOff(args[j])}}
      on  == UNION {DebugWords[args[i].text] : i \in {j \in 1..n : ~SwitchesOff(args[j])}}
      bad == \/ \E i \in 1..n : args[i].minus /\ args[i].text \in {"off", "on"}
             \/ off \cap on # {}
  IN  Command(IF bad THEN "USAGE" ELSE "DEBUG", off, on, SubSeq(args, n + 1, Len(args)))

\* At most one word; a word that is no profile command is a file name.
ParseProfile(args) ==
  LET word == IF args # <<>> /\ ~args[1].minus THEN args[1].text ELSE "none"
  IN  CASE word \in {"start", "on"} -> Command("PROFILE", {}, {DEBUG_PROFILE}, Tail(args))
        [] word \in {"stop", "off"} -> Command("PROFILE", {DEBUG_PROFILE}, {}, Tail(args))
        [] OTHER                    -> Command("PROFILE", {}, {}, args)

\* Whatever follows "clock" is taken for the frequency, a file name for 0.
ParseClock(args) == Command("CLOCK", {}, {}, IF args = <<>> THEN args ELSE Tail(args))

\* No mode, or a word that is none: info.  An option other than -h is an error.
Parse(args) ==
  LET mode == IF args # <<>> /\ ~args[1].minus /\ args[1].text \in DOMAIN ModeWords
              THEN ModeWords[args[1].text] ELSE "none"
  IN  IF args # <<>> /\ args[1].minus
      THEN Command(IF args[1].text = "h" THEN "HELP" ELSE "USAGE", {}, {}, <<>>)
      ELSE
      CASE mode = "none"    -> Command("INFO", {}, {}, args)
        [] mode = "DEBUG"   -> ParseDebug(Tail(args))
        [] mode = "PROFILE" -> ParseProfile(Tail(args))
        [] mode = "CLOCK"   -> ParseClock(Tail(args))
        [] OTHER            -> Command(mode, {}, {}, Tail(args))

Argument == [minus : BOOLEAN, text : STRING]

\* The names on the command lines are among those that the model has.
ASSUME LinesAssumption ==
  \A args \in Lines : args \in Seq(Argument) /\ Parse(args).names \in Seq(Names)
-----------------------------------------------------------------------------
NoCommand == Command("HELP", {}, {}, <<>>)

\* How it went with a file, apart from what process makes of it: it is no board; it
\* is one that cannot be opened; a request came back with an error; none did, and
\* the board is what was asked for, or is not; or another process has taken the
\* board down since IDENTIFY.
Outcomes == {"no_board", "denied", "refused", "met", "unmet", "overtaken"}

\* What process has returned for a file, and how it went.
Result == [file : Names, ret : {1, 0, -1, -2}, outcome : Outcomes]

Init ==
  /\ pc = [t \in Tools |-> "idle"]
  /\ line = [t \in Tools |-> NoCommand]
  /\ left = [t \in Tools |-> <<>>]
  /\ is_active = [t \in Tools |-> FALSE]
  /\ dbg_level = [t \in Tools |-> {}]
  /\ failed = [t \in Tools |-> FALSE]
  /\ exit = [t \in Tools |-> 0]
  /\ results = [t \in Tools |-> <<>>]
  /\ steady = [t \in Tools |-> {}]
  /\ files \in [Names -> {"none", "board", "other"}]
  /\ active = {n \in Names : files[n] = "board"}
  /\ level = [n \in Names |-> {}]
  /\ asked = level
  /\ raced = {}
  /\ commands = 0
  /\ changes = 0

Boards == {n \in Names : files[n] = "board"}
File(t) == Head(left[t])
Mode(t) == line[t].mode
strict(t) == line[t].names # <<>>

\* A process has the file open.
Holds(t, n) == pc[t] \in {"identify", "act", "set"} /\ File(t) = n
-----------------------------------------------------------------------------
(***************************************************************************)
(* main.                                                                   *)
(***************************************************************************)

\* help and errors of usage end at once; boards named are worked on in the
\* order given.
Start(t) ==
  /\ pc[t] = "idle"
  /\ commands < MaxCommands
  /\ \E args \in Lines : line' = [line EXCEPT ![t] = Parse(args)]
  /\ pc' = [pc EXCEPT ![t] = IF line'[t].mode \in {"HELP", "USAGE"} THEN "idle"
                             ELSE IF line'[t].names # <<>> THEN "next" ELSE "scan"]
  /\ exit' = [exit EXCEPT ![t] = IF line'[t].mode = "USAGE" THEN 1 ELSE 0]
  /\ left' = [left EXCEPT ![t] = line'[t].names]
  /\ failed' = [failed EXCEPT ![t] = FALSE]
  /\ results' = [results EXCEPT ![t] = <<>>]
  /\ steady' = [steady EXCEPT ![t] = Boards]
  /\ commands' = commands + 1
  /\ UNCHANGED <<is_active, dbg_level, boardVars, changes>>

\* Mutant of Listed: the loop stops one entry too early.
ListedButLast(present) == IF present = <<>> THEN present ELSE Front(present)

Listed(present) == present

\* What scandir can return: the names that there are in /dev now, in order.
Rank(n) == CHOOSE i \in DOMAIN Nodes : Nodes[i] = n

Entries ==
  {s \in SeqOf(ToSet(Nodes), Len(Nodes)) :
     /\ ToSet(s) = {n \in ToSet(Nodes) : files[n] # "none"}
     /\ \A i, j \in DOMAIN s : i < j => Rank(s[i]) < Rank(s[j])}

Scan(t) ==
  /\ pc[t] = "scan"
  /\ \E present \in Entries : left' = [left EXCEPT ![t] = Listed(present)]
  /\ pc' = [pc EXCEPT ![t] = "next"]
  /\ UNCHANGED <<line, is_active, dbg_level, failed, exit, results, steady, boardVars,
                 commands, changes>>

Quit(t) ==
  /\ pc[t] = "next"
  /\ left[t] = <<>>
  /\ exit' = [exit EXCEPT ![t] = IF failed[t] THEN 1 ELSE 0]
  /\ pc' = [pc EXCEPT ![t] = "idle"]
  /\ UNCHANGED <<line, left, is_active, dbg_level, failed, results, steady, boardVars,
                 commands, changes>>

\* Mutant of Failure: the last file decides.
FailureOfLast(t, ret) == ret = -1

Failure(t, ret) == failed[t] \/ ret = -1

\* process closes the file and returns; main goes on to the next one.
Finish(t, ret, outcome) ==
  /\ results' = [results EXCEPT ![t] =
                   Append(@, [file |-> File(t), ret |-> ret, outcome |-> outcome])]
  /\ failed' = [failed EXCEPT ![t] = Failure(t, ret)]
  /\ left' = [left EXCEPT ![t] = Tail(@)]
  /\ pc' = [pc EXCEPT ![t] = "next"]
  /\ UNCHANGED <<line, is_active, dbg_level, exit, steady, commands, changes>>
-----------------------------------------------------------------------------
(***************************************************************************)
(* process.                                                                *)
(***************************************************************************)

\* What is no board is an error only if it was named.
NoBoard(t, outcome) ==
  /\ Finish(t, IF strict(t) THEN -1 ELSE -2, outcome)
  /\ UNCHANGED boardVars

Open(t) ==
  /\ pc[t] = "next"
  /\ left[t] # <<>>
  /\ files[File(t)] # "none"
  /\ pc' = [pc EXCEPT ![t] = "identify"]
  /\ UNCHANGED <<line, left, is_active, dbg_level, failed, exit, results, steady,
                 boardVars, commands, changes>>

\* There is no such file, or it may not be opened.
OpenFails(t) ==
  /\ pc[t] = "next"
  /\ left[t] # <<>>
  /\ NoBoard(t, IF files[File(t)] = "board" THEN "denied" ELSE "no_board")

Identify(t) ==
  /\ pc[t] = "identify"
  /\ files[File(t)] = "board"
  /\ is_active' = [is_active EXCEPT ![t] = File(t) \in active]
  /\ pc' = [pc EXCEPT ![t] = "act"]
  /\ UNCHANGED <<line, left, dbg_level, failed, exit, results, steady, boardVars,
                 commands, changes>>

IdentifyFails(t) ==
  /\ pc[t] = "identify"
  /\ files[File(t)] = "other"
  /\ NoBoard(t, "no_board")

Acts(t, mode) == pc[t] = "act" /\ Mode(t) = mode

Returns(t, ret) == Finish(t, ret, "met")

\* These read and print.  What info cannot find out it leaves out.
Show(t) ==
  /\ \E mode \in {"INFO", "BUILD", "BOARD", "BOARDS"} : Acts(t, mode)
  /\ Returns(t, 1)
  /\ UNCHANGED boardVars

\* The state asked for is the one IDENTIFY has told of, or makes a reset
\* impossible.
NothingToDo(t) ==
  /\ \/ Acts(t, "UP") /\ is_active[t]
     \/ \E mode \in {"RESET", "DOWN"} : Acts(t, mode) /\ ~is_active[t]
  /\ Returns(t, 0)
  /\ UNCHANGED boardVars

\* The modes that go on to an ioctl and look at its result.
AsksDriver(t) ==
  \/ \E mode \in {"RESET", "DOWN", "STATUS"} : Acts(t, mode) /\ is_active[t]
  \/ Acts(t, "UP") /\ ~is_active[t]
  \/ Acts(t, "DEBUG") \/ Acts(t, "PROFILE")
  \/ pc[t] = "set"

Refused(t) ==
  /\ OtherDriver
  /\ AsksDriver(t)
  /\ Finish(t, -1, "refused")
  /\ UNCHANGED boardVars

\* What a request that has no effect on a board that is down comes to.
UnlessOvertaken(t) == IF File(t) \in active THEN "met" ELSE "overtaken"

\* The driver resets only an active board, and returns 0 either way.
Reset(t) ==
  /\ Acts(t, "RESET")
  /\ is_active[t]
  /\ Finish(t, 1, UnlessOvertaken(t))
  /\ UNCHANGED boardVars

Down(t) ==
  /\ Acts(t, "DOWN")
  /\ is_active[t]
  /\ active' = active \ {File(t)}
  /\ Returns(t, 1)
  /\ UNCHANGED <<files, level, asked, raced>>

\* activate may fail, and leaves the board down; the ioctl returns 0.
Up(t) ==
  /\ Acts(t, "UP")
  /\ ~is_active[t]
  /\ \/ active' = active \cup {File(t)} /\ Returns(t, 1)
     \/ UNCHANGED active /\ Finish(t, 1, IF File(t) \in active THEN "met" ELSE "unmet")
  /\ UNCHANGED <<files, level, asked, raced>>

\* The clock locks, or was to be shown only; or it does not lock.
Clock(t) ==
  /\ Acts(t, "CLOCK")
  /\ Returns(t, 1) \/ Finish(t, -1, "unmet")
  /\ UNCHANGED boardVars

\* A board that is down has no status, which is an error.
Status(t) ==
  /\ Acts(t, "STATUS")
  /\ IF is_active[t] THEN Finish(t, 1, UnlessOvertaken(t)) ELSE Finish(t, -1, "unmet")
  /\ UNCHANGED boardVars

\* Without bits to change the level is printed, and that is all.
GetLevel(t) ==
  /\ Acts(t, "DEBUG") \/ Acts(t, "PROFILE")
  /\ IF line[t].on \cup line[t].off = {}
     THEN Returns(t, 0)
     ELSE /\ pc' = [pc EXCEPT ![t] = "set"]
          /\ dbg_level' = [dbg_level EXCEPT ![t] = level[File(t)]]
          /\ UNCHANGED <<line, left, is_active, failed, exit, results, steady,
                         commands, changes>>
  /\ UNCHANGED boardVars

\* Mutant of NewLevel: the bits turned on replace the level.
NewLevelReplaced(t) == line[t].on

NewLevel(t) == (dbg_level[t] \ line[t].off) \cup line[t].on

\* BNOC_SET_DEBUG_LEVEL writes the whole level.
SetLevel(t) ==
  LET b == File(t) IN
  /\ pc[t] = "set"
  /\ level' = [level EXCEPT ![b] = NewLevel(t)]
  /\ asked' = [asked EXCEPT ![b] = (@ \ line[t].off) \cup line[t].on]
  /\ raced' = raced \cup (IF \E u \in Tools \ {t} : pc[u] = "set" /\ File(u) = b
                          THEN {b} ELSE {})
  /\ Returns(t, 1)
  /\ UNCHANGED <<files, active>>
-----------------------------------------------------------------------------
(***************************************************************************)
(* Outside the tool: boards come and go, those that go while no process    *)
(* has them open (a file that outlives its board is a matter of            *)
(* BnocBoards).  A board that comes is active and logs nothing.            *)
(***************************************************************************)
Comes(n) ==
  /\ changes < MaxChanges
  /\ files[n] = "none"
  /\ files' = [files EXCEPT ![n] = "board"]
  /\ active' = active \cup {n}
  /\ level' = [level EXCEPT ![n] = {}]
  /\ asked' = [asked EXCEPT ![n] = {}]
  /\ raced' = raced \ {n}
  /\ changes' = changes + 1
  /\ UNCHANGED <<toolVars, steady, commands>>

Goes(n) ==
  /\ changes < MaxChanges
  /\ files[n] = "board"
  /\ \A t \in Tools : ~Holds(t, n)
  /\ files' = [files EXCEPT ![n] = "none"]
  /\ active' = active \ {n}
  /\ steady' = [t \in Tools |-> steady[t] \ {n}]
  /\ changes' = changes + 1
  /\ UNCHANGED <<toolVars, level, asked, raced, commands>>
-----------------------------------------------------------------------------
process(t) ==
  \/ Open(t) \/ OpenFails(t) \/ Identify(t) \/ IdentifyFails(t)
  \/ Show(t) \/ NothingToDo(t) \/ Refused(t) \/ Reset(t) \/ Down(t) \/ Up(t)
  \/ Clock(t) \/ Status(t) \/ GetLevel(t) \/ SetLevel(t)

main(t) == Start(t) \/ Scan(t) \/ Quit(t)

Next ==
  \/ \E t \in Tools : main(t) \/ process(t)
  \/ \E n \in ToSet(Nodes) : Comes(n) \/ Goes(n)

Spec == Init /\ [][Next]_vars
-----------------------------------------------------------------------------
\* Every variable has its type; in particular what Parse makes of a command
\* line is a mode of the tool, or an error of usage, with bits only for the two
\* modes that have a use for them.
TypeOK ==
  /\ pc \in [Tools -> {"idle", "scan", "next", "identify", "act", "set"}]
  /\ \A t \in Tools :
       /\ Mode(t) \in Modes \cup {"USAGE"}
       /\ line[t].off \cup line[t].on \subseteq
            CASE Mode(t) \in {"DEBUG", "USAGE"} -> DebugBits
              [] Mode(t) = "PROFILE"            -> {DEBUG_PROFILE}
              [] OTHER                          -> {}
       /\ \A i \in DOMAIN line[t].names : line[t].names[i] \in Names
       /\ \A i \in DOMAIN left[t] : left[t][i] \in Names
       /\ \A i \in DOMAIN results[t] : results[t][i] \in Result
       /\ pc[t] \in {"identify", "act", "set"} => left[t] # <<>>
  /\ is_active \in [Tools -> BOOLEAN]
  /\ dbg_level \in [Tools -> SUBSET Bits]
  /\ failed \in [Tools -> BOOLEAN]
  /\ exit \in [Tools -> {0, 1}]
  /\ steady \in [Tools -> SUBSET Names]
  /\ files \in [Names -> {"none", "board", "other"}]
  /\ active \subseteq Boards
  /\ level \in [Names -> SUBSET Bits]
  /\ asked \in [Names -> SUBSET Bits]
  /\ raced \subseteq Names
  /\ commands \in 0..MaxCommands
  /\ changes \in 0..MaxChanges

\* What the exit code tells of.  Two things it does not: BNOC_REACTIVATE returns 0
\* also when activate fails, so an up that leaves the board down is a success; and so
\* is a reset or a status of a board that another process has taken down meanwhile.
Failed(t, outcome) ==
  \/ strict(t) /\ outcome \in {"no_board", "denied"}
  \/ outcome = "refused"
  \/ outcome = "unmet" /\ Mode(t) # "UP"

\* A command works on every file it was given, in order, whatever becomes of
\* those before; and it exits with 1 exactly if, wherever in the list, a file that
\* was named is no board that it can open, a request came back with an error, a
\* board that is down was asked for its status, or a clock did not lock.
ExitTellsFailure ==
  \A t \in Tools :
    pc[t] = "idle" /\ results[t] # <<>>
      => /\ strict(t) => [i \in DOMAIN results[t] |-> results[t][i].file] = line[t].names
         /\ exit[t] = 1 <=> \E i \in DOMAIN results[t] : Failed(t, results[t][i].outcome)

\* A command without file names has tried each board that was there from its
\* beginning to its end, and no name twice.
ScanFindsEveryBoard ==
  \A t \in Tools :
    pc[t] = "idle" /\ Mode(t) \notin {"HELP", "USAGE"} /\ ~strict(t)
      => /\ \A n \in steady[t] \cap ToSet(Nodes) :
              \E i \in DOMAIN results[t] :
                results[t][i].file = n /\ results[t][i].outcome # "no_board"
         /\ \A i, j \in DOMAIN results[t] :
              results[t][i].file = results[t][j].file => i = j

\* A board logs what the commands on it have asked for, each having changed the
\* bits it names and no other, as long as no two of them have overlapped between
\* reading the level and writing it.
LevelIsWhatWasAsked == \A n \in Boards \ raced : level[n] = asked[n]
=============================================================================
