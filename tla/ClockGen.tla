------------------------------ MODULE ClockGen ------------------------------
(***************************************************************************)
(* The clock generator of a BlueNoC board as the bluenoc tool programs it: *)
(* ClockGenerator of clocking.cpp, and the two modes of bluenoc.c that use *)
(* it, info (GetRate) and clock (GetRate, SetRate, IsLocked, GetRate).     *)
(*                                                                         *)
(* A register of the clock manager is read or written through four words   *)
(* of the board: send a request, poll a status word, take an answer, clear *)
(* it.  Each of these ioctls is a step.  The driver fails them only if it  *)
(* cannot copy the word of the caller, which is on the tool's own stack,   *)
(* so that they do not fail here; the tool would go on with a word it has  *)
(* not read.  The tool sleeps a second between two polls of a loop; what a *)
(* poll that comes too early sees is a miss.                               *)
(***************************************************************************)
EXTENDS ClockRates, Sequences

CONSTANTS
  Tools,        \* processes that may run the tool
  Rates,        \* rates, in kHz, that a clock command asks for
  ParentKHz,    \* the parent rate, 125 MHz in every call of the tool
  Delay,        \* polls that a prompt request can miss before it is carried out
  MaxSlow,      \* bound on the requests that take longer than that
  MaxCommands,  \* bound on the commands of each tool
  NoJob         \* the board has no request to carry out

ASSUME ClockAssumption ==
  /\ ParentKHz \in Nat \ {0}
  /\ Rates \subseteq Nat \ {0}
  /\ Delay \in Nat
  /\ MaxSlow \in Nat
  /\ MaxCommands \in Nat

VARIABLES
  pc,        \* where a tool is in an access, "free" between accesses
  phase,     \* which function of ClockGenerator it runs, "done" between commands
  todo,      \* the accesses that function has still to make
  tries,     \* the retry counter i of the access
  got,       \* the values the function has read so far
  rate,      \* the rate asked for, 0 if none
  chosen,    \* the dividers SetRate has found
  shown,     \* the dividers behind the rate printed last
  ret,       \* the return value of process
  commands,  \* commands run so far
  regs,      \* registers of the clock manager
  loaded,    \* the setting the clock runs with
  job,       \* the request the board is working on
  misses,    \* polls that came too early for it
  word,      \* the answer register
  full,      \* the flag of the answer register
  late,      \* its request may take longer than Delay polls
  slow,      \* how many requests could do so, up to now
  ranOut     \* a loop gave up

toolVars == <<pc, phase, todo, tries, got, rate, chosen, shown, ret, commands>>
boardVars == <<regs, loaded, job, misses, word, full, late, slow>>
vars == <<toolVars, boardVars, ranOut>>

-----------------------------------------------------------------------------
\* Registers.  The values of the lock and filter registers are entries of two
\* tables, and are represented by the index of the entry.
SettingRegs == {"clkout_1", "clkout_2", "clk_div", "clk_fb_1", "clk_fb_2",
                "lock_1", "lock_2", "lock_3", "filter_1", "filter_2"}
Registers == SettingRegs \cup {"update_enable", "status"}

lookup_filter(m) == Lesser(m, 47)
lookup_lock(m) == Lesser(m, 36)

Flags(p) == 128 * p.edge + 64 * p.nocount

\* The values SetRate writes for dividers c.
Setting(c) ==
  LET out == CalcClkParams(c.dout)
      div == CalcClkParams(c.d)
      fb  == CalcClkParams(c.m)
  IN  [r \in SettingRegs |->
         CASE r = "clkout_1" -> PackCounts(out)
           [] r = "clkout_2" -> Flags(out)
           [] r = "clk_div"  -> PackCounts(div) + 64 * Flags(div)
           [] r = "clk_fb_1" -> PackCounts(fb)
           [] r = "clk_fb_2" -> Flags(fb)
           [] r \in {"lock_1", "lock_2", "lock_3"} -> lookup_lock(c.m - 1)
           [] r \in {"filter_1", "filter_2"}       -> lookup_filter(c.m - 1)]

Read(r) == [rnw |-> TRUE, reg |-> r, val |-> 0]
Write(r, v) == [rnw |-> FALSE, reg |-> r, val |-> v]

\* The accesses of SetRate, GetRate and IsLocked, in their order.
SettingWrites(c) ==
  LET s == Setting(c)
  IN  <<Write("clkout_1", s["clkout_1"]), Write("clkout_2", s["clkout_2"]),
        Write("clk_div", s["clk_div"]),
        Write("clk_fb_1", s["clk_fb_1"]), Write("clk_fb_2", s["clk_fb_2"]),
        Write("lock_1", s["lock_1"]), Write("lock_2", s["lock_2"]),
        Write("lock_3", s["lock_3"]),
        Write("filter_1", s["filter_1"]), Write("filter_2", s["filter_2"])>>

\* Mutant of SetRate: updates stay enabled while the registers are written.
SetRateEnabled(c) == SettingWrites(c) \o <<Write("update_enable", 1)>>

SetRate(c) == <<Write("update_enable", 0)>> \o SettingWrites(c)
                \o <<Write("update_enable", 1)>>

GetRate == <<Read("clkout_1"), Read("clk_div"), Read("clk_fb_1")>>
IsLocked == <<Read("status")>>

\* Mutant of Decoded: the answers are taken in another order.
DecodedSwapped(g) ==
  [dout |-> DividerOf(g[1]), m |-> DividerOf(g[2]), d |-> DividerOf(g[3])]

\* What GetRate makes of its three answers; a rate of 0 if a divider is 0.
Decoded(g) ==
  LET c == [dout |-> DividerOf(g[1]), d |-> DividerOf(g[2]), m |-> DividerOf(g[3])]
  IN  IF c.d = 0 \/ c.dout = 0 THEN NoDividers ELSE c

Params == [r \in Rates |-> CalcParams(ParentKHz, r)]

\* The setting the board comes up with.
PowerUp == [d |-> 1, m |-> 8, dout |-> 20]

Init ==
  /\ pc = [t \in Tools |-> "free"]
  /\ phase = [t \in Tools |-> "done"]
  /\ todo = [t \in Tools |-> <<>>]
  /\ tries = [t \in Tools |-> 0]
  /\ got = [t \in Tools |-> <<>>]
  /\ rate = [t \in Tools |-> 0]
  /\ chosen = [t \in Tools |-> NoDividers]
  /\ shown = [t \in Tools |-> NoDividers]
  /\ ret = [t \in Tools |-> 0]
  /\ commands = [t \in Tools |-> 0]
  /\ regs = [r \in Registers |-> IF r \in SettingRegs THEN Setting(PowerUp)[r] ELSE 1]
  /\ loaded = Setting(PowerUp)
  /\ job = NoJob
  /\ misses = 0
  /\ word = 0
  /\ full = FALSE
  /\ late = FALSE
  /\ slow = 0
  /\ ranOut = FALSE

-----------------------------------------------------------------------------
\* process: the modes info and clock.

\* A function of ClockGenerator begins with the accesses s.
Call(t, ph, s) ==
  /\ phase' = [phase EXCEPT ![t] = ph]
  /\ todo' = [todo EXCEPT ![t] = s]
  /\ got' = [got EXCEPT ![t] = <<>>]
  /\ UNCHANGED pc

Return(t, r) ==
  /\ phase' = [phase EXCEPT ![t] = "done"]
  /\ ret' = [ret EXCEPT ![t] = r]
  /\ got' = [got EXCEPT ![t] = <<>>]
  /\ UNCHANGED <<pc, todo>>

Between(t, ph) == pc[t] = "free" /\ todo[t] = <<>> /\ phase[t] = ph

Info(t) ==
  /\ Between(t, "done")
  /\ commands[t] < MaxCommands
  /\ commands' = [commands EXCEPT ![t] = @ + 1]
  /\ Call(t, "info", GetRate)
  /\ rate' = [rate EXCEPT ![t] = 0]
  /\ ret' = [ret EXCEPT ![t] = 0]
  /\ UNCHANGED <<tries, chosen, shown, boardVars, ranOut>>

Clock(t, r) ==
  /\ Between(t, "done")
  /\ commands[t] < MaxCommands
  /\ commands' = [commands EXCEPT ![t] = @ + 1]
  /\ Call(t, "before", GetRate)
  /\ rate' = [rate EXCEPT ![t] = r]
  /\ ret' = [ret EXCEPT ![t] = 0]
  /\ chosen' = [chosen EXCEPT ![t] = NoDividers]
  /\ UNCHANGED <<tries, shown, boardVars, ranOut>>

InfoDone(t) ==
  /\ Between(t, "info")
  /\ shown' = [shown EXCEPT ![t] = Decoded(got[t])]
  /\ Return(t, 1)
  /\ UNCHANGED <<tries, rate, chosen, commands, boardVars, ranOut>>

\* The current rate is printed.  SetRate finds dividers and begins to write
\* them; with none it returns at once, and the tool goes on.
RateShown(t) ==
  /\ Between(t, "before")
  /\ shown' = [shown EXCEPT ![t] = Decoded(got[t])]
  /\ IF rate[t] = 0
     THEN Return(t, 1) /\ UNCHANGED chosen
     ELSE LET c == Params[rate[t]]
          IN  /\ chosen' = [chosen EXCEPT ![t] = c]
              /\ IF c = NoDividers THEN Call(t, "locking", IsLocked)
                                   ELSE Call(t, "setting", SetRate(c))
              /\ UNCHANGED ret
  /\ UNCHANGED <<tries, rate, commands, boardVars, ranOut>>

RateSet(t) ==
  /\ Between(t, "setting")
  /\ Call(t, "locking", IsLocked)
  /\ UNCHANGED <<tries, rate, chosen, shown, ret, commands, boardVars, ranOut>>

LockTested(t) ==
  /\ Between(t, "locking")
  /\ IF Head(got[t]) % 2 = 1 THEN Call(t, "after", GetRate) /\ UNCHANGED ret
                             ELSE Return(t, -1)
  /\ UNCHANGED <<tries, rate, chosen, shown, commands, boardVars, ranOut>>

ClockDone(t) ==
  /\ Between(t, "after")
  /\ shown' = [shown EXCEPT ![t] = Decoded(got[t])]
  /\ Return(t, 1)
  /\ UNCHANGED <<tries, rate, chosen, commands, boardVars, ranOut>>

-----------------------------------------------------------------------------
\* ClockGenerator::write and ClockGenerator::read, one access.

idle == job = NoJob

\* Mutant of Retries: three instead of five.
RetriesFewer == 3

\* Mutant of Retries: one more.
RetriesMore == 6

Retries == 5

BeginAccess(t) ==
  /\ pc[t] = "free"
  /\ todo[t] # <<>>
  /\ pc' = [pc EXCEPT ![t] = "poll"]
  /\ tries' = [tries EXCEPT ![t] = Retries]
  /\ UNCHANGED <<phase, todo, got, rate, chosen, shown, ret, commands, boardVars, ranOut>>

\* A poll that sees the bit it waits for.
Seen(t, from, bit, to) ==
  /\ pc[t] = from
  /\ bit
  /\ pc' = [pc EXCEPT ![t] = to]
  /\ UNCHANGED <<phase, todo, tries, got, rate, chosen, shown, ret, commands,
                 boardVars, ranOut>>

\* Mutant of Counted: the counter is only tested.
CountedNever(t) == tries

Counted(t) == [tries EXCEPT ![t] = @ - 1]

\* A poll that does not: (i-- > 0) decides whether there is another one, and a
\* loop that gives up only prints a message.  A board carries its request
\* out within Delay polls, unless it is late.
Missed(t, from, bit, to) ==
  /\ pc[t] = from
  /\ ~bit
  /\ (job # NoJob /\ ~late) => misses < Delay
  /\ tries' = Counted(t)
  /\ misses' = Lesser(misses + 1, Delay)
  /\ IF tries[t] > 0
     THEN UNCHANGED <<pc, ranOut>>
     ELSE pc' = [pc EXCEPT ![t] = to] /\ ranOut' = TRUE
  /\ UNCHANGED <<phase, todo, got, rate, chosen, shown, ret, commands,
                 regs, loaded, job, word, full, late, slow>>

PollIdle(t) == Seen(t, "poll", idle, "send") \/ Missed(t, "poll", idle, "send")
PollWord(t) == Seen(t, "await", full, "take") \/ Missed(t, "await", full, "take")

\* The tool goes on to its next access.
Finish(t) ==
  /\ todo' = [todo EXCEPT ![t] = Tail(@)]
  /\ pc' = [pc EXCEPT ![t] = "free"]

\* The board begins to work on request q.
Accept(q) ==
  /\ job' = q
  /\ misses' = 0
  /\ late' \in {FALSE, slow < MaxSlow}
  /\ slow' = IF late' THEN slow + 1 ELSE slow

\* BNOC_CLK_SEND_CTRL, whatever the loop before it found.  A board that still
\* works on a request drops one of the two.
SendCtrl(t) ==
  /\ pc[t] = "send"
  /\ \/ Accept(Head(todo[t]))
     \/ ~idle /\ UNCHANGED <<job, misses, late, slow>>
  /\ IF Head(todo[t]).rnw
     THEN pc' = [pc EXCEPT ![t] = "await"] /\ UNCHANGED todo
     ELSE Finish(t)
  /\ UNCHANGED <<phase, tries, got, rate, chosen, shown, ret, commands,
                 regs, loaded, word, full, ranOut>>

\* BNOC_CLK_RD_WORD, whether or not there is a new word.
TakeWord(t) ==
  /\ pc[t] = "take"
  /\ got' = [got EXCEPT ![t] = Append(@, word)]
  /\ pc' = [pc EXCEPT ![t] = "clear"]
  /\ UNCHANGED <<phase, todo, tries, rate, chosen, shown, ret, commands,
                 boardVars, ranOut>>

\* Mutant of ClearWord: the word is not cleared.
ClearWordNot(t) ==
  /\ pc[t] = "clear"
  /\ Finish(t)
  /\ UNCHANGED <<phase, tries, got, rate, chosen, shown, ret, commands,
                 regs, loaded, job, misses, word, full, late, slow, ranOut>>

\* BNOC_CLK_CLR_WORD.
ClearWord(t) ==
  /\ pc[t] = "clear"
  /\ full' = FALSE
  /\ Finish(t)
  /\ UNCHANGED <<phase, tries, got, rate, chosen, shown, ret, commands,
                 regs, loaded, job, misses, word, late, slow, ranOut>>

-----------------------------------------------------------------------------
\* The board carries out its request.  Enabling the update loads the setting,
\* and the clock then locks or does not.
CarryOut ==
  /\ job # NoJob
  /\ IF job.rnw
     THEN /\ word' = regs[job.reg]
          /\ full' = TRUE
          /\ UNCHANGED <<regs, loaded>>
     ELSE /\ IF job.reg = "update_enable" /\ job.val = 1
             THEN /\ loaded' = [r \in SettingRegs |-> regs[r]]
                  /\ \E lock \in {0, 1} :
                       regs' = [regs EXCEPT !["update_enable"] = 1, !["status"] = lock]
             ELSE /\ regs' = [regs EXCEPT ![job.reg] = job.val]
                  /\ UNCHANGED loaded
          /\ UNCHANGED <<word, full>>
  /\ job' = NoJob
  /\ UNCHANGED <<toolVars, misses, late, slow, ranOut>>

Command(t) ==
  \/ Info(t)
  \/ \E r \in Rates \cup {0} : Clock(t, r)

Run(t) ==
  \/ InfoDone(t) \/ RateShown(t) \/ RateSet(t) \/ LockTested(t) \/ ClockDone(t)
  \/ BeginAccess(t) \/ PollIdle(t) \/ PollWord(t)
  \/ SendCtrl(t) \/ TakeWord(t) \/ ClearWord(t)

Next == CarryOut \/ \E t \in Tools : Command(t) \/ Run(t)

Spec == Init /\ [][Next]_vars

\* A running tool goes on.  The board carries out a request that is not late.
Fairness ==
  /\ \A t \in Tools : WF_vars(Run(t))
  /\ WF_vars(~late /\ CarryOut)

FairSpec == Spec /\ Fairness

-----------------------------------------------------------------------------
Phases == {"done", "info", "before", "setting", "locking", "after"}
Steps == {"free", "poll", "send", "await", "take", "clear"}
Requests == [rnw : BOOLEAN, reg : Registers, val : Nat]
Dividers == [d : Nat, m : Nat, dout : Nat]

ASSUME NoJobAssumption == NoJob \notin Requests

\* The variables have the values the source gives them; the retry counter goes
\* down to -2, when the second loop of a read begins with a counter that the
\* first one has used up (clocking.cpp:129).
TypeOK ==
  /\ pc \in [Tools -> Steps]
  /\ phase \in [Tools -> Phases]
  /\ todo \in [Tools -> Seq(Requests)]
  /\ tries \in [Tools -> -2 .. 5]
  /\ got \in [Tools -> Seq(Nat)]
  /\ rate \in [Tools -> Rates \cup {0}]
  /\ chosen \in [Tools -> Dividers]
  /\ shown \in [Tools -> Dividers]
  /\ ret \in [Tools -> {-1, 0, 1}]
  /\ commands \in [Tools -> 0 .. MaxCommands]
  /\ regs \in [Registers -> Nat]
  /\ loaded \in [SettingRegs -> Nat]
  /\ job \in Requests \cup {NoJob}
  /\ misses \in 0 .. Delay
  /\ word \in Nat
  /\ full \in BOOLEAN
  /\ late \in BOOLEAN
  /\ slow \in 0 .. MaxSlow
  /\ ranOut \in BOOLEAN

\* The two loops of a read share five retries, and so do not give each request
\* its own; for a board that answers every request within Delay polls, they
\* suffice (clocking.cpp:108-116, 137-166).
PatienceSuffices == slow = 0 => ~ranOut

\* A tool that runs alone on a board that is not slow takes the answer of its
\* own request: the flag it polls cannot be that of an earlier read, which has
\* been cleared (clocking.cpp:158-177).
AnswersMatch ==
  slow = 0 => \A t \in Tools :
    pc[t] = "clear" => got[t][Len(got[t])] = regs[Head(todo[t]).reg]

\* While updates are enabled, the registers hold one whole setting, that of the
\* board at power-up or that of a rate: the clock never runs with the dividers
\* of one rate and the filter of another (clocking.cpp:228-252).
SettingIsWhole ==
  slow = 0 =>
    /\ loaded \in {Setting(PowerUp)} \cup {Setting(Params[r]) : r \in Rates}
    /\ regs["update_enable"] = 1 => loaded = [r \in SettingRegs |-> regs[r]]

\* The rate printed after a successful clock command is made of the dividers
\* SetRate has chosen, if it has found some and the output divider fits its
\* two six-bit counters (bluenoc.c:336-342, clocking.cpp:255-278).
ShowsWhatWasSet ==
  slow = 0 => \A t \in Tools :
    (phase[t] = "done" /\ ret[t] = 1 /\ chosen[t].dout \in 1 .. 126 /\ rate[t] # 0)
      => shown[t] = chosen[t]

\* The dividers chosen keep the exact limits of the clock manager, although
\* the loops find them with truncating divisions (clocking.cpp:47-56).
LimitsKept ==
  \A t \in Tools : LET c == chosen[t] IN c # NoDividers =>
    /\ c.m \in 1 .. 64 /\ c.d \in 1 .. 80 /\ c.dout \in 1 .. 128
    /\ fpfd_min * c.d <= ParentKHz /\ ParentKHz <= fpfd_max * c.d
    /\ fvco_min * c.d <= ParentKHz * c.m /\ ParentKHz * c.m <= fvco_max * c.d

\* A rate that some dividers within the limits make exactly is made to the kHz
\* (clocking.cpp:59-75).
Exact(fout) ==
  \E m \in 1 .. 64, d \in 1 .. 80 :
    /\ fpfd_min * d <= ParentKHz /\ ParentKHz <= fpfd_max * d
    /\ fvco_min * d <= ParentKHz * m /\ ParentKHz * m <= fvco_max * d
    /\ \E dout \in 1 .. 128 : ParentKHz * m = fout * d * dout
ExactRates == {r \in Rates : Exact(r)}
ExactWhenPossible ==
  \A t \in Tools :
    (phase[t] \in {"setting", "locking"} /\ rate[t] \in ExactRates)
      => chosen[t] # NoDividers /\ Output(ParentKHz, chosen[t]) = rate[t]

\* What is chosen is legal and, where the rate can be made at all, exact.
SettingIsBest == LimitsKept /\ ExactWhenPossible

\* Every command ends, also when the board never carries out a request: each
\* loop is bounded (clocking.cpp:108-116, 158-166).
EveryCommandEnds == \A t \in Tools : phase[t] # "done" ~> phase[t] = "done"

\* A clock command that reports success leaves the clock at the rate that
\* SetRate has computed for it ("1  Command succeeded", bluenoc.c:163).
SuccessMeansSet ==
  slow = 0 => \A t \in Tools :
    (phase[t] = "done" /\ ret[t] = 1 /\ rate[t] # 0)
      => /\ chosen[t] # NoDividers
         /\ chosen[t] = [dout |-> DividerOf(loaded["clkout_1"]),
                         d |-> DividerOf(loaded["clk_div"]),
                         m |-> DividerOf(loaded["clk_fb_1"])]
=============================================================================
