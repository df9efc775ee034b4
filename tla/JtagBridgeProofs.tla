-------------------------- MODULE JtagBridgeProofs --------------------------
(***************************************************************************)
(* Proofs about the JTAG bridge, for all registers, contents, sequences of *)
(* TMS bits, pauses and lengths of the socket: its types, that it stays in *)
(* step with OpenOCD, that writes are spaced, and that it implements       *)
(* DmiAccess.                                                              *)
(***************************************************************************)
EXTENDS JtagBridge, SequenceTheorems, LeastNumber, TLAPS

(***************************************************************************)
(* Sequences of effects.                                                   *)
(***************************************************************************)

\* What the recursive function of AllEffects computes, any function with the
\* same values step by step does.
LEMMA AllEffectsTrail ==
  ASSUME NEW t, NEW cmds, Len(cmds) \in Nat, NEW p,
         p[0] = t, \A i \in 1..Len(cmds) : p[i] = Effect(p[i - 1], cmds[i])
  PROVE  AllEffects(t, cmds) = p[Len(cmds)]
<1> DEFINE n == Len(cmds)
           Values(f) == [i \in 0..n |-> IF i = 0 THEN t ELSE Effect(f[i - 1], cmds[i])]
           g == CHOOSE f : f = Values(f)
<1>1. g = Values(g)
  <2> DEFINE q == [i \in 0..n |-> p[i]]
  <2>1. \A i \in 0..n : q[i] = IF i = 0 THEN t ELSE Effect(q[i - 1], cmds[i])
    <3> SUFFICES ASSUME NEW i \in 0..n
                 PROVE  q[i] = IF i = 0 THEN t ELSE Effect(q[i - 1], cmds[i])
      OBVIOUS
    <3>1. CASE i = 0
      BY <3>1
    <3>2. CASE i # 0
      <4>1. i \in 1..n /\ i - 1 \in 0..n
        BY <3>2
      <4> QED
        BY <4>1
    <3> QED
      BY <3>1, <3>2
  <2> HIDE DEF q
  <2>2. q = Values(q)
    BY <2>1 DEF q
  <2> QED
    BY <2>2, Zenon
<1>2. AllEffects(t, cmds) = g[n]
  BY Zenon DEF AllEffects
<1> HIDE DEF g, n
<1> DEFINE T == {i \in 0..n : g[i] # p[i]}
<1>3. ASSUME NEW x \in T PROVE \E y \in T : y < x
  <2>0. n \in Nat
    BY DEF n
  <2>1. x \in 0..n /\ g[x] # p[x]
    OBVIOUS
  <2>2. x # 0
    BY <1>1, <2>0, <2>1
  <2>3. x - 1 \in 0..n /\ x \in 1..n /\ x - 1 < x
    BY <2>0, <2>1, <2>2
  <2>4. g[x] = Effect(g[x - 1], cmds[x])
    BY <1>1, <2>1, <2>2
  <2>5. p[x] = Effect(p[x - 1], cmds[x])
    BY <2>3 DEF n
  <2> QED
    BY <2>1, <2>3, <2>4, <2>5
<1>4. g[n] = p[n]
  <2>1. n \in Nat /\ T \subseteq Nat
    BY DEF n
  <2>2. n \notin T
    <3> HIDE DEF T
    <3> QED
      BY <1>3, <2>1, Descent
  <2> QED
    BY <2>1, <2>2
<1> QED
  BY <1>2, <1>4 DEF n

\* A sequence of TMS bits leads to a state of the TAP.
LEMMA WalkType ==
  ASSUME NEW s \in States, NEW path \in Seq({0, 1})
  PROVE  Walk(s, path) \in States
<1> DEFINE n == Len(path)
           Values(f, k) == [i \in 0..k |-> IF i = 0 THEN s ELSE Step(f[i - 1], path[i])]
           g == CHOOSE f : f = Values(f, n)
<1>0. n \in Nat /\ \A i \in 1..n : path[i] \in {0, 1}
  OBVIOUS
<1>1. \A x \in States, b \in {0, 1} : Step(x, b) \in States
  BY DEF States, Step, jtag_state_next
<1>2. Walk(s, path) = g[n]
  BY Zenon DEF Walk
<1> HIDE DEF n
<1> DEFINE T == {k \in 0..n : ~\E f : f = Values(f, k)}
<1>3. ASSUME NEW x \in T PROVE \E y \in T : y < x
  <2>1. x \in 0..n /\ ~\E f : f = Values(f, x)
    BY Zenon
  <2>2. x # 0
    <3>1. SUFFICES ASSUME x = 0 PROVE FALSE
      OBVIOUS
    <3> DEFINE f0 == [i \in 0..0 |-> s]
    <3>2. f0 = Values(f0, x)
      BY <3>1
    <3> QED
      BY <2>1, <3>2, Zenon
  <2>3. x - 1 \in 0..n /\ x - 1 < x
    BY <1>0, <2>1, <2>2
  <2>4. SUFFICES ASSUME x - 1 \notin T PROVE FALSE
    BY <2>3, Zenon
  <2>5. PICK f : f = Values(f, x - 1)
    BY <2>3, <2>4, Zenon
  <2> DEFINE h == [i \in 0..x |-> IF i = x THEN Step(f[x - 1], path[x]) ELSE f[i]]
  <2>6. ASSUME NEW i \in 0..x
        PROVE  h[i] = IF i = 0 THEN s ELSE Step(h[i - 1], path[i])
    <3>1. CASE i = x
      BY <1>0, <2>1, <2>2, <3>1
    <3>2. CASE i # x
      <4>1. i \in 0..(x - 1) /\ h[i] = f[i]
        BY <1>0, <2>1, <3>2
      <4>2. f[i] = IF i = 0 THEN s ELSE Step(f[i - 1], path[i])
        BY <2>5, <4>1
      <4>3. i # 0 => h[i - 1] = f[i - 1]
        BY <1>0, <2>1, <3>2, <4>1
      <4> QED
        BY <4>1, <4>2, <4>3
    <3> QED
      BY <3>1, <3>2
  <2> HIDE DEF h
  <2>7. h = Values(h, x)
    BY <2>6 DEF h
  <2> QED
    BY <2>1, <2>7, Zenon
<1>4. g = Values(g, n)
  <2>1. n \in 0..n /\ T \subseteq Nat
    BY <1>0
  <2>2. n \notin T
    <3> HIDE DEF T
    <3> QED
      BY <1>3, <2>1, Descent
  <2> QED
    BY <2>1, <2>2, Zenon
<1> HIDE DEF g
<1> DEFINE U == {i \in 0..n : g[i] \notin States}
<1>5. ASSUME NEW x \in U PROVE \E y \in U : y < x
  <2>1. x \in 0..n /\ g[x] \notin States
    OBVIOUS
  <2>2. x # 0
    BY <1>4, <2>1
  <2>3. x - 1 \in 0..n /\ x \in 1..n /\ x - 1 < x
    BY <1>0, <2>1, <2>2
  <2>4. g[x] = Step(g[x - 1], path[x])
    BY <1>4, <2>1, <2>2
  <2>5. path[x] \in {0, 1}
    BY <1>0, <2>3
  <2>6. g[x - 1] \notin States
    BY <1>1, <2>1, <2>4, <2>5
  <2> QED
    BY <2>3, <2>6
<1>6. g[n] \in States
  <2>1. n \in 0..n /\ U \subseteq Nat
    BY <1>0
  <2>2. n \notin U
    <3> HIDE DEF U
    <3> QED
      BY <1>5, <2>1, Descent
  <2> QED
    BY <2>1, <2>2
<1> QED
  BY <1>2, <1>6
-----------------------------------------------------------------------------
(***************************************************************************)
(* The inductive invariant.                                                *)
(***************************************************************************)
Taps == [state : States, ir : IRs]

\* Where the TAP of the bridge is when what is under way is done.
Now == [state |-> IF busy THEN next_state ELSE state, ir |-> ir]

\* p goes, with the commands in the socket, from there to where OpenOCD takes
\* the TAP to be, and a scan on the way fits and is for the register asked.
Trail(p) ==
  /\ p \in [0..Len(inbox) -> Taps]
  /\ p[0] = Now
  /\ \A i \in 1..Len(inbox) : p[i] = Effect(p[i - 1], inbox[i])
  /\ p[Len(inbox)] = tap
  /\ \A i \in 1..Len(inbox) : inbox[i].cmd \in ScanCmds =>
       inbox[i] \in Fitting(p[i - 1]) /\ Selected(p[i - 1]) = asked.from

\* There is such a trail, unless the connection was reset and lost the commands.
TrailInv == ending # "reset" => \E p : Trail(p)

EndInv ==
  /\ client = "away" => asked = None
  /\ ending = "none" <=> client # "gone"
  /\ ending = "reset" => inbox = <<>>

\* The scan that OpenOCD waits for, and no other, is in one place at most.
ScanInSocket == \E i \in 1..Len(inbox) : inbox[i].cmd \in ScanCmds

PlaceInv ==
  /\ \A i \in 1..Len(inbox) : inbox[i].cmd \in ScanCmds =>
       i = Len(inbox) /\ asked # None /\ inbox[i] = asked.scan
  /\ Len(outbox) <= 1
  /\ outbox # <<>> =>
       /\ asked # None /\ ~busy /\ ~ScanInSocket
       /\ outbox[1].from = asked.from
       /\ asked.from = "IR_DBUS" => outbox[1].data \in Data
  /\ busy => asked # None /\ asked.from = "IR_DBUS" /\ ~ScanInSocket
  /\ asked # None /\ client = "connected" => ScanInSocket \/ busy \/ outbox # <<>>

\* A request is a read or a write on the wires or in the debug module.
Requests == {o \in DmiOps : o.op \in {"read", "write"}}

FlightInv ==
  /\ busy <=> req.valid \/ dm.phase # "idle"
  /\ req.valid => req.op \in Requests /\ req.op = asked.scan.dmi
  /\ dm.phase # "idle" => dm.op \in Requests /\ dm.op = asked.scan.dmi /\ resp_ready
  /\ dm.phase = "answering" => dm.data \in Data
  /\ block = "idle" => ~(req.valid /\ dm.phase # "idle")
  /\ block = "polling" => ~(req.valid /\ dm.phase = "idle")
  /\ sim # "finished"

\* How the pause counts down while the time since the last write goes up.
SpaceInv ==
  /\ block = "polling" => since = Delay /\ delay_count = 0
  /\ block = "idle" /\ ~req.valid => since + delay_count + 1 >= Delay
  /\ block = "idle" /\ req.valid /\ req.op.op = "write" => delay_count = Delay
  /\ block = "idle" /\ req.valid /\ req.op.op # "write" => since = Delay /\ delay_count = 0

Inv == TypeOK /\ TrailInv /\ EndInv /\ PlaceInv /\ FlightInv /\ SpaceInv
-----------------------------------------------------------------------------
(***************************************************************************)
(* The TAP.                                                                *)
(***************************************************************************)

\* What the constants are.
LEMMA Constants ==
  /\ Zero \in Data /\ None \notin Data
  /\ Delay \in Nat /\ MaxInFlight \in Nat \ {0}
  /\ Paths \subseteq Seq({0, 1})
  /\ None \notin DmiOps
  /\ \A from \in IRs \cup {"instruction"}, scan \in Scans : None # [from |-> from, scan |-> scan]
  BY BridgeAssumption, NoneAssumption

\* A scan leads to a state.
LEMMA AfterScanType ==
  ASSUME NEW s \in States, NEW c
  PROVE  AfterScan(s, c) \in States
<1>1. \A x \in States, b \in {0, 1} : Step(x, b) \in States
  BY DEF States, Step, jtag_state_next
<1> QED
  BY <1>1 DEF AfterScan

\* Which scans fit.
LEMMA FittingScans ==
  ASSUME NEW t \in Taps, NEW c \in Fitting(t)
  PROVE  /\ c \in Scans /\ c.cmd \in ScanCmds
         /\ Selected(t) \in IRs \cup {"instruction"}
         /\ t.state = "SHIFT_IR" => c.ir \in IRs
         /\ Selected(t) = "IR_DBUS" <=> t.state = "SHIFT_DR" /\ t.ir = "IR_DBUS"
         /\ Selected(t) = "IR_DBUS" => c.dmi \in DmiOps
<1>1. t.ir \in IRs /\ "instruction" \notin IRs /\ "none" \notin IRs
  BY DEF Taps, IRs
<1>2. CASE t.state = "SHIFT_IR"
  <2>1. Selected(t) = "instruction"
    BY <1>2 DEF Selected
  <2>2. c \in IrScans
    BY <2>1 DEF Fitting
  <2> QED
    BY <1>2, <2>1, <2>2 DEF IrScans, Scans
<1>3. CASE t.state = "SHIFT_DR"
  <2>1. Selected(t) = t.ir
    BY <1>3 DEF Selected
  <2>2. CASE t.ir = "IR_DBUS"
    <3>1. c \in DmiScans
      BY <2>1, <2>2 DEF Fitting
    <3> QED
      BY <1>1, <1>3, <2>1, <2>2, <3>1 DEF DmiScans, Scans
  <2>3. CASE t.ir # "IR_DBUS"
    <3>1. c \in [cmd : ScanCmds]
      BY <1>1, <2>1, <2>3 DEF Fitting
    <3> QED
      BY <1>1, <1>3, <2>1, <2>3, <3>1 DEF Scans
  <2> QED
    BY <2>2, <2>3
<1>4. CASE t.state # "SHIFT_IR" /\ t.state # "SHIFT_DR"
  <2>1. Selected(t) = "none"
    BY <1>4 DEF Selected
  <2> QED
    BY <2>1 DEF Fitting
<1> QED
  BY <1>2, <1>3, <1>4

\* A command that has no answer is no scan.
LEMMA MovesAreNoScans ==
  ASSUME NEW c \in Moves
  PROVE  c.cmd \notin ScanCmds
  BY DEF Moves, ScanCmds

\* What a command does to a TAP.
LEMMA EffectType ==
  ASSUME NEW t \in Taps, NEW c, c \in Moves \/ c \in Fitting(t)
  PROVE  Effect(t, c) \in Taps
<1>1. t.state \in States /\ t.ir \in IRs /\ t = [state |-> t.state, ir |-> t.ir]
  BY DEF Taps
<1>2. CASE c \in [cmd : {"CMD_RESET"}]
  <2>1. Effect(t, c) = [state |-> "TEST_LOGIC_RESET", ir |-> "IR_IDCODE"]
    BY <1>2 DEF Effect, ScanCmds
  <2>2. "TEST_LOGIC_RESET" \in States /\ "IR_IDCODE" \in IRs
    BY DEF States, jtag_state_next, IRs
  <2> QED
    BY <2>1, <2>2 DEF Taps
<1>3. CASE c \in [cmd : {"CMD_TMS_SEQ"}, tms : Paths]
  <2>0. c.cmd = "CMD_TMS_SEQ" /\ c.tms \in Paths
    BY <1>3
  <2>1. c.tms \in Seq({0, 1}) /\ Effect(t, c) = [t EXCEPT !.state = Walk(t.state, c.tms)]
    BY <2>0, Constants DEF Effect, ScanCmds
  <2>2. Walk(t.state, c.tms) \in States
    BY <1>1, <2>1, WalkType
  <2> QED
    BY <1>1, <2>1, <2>2 DEF Taps
<1>4. CASE c \in Fitting(t)
  <2>1. c.cmd \in ScanCmds /\ (t.state = "SHIFT_IR" => c.ir \in IRs)
    BY <1>4, FittingScans, Zenon
  <2>2. Effect(t, c) = [state |-> AfterScan(t.state, c),
                        ir |-> IF t.state = "SHIFT_IR" THEN c.ir ELSE t.ir]
    BY <2>1 DEF Effect, ScanCmds
  <2>3. AfterScan(t.state, c) \in States
    BY <1>1, AfterScanType
  <2> QED
    BY <1>1, <2>1, <2>2, <2>3 DEF Taps
<1> QED
  BY <1>2, <1>3, <1>4 DEF Moves
-----------------------------------------------------------------------------
(***************************************************************************)
(* Commands written, read, and left in the socket.                         *)
(***************************************************************************)

\* A scan that is read is the one OpenOCD waits for, it is the last command, and
\* the bridge is where OpenOCD took it to be when it wrote it.
LEMMA HeadIsScan ==
  ASSUME Inv, Receives, IsScan
  PROVE  /\ Len(inbox) = 1 /\ inbox' = <<>>
         /\ vpi = asked.scan /\ asked # None /\ ~busy /\ outbox = <<>>
         /\ ending # "reset"
         /\ Now = [state |-> state, ir |-> ir] /\ Now \in Taps
         /\ vpi \in Fitting(Now) /\ asked.from = Selected(Now) /\ tap = Effect(Now, vpi)
<1>1. /\ inbox \in Seq(Moves \cup Scans) /\ inbox # <<>> /\ inbox' = Tail(inbox)
      /\ vpi = inbox[1] /\ vpi.cmd \in ScanCmds /\ ~busy
      /\ outbox \in Seq([from : IRs \cup {"instruction", "none"}, data : Data \cup {None}])
  BY DEF Inv, TypeOK, Receives, IsScan, vpi
<1>2. Len(inbox) \in Nat \ {0} /\ 1 \in 1..Len(inbox)
  BY <1>1
<1>3. Len(inbox) = 1 /\ asked # None /\ vpi = asked.scan
  BY <1>1, <1>2 DEF Inv, PlaceInv
<1>4. inbox' = <<>>
  BY <1>1, <1>3
<1>5. ScanInSocket
  BY <1>1, <1>2 DEF ScanInSocket
<1>6. outbox = <<>>
  BY <1>5 DEF Inv, PlaceInv
<1>7. ending # "reset"
  BY <1>1 DEF Inv, EndInv
<1>8. PICK p : Trail(p)
  BY <1>7 DEF Inv, TrailInv
<1>9. p[0] = Now /\ Now \in Taps
  BY <1>3, <1>8 DEF Trail
<1>10. Now = [state |-> state, ir |-> ir]
  BY <1>1 DEF Now
<1>11. p[1] = Effect(Now, vpi) /\ p[1] = tap
       /\ vpi \in Fitting(Now) /\ asked.from = Selected(Now)
  <2>1. 1 - 1 = 0
    OBVIOUS
  <2> QED
    BY <1>1, <1>2, <1>3, <1>8, <1>9, <2>1 DEF Trail
<1> QED
  BY <1>1, <1>3, <1>4, <1>6, <1>7, <1>9, <1>10, <1>11

\* When the bridge has done the command it reads, the rest of the trail is left.
LEMMA TrailRead ==
  ASSUME Inv, Receives, Now' = Effect(Now, vpi), UNCHANGED <<tap, asked, ending>>
  PROVE  TrailInv'
<1>1. /\ inbox \in Seq(Moves \cup Scans) /\ inbox # <<>> /\ inbox' = Tail(inbox)
      /\ vpi = inbox[1]
  BY DEF Inv, TypeOK, Receives, vpi
<1> SUFFICES ASSUME ending # "reset" PROVE \E q : Trail(q)'
  BY DEF TrailInv
<1>2. PICK p : Trail(p)
  BY DEF Inv, TrailInv
<1> DEFINE n == Len(inbox)
           q == [i \in 0..(n - 1) |-> p[i + 1]]
<1>3. n \in Nat \ {0} /\ Len(inbox') = n - 1 /\ \A i \in 1..(n - 1) : inbox'[i] = inbox[i + 1]
  BY <1>1
<1> HIDE DEF n
<1>4. q \in [0..(n - 1) -> Taps]
  <2>1. \A i \in 0..(n - 1) : i + 1 \in 0..n
    BY <1>3
  <2>2. p \in [0..n -> Taps]
    BY <1>2 DEF Trail, n
  <2> QED
    BY <2>1, <2>2
<1>5. q[0] = Now'
  <2>1. 1 \in 1..n /\ 1 - 1 = 0
    BY <1>3
  <2>2. p[1] = Effect(Now, vpi)
    BY <1>1, <1>2, <2>1 DEF Trail, n
  <2> QED
    BY <1>3, <2>2
<1>6. ASSUME NEW i \in 1..(n - 1)
      PROVE  /\ q[i] = Effect(q[i - 1], inbox'[i])
             /\ inbox'[i].cmd \in ScanCmds =>
                  inbox'[i] \in Fitting(q[i - 1]) /\ Selected(q[i - 1]) = asked.from
  <2>1. i + 1 \in 1..n /\ (i + 1) - 1 = i /\ i - 1 \in 0..(n - 1) /\ i \in 0..(n - 1)
    BY <1>3
  <2>2. q[i] = p[i + 1] /\ q[i - 1] = p[i]
    BY <2>1
  <2>3. inbox'[i] = inbox[i + 1]
    BY <1>3
  <2>4. /\ p[i + 1] = Effect(p[i], inbox[i + 1])
        /\ inbox[i + 1].cmd \in ScanCmds =>
             inbox[i + 1] \in Fitting(p[i]) /\ Selected(p[i]) = asked.from
    BY <1>2, <2>1 DEF Trail, n
  <2> QED
    BY <2>2, <2>3, <2>4
<1>7. q[n - 1] = tap
  <2>1. n - 1 \in 0..(n - 1) /\ (n - 1) + 1 = n
    BY <1>3
  <2>2. p[n] = tap
    BY <1>2 DEF Trail, n
  <2> QED
    BY <2>1, <2>2
<1> HIDE DEF q
<1>8. PICK r : r = q
  OBVIOUS
<1>9. Trail(r)'
  BY <1>3, <1>4, <1>5, <1>6, <1>7, <1>8 DEF Trail
<1> QED
  BY <1>9

\* A command that OpenOCD writes makes the trail longer.
LEMMA TrailWrite ==
  ASSUME Inv, NEW c, Write(c), client # "gone", ~ScanInSocket, UNCHANGED <<busy, state, next_state, ir>>,
         UNCHANGED ending,
         c \in Moves \/ (c \in Fitting(tap) /\ asked'.from = Selected(tap))
  PROVE  TrailInv'
<1>1. inbox \in Seq(Moves \cup Scans) /\ inbox' = Append(inbox, c) /\ tap' = Effect(tap, c)
  BY DEF Inv, TypeOK, Write
<1>2. PICK p : Trail(p)
  BY DEF Inv, TrailInv, EndInv
<1> DEFINE n == Len(inbox)
           q == [i \in 0..(n + 1) |-> IF i = n + 1 THEN tap' ELSE p[i]]
<1>3. n \in Nat /\ Len(inbox') = n + 1 /\ inbox'[n + 1] = c
      /\ \A i \in 1..n : inbox'[i] = inbox[i]
  BY <1>1
<1>4. tap \in Taps /\ tap' \in Taps /\ p[n] = tap /\ p \in [0..n -> Taps]
  <2>1. p[n] = tap /\ p \in [0..n -> Taps]
    BY <1>2 DEF Trail
  <2>2. tap \in Taps
    BY DEF Inv, TypeOK, Taps
  <2> QED
    BY <1>1, <2>1, <2>2, EffectType
<1>5. \A i \in 1..n : inbox[i].cmd \notin ScanCmds
  BY DEF ScanInSocket
<1>6. c \in Moves => c.cmd \notin ScanCmds
  BY MovesAreNoScans
<1>7. p[0] = Now /\ \A i \in 1..n : p[i] = Effect(p[i - 1], inbox[i])
  BY <1>2 DEF Trail
<1>8. Now' = Now
  BY DEF Now
<1> HIDE DEF n
<1>9. q \in [0..(n + 1) -> Taps]
  BY <1>3, <1>4
<1>10. q[0] = Now' /\ q[n + 1] = tap'
  BY <1>3, <1>7, <1>8
<1>11. ASSUME NEW i \in 1..(n + 1)
       PROVE  /\ q[i] = Effect(q[i - 1], inbox'[i])
              /\ inbox'[i].cmd \in ScanCmds =>
                   inbox'[i] \in Fitting(q[i - 1]) /\ Selected(q[i - 1]) = asked'.from
  <2>1. CASE i = n + 1
    <3>1. q[i] = tap' /\ q[i - 1] = tap /\ inbox'[i] = c
      BY <1>3, <1>4, <2>1
    <3> QED
      BY <1>1, <1>6, <3>1
  <2>2. CASE i # n + 1
    <3>1. i \in 1..n /\ i - 1 \in 0..n
      BY <1>3, <2>2
    <3>2. q[i] = p[i] /\ q[i - 1] = p[i - 1]
      BY <1>3, <3>1
    <3>3. inbox'[i] = inbox[i]
      BY <1>3, <3>1
    <3> QED
      BY <1>5, <1>7, <3>1, <3>2, <3>3
  <2> QED
    BY <2>1, <2>2
<1> HIDE DEF q
<1>12. PICK r : r = q
  OBVIOUS
<1>13. Trail(r)'
  BY <1>3, <1>9, <1>10, <1>11, <1>12 DEF Trail
<1> QED
  BY <1>13 DEF TrailInv

\* Nothing else disturbs it.
LEMMA TrailKept ==
  ASSUME Inv, UNCHANGED <<inbox, tap>>, Now' = Now, asked' = asked \/ ~ScanInSocket,
         ending = "reset" => ending' = "reset"
  PROVE  TrailInv'
<1> SUFFICES ASSUME ending' # "reset" PROVE \E q : Trail(q)'
  BY DEF TrailInv
<1>1. PICK p : Trail(p)
  BY DEF Inv, TrailInv
<1>2. Trail(p)'
  BY <1>1 DEF Trail, ScanInSocket
<1> QED
  BY <1>2
-----------------------------------------------------------------------------
(***************************************************************************)
(* The steps of OpenOCD.                                                   *)
(***************************************************************************)

\* When it waits for no answer, no scan is on its way.
LEMMA NothingOnItsWay ==
  ASSUME Inv, asked = None
  PROVE  ~ScanInSocket /\ ~busy /\ outbox = <<>> /\ ~req.valid /\ dm.phase = "idle"
<1>1. ~ScanInSocket
  BY DEF Inv, PlaceInv, ScanInSocket
<1>2. ~busy /\ outbox = <<>>
  BY DEF Inv, PlaceInv
<1> QED
  BY <1>1, <1>2 DEF Inv, FlightInv

\* A command that is written.
LEMMA Written ==
  ASSUME Inv, NEW c, Write(c), c \in Moves \/ c \in Fitting(tap)
  PROVE  /\ inbox' \in Seq(Moves \cup Scans) /\ tap' \in [state : States, ir : IRs]
         /\ Len(inbox) \in Nat /\ Len(inbox') = Len(inbox) + 1
         /\ inbox'[Len(inbox) + 1] = c
         /\ \A i \in 1..Len(inbox) : inbox'[i] = inbox[i]
<1>1. inbox \in Seq(Moves \cup Scans) /\ tap \in Taps
  BY DEF Inv, TypeOK, Taps
<1>2. c \in Moves \cup Scans
  BY <1>1, FittingScans
<1>3. Effect(tap, c) \in Taps
  BY <1>1, EffectType
<1> QED
  BY <1>1, <1>2, <1>3 DEF Write, Taps

\* A command without an answer.
LEMMA MoveStep ==
  ASSUME Inv, NEW c \in Moves, Write(c), client # "gone", client' = "connected", asked = None,
         UNCHANGED <<asked, ending, bridge>>
  PROVE  Inv'
<1> USE DEF bridge, statics, registers, dmVars
<1>1. ~ScanInSocket /\ ~busy /\ outbox = <<>>
  BY NothingOnItsWay
<1>2. TrailInv'
  BY <1>1, TrailWrite
<1>3. TypeOK'
  BY Written DEF Inv, TypeOK
<1>4. EndInv'
  BY DEF Inv, EndInv
<1>5. \A i \in 1..Len(inbox') : inbox'[i].cmd \notin ScanCmds
  BY <1>1, Written, MovesAreNoScans DEF ScanInSocket
<1>6. PlaceInv'
  BY <1>1, <1>5 DEF PlaceInv
<1>7. FlightInv' /\ SpaceInv'
  BY DEF Inv, FlightInv, SpaceInv
<1> QED
  BY <1>2, <1>3, <1>4, <1>6, <1>7 DEF Inv

\* A scan.
LEMMA ScanStep == Inv /\ SendScan => Inv'
<1> SUFFICES ASSUME Inv, SendScan PROVE Inv'
  OBVIOUS
<1> USE DEF bridge, statics, registers, dmVars
<1>0. client = "connected" /\ asked = None /\ UNCHANGED <<client, ending, bridge>>
  BY DEF SendScan, MayWrite
<1>1. PICK c \in Fitting(tap) : Write(c) /\ asked' = [from |-> Selected(tap), scan |-> c]
  BY DEF SendScan
<1>2. /\ c \in Scans /\ c.cmd \in ScanCmds
      /\ Selected(tap) \in IRs \cup {"instruction"}
  <2>1. tap \in Taps
    BY DEF Inv, TypeOK, Taps
  <2> QED
    BY <2>1, FittingScans
<1>3. asked' # None
  BY <1>1, <1>2, Constants
<1>4. ~ScanInSocket /\ ~busy /\ outbox = <<>> /\ ~req.valid /\ dm.phase = "idle"
  BY <1>0, NothingOnItsWay
<1>5. TrailInv'
  BY <1>0, <1>1, <1>4, TrailWrite
<1>6. TypeOK'
  BY <1>0, <1>1, <1>2, Written DEF Inv, TypeOK
<1>7. EndInv'
  BY <1>0 DEF Inv, EndInv
<1>8. PlaceInv'
  <2>1. ASSUME NEW i \in 1..Len(inbox'), inbox'[i].cmd \in ScanCmds
        PROVE  i = Len(inbox') /\ inbox'[i] = asked'.scan
    <3>1. i \notin 1..Len(inbox)
      BY <1>1, <1>4, <2>1, Written DEF ScanInSocket
    <3> QED
      BY <1>1, <2>1, <3>1, Written
  <2>2. ScanInSocket'
    BY <1>1, <1>2, Written DEF ScanInSocket
  <2> QED
    BY <1>0, <1>3, <1>4, <2>1, <2>2 DEF PlaceInv
<1>9. FlightInv' /\ SpaceInv'
  BY <1>0, <1>4 DEF Inv, FlightInv, SpaceInv
<1> QED
  BY <1>5, <1>6, <1>7, <1>8, <1>9 DEF Inv

\* The answer is read, and nothing is on its way.
LEMMA ReadStep == Inv /\ ReadAnswer => Inv'
<1> SUFFICES ASSUME Inv, ReadAnswer PROVE Inv'
  OBVIOUS
<1> USE DEF statics, registers, dmVars
<1>0. /\ client = "connected" /\ outbox # <<>> /\ outbox' = Tail(outbox) /\ asked' = None
      /\ UNCHANGED <<client, tap, ending, inbox, sim, fd, block, statics, registers, dmVars>>
  BY DEF ReadAnswer
<1>1. ~busy /\ ~ScanInSocket /\ Len(outbox) <= 1
  BY <1>0 DEF Inv, PlaceInv
<1>2. outbox' = <<>>
  BY <1>0, <1>1 DEF Inv, TypeOK
<1>3. ~req.valid /\ dm.phase = "idle"
  BY <1>1 DEF Inv, FlightInv
<1>4. TrailInv'
  BY <1>0, <1>1, TrailKept DEF Now
<1>5. TypeOK'
  BY <1>0, <1>2 DEF Inv, TypeOK
<1>6. EndInv'
  BY <1>0 DEF Inv, EndInv
<1>7. PlaceInv'
  BY <1>0, <1>1, <1>2 DEF PlaceInv, ScanInSocket
<1>8. FlightInv' /\ SpaceInv'
  BY <1>0, <1>3 DEF Inv, FlightInv, SpaceInv
<1> QED
  BY <1>4, <1>5, <1>6, <1>7, <1>8 DEF Inv

\* The connection ends; what was in it stays, or is lost with the promise that
\* the two sides agree.
LEMMA HangUpStep == Inv /\ HangUp => Inv'
<1> SUFFICES ASSUME Inv, HangUp PROVE Inv'
  OBVIOUS
<1> USE DEF bridge, statics, registers, dmVars
<1>0. /\ client = "connected" /\ client' = "gone" /\ UNCHANGED <<tap, asked, bridge>>
      /\ \/ ending' \in {"closed", "cut_short"} /\ UNCHANGED inbox
         \/ ending' = "reset" /\ inbox' = <<>>
  BY DEF HangUp
<1>1. TrailInv'
  <2>1. CASE UNCHANGED inbox
    BY <1>0, <2>1, TrailKept DEF Now, Inv, EndInv
  <2>2. CASE ending' = "reset"
    BY <2>2 DEF TrailInv
  <2> QED
    BY <1>0, <2>1, <2>2
<1>2. TypeOK'
  <2>1. inbox' \in Seq(Moves \cup Scans)
    <3>1. inbox \in Seq(Moves \cup Scans)
      BY DEF Inv, TypeOK
    <3>2. inbox' = inbox \/ inbox' = <<>>
      BY <1>0
    <3> QED
      BY <3>1, <3>2, EmptySeq
  <2>2. ending' \in {"none", "closed", "cut_short", "reset"}
        /\ client' \in {"away", "connected", "gone"}
    BY <1>0
  <2> QED
    BY <1>0, <2>1, <2>2 DEF Inv, TypeOK
<1>3. EndInv'
  BY <1>0 DEF Inv, EndInv
<1>4. PlaceInv'
  <2>1. CASE UNCHANGED inbox
    BY <1>0, <2>1 DEF Inv, PlaceInv, ScanInSocket
  <2>2. CASE inbox' = <<>>
    BY <1>0, <2>2 DEF Inv, PlaceInv, ScanInSocket
  <2> QED
    BY <1>0, <2>1, <2>2
<1>5. FlightInv' /\ SpaceInv'
  BY <1>0 DEF Inv, FlightInv, SpaceInv
<1> QED
  BY <1>1, <1>2, <1>3, <1>4, <1>5 DEF Inv

\* So every step of OpenOCD keeps the invariant.
LEMMA OpenOcdStep == Inv /\ OpenOCD => Inv'
<1> SUFFICES ASSUME Inv, OpenOCD PROVE Inv'
  OBVIOUS
<1>1. CASE Connect
  <2>1. [cmd |-> "CMD_RESET"] \in Moves
    BY DEF Moves
  <2> QED
    BY <1>1, <2>1, MoveStep DEF Connect, Inv, EndInv
<1>2. CASE SendMove
  <2>1. PICK c \in Moves : Write(c)
    BY <1>2 DEF SendMove
  <2>2. client = "connected" /\ asked = None /\ UNCHANGED <<client, asked, ending, bridge>>
    BY <1>2 DEF SendMove, MayWrite
  <2> QED
    BY <2>1, <2>2, MoveStep
<1> QED
  BY <1>1, <1>2, ScanStep, ReadStep, HangUpStep DEF OpenOCD
-----------------------------------------------------------------------------
(***************************************************************************)
(* The debug module and the clock edges.                                   *)
(***************************************************************************)

\* The debug module works.
LEMMA WorkStep == Inv /\ DmWork => Inv'
<1> SUFFICES ASSUME Inv, DmWork PROVE Inv'
  OBVIOUS
<1> USE DEF clientVars, statics, registers
<1>0. /\ dm.phase = "working"
      /\ UNCHANGED <<clientVars, inbox, outbox, sim, fd, block, statics, registers, since>>
      /\ regs' = IF dm.op.op = "write" THEN [regs EXCEPT ![dm.op.addr] = dm.op.data] ELSE regs
  BY DEF DmWork
<1>1. PICK d \in Data : /\ dm' = [dm EXCEPT !.phase = "answering", !.data = d]
                        /\ last_read' = IF dm.op.op = "read" THEN d ELSE None
  BY DEF DmWork
<1>2. dm.op \in Requests /\ dm.op = asked.scan.dmi /\ resp_ready /\ dm.op.data \in Data
  BY <1>0 DEF Inv, FlightInv, Requests, DmiOps
<1>3. dm'.phase = "answering" /\ dm'.op = dm.op /\ dm'.data \in Data
  BY <1>1 DEF Inv, TypeOK
<1>4. TrailInv'
  BY <1>0, TrailKept DEF Now
<1>5. TypeOK'
  <2>1. dm' \in [phase : {"idle", "working", "answering"}, op : DmiOps \cup {None},
                 data : Data \cup {None}]
    BY <1>1 DEF Inv, TypeOK
  <2>2. regs' \in [Addrs -> Data]
    BY <1>0, <1>2 DEF Inv, TypeOK
  <2>3. last_read' \in Data \cup {None}
    BY <1>1
  <2> QED
    BY <1>0, <2>1, <2>2, <2>3 DEF Inv, TypeOK
<1>6. EndInv' /\ PlaceInv' /\ SpaceInv'
  BY <1>0 DEF Inv, EndInv, PlaceInv, ScanInSocket, SpaceInv
<1>7. FlightInv'
  BY <1>0, <1>2, <1>3 DEF Inv, FlightInv
<1> QED
  BY <1>4, <1>5, <1>6, <1>7 DEF Inv

\* The connection is accepted, or a failed write of an answer ends it all.
LEMMA AcceptStep == Inv /\ (Accept \/ AnswerKills) => Inv'
<1> SUFFICES ASSUME Inv, Accept \/ AnswerKills PROVE Inv'
  OBVIOUS
<1> USE DEF clientVars, statics, registers, dmVars
<1>1. /\ UNCHANGED <<clientVars, inbox, outbox, block, statics, registers, dmVars>>
      /\ \/ fd' = TRUE /\ UNCHANGED sim
         \/ sim' = "aborted" /\ UNCHANGED fd
  BY DEF Accept, AnswerKills
<1>2. TrailInv'
  BY <1>1, TrailKept DEF Now
<1>3. TypeOK'
  <2>1. fd' \in BOOLEAN /\ sim' \in {"running", "finished", "aborted"}
    BY <1>1 DEF Inv, TypeOK
  <2> QED
    BY <1>1, <2>1 DEF Inv, TypeOK
<1>4. EndInv' /\ PlaceInv' /\ SpaceInv'
  BY <1>1 DEF Inv, EndInv, PlaceInv, ScanInSocket, SpaceInv
<1>5. FlightInv'
  BY <1>1 DEF Inv, FlightInv
<1> QED
  BY <1>2, <1>3, <1>4, <1>5 DEF Inv

\* An edge at which the debug module has an answer: it is the one that is waited
\* for, and nothing is on the wires.
LEMMA ResponseEdge ==
  ASSUME Inv, NEW ready \in BOOLEAN, PosEdge(ready), dm.phase = "answering"
  PROVE  /\ busy /\ busy' = FALSE /\ dbus_last_data' = dm.data /\ dm.data \in Data
         /\ state' = next_state /\ UNCHANGED <<next_state, ir, sim>>
         /\ outbox = <<>> /\ outbox' = <<[from |-> "IR_DBUS", data |-> dm.data]>>
         /\ asked # None /\ asked.from = "IR_DBUS" /\ ~ScanInSocket
         /\ ~req.valid /\ ~req'.valid /\ ~ready
         /\ dm' = DmIdle
<1>1. busy /\ dm.data \in Data /\ ~req.valid /\ resp_ready
  BY DEF Inv, FlightInv, PosEdge
<1>2. asked # None /\ asked.from = "IR_DBUS" /\ ~ScanInSocket /\ outbox = <<>>
  BY <1>1 DEF Inv, PlaceInv
<1>3. /\ busy' = FALSE /\ dbus_last_data' = dm.data /\ state' = next_state
      /\ UNCHANGED <<next_state, ir, sim>>
      /\ outbox' = Append(outbox, [from |-> "IR_DBUS", data |-> dm.data])
  BY <1>1 DEF PosEdge, vpidmi_response, LastData, StateAfter, Answer
<1>4. outbox' = <<[from |-> "IR_DBUS", data |-> dm.data]>>
  BY <1>2, <1>3
<1>5. ~ready /\ DmEdge(ready) /\ RequestHalf(ready)
  BY DEF PosEdge
<1>6. dm' = DmIdle
  BY <1>1, <1>5 DEF DmEdge
<1>7. ~req'.valid
  BY <1>1, <1>5 DEF RequestHalf, NoReq
<1> QED
  BY <1>1, <1>2, <1>3, <1>4, <1>5, <1>6, <1>7

\* An edge at which it has none.
LEMMA PlainEdge ==
  ASSUME Inv, NEW ready \in BOOLEAN, PosEdge(ready), dm.phase # "answering"
  PROVE  /\ UNCHANGED <<statics, outbox, sim>>
         /\ \/ /\ req.valid /\ ready /\ dm.phase = "idle"
               /\ dm' = [phase |-> "working", op |-> req.op, data |-> None]
            \/ ~(req.valid /\ ready) /\ dm' = dm
<1>1. /\ UNCHANGED <<statics, outbox, sim>> /\ DmEdge(ready)
      /\ ready => dm.phase = "idle"
  BY DEF PosEdge
<1> QED
  BY <1>1 DEF DmEdge

\* The request half, seen from the count and the wires.
LEMMA RequestHalfCases ==
  ASSUME Inv, NEW ready \in BOOLEAN, PosEdge(ready)
  PROVE  \/ /\ ~req.valid \/ ready
            /\ delay_count = 0 /\ block' = "polling"
            /\ req' = req /\ delay_count' = delay_count
         \/ /\ ~req.valid \/ ready
            /\ delay_count # 0 /\ delay_count' = delay_count - 1 /\ req' = NoReq
            /\ block' = "idle"
         \/ /\ req.valid /\ ~ready
            /\ block' = "idle" /\ req' = req /\ delay_count' = delay_count
  BY DEF PosEdge, RequestHalf, WiresFree, DelayIsOver, CountedDown

\* Types at an edge.
LEMMA EdgeType ==
  ASSUME Inv, NEW ready \in BOOLEAN, PosEdge(ready)
  PROVE  TypeOK'
<1> USE DEF clientVars, statics
<1>0. /\ fd /\ resp_ready' = TRUE /\ UNCHANGED <<clientVars, inbox, fd, regs, last_read>>
      /\ since' = IF req.valid /\ ready /\ req.op.op = "write" THEN 0
                  ELSE IF since < Delay THEN since + 1 ELSE since
  BY DEF PosEdge
<1>1. delay_count' \in 0..Delay /\ block' \in {"idle", "polling"}
      /\ req' \in [valid : BOOLEAN, op : DmiOps \cup {None}]
  <2>1. delay_count \in 0..Delay /\ req \in [valid : BOOLEAN, op : DmiOps \cup {None}]
    BY DEF Inv, TypeOK
  <2>2. NoReq \in [valid : BOOLEAN, op : DmiOps \cup {None}]
    BY DEF NoReq
  <2>3. delay_count # 0 => delay_count - 1 \in 0..Delay
    BY <2>1, Constants
  <2> QED
    BY <2>1, <2>2, <2>3, RequestHalfCases
<1>2. since' \in 0..Delay
  BY <1>0, Constants DEF Inv, TypeOK
<1>3. /\ dm' \in [phase : {"idle", "working", "answering"}, op : DmiOps \cup {None},
                  data : Data \cup {None}]
      /\ outbox' \in Seq([from : IRs \cup {"instruction", "none"}, data : Data \cup {None}])
      /\ sim' \in {"running", "finished", "aborted"}
      /\ {state', next_state'} \subseteq States /\ ir' \in IRs /\ dbus_last_data' \in Data
      /\ busy' \in BOOLEAN
  <2>1. CASE dm.phase = "answering"
    <3>1. dm' = DmIdle
          /\ outbox' = <<[from |-> "IR_DBUS", data |-> dm.data]>> /\ dm.data \in Data
          /\ state' = next_state /\ UNCHANGED <<next_state, ir, sim>>
          /\ dbus_last_data' = dm.data /\ busy' = FALSE
      BY <2>1, ResponseEdge
    <3>2. "IR_DBUS" \in IRs
      BY DEF IRs
    <3>3. [from |-> "IR_DBUS", data |-> dm.data]
            \in [from : IRs \cup {"instruction", "none"}, data : Data \cup {None}]
      BY <3>1, <3>2
    <3>4. DmIdle \in [phase : {"idle", "working", "answering"}, op : DmiOps \cup {None},
                      data : Data \cup {None}]
      BY DEF DmIdle
    <3>5. /\ next_state \in States /\ ir \in IRs /\ sim \in {"running", "finished", "aborted"}
      BY DEF Inv, TypeOK
    <3>6. outbox' \in Seq([from : IRs \cup {"instruction", "none"}, data : Data \cup {None}])
      BY <3>1, <3>3
    <3>7. {state', next_state'} \subseteq States /\ busy' \in BOOLEAN
      BY <3>1, <3>5
    <3> QED
      BY <3>1, <3>4, <3>5, <3>6, <3>7
  <2>2. CASE dm.phase # "answering"
    <3>1. /\ UNCHANGED <<statics, outbox, sim>>
          /\ \/ dm' = [phase |-> "working", op |-> req.op, data |-> None]
             \/ dm' = dm
      BY <2>2, PlainEdge
    <3>2. req.op \in DmiOps \cup {None}
      BY DEF Inv, TypeOK
    <3> QED
      BY <3>1, <3>2 DEF Inv, TypeOK
  <2> QED
    BY <2>1, <2>2
<1> QED
  BY <1>0, <1>1, <1>2, <1>3 DEF Inv, TypeOK

\* An edge keeps the invariant.
LEMMA EdgeStep ==
  ASSUME Inv, NEW ready \in BOOLEAN, PosEdge(ready)
  PROVE  Inv'
<1> USE DEF clientVars, statics
<1>0. /\ block = "idle" /\ resp_ready' = TRUE /\ UNCHANGED <<clientVars, inbox, fd, regs>>
      /\ since' = IF req.valid /\ ready /\ req.op.op = "write" THEN 0
                  ELSE IF since < Delay THEN since + 1 ELSE since
  BY DEF PosEdge
<1>1. TypeOK'
  BY EdgeType
<1>2. TrailInv'
  <2>1. CASE dm.phase = "answering"
    <3>1. busy /\ busy' = FALSE /\ state' = next_state /\ ir' = ir
      BY <2>1, ResponseEdge
    <3>2. Now' = Now
      BY <3>1 DEF Now
    <3> QED
      BY <1>0, <3>2, TrailKept
  <2>2. CASE dm.phase # "answering"
    <3>1. Now' = Now
      BY <2>2, PlainEdge DEF Now
    <3> QED
      BY <1>0, <3>1, TrailKept
  <2> QED
    BY <2>1, <2>2
<1>3. EndInv'
  BY <1>0 DEF Inv, EndInv
<1>4. PlaceInv'
  <2>1. CASE dm.phase = "answering"
    <3>1. /\ ~busy' /\ outbox' = <<[from |-> "IR_DBUS", data |-> dm.data]>>
          /\ dm.data \in Data /\ asked # None /\ asked.from = "IR_DBUS" /\ ~ScanInSocket
      BY <2>1, ResponseEdge
    <3>2. Len(outbox') = 1 /\ outbox' # <<>> /\ outbox'[1].from = "IR_DBUS"
          /\ outbox'[1].data = dm.data
      BY <3>1
    <3>3. ~ScanInSocket'
      BY <1>0, <3>1 DEF ScanInSocket
    <3>4. \A i \in 1..Len(inbox') : inbox'[i].cmd \notin ScanCmds
      BY <3>3 DEF ScanInSocket
    <3> QED
      BY <1>0, <3>1, <3>2, <3>3, <3>4 DEF PlaceInv
  <2>2. CASE dm.phase # "answering"
    BY <1>0, <2>2, PlainEdge DEF Inv, PlaceInv, ScanInSocket
  <2> QED
    BY <2>1, <2>2
<1>5. FlightInv'
  <2>1. CASE dm.phase = "answering"
    <3>1. ~busy' /\ ~req'.valid /\ dm' = DmIdle /\ sim' = sim
      <4>1. busy' = FALSE /\ ~req'.valid /\ dm' = DmIdle /\ UNCHANGED <<next_state, ir, sim>>
        BY <2>1, ResponseEdge, Zenon
      <4> QED
        BY <4>1
    <3>2. sim # "finished"
      BY DEF Inv, FlightInv
    <3> QED
      BY <3>1, <3>2 DEF FlightInv, DmIdle
  <2>2. CASE dm.phase # "answering" /\ req.valid /\ ready
    <3>1. /\ UNCHANGED <<statics, outbox, sim>>
          /\ dm' = [phase |-> "working", op |-> req.op, data |-> None]
      BY <2>2, PlainEdge
    <3>2. (req' = req /\ block' = "polling") \/ (req' = NoReq /\ block' = "idle")
      BY <2>2, RequestHalfCases
    <3>3. /\ busy /\ req.op \in Requests /\ req.op = asked.scan.dmi /\ sim # "finished"
      BY <2>2 DEF Inv, FlightInv
    <3>4. dm'.phase = "working" /\ dm'.op = req.op
      BY <3>1
    <3>5. req'.valid => req' = req /\ block' = "polling"
      BY <3>2 DEF NoReq
    <3> QED
      BY <1>0, <3>1, <3>3, <3>4, <3>5 DEF FlightInv
  <2>3. CASE dm.phase # "answering" /\ ~(req.valid /\ ready)
    <3>1. UNCHANGED <<statics, outbox, sim>> /\ dm' = dm
      BY <2>3, PlainEdge
    <3>2. CASE ~req.valid
      <4>1. ~req'.valid
        BY <3>2, RequestHalfCases DEF NoReq
      <4> QED
        BY <1>0, <3>1, <3>2, <4>1 DEF Inv, FlightInv
    <3>3. CASE req.valid
      <4>1. req' = req /\ block' = "idle"
        BY <2>3, <3>3, RequestHalfCases
      <4> QED
        BY <1>0, <3>1, <4>1 DEF Inv, FlightInv
    <3> QED
      BY <3>2, <3>3
  <2> QED
    BY <2>1, <2>2, <2>3
<1>6. SpaceInv'
  <2>1. since \in 0..Delay /\ delay_count \in 0..Delay /\ Delay \in Nat
    BY Constants DEF Inv, TypeOK
  <2>2. CASE ~req.valid
    <3>1. since + delay_count + 1 >= Delay
      BY <1>0, <2>2 DEF Inv, SpaceInv
    <3>2. since' = IF since < Delay THEN since + 1 ELSE since
      BY <1>0, <2>2
    <3>3. \/ delay_count = 0 /\ block' = "polling" /\ req' = req /\ delay_count' = 0
          \/ delay_count # 0 /\ delay_count' = delay_count - 1 /\ req' = NoReq /\ block' = "idle"
      BY <2>2, RequestHalfCases
    <3> QED
      BY <2>1, <2>2, <3>1, <3>2, <3>3 DEF SpaceInv, NoReq
  <2>3. CASE req.valid /\ ~ready
    <3>1. block' = "idle" /\ req' = req /\ delay_count' = delay_count
          /\ since' = IF since < Delay THEN since + 1 ELSE since
      BY <1>0, <2>3, RequestHalfCases
    <3> QED
      BY <1>0, <2>1, <2>3, <3>1 DEF Inv, SpaceInv
  <2>4. CASE req.valid /\ ready /\ req.op.op = "write"
    <3>1. since' = 0 /\ delay_count = Delay
      BY <1>0, <2>4 DEF Inv, SpaceInv
    <3>2. \/ delay_count = 0 /\ block' = "polling" /\ delay_count' = 0
          \/ delay_count # 0 /\ delay_count' = delay_count - 1 /\ req' = NoReq /\ block' = "idle"
      BY <2>4, RequestHalfCases
    <3> QED
      BY <2>1, <3>1, <3>2 DEF SpaceInv, NoReq
  <2>5. CASE req.valid /\ ready /\ req.op.op # "write"
    <3>1. since = Delay /\ delay_count = 0
      BY <1>0, <2>5 DEF Inv, SpaceInv
    <3>2. since' = Delay /\ block' = "polling" /\ delay_count' = 0
      <4>1. block' = "polling" /\ delay_count' = delay_count
        BY <2>5, <3>1, RequestHalfCases, Zenon
      <4>2. since' = IF since < Delay THEN since + 1 ELSE since
        BY <1>0, <2>5
      <4> QED
        BY <2>1, <3>1, <4>1, <4>2
    <3> QED
      BY <3>2 DEF SpaceInv
  <2> QED
    BY <2>2, <2>3, <2>4, <2>5
<1> QED
  BY <1>1, <1>2, <1>3, <1>4, <1>5, <1>6 DEF Inv
-----------------------------------------------------------------------------
(***************************************************************************)
(* The loop over the socket.                                               *)
(***************************************************************************)

\* The loop ends, or the simulation does.
LEMMA NothingStep == Inv /\ (PollNothing \/ PollAborts) => Inv'
<1> SUFFICES ASSUME Inv, PollNothing \/ PollAborts PROVE Inv'
  OBVIOUS
<1> USE DEF clientVars, statics, registers, dmVars
<1>1. CASE PollNothing
  <2>0. /\ block = "polling" /\ req' = NoReq /\ block' = "idle"
        /\ UNCHANGED <<clientVars, inbox, outbox, sim, fd, statics, resp_ready, delay_count,
                       dmVars>>
    BY <1>1 DEF PollNothing, Polling
  <2>1. TrailInv'
    BY <2>0, TrailKept DEF Now
  <2>2. TypeOK'
    <3>1. NoReq \in [valid : BOOLEAN, op : DmiOps \cup {None}]
      BY DEF NoReq
    <3> QED
      BY <2>0, <3>1 DEF Inv, TypeOK
  <2>3. EndInv' /\ PlaceInv'
    BY <2>0 DEF Inv, EndInv, PlaceInv, ScanInSocket
  <2>4. FlightInv'
    BY <2>0 DEF Inv, FlightInv, NoReq
  <2>5. SpaceInv'
    <3>1. since = Delay /\ delay_count = 0 /\ Delay \in Nat
      BY <2>0, Constants DEF Inv, SpaceInv
    <3> QED
      BY <2>0, <3>1 DEF SpaceInv, NoReq
  <2> QED
    BY <2>1, <2>2, <2>3, <2>4, <2>5 DEF Inv
<1>2. CASE PollAborts
  <2>0. /\ sim' = "aborted"
        /\ UNCHANGED <<clientVars, inbox, outbox, fd, block, statics, registers, dmVars>>
    BY <1>2 DEF PollAborts
  <2>1. TrailInv'
    BY <2>0, TrailKept DEF Now
  <2>2. TypeOK' /\ EndInv' /\ PlaceInv'
    BY <2>0 DEF Inv, TypeOK, EndInv, PlaceInv, ScanInSocket
  <2>3. FlightInv' /\ SpaceInv'
    BY <2>0 DEF Inv, FlightInv, SpaceInv
  <2> QED
    BY <2>1, <2>2, <2>3 DEF Inv
<1> QED
  BY <1>1, <1>2

\* The command read leaves the socket.
LEMMA Received ==
  ASSUME Inv, Receives
  PROVE  /\ inbox' \in Seq(Moves \cup Scans) /\ Len(inbox') = Len(inbox) - 1
         /\ Len(inbox) \in Nat \ {0}
         /\ \A i \in 1..Len(inbox') : inbox'[i] = inbox[i + 1]
         /\ vpi \in Moves \cup Scans
         /\ ~busy /\ block = "polling" /\ Now = [state |-> state, ir |-> ir]
<1>1. inbox \in Seq(Moves \cup Scans) /\ inbox # <<>> /\ inbox' = Tail(inbox) /\ ~busy
      /\ block = "polling"
  BY DEF Inv, TypeOK, Receives, Polling
<1>2. Now = [state |-> state, ir |-> ir]
  BY <1>1 DEF Now
<1> QED
  BY <1>1, <1>2 DEF vpi

\* If it is no scan, what is known of scans stays.
LEMMA MoveRead ==
  ASSUME Inv, Receives, ~IsScan, UNCHANGED <<client, asked, outbox, busy, ending>>
  PROVE  PlaceInv' /\ EndInv'
<1>1. ASSUME NEW i \in 1..Len(inbox')
      PROVE  i + 1 \in 1..Len(inbox) /\ inbox'[i] = inbox[i + 1]
             /\ (i + 1 = Len(inbox) => i = Len(inbox'))
  BY Received
<1>2. ScanInSocket' => ScanInSocket
  BY <1>1 DEF ScanInSocket
<1>3. ScanInSocket => ScanInSocket'
  <2> SUFFICES ASSUME NEW i \in 1..Len(inbox), inbox[i].cmd \in ScanCmds
               PROVE  ScanInSocket'
    BY DEF ScanInSocket
  <2>1. i # 1
    BY DEF IsScan, vpi
  <2>2. i - 1 \in 1..Len(inbox') /\ (i - 1) + 1 = i
    BY <2>1, Received
  <2>3. inbox'[i - 1] = inbox[i]
    BY <2>2, Received
  <2> QED
    BY <2>2, <2>3 DEF ScanInSocket
<1>4. \A i \in 1..Len(inbox') : inbox'[i].cmd \in ScanCmds =>
        i = Len(inbox') /\ asked # None /\ inbox'[i] = asked.scan
  BY <1>1 DEF Inv, PlaceInv
<1>5. PlaceInv'
  BY <1>2, <1>3, <1>4 DEF Inv, PlaceInv
<1>6. EndInv'
  BY DEF Inv, EndInv, Receives
<1> QED
  BY <1>5, <1>6

\* A command without an answer is done.
LEMMA MoveDone == Inv /\ (PollReset \/ PollTmsSeq) => Inv'
<1> SUFFICES ASSUME Inv, PollReset \/ PollTmsSeq PROVE Inv'
  OBVIOUS
<1> USE DEF clientVars, registers, dmVars
<1>0. /\ Receives /\ ~IsScan
      /\ UNCHANGED <<clientVars, outbox, sim, fd, block, next_state, dbus_last_data, busy,
                     registers, dmVars>>
  BY DEF PollReset, PollTmsSeq, IsScan, ScanCmds
<1>1. Now' = Effect(Now, vpi)
  <2>1. ~busy' /\ Now = [state |-> state, ir |-> ir]
    BY <1>0, Received
  <2>2. Now' = [state |-> state', ir |-> ir']
    BY <2>1 DEF Now
  <2>3. CASE PollReset
    BY <2>1, <2>2, <2>3 DEF PollReset, Effect, ScanCmds
  <2>4. CASE PollTmsSeq
    <3>1. vpi.cmd = "CMD_TMS_SEQ" /\ state' = Walk(state, vpi.tms) /\ ir' = ir
      BY <1>0, <2>4 DEF PollTmsSeq
    <3>2. Effect(Now, vpi) = [Now EXCEPT !.state = Walk(Now.state, vpi.tms)]
      BY <3>1 DEF Effect, ScanCmds
    <3> QED
      BY <2>1, <2>2, <3>1, <3>2
  <2> QED
    BY <2>3, <2>4
<1>2. TrailInv'
  BY <1>0, <1>1, TrailRead
<1>3. state' \in States /\ ir' \in IRs
  <2>1. CASE PollReset
    <3>1. "TEST_LOGIC_RESET" \in States /\ "IR_IDCODE" \in IRs
      BY DEF States, jtag_state_next, IRs
    <3> QED
      BY <2>1, <3>1 DEF PollReset
  <2>2. CASE PollTmsSeq
    <3>1. vpi.cmd = "CMD_TMS_SEQ" /\ state' = Walk(state, vpi.tms) /\ ir' = ir
      BY <2>2 DEF PollTmsSeq
    <3>2. vpi \in Moves
      BY <1>0, <3>1, Received DEF Scans, IrScans, DmiScans, ScanCmds
    <3>3. vpi.tms \in Paths
      BY <3>1, <3>2 DEF Moves
    <3>4. vpi.tms \in Seq({0, 1})
      BY <3>3, Constants
    <3>5. state \in States /\ ir \in IRs
      BY DEF Inv, TypeOK
    <3> QED
      BY <3>1, <3>4, <3>5, WalkType
  <2> QED
    BY <2>1, <2>2
<1>4. TypeOK'
  BY <1>0, <1>3, Received DEF Inv, TypeOK
<1>5. PlaceInv' /\ EndInv'
  BY <1>0, MoveRead
<1>6. FlightInv' /\ SpaceInv'
  BY <1>0 DEF Inv, FlightInv, SpaceInv
<1> QED
  BY <1>2, <1>4, <1>5, <1>6 DEF Inv

\* What a scan without the debug module answers.
LEMMA ScanAnswer ==
  ASSUME Inv, PollScan
  PROVE  /\ Receives /\ IsScan /\ ~IsRequest
         /\ next_state' = AfterScan(state, vpi) /\ state' = next_state' /\ ir' = IrAfter
         /\ outbox' = <<[from |-> asked.from,
                         data |-> IF asked.from = "IR_DBUS" THEN dbus_last_data ELSE None]>>
         /\ UNCHANGED <<clientVars, sim, fd, block, dbus_last_data, busy, registers, dmVars>>
<1>1. /\ Receives /\ IsScan /\ ~IsRequest
      /\ next_state' = AfterScan(state, vpi) /\ state' = next_state' /\ ir' = IrAfter
      /\ UNCHANGED <<clientVars, sim, fd, block, dbus_last_data, busy, registers, dmVars>>
  BY DEF PollScan
<1>2. outbox = <<>> /\ asked.from = Selected([state |-> state, ir |-> ir])
  BY <1>1, HeadIsScan
<1>3. outbox' = Append(outbox, [from |-> asked.from,
                         data |-> IF asked.from = "IR_DBUS" THEN dbus_last_data ELSE None])
  BY <1>2 DEF PollScan, Answer
<1> QED
  BY <1>1, <1>2, <1>3

\* It is answered at once, by the register it is meant for.
LEMMA ScanDone == Inv /\ PollScan => Inv'
<1> SUFFICES ASSUME Inv, PollScan PROVE Inv'
  OBVIOUS
<1> USE DEF clientVars, registers, dmVars
<1>0. /\ Receives /\ IsScan
      /\ next_state' = AfterScan(state, vpi) /\ state' = next_state' /\ ir' = IrAfter
      /\ outbox' = <<[from |-> asked.from,
                      data |-> IF asked.from = "IR_DBUS" THEN dbus_last_data ELSE None]>>
      /\ UNCHANGED <<clientVars, sim, fd, block, dbus_last_data, busy, registers, dmVars>>
  BY ScanAnswer
<1>1. /\ inbox' = <<>> /\ asked # None /\ ~busy /\ ending # "reset"
      /\ Now = [state |-> state, ir |-> ir] /\ Now \in Taps
      /\ vpi \in Fitting(Now) /\ asked.from = Selected(Now)
  BY <1>0, HeadIsScan
<1>2. vpi.cmd \in ScanCmds /\ (state = "SHIFT_IR" => vpi.ir \in IRs)
      /\ asked.from \in IRs \cup {"instruction"}
  BY <1>1, FittingScans
<1>3. Now' = Effect(Now, vpi)
  <2>1. Now' = [state |-> state', ir |-> ir']
    BY <1>0, <1>1 DEF Now
  <2>2. Effect(Now, vpi) = [state |-> AfterScan(state, vpi),
                            ir |-> IF state = "SHIFT_IR" THEN vpi.ir ELSE ir]
    BY <1>1, <1>2 DEF Effect, ScanCmds
  <2> QED
    BY <1>0, <2>1, <2>2 DEF IrAfter
<1>4. TrailInv'
  BY <1>0, <1>3, TrailRead
<1>5. TypeOK'
  <2>1. state \in States /\ ir \in IRs /\ dbus_last_data \in Data
    BY DEF Inv, TypeOK
  <2>2. state' \in States /\ next_state' \in States
    BY <1>0, <2>1, AfterScanType
  <2>3. ir' \in IRs
    BY <1>0, <1>2, <2>1 DEF IrAfter
  <2>4. outbox' \in Seq([from : IRs \cup {"instruction", "none"}, data : Data \cup {None}])
    BY <1>0, <1>2, <2>1
  <2>5. inbox' \in Seq(Moves \cup Scans)
    BY <1>1, EmptySeq
  <2> QED
    BY <1>0, <2>2, <2>3, <2>4, <2>5 DEF Inv, TypeOK
<1>6. PlaceInv' /\ EndInv'
  <2>1. Len(inbox') = 0 /\ ~ScanInSocket'
    BY <1>1 DEF ScanInSocket
  <2>2. Len(outbox') = 1 /\ outbox' # <<>> /\ outbox'[1].from = asked.from
        /\ (asked.from = "IR_DBUS" => outbox'[1].data = dbus_last_data)
    BY <1>0
  <2>3. dbus_last_data \in Data
    BY DEF Inv, TypeOK
  <2>4. PlaceInv'
    BY <1>0, <1>1, <2>1, <2>2, <2>3 DEF PlaceInv
  <2> QED
    BY <1>0, <1>1, <2>4 DEF Inv, EndInv
<1>7. FlightInv' /\ SpaceInv'
  BY <1>0 DEF Inv, FlightInv, SpaceInv
<1> QED
  BY <1>4, <1>5, <1>6, <1>7 DEF Inv

\* A request of the debug module goes out on the wires.
LEMMA RequestDone == Inv /\ PollRequest => Inv'
<1> SUFFICES ASSUME Inv, PollRequest PROVE Inv'
  OBVIOUS
<1> USE DEF clientVars, dmVars
<1>0. /\ Receives /\ IsScan /\ state = "SHIFT_DR" /\ ir = "IR_DBUS"
      /\ vpi.dmi.op \in {"read", "write"}
      /\ next_state' = AfterScan(state, vpi)
      /\ req' = [valid |-> TRUE, op |-> vpi.dmi]
      /\ delay_count' = DelayAfter(vpi.dmi.op)
      /\ busy' = TRUE /\ block' = "idle"
      /\ UNCHANGED <<clientVars, outbox, sim, fd, state, ir, dbus_last_data, resp_ready, dmVars>>
  BY DEF PollRequest, IsRequest
<1>1. /\ inbox' = <<>> /\ asked # None /\ ~busy /\ outbox = <<>> /\ ending # "reset"
      /\ Now = [state |-> state, ir |-> ir] /\ Now \in Taps
      /\ vpi = asked.scan /\ vpi \in Fitting(Now) /\ asked.from = Selected(Now)
  BY <1>0, HeadIsScan
<1>2. vpi.cmd \in ScanCmds /\ asked.from = "IR_DBUS" /\ vpi.dmi \in DmiOps
  BY <1>0, <1>1, FittingScans
<1>3. Now' = Effect(Now, vpi)
  <2>1. Now' = [state |-> next_state', ir |-> ir]
    BY <1>0 DEF Now
  <2>2. Effect(Now, vpi) = [state |-> AfterScan(state, vpi), ir |-> ir]
    BY <1>0, <1>1, <1>2 DEF Effect, ScanCmds
  <2> QED
    BY <1>0, <2>1, <2>2
<1>4. TrailInv'
  BY <1>0, <1>3, TrailRead
<1>5. TypeOK'
  <2>1. next_state' \in States
    BY <1>0, AfterScanType DEF Inv, TypeOK
  <2>2. delay_count' \in 0..Delay
    BY <1>0, Constants DEF DelayAfter
  <2>3. req' \in [valid : BOOLEAN, op : DmiOps \cup {None}]
    BY <1>0, <1>2
  <2>4. inbox' \in Seq(Moves \cup Scans)
    BY <1>1, EmptySeq
  <2> QED
    BY <1>0, <2>1, <2>2, <2>3, <2>4 DEF Inv, TypeOK
<1>6. PlaceInv' /\ EndInv'
  <2>1. Len(inbox') = 0 /\ ~ScanInSocket'
    BY <1>1 DEF ScanInSocket
  <2>2. Len(outbox') = 0 /\ outbox' = <<>>
    BY <1>0, <1>1
  <2>3. PlaceInv'
    BY <1>0, <1>1, <1>2, <2>1, <2>2 DEF PlaceInv
  <2> QED
    BY <1>0, <1>1, <2>3 DEF Inv, EndInv
<1>7. FlightInv'
  <2>1. req'.valid = TRUE /\ req'.op = vpi.dmi /\ vpi.dmi \in Requests
    BY <1>0, <1>2 DEF Requests
  <2>2. dm.phase = "idle"
    BY <1>1 DEF Inv, FlightInv
  <2> QED
    BY <1>0, <1>1, <2>1, <2>2 DEF Inv, FlightInv
<1>8. SpaceInv'
  <2>1. block = "polling" /\ since = Delay
    BY <1>0 DEF Receives, Polling, Inv, SpaceInv
  <2>2. req'.valid = TRUE /\ req'.op = vpi.dmi
    BY <1>0
  <2> QED
    BY <1>0, <2>1, <2>2 DEF SpaceInv, DelayAfter
<1> QED
  BY <1>4, <1>5, <1>6, <1>7, <1>8 DEF Inv
-----------------------------------------------------------------------------
(***************************************************************************)
(* The invariant.                                                          *)
(***************************************************************************)

\* It holds at the start.
LEMMA InitInv == Init => Inv
<1> SUFFICES ASSUME Init PROVE Inv
  OBVIOUS
<1> USE DEF Init
<1>1. "TEST_LOGIC_RESET" \in States /\ "unknown" \in IRs
  BY DEF States, jtag_state_next, IRs
<1>2. TypeOK
  <2>1. NoReq \in [valid : BOOLEAN, op : DmiOps \cup {None}]
        /\ DmIdle \in [phase : {"idle", "working", "answering"}, op : DmiOps \cup {None},
                       data : Data \cup {None}]
    BY DEF NoReq, DmIdle
  <2>2. /\ inbox \in Seq(Moves \cup Scans)
        /\ outbox \in Seq([from : IRs \cup {"instruction", "none"}, data : Data \cup {None}])
    BY EmptySeq
  <2>3. /\ delay_count \in 0..Delay /\ since \in 0..Delay
        /\ dbus_last_data \in Data /\ last_read \in Data
    BY Constants
  <2>4. tap \in [state : States, ir : IRs] /\ {state, next_state} \subseteq States /\ ir \in IRs
    BY <1>1
  <2>5. /\ client \in {"away", "connected", "gone"} /\ asked = None
        /\ ending \in {"none", "closed", "cut_short", "reset"}
        /\ sim \in {"running", "finished", "aborted"} /\ block \in {"idle", "polling"}
        /\ fd \in BOOLEAN /\ busy \in BOOLEAN /\ resp_ready \in BOOLEAN
        /\ req = NoReq /\ dm = DmIdle /\ regs \in [Addrs -> Data]
    OBVIOUS
  <2> HIDE DEF Init
  <2> QED
    BY <2>1, <2>2, <2>3, <2>4, <2>5 DEF TypeOK
<1>3. TrailInv
  <2> DEFINE p == [i \in 0..0 |-> [state |-> "TEST_LOGIC_RESET", ir |-> "unknown"]]
  <2>1. Len(inbox) = 0 /\ Now = [state |-> "TEST_LOGIC_RESET", ir |-> "unknown"]
    BY DEF Now
  <2>2. p \in [0..0 -> Taps] /\ p[0] = Now /\ p[0] = tap
    BY <1>1, <2>1 DEF Taps
  <2> HIDE DEF p
  <2>3. Trail(p)
    BY <2>1, <2>2 DEF Trail
  <2> QED
    BY <2>3 DEF TrailInv
<1>4. PlaceInv /\ EndInv
  BY DEF PlaceInv, EndInv, ScanInSocket
<1>5. FlightInv
  BY DEF FlightInv, NoReq, DmIdle
<1>6. SpaceInv
  BY Constants DEF SpaceInv, NoReq
<1> QED
  BY <1>2, <1>3, <1>4, <1>5, <1>6 DEF Inv

\* Every step keeps it.
LEMMA InvStep == Inv /\ [Next]_vars => Inv'
<1> SUFFICES ASSUME Inv, [Next]_vars PROVE Inv'
  OBVIOUS
<1>1. CASE OpenOCD
  BY <1>1, OpenOcdStep
<1>2. CASE DmWork
  BY <1>2, WorkStep
<1>3. CASE Edge
  BY <1>3, AcceptStep, EdgeStep DEF Edge
<1>4. CASE Poll
  BY <1>4, NothingStep, MoveDone, ScanDone, RequestDone DEF Poll
<1>5. CASE UNCHANGED vars
  <2> USE <1>5 DEF vars, clientVars, statics, registers, dmVars
  <2>1. TrailInv'
    BY TrailKept DEF Now
  <2>2. TypeOK'
    <3>1. TypeOK
      BY DEF Inv
    <3> QED
      BY <3>1 DEF TypeOK
  <2>3. EndInv' /\ PlaceInv' /\ FlightInv' /\ SpaceInv'
    BY DEF Inv, EndInv, PlaceInv, ScanInSocket, FlightInv, SpaceInv
  <2> QED
    BY <2>1, <2>2, <2>3 DEF Inv
<1> QED
  BY <1>1, <1>2, <1>3, <1>4, <1>5 DEF Next

\* So it always holds.
LEMMA InvHolds == Spec => []Inv
  BY InitInv, InvStep, PTL DEF Spec
-----------------------------------------------------------------------------
(***************************************************************************)
(* The results.                                                            *)
(***************************************************************************)

\* Every variable has its type: the instruction a scan writes is one, whatever
\* OpenOCD has done to the TAP before, and the pause stays within DELAY_VALUE
\* (sim_dmi.c:296-321, DMITap.v:113-142).
THEOREM TypeCorrect == Spec => []TypeOK
<1>1. Inv => TypeOK
  BY DEF Inv
<1> QED
  BY <1>1, InvHolds, PTL

\* OpenOCD, the bridge and the debug module stay in step, for every socket,
\* every sequence of TMS bits and a client that hangs up at any time
\* (sim_dmi.c:228-327, DMITap.v:95-148).
THEOREM StaysInStep == Spec => []InStep
<1>1. Inv => BusyMeansInFlight
  <2> SUFFICES ASSUME Inv PROVE BusyMeansInFlight
    OBVIOUS
  <2>1. block \in {"idle", "polling"}
    BY DEF Inv, TypeOK
  <2> QED
    BY <2>1 DEF Inv, FlightInv, PlaceInv, BusyMeansInFlight
<1>2. Inv => TapInStep
  <2> SUFFICES ASSUME Inv, client # "gone" PROVE tap = AllEffects(Now, inbox)
    BY DEF TapInStep, Now
  <2>1. PICK p : Trail(p)
    BY DEF Inv, EndInv, TrailInv
  <2>2. Len(inbox) \in Nat
    BY DEF Inv, TypeOK
  <2>3. AllEffects(Now, inbox) = p[Len(inbox)]
    BY <2>1, <2>2, AllEffectsTrail DEF Trail
  <2> QED
    BY <2>1, <2>3 DEF Trail
<1>3. Inv => ScanHasOneAnswer
  <2> SUFFICES ASSUME Inv PROVE ScanHasOneAnswer
    OBVIOUS
  <2> DEFINE socket == inbox # <<>> /\ inbox[Len(inbox)].cmd \in ScanCmds
  <2>1. inbox \in Seq(Moves \cup Scans) /\ Len(inbox) \in Nat /\ (inbox # <<>> <=> Len(inbox) # 0)
    BY DEF Inv, TypeOK
  <2>2. \A i \in 1..(Len(inbox) - 1) : i \in 1..Len(inbox) /\ i # Len(inbox)
    BY <2>1
  <2>3. \A i \in 1..(Len(inbox) - 1) : inbox[i].cmd \notin ScanCmds
    BY <2>2 DEF Inv, PlaceInv
  <2>4. socket <=> ScanInSocket
    <3>1. ScanInSocket => socket
      BY <2>1 DEF ScanInSocket, Inv, PlaceInv
    <3>2. socket => ScanInSocket
      BY <2>1 DEF ScanInSocket
    <3> QED
      BY <3>1, <3>2
  <2>5. ScanInSocket => asked # None
    BY DEF ScanInSocket, Inv, PlaceInv
  <2>6. /\ Len(outbox) <= 1
        /\ outbox # <<>> => asked # None /\ ~busy /\ ~ScanInSocket /\ outbox[1].from = asked.from
        /\ busy => asked # None /\ ~ScanInSocket
        /\ asked # None /\ client = "connected" => ScanInSocket \/ busy \/ outbox # <<>>
    BY DEF Inv, PlaceInv
  <2> HIDE DEF socket
  <2> DEFINE at == [socket |-> socket, module |-> busy, answer |-> outbox # <<>>]
  <2>7. DOMAIN at = {"socket", "module", "answer"} /\ at["socket"] = socket
        /\ at["module"] = busy /\ at["answer"] = (outbox # <<>>)
    OBVIOUS
  <2> HIDE DEF at
  <2>8. /\ asked = None => \A p \in DOMAIN at : ~at[p]
        /\ asked # None /\ client = "connected" =>
             \E p \in DOMAIN at : \A q \in DOMAIN at : at[q] <=> q = p
    BY <2>4, <2>5, <2>6, <2>7
  <2>9. at.answer = (outbox # <<>>)
    BY <2>7
  <2> QED
    BY <2>3, <2>6, <2>8, <2>9 DEF ScanHasOneAnswer, at, socket
<1> QED
  BY <1>1, <1>2, <1>3, InvHolds, PTL DEF InStep

\* For any pause: after the debug module has taken a write, that many cycles
\* pass before the next request goes out (DMITap.v:103-142).
THEOREM WritesStaySpaced == Spec => WritesAreSpaced
<1>1. Inv /\ [Next]_vars => (req'.valid /\ ~req.valid => since >= Delay)
  <2> SUFFICES ASSUME Inv, [Next]_vars, req'.valid, ~req.valid PROVE since >= Delay
    OBVIOUS
  <2>1. CASE PollRequest
    BY <2>1, Constants DEF PollRequest, Receives, Polling, Inv, SpaceInv
  <2>2. ASSUME NEW ready \in BOOLEAN, PosEdge(ready) PROVE FALSE
    BY <2>2, RequestHalfCases DEF NoReq
  <2>3. CASE UNCHANGED registers
    BY <2>3 DEF registers
  <2>4. CASE PollNothing
    BY <2>4 DEF PollNothing, NoReq
  <2>5. CASE OpenOCD \/ DmWork \/ Accept \/ AnswerKills \/ UNCHANGED vars
    BY <2>3, <2>5 DEF OpenOCD, Connect, SendMove, SendScan, ReadAnswer, HangUp, bridge, DmWork,
       Accept, AnswerKills, vars
  <2>6. CASE PollAborts \/ PollReset \/ PollTmsSeq \/ PollScan
    BY <2>3, <2>6 DEF PollAborts, PollReset, PollTmsSeq, PollScan
  <2> QED
    BY <2>1, <2>2, <2>4, <2>5, <2>6 DEF Next, Edge, Poll
<1> QED
  BY <1>1, InvHolds, PTL DEF Spec, WritesAreSpaced
-----------------------------------------------------------------------------
(***************************************************************************)
(* The bridge implements DmiAccess.                                        *)
(***************************************************************************)

\* The refinement mapping, by name, and what a no-operation would find: the data
\* read last, unless a write came after it.
Last    == IF dm.phase = "answering" THEN dm.data ELSE dbus_last_data
Pending == IF DmiAsked /\ ~Answered THEN asked.scan.dmi ELSE None
Result  == IF ~DmiAsked \/ ~Answered THEN None
           ELSE IF dm.phase = "answering" THEN dm.data
           ELSE outbox[1].data

LastInv == last_read \in {None, Last}

Quiet == UNCHANGED <<regs, last_read, Last, Pending, Result>>

\* What leaves it alone is a stutter.
LEMMA QuietStutters == Quiet => [Access!Next]_(Access!vars)
  BY DEF Quiet, Access!vars, Pending, Result

\* So is everything that leaves the scan, its answer and the debug module alone.
LEMMA NothingMoves ==
  UNCHANGED <<asked, outbox, dbus_last_data, dm, regs, last_read>> => Quiet
  BY DEF Quiet, Last, Pending, Result, DmiAsked, Answered

\* A scan of the DMI register asks.
LEMMA ScanAsks == Inv /\ SendScan => [Access!Next]_(Access!vars)
<1> SUFFICES ASSUME Inv, SendScan PROVE [Access!Next]_(Access!vars)
  OBVIOUS
<1>1. PICK c \in Fitting(tap) : asked' = [from |-> Selected(tap), scan |-> c]
  BY DEF SendScan
<1>2. asked = None /\ UNCHANGED <<outbox, dbus_last_data, dm, regs, last_read>>
  BY DEF SendScan, MayWrite, bridge, statics, dmVars
<1>3. outbox = <<>> /\ dm.phase = "idle"
  BY <1>2, NothingOnItsWay
<1>4. tap \in Taps
  BY DEF Inv, TypeOK, Taps
<1>5. c \in Scans /\ Selected(tap) \in IRs \cup {"instruction"}
  BY <1>4, FittingScans
<1>6. asked' # None
  BY <1>1, <1>5, Constants
<1>7. CASE Selected(tap) = "IR_DBUS"
  <2>1. c.dmi \in DmiOps
    BY <1>4, <1>7, FittingScans
  <2>2. Pending = None /\ Result = None
    BY <1>2 DEF Pending, Result, DmiAsked
  <2>3. Pending' = c.dmi /\ Result' = None /\ Last' = Last
    BY <1>1, <1>2, <1>3, <1>6, <1>7 DEF Pending, Result, DmiAsked, Answered, Last
  <2>4. Access!Ask(c.dmi)
    BY <1>2, <2>2, <2>3 DEF Access!Ask, Pending, Result
  <2> QED
    BY <2>1, <2>4 DEF Access!Next, Access!DmiOps, DmiOps
<1>8. CASE Selected(tap) # "IR_DBUS"
  <2>1. ~DmiAsked /\ ~DmiAsked'
    BY <1>1, <1>2, <1>8 DEF DmiAsked
  <2>2. Quiet
    BY <1>2, <2>1 DEF Quiet, Pending, Result, Last
  <2> QED
    BY <2>2, QuietStutters
<1> QED
  BY <1>7, <1>8

\* Reading its answer takes it.
LEMMA AnswerTaken == Inv /\ ReadAnswer => [Access!Next]_(Access!vars)
<1> SUFFICES ASSUME Inv, ReadAnswer PROVE [Access!Next]_(Access!vars)
  OBVIOUS
<1>1. outbox # <<>> /\ asked' = None /\ UNCHANGED <<dbus_last_data, dm, regs, last_read>>
  BY DEF ReadAnswer, statics, dmVars
<1>2. asked # None /\ ~busy /\ (asked.from = "IR_DBUS" => outbox[1].data \in Data)
  BY <1>1 DEF Inv, PlaceInv
<1>3. dm.phase = "idle"
  BY <1>2 DEF Inv, FlightInv
<1>4. Last' = Last /\ Pending' = None /\ Result' = None
  BY <1>1 DEF Last, Pending, Result, DmiAsked
<1>5. CASE asked.from = "IR_DBUS"
  <2>1. Pending = None /\ Result = outbox[1].data
    BY <1>1, <1>2, <1>3, <1>5 DEF Pending, Result, DmiAsked, Answered
  <2>2. Result # None
    BY <1>2, <1>5, <2>1, Constants
  <2>3. Access!Take
    BY <1>1, <1>4, <2>1, <2>2 DEF Access!Take, Pending, Result
  <2> QED
    BY <2>3 DEF Access!Next
<1>6. CASE asked.from # "IR_DBUS"
  <2>1. Pending = None /\ Result = None
    BY <1>6 DEF Pending, Result, DmiAsked
  <2> QED
    BY <1>1, <1>4, <2>1, QuietStutters DEF Quiet
<1> QED
  BY <1>5, <1>6

\* The debug module carries the access out.
LEMMA WorkPerforms == Inv /\ DmWork => [Access!Next]_(Access!vars)
<1> SUFFICES ASSUME Inv, DmWork PROVE [Access!Next]_(Access!vars)
  OBVIOUS
<1> DEFINE o == dm.op
<1>1. dm.phase = "working" /\ UNCHANGED <<asked, outbox>>
      /\ regs' = IF o.op = "write" THEN [regs EXCEPT ![o.addr] = o.data] ELSE regs
  BY DEF DmWork, clientVars
<1>2. PICK d \in Data : /\ o.op = "read" => d = regs[o.addr]
                        /\ dm' = [dm EXCEPT !.phase = "answering", !.data = d]
                        /\ last_read' = IF o.op = "read" THEN d ELSE None
  BY DEF DmWork
<1>3. dm'.phase = "answering" /\ dm'.data = d
  BY <1>2 DEF Inv, TypeOK
<1>4. o \in Requests /\ o = asked.scan.dmi /\ busy
  BY <1>1 DEF Inv, FlightInv
<1>5. asked # None /\ asked.from = "IR_DBUS" /\ outbox = <<>>
  BY <1>4 DEF Inv, PlaceInv
<1>6. Pending = o /\ Pending' = None /\ Result' = d
  BY <1>1, <1>3, <1>4, <1>5 DEF Pending, Result, DmiAsked, Answered
<1>7. o \in DmiOps /\ o.op \in {"read", "write"} /\ o # None
  BY <1>4, Constants DEF Requests
<1>8. d \in Access!Results(o)
  BY <1>2, <1>7 DEF Access!Results
<1> HIDE DEF o
<1>9. Access!Perform
  BY <1>1, <1>2, <1>6, <1>7, <1>8 DEF Access!Perform, Pending, Result
<1> QED
  BY <1>9 DEF Access!Next

\* At an edge the answer goes from the debug module to the socket.
LEMMA EdgeIsQuiet ==
  ASSUME Inv, NEW ready \in BOOLEAN, PosEdge(ready)
  PROVE  Quiet
<1>1. UNCHANGED <<asked, regs, last_read>>
  BY DEF PosEdge, clientVars
<1>2. CASE dm.phase = "answering"
  <2>1. /\ dbus_last_data' = dm.data /\ dm' = DmIdle
        /\ outbox' = <<[from |-> "IR_DBUS", data |-> dm.data]>>
        /\ asked # None /\ asked.from = "IR_DBUS"
    BY <1>2, ResponseEdge
  <2>2. dm'.phase # "answering" /\ outbox' # <<>> /\ outbox'[1].data = dm.data
    BY <2>1 DEF DmIdle
  <2>3. Last = dm.data /\ Pending = None /\ Result = dm.data
    BY <1>2, <2>1 DEF Last, Pending, Result, DmiAsked, Answered
  <2>4. Last' = dm.data /\ Pending' = None /\ Result' = dm.data
    BY <1>1, <2>1, <2>2 DEF Last, Pending, Result, DmiAsked, Answered
  <2> QED
    BY <1>1, <2>3, <2>4 DEF Quiet
<1>3. CASE dm.phase # "answering"
  <2>1. UNCHANGED <<dbus_last_data, outbox>> /\ dm'.phase # "answering"
    BY <1>3, PlainEdge DEF statics
  <2> QED
    BY <1>1, <1>3, <2>1 DEF Quiet, Last, Pending, Result, DmiAsked, Answered
<1> QED
  BY <1>2, <1>3

\* A no-operation is carried out by the bridge itself; the other registers are
\* none of the debug module's.
LEMMA ScanPerforms == Inv /\ LastInv /\ PollScan => [Access!Next]_(Access!vars)
<1> SUFFICES ASSUME Inv, LastInv, PollScan PROVE [Access!Next]_(Access!vars)
  OBVIOUS
<1>1. /\ Receives /\ IsScan /\ ~IsRequest
      /\ outbox' = <<[from |-> asked.from,
                      data |-> IF asked.from = "IR_DBUS" THEN dbus_last_data ELSE None]>>
      /\ UNCHANGED <<asked, dbus_last_data, dm, regs, last_read>>
  BY ScanAnswer DEF clientVars, dmVars
<1>2. /\ vpi = asked.scan /\ asked # None /\ ~busy /\ outbox = <<>>
      /\ Now = [state |-> state, ir |-> ir] /\ Now \in Taps
      /\ vpi \in Fitting(Now) /\ asked.from = Selected(Now)
  BY <1>1, HeadIsScan
<1>3. dm.phase = "idle"
  BY <1>2 DEF Inv, FlightInv
<1>4. outbox' # <<>> /\ outbox'[1].data = IF asked.from = "IR_DBUS" THEN dbus_last_data ELSE None
  BY <1>1
<1>5. Last = dbus_last_data /\ Last' = dbus_last_data
  BY <1>1, <1>3 DEF Last
<1>6. CASE asked.from = "IR_DBUS"
  <2>1. state = "SHIFT_DR" /\ ir = "IR_DBUS" /\ vpi.dmi \in DmiOps
    BY <1>2, <1>6, FittingScans
  <2>2. vpi.dmi.op = "nop"
    BY <1>1, <2>1 DEF IsRequest, DmiOps
  <2>3. Pending = vpi.dmi /\ Pending' = None /\ Result' = dbus_last_data
    BY <1>1, <1>2, <1>3, <1>4, <1>6 DEF Pending, Result, DmiAsked, Answered
  <2>4. vpi.dmi # None
    BY <2>1, Constants
  <2> DEFINE o == vpi.dmi
  <2>5. Last \in Access!Results(o)
    <3>1. Last \in Data
      BY <1>5 DEF Inv, TypeOK
    <3> QED
      BY <2>2, <3>1 DEF Access!Results, LastInv
  <2> HIDE DEF o
  <2>6. o.op = "nop" /\ o # None /\ Pending = o
    BY <2>2, <2>3, <2>4 DEF o
  <2>7. Access!Perform
    BY <1>1, <1>5, <2>3, <2>5, <2>6 DEF Access!Perform, Pending, Result
  <2> QED
    BY <2>7 DEF Access!Next
<1>7. CASE asked.from # "IR_DBUS"
  <2>1. ~DmiAsked /\ ~DmiAsked'
    BY <1>1, <1>7 DEF DmiAsked
  <2> QED
    BY <1>1, <1>5, <2>1, QuietStutters DEF Quiet, Pending, Result
<1> QED
  BY <1>6, <1>7

\* What was read last is what a no-operation finds: only an access of the debug
\* module changes either, and it changes both.
LEMMA LastStep == Inv /\ LastInv /\ [Next]_vars => LastInv'
<1> SUFFICES ASSUME Inv, LastInv, [Next]_vars PROVE LastInv'
  OBVIOUS
<1> USE DEF clientVars, statics, dmVars
<1>1. CASE DmWork
  <2>1. PICK d \in Data : /\ dm' = [dm EXCEPT !.phase = "answering", !.data = d]
                          /\ last_read' = IF dm.op.op = "read" THEN d ELSE None
    BY <1>1 DEF DmWork
  <2>2. dm'.phase = "answering" /\ dm'.data = d
    BY <2>1 DEF Inv, TypeOK
  <2> QED
    BY <2>1, <2>2 DEF LastInv, Last
<1>2. CASE Edge
  <2>1. CASE Accept \/ AnswerKills
    BY <2>1 DEF Accept, AnswerKills, LastInv, Last
  <2>2. ASSUME NEW ready \in BOOLEAN, PosEdge(ready) PROVE LastInv'
    BY <2>2, EdgeIsQuiet DEF Quiet, LastInv
  <2> QED
    BY <1>2, <2>1, <2>2 DEF Edge
<1>3. CASE OpenOCD
  BY <1>3 DEF OpenOCD, Connect, SendMove, SendScan, ReadAnswer, HangUp, bridge, LastInv, Last
<1>4. CASE Poll
  BY <1>4 DEF Poll, PollNothing, PollAborts, PollReset, PollTmsSeq, PollScan, PollRequest,
     LastInv, Last
<1>5. CASE UNCHANGED vars
  BY <1>5 DEF vars, LastInv, Last
<1> QED
  BY <1>1, <1>2, <1>3, <1>4, <1>5 DEF Next

\* Every step is one of DmiAccess, or none.
LEMMA AccessStep == Inv /\ LastInv /\ [Next]_vars => [Access!Next]_(Access!vars)
<1> SUFFICES ASSUME Inv, LastInv, [Next]_vars PROVE [Access!Next]_(Access!vars)
  OBVIOUS
<1> USE DEF clientVars, statics, dmVars
<1>1. CASE Connect \/ SendMove \/ HangUp
  <2>1. UNCHANGED <<asked, outbox, dbus_last_data, dm, regs, last_read>>
    BY <1>1 DEF Connect, SendMove, HangUp, bridge
  <2> QED
    BY <2>1, NothingMoves, QuietStutters
<1>2. CASE SendScan
  BY <1>2, ScanAsks
<1>3. CASE ReadAnswer
  BY <1>3, AnswerTaken
<1>4. CASE DmWork
  BY <1>4, WorkPerforms
<1>5. CASE Edge
  <2>1. CASE Accept \/ AnswerKills
    BY <2>1, NothingMoves, QuietStutters DEF Accept, AnswerKills
  <2>2. ASSUME NEW ready \in BOOLEAN, PosEdge(ready) PROVE [Access!Next]_(Access!vars)
    BY <2>2, EdgeIsQuiet, QuietStutters
  <2> QED
    BY <1>5, <2>1, <2>2 DEF Edge
<1>6. CASE PollNothing \/ PollAborts \/ PollReset \/ PollTmsSeq \/ PollRequest
  <2>1. UNCHANGED <<asked, outbox, dbus_last_data, dm, regs, last_read>>
    BY <1>6 DEF PollNothing, PollAborts, PollReset, PollTmsSeq, PollRequest
  <2> QED
    BY <2>1, NothingMoves, QuietStutters
<1>7. CASE PollScan
  BY <1>7, ScanPerforms
<1>8. CASE UNCHANGED vars
  BY <1>8, NothingMoves, QuietStutters DEF vars
<1> QED
  BY <1>1, <1>2, <1>3, <1>4, <1>5, <1>6, <1>7, <1>8 DEF Next, OpenOCD, Poll

\* A scan of the DMI register is one access of the debug module, carried out
\* once and answered with its own result, for every debugger and however the
\* debug module takes its time (sim_dmi.c:262-360, DMITap.v:95-148); a
\* no-operation is answered with what was read last, unless a write has come
\* between (sim_dmi.c:155-159).
THEOREM ImplementsAccess == Spec => AccessSpec
<1>1. Init => Access!Init
  BY DEF Init, Access!Init, DmIdle, DmiAsked
<1>2. Init => LastInv
  BY DEF Init, LastInv, Last, DmIdle
<1>3. Inv /\ LastInv /\ [Next]_vars => LastInv'
  BY LastStep
<1>4. Inv /\ LastInv /\ [Next]_vars => [Access!Next]_(Access!vars)
  BY AccessStep
<1> QED
  BY <1>1, <1>2, <1>3, <1>4, InvHolds, PTL DEF Spec, AccessSpec, Access!Spec
=============================================================================
