----------------------------- MODULE JtagBridge -----------------------------
(***************************************************************************)
(* The JTAG bridge of the Verilator simulators: OpenOCD writes commands of *)
(* its jtag_vpi protocol to a socket; the clocked block of DMITap.v, once  *)
(* in a cycle, reads them through sim_dmi.c, which plays the TAP and turns *)
(* scans of the DMI register into requests to the debug module.            *)
(*                                                                         *)
(* One cycle of the block is two kinds of steps: PosEdge, the response of  *)
(* the debug module and the request on its wires, and then one Poll for    *)
(* each command read from the socket, between which OpenOCD may write      *)
(* more.  The wires are sampled at the edge, as the nonblocking            *)
(* assignments of Verilog have it.                                         *)
(*                                                                         *)
(* OpenOCD and the debug module are not part of the sources: the first is  *)
(* modelled as the protocol of sim_dmi.c has it, with a scan that waits    *)
(* for its answer, the second as the wires of DMITap.v have it.            *)
(***************************************************************************)
EXTENDS Naturals, Sequences

CONSTANTS
  Addrs, Data, Zero, None, \* as in DmiAccess
  Paths,       \* the sequences of TMS bits that OpenOCD sends
  Delay,       \* DELAY_VALUE, 200 in the code
  MaxInFlight  \* bound: commands written and not yet read

ASSUME BridgeAssumption ==
  /\ Zero \in Data
  /\ None \notin Data
  /\ Paths \subseteq Seq({0, 1})
  /\ Delay \in Nat
  /\ MaxInFlight \in Nat \ {0}

VARIABLES
  client,         \* OpenOCD: away, connected, gone
  tap,            \* the state and the instruction it takes the TAP to have
  asked,          \* the scan whose answer it waits for, or None
  inbox,          \* commands in the socket
  outbox,         \* answers in the socket
  ending,         \* what recv finds behind the last command of a client that is gone
  sim,            \* the simulation: running, finished, aborted
  fd,             \* has the connection been accepted?
  block,          \* where the clocked block is: idle, or in the loop of jtag_vpi_request
  state,          \* statics of sim_dmi.c
  next_state,
  ir,
  dbus_last_data,
  busy,
  req,            \* the request registers of DMITap.v
  resp_ready,
  delay_count,
  dm,             \* the debug module: idle, working, answering
  regs,           \* and its registers
  since,          \* history: cycles since it took the last write, at most Delay
  last_read       \* history: what it gave to the last access: None for a write

clientVars == <<client, tap, asked, ending>>
statics    == <<state, next_state, ir, dbus_last_data, busy>>
registers  == <<req, resp_ready, delay_count>>
dmVars     == <<dm, regs, since, last_read>>
vars == <<clientVars, inbox, outbox, sim, fd, block, statics, registers, dmVars>>
-----------------------------------------------------------------------------
(***************************************************************************)
(* The TAP.                                                                *)
(***************************************************************************)
jtag_state_next ==
  [TEST_LOGIC_RESET |-> <<"RUN_TEST_IDLE", "TEST_LOGIC_RESET">>,
   RUN_TEST_IDLE    |-> <<"RUN_TEST_IDLE", "SELECT_DR_SCAN">>,
   SELECT_DR_SCAN   |-> <<"CAPTURE_DR", "SELECT_IR_SCAN">>,
   CAPTURE_DR       |-> <<"SHIFT_DR", "EXIT1_DR">>,
   SHIFT_DR         |-> <<"SHIFT_DR", "EXIT1_DR">>,
   EXIT1_DR         |-> <<"PAUSE_DR", "UPDATE_DR">>,
   PAUSE_DR         |-> <<"PAUSE_DR", "EXIT2_DR">>,
   EXIT2_DR         |-> <<"SHIFT_DR", "UPDATE_DR">>,
   UPDATE_DR        |-> <<"RUN_TEST_IDLE", "SELECT_DR_SCAN">>,
   SELECT_IR_SCAN   |-> <<"CAPTURE_IR", "TEST_LOGIC_RESET">>,
   CAPTURE_IR       |-> <<"SHIFT_IR", "EXIT1_IR">>,
   SHIFT_IR         |-> <<"SHIFT_IR", "EXIT1_IR">>,
   EXIT1_IR         |-> <<"PAUSE_IR", "UPDATE_IR">>,
   PAUSE_IR         |-> <<"PAUSE_IR", "EXIT2_IR">>,
   EXIT2_IR         |-> <<"SHIFT_IR", "UPDATE_IR">>,
   UPDATE_IR        |-> <<"RUN_TEST_IDLE", "SELECT_DR_SCAN">>]

States == DOMAIN jtag_state_next

Step(s, tms) == jtag_state_next[s][tms + 1]

\* The state after a sequence of TMS bits.
Walk(s, path) ==
  LET after[i \in 0..Len(path)] == IF i = 0 THEN s ELSE Step(after[i - 1], path[i])
  IN  after[Len(path)]

\* The instructions; any other value is an unknown register.
IRs == {"IR_IDCODE", "IR_DTMCONTROL", "IR_DBUS", "unknown"}

DmiOps == [op : {"nop", "read", "write"}, addr : Addrs, data : Data]

\* The scans: of the instruction, of the DMI register, of any other, whose bits
\* do not matter.
ScanCmds == {"CMD_SCAN_CHAIN", "CMD_SCAN_CHAIN_FLIP_TMS"}
IrScans  == [cmd : ScanCmds, ir : IRs]
DmiScans == [cmd : ScanCmds, dmi : DmiOps]
Scans    == [cmd : ScanCmds] \cup IrScans \cup DmiScans

\* None is no access and no scan.
ASSUME NoneAssumption ==
  /\ None \notin DmiOps
  /\ \A from \in IRs \cup {"instruction"}, scan \in Scans : None # [from |-> from, scan |-> scan]

\* The commands that have no answer.
Moves == [cmd : {"CMD_RESET"}] \cup [cmd : {"CMD_TMS_SEQ"}, tms : Paths]

AfterScan(s, c) == Step(s, IF c.cmd = "CMD_SCAN_CHAIN_FLIP_TMS" THEN 1 ELSE 0)

\* What OpenOCD expects a command to do to the TAP.
Effect(t, c) ==
  CASE c.cmd = "CMD_RESET"   -> [state |-> "TEST_LOGIC_RESET", ir |-> "IR_IDCODE"]
    [] c.cmd = "CMD_TMS_SEQ" -> [t EXCEPT !.state = Walk(t.state, c.tms)]
    [] c.cmd \in ScanCmds    -> [state |-> AfterScan(t.state, c),
                                 ir |-> IF t.state = "SHIFT_IR" THEN c.ir ELSE t.ir]

\* And a sequence of commands.
AllEffects(t, cmds) ==
  LET after[i \in 0..Len(cmds)] == IF i = 0 THEN t ELSE Effect(after[i - 1], cmds[i])
  IN  after[Len(cmds)]

\* The register a scan goes through.
Selected(t) ==
  CASE t.state = "SHIFT_IR" -> "instruction"
    [] t.state = "SHIFT_DR" -> t.ir
    [] OTHER                -> "none"

NoReq == [valid |-> FALSE, op |-> None]
DmIdle == [phase |-> "idle", op |-> None, data |-> None]
-----------------------------------------------------------------------------
\* The reset of the simulator is over before the first edge that matters.
Init ==
  /\ client = "away"
  /\ tap = [state |-> "TEST_LOGIC_RESET", ir |-> "unknown"]
  /\ asked = None
  /\ inbox = <<>>
  /\ outbox = <<>>
  /\ ending = "none"
  /\ sim = "running"
  /\ fd = FALSE
  /\ block = "idle"
  /\ state = "TEST_LOGIC_RESET"
  /\ next_state = "TEST_LOGIC_RESET"
  /\ ir = "unknown"
  /\ dbus_last_data = Zero
  /\ busy = FALSE
  /\ req = NoReq
  /\ resp_ready = FALSE
  /\ delay_count = 0
  /\ dm = DmIdle
  /\ regs \in [Addrs -> Data]
  /\ since = Delay
  /\ last_read = Zero
-----------------------------------------------------------------------------
(***************************************************************************)
(* OpenOCD.                                                                *)
(***************************************************************************)
Write(c) ==
  /\ inbox' = Append(inbox, c)
  /\ tap' = Effect(tap, c)

bridge == <<outbox, sim, fd, block, statics, registers, dmVars>>

\* OpenOCD connects and brings the TAP to a known state.
Connect ==
  /\ client = "away"
  /\ client' = "connected"
  /\ Write([cmd |-> "CMD_RESET"])
  /\ UNCHANGED <<asked, ending, bridge>>

\* The scans that make sense for the register selected.
Fitting(t) ==
  CASE Selected(t) = "instruction" -> IrScans
    [] Selected(t) = "IR_DBUS"     -> DmiScans
    [] Selected(t) = "none"        -> {}
    [] OTHER                       -> [cmd : ScanCmds]

MayWrite == client = "connected" /\ asked = None /\ Len(inbox) < MaxInFlight

SendMove ==
  /\ MayWrite
  /\ \E c \in Moves : Write(c)
  /\ UNCHANGED <<client, asked, ending, bridge>>

\* A scan waits for its answer.
SendScan ==
  /\ MayWrite
  /\ \E c \in Fitting(tap) : Write(c) /\ asked' = [from |-> Selected(tap), scan |-> c]
  /\ UNCHANGED <<client, ending, bridge>>

ReadAnswer ==
  /\ client = "connected"
  /\ outbox # <<>>
  /\ outbox' = Tail(outbox)
  /\ asked' = None
  /\ UNCHANGED <<client, tap, ending, inbox, sim, fd, block, statics, registers, dmVars>>

\* OpenOCD ends or dies: it closes the connection, perhaps within a command, or
\* the connection is reset and what was in it is gone.
HangUp ==
  /\ client = "connected"
  /\ client' = "gone"
  /\ \/ ending' \in {"closed", "cut_short"} /\ UNCHANGED inbox
     \/ ending' = "reset" /\ inbox' = <<>>
  /\ UNCHANGED <<tap, asked, bridge>>
-----------------------------------------------------------------------------
(***************************************************************************)
(* The debug module.                                                       *)
(***************************************************************************)

\* It carries out the request it has taken, in any number of cycles.
DmWork ==
  /\ dm.phase = "working"
  /\ \E d \in Data :
       /\ dm.op.op = "read" => d = regs[dm.op.addr]
       /\ dm' = [dm EXCEPT !.phase = "answering", !.data = d]
       /\ last_read' = IF dm.op.op = "read" THEN d ELSE None
  /\ regs' = IF dm.op.op = "write" THEN [regs EXCEPT ![dm.op.addr] = dm.op.data] ELSE regs
  /\ UNCHANGED <<clientVars, inbox, outbox, sim, fd, block, statics, registers, since>>

\* At an edge it takes the request on the wires, or sees its answer taken.
DmEdge(ready) ==
  dm' = CASE req.valid /\ ready -> [phase |-> "working", op |-> req.op, data |-> None]
          [] dm.phase = "answering" /\ resp_ready -> DmIdle
          [] OTHER -> dm
-----------------------------------------------------------------------------
(***************************************************************************)
(* sim_dmi.c and DMITap.v.                                                 *)
(***************************************************************************)

\* jtag_vpi_response, for a scan: a write that finds nobody at the other end may
\* go unnoticed.
Answer(from, data) == outbox' = Append(outbox, [from |-> from, data |-> data])

\* Mutant of StateAfter: the TAP stays where the scan began.
StateAfterForgotten == state

StateAfter == next_state

\* Mutant of LastData: the data of the response is not remembered.
LastDataForgotten == dbus_last_data

\* The data of every response, that of a write too.
LastData == dm.data

\* A response nobody has asked for ends the simulation.
vpidmi_response ==
  IF busy
  THEN /\ busy' = FALSE
       /\ dbus_last_data' = LastData
       /\ state' = StateAfter
       /\ Answer("IR_DBUS", dm.data)
       /\ UNCHANGED <<next_state, ir, sim>>
  ELSE /\ sim' = "finished"
       /\ UNCHANGED <<statics, outbox>>

\* Mutant of WiresFree: the wires are taken back whether or not the debug module
\* has been ready.
WiresFreeAlways(ready) == TRUE

WiresFree(ready) == ~req.valid \/ ready

\* Mutant of DelayIsOver: the count goes on below zero.
DelayIsOverLate == delay_count = 1

DelayIsOver == delay_count = 0

\* Mutant of CountedDown: the count is never taken down.
CountedDownNever == delay_count

CountedDown == delay_count - 1

\* The request half of the block: it goes for a request, or counts down.
RequestHalf(ready) ==
  \/ /\ WiresFree(ready)
     /\ DelayIsOver
     /\ block' = "polling"
     /\ UNCHANGED <<req, delay_count>>
  \/ /\ WiresFree(ready)
     /\ ~DelayIsOver
     /\ delay_count' = CountedDown
     /\ req' = NoReq
     /\ UNCHANGED block
  \/ /\ ~WiresFree(ready)
     /\ UNCHANGED <<block, req, delay_count>>

Accept ==
  /\ sim = "running"
  /\ ~fd
  /\ client # "away"
  /\ fd' = TRUE
  /\ UNCHANGED <<clientVars, inbox, outbox, sim, block, statics, registers, dmVars>>

\* A clock edge of a connected bridge; ready is the wire of the debug module.
PosEdge(ready) ==
  /\ sim = "running"
  /\ fd
  /\ block = "idle"
  /\ ready => dm.phase = "idle"
  /\ IF dm.phase = "answering" THEN vpidmi_response ELSE UNCHANGED <<statics, outbox, sim>>
  /\ RequestHalf(ready)
  /\ DmEdge(ready)
  /\ resp_ready' = TRUE
  /\ since' = IF req.valid /\ ready /\ req.op.op = "write" THEN 0
              ELSE IF since < Delay THEN since + 1 ELSE since
  /\ UNCHANGED <<clientVars, inbox, fd, regs, last_read>>

Polling == sim = "running" /\ block = "polling"

\* jtag_vpi_request returns 0: a request is pending, or there is no command.
PollNothing ==
  /\ Polling
  /\ busy \/ (inbox = <<>> /\ ending \in {"none", "closed"})
  /\ req' = NoReq
  /\ block' = "idle"
  /\ UNCHANGED <<clientVars, inbox, outbox, sim, fd, statics, resp_ready, delay_count, dmVars>>

\* recv finds a part of a command, or an error.
PollAborts ==
  /\ Polling
  /\ ~busy
  /\ inbox = <<>>
  /\ ending \in {"cut_short", "reset"}
  /\ sim' = "aborted"
  /\ UNCHANGED <<clientVars, inbox, outbox, fd, block, statics, registers, dmVars>>

\* The command at the head of the socket is read.
Receives ==
  /\ Polling
  /\ ~busy
  /\ inbox # <<>>
  /\ inbox' = Tail(inbox)

vpi == Head(inbox)

IsScan == vpi.cmd \in ScanCmds

\* It asks for a read or write of the debug module.
IsRequest ==
  /\ IsScan
  /\ state = "SHIFT_DR"
  /\ ir = "IR_DBUS"
  /\ vpi.dmi.op \in {"read", "write"}

PollReset ==
  /\ Receives
  /\ vpi.cmd = "CMD_RESET"
  /\ state' = "TEST_LOGIC_RESET"
  /\ ir' = "IR_IDCODE"
  /\ UNCHANGED <<clientVars, outbox, sim, fd, block, next_state, dbus_last_data, busy,
                 registers, dmVars>>

PollTmsSeq ==
  /\ Receives
  /\ vpi.cmd = "CMD_TMS_SEQ"
  /\ state' = Walk(state, vpi.tms)
  /\ UNCHANGED <<clientVars, outbox, sim, fd, block, next_state, ir, dbus_last_data, busy,
                 registers, dmVars>>

\* Mutant of IrAfter: a scan of the instruction does not change it.
IrAfterKept == ir

IrAfter == IF state = "SHIFT_IR" THEN vpi.ir ELSE ir

\* A scan that the debug module has no part in is answered at once; a
\* no-operation of the DMI register gives the last data.
PollScan ==
  /\ Receives
  /\ IsScan
  /\ ~IsRequest
  /\ next_state' = AfterScan(state, vpi)
  /\ state' = next_state'
  /\ ir' = IrAfter
  /\ LET register == Selected([state |-> state, ir |-> ir])
     IN Answer(register, IF register = "IR_DBUS" THEN dbus_last_data ELSE None)
  /\ UNCHANGED <<clientVars, sim, fd, block, dbus_last_data, busy, registers, dmVars>>

\* Mutant of DelayAfter: the pause follows reads.
DelayAfterRead(op) == IF op = "read" THEN Delay ELSE 0

\* "if it's a write"
DelayAfter(op) == IF op = "write" THEN Delay ELSE 0

\* A read or write of the debug module goes out on the wires; the answer and the
\* state that follows wait for its response.
PollRequest ==
  /\ Receives
  /\ IsRequest
  /\ next_state' = AfterScan(state, vpi)
  /\ req' = [valid |-> TRUE, op |-> vpi.dmi]
  /\ delay_count' = DelayAfter(vpi.dmi.op)
  /\ busy' = TRUE
  /\ block' = "idle"
  /\ UNCHANGED <<clientVars, outbox, sim, fd, state, ir, dbus_last_data, resp_ready, dmVars>>

\* Nobody is at the other end any more, and the write of an answer kills the
\* simulation.
AnswerKills ==
  /\ sim = "running"
  /\ client = "gone"
  /\ \/ fd /\ block = "idle" /\ busy /\ dm.phase = "answering"
     \/ block = "polling" /\ ~busy /\ inbox # <<>> /\ IsScan /\ ~IsRequest
  /\ sim' = "aborted"
  /\ UNCHANGED <<clientVars, inbox, outbox, fd, block, statics, registers, dmVars>>
-----------------------------------------------------------------------------
OpenOCD == Connect \/ SendMove \/ SendScan \/ ReadAnswer \/ HangUp
Poll    == PollNothing \/ PollAborts \/ PollReset \/ PollTmsSeq \/ PollScan \/ PollRequest
Edge    == Accept \/ AnswerKills \/ \E ready \in BOOLEAN : PosEdge(ready)

Next == OpenOCD \/ DmWork \/ Edge \/ Poll

Spec == Init /\ [][Next]_vars

\* The simulator runs its clock for ever, the loop of jtag_vpi_request goes on,
\* and the debug module works and is at some time ready.  Nothing is assumed of
\* OpenOCD.
Fairness ==
  /\ WF_vars(Edge)
  /\ WF_vars(PosEdge(TRUE))
  /\ WF_vars(Poll)
  /\ WF_vars(DmWork)

FairSpec == Spec /\ Fairness
-----------------------------------------------------------------------------
\* Every variable has its type; in particular the count of the pause stays
\* between zero and DELAY_VALUE.
TypeOK ==
  /\ client \in {"away", "connected", "gone"}
  /\ tap \in [state : States, ir : IRs]
  /\ asked \in [from : IRs \cup {"instruction"}, scan : Scans] \cup {None}
  /\ inbox \in Seq(Moves \cup Scans)
  /\ outbox \in Seq([from : IRs \cup {"instruction", "none"}, data : Data \cup {None}])
  /\ ending \in {"none", "closed", "cut_short", "reset"}
  /\ sim \in {"running", "finished", "aborted"}
  /\ fd \in BOOLEAN
  /\ block \in {"idle", "polling"}
  /\ {state, next_state} \subseteq States
  /\ ir \in IRs
  /\ dbus_last_data \in Data
  /\ busy \in BOOLEAN
  /\ req \in [valid : BOOLEAN, op : DmiOps \cup {None}]
  /\ resp_ready \in BOOLEAN
  /\ delay_count \in 0..Delay
  /\ dm \in [phase : {"idle", "working", "answering"}, op : DmiOps \cup {None},
             data : Data \cup {None}]
  /\ regs \in [Addrs -> Data]
  /\ since \in 0..Delay
  /\ last_read \in Data \cup {None}

\* busy tells that a request is on its way, exactly: on the wires, or in the
\* debug module, and it is the one of the scan that OpenOCD waits for.  So no
\* response ever comes unexpected.
BusyMeansInFlight ==
  /\ busy <=> req.valid \/ dm.phase # "idle"
  /\ req.valid => asked # None /\ req.op = asked.scan.dmi
  /\ dm.phase # "idle" => asked # None /\ dm.op = asked.scan.dmi
  /\ req.valid /\ dm.phase # "idle" => block = "polling"
  /\ sim # "finished"

\* OpenOCD and the bridge agree on the TAP: once the bridge has done what is
\* under way and what is in the socket, it has the state and the instruction
\* that OpenOCD takes it to have.
TapInStep ==
  client # "gone"
    => tap = AllEffects([state |-> IF busy THEN next_state ELSE state, ir |-> ir], inbox)

\* The scan that OpenOCD waits for is in one place: last in the socket, at the
\* debug module, or answered, once and by the register it was meant for.
ScanHasOneAnswer ==
  LET at == [socket |-> inbox # <<>> /\ inbox[Len(inbox)].cmd \in ScanCmds,
             module |-> busy,
             answer |-> outbox # <<>>]
  IN
  /\ \A i \in 1..(Len(inbox) - 1) : inbox[i].cmd \notin ScanCmds
  /\ Len(outbox) <= 1
  /\ at.answer => asked # None /\ outbox[1].from = asked.from
  /\ asked = None => \A p \in DOMAIN at : ~at[p]
  /\ asked # None /\ client = "connected" => \E p \in DOMAIN at : \A q \in DOMAIN at : at[q] <=> q = p

\* OpenOCD, the bridge and the debug module are in step: on what is on its way,
\* on the state of the TAP, and on the one scan that waits for its answer.
InStep == BusyMeansInFlight /\ TapInStep /\ ScanHasOneAnswer

\* After the debug module has taken a write, no request goes out for DELAY_VALUE
\* cycles, however long the write has stood on the wires.
WritesAreSpaced == [][req'.valid /\ ~req.valid => since >= Delay]_vars

\* The accesses of the debug module are those of DmiAccess: an access has been
\* carried out when the debug module answers it.
DmiAsked == asked # None /\ asked.from = "IR_DBUS"
Answered == dm.phase = "answering" \/ outbox # <<>>

Access == INSTANCE DmiAccess WITH
  last    <- last_read,
  pending <- IF DmiAsked /\ ~Answered THEN asked.scan.dmi ELSE None,
  answer  <- IF ~DmiAsked \/ ~Answered THEN None
             ELSE IF dm.phase = "answering" THEN dm.data
             ELSE outbox[1].data

AccessSpec == Access!Spec

\* Every scan is answered, unless OpenOCD hangs up first.
ScanIsAnswered == asked # None ~> outbox # <<>> \/ client = "gone"
=============================================================================
