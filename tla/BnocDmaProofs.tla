---------------------------- MODULE BnocDmaProofs ----------------------------
(***************************************************************************)
(* What is proved of BnocDma for every set of callers, every queue length  *)
(* and every size of buffer.  Types, mutual exclusion and wake-ups hold    *)
(* with signals and every failure allowed, and so does the unwinding; what *)
(* is said of the commands of a transfer and of its count needs that no    *)
(* signal has been sent.                                                   *)
(***************************************************************************)
EXTENDS BnocDma, SequenceTheorems, WellFoundedInduction, TLAPS

\* A set of natural numbers that is not empty has a least element.
LEMMA LeastElement ==
  ASSUME NEW S \in SUBSET Nat, S # {}
  PROVE  \E x \in S : \A y \in S : x <= y
<1>1. PICK x \in S : \A y \in S : ~ (<<y, x>> \in OpToRel(<, Nat))
  BY NatLessThanWellFounded, WFMin
<1>2. \A y \in S : <<y, x>> \in OpToRel(<, Nat) <=> y < x
  BY DEF OpToRel
<1>3. ASSUME NEW y \in S PROVE x <= y
  <2>1. x \in Nat /\ y \in Nat
    OBVIOUS
  <2>2. ~ (y < x)
    BY <1>1, <1>2
  <2> QED
    BY <2>1, <2>2
<1> QED
  BY <1>3

\* Discarding a list leaves a part of the queue.
LEMMA AfterEndOfListType ==
  ASSUME NEW q \in Seq(Command)
  PROVE  /\ AfterEndOfList(q) \in Seq(Command)
         /\ Len(AfterEndOfList(q)) <= Len(q)
<1> DEFINE ends == {i \in DOMAIN q : q[i].last}
           first == CHOOSE i \in ends : \A j \in ends : i <= j
<1>1. CASE ends = {}
  BY <1>1 DEF AfterEndOfList
<1>2. CASE ends # {}
  <2>1. ends \subseteq Nat
    OBVIOUS
  <2>2. first \in ends
    BY <2>1, <1>2, LeastElement
  <2>3. first \in 1..Len(q)
    BY <2>2
  <2> HIDE DEF first
  <2>4. \A i \in (1 + first)..Len(q) : q[i] \in Command
    BY <2>3
  <2>5. /\ SubSeq(q, 1 + first, Len(q)) \in Seq(Command)
        /\ Len(SubSeq(q, 1 + first, Len(q))) <= Len(q)
    BY <2>3, <2>4, SubSeqProperties
  <2>6. AfterEndOfList(q) = SubSeq(q, 1 + first, Len(q))
    BY <1>2 DEF AfterEndOfList, first
  <2> QED
    BY <2>5, <2>6
<1> QED
  BY <1>1, <1>2
-----------------------------------------------------------------------------
(***************************************************************************)
(* Type correctness, an invariant as it stands.                            *)
(***************************************************************************)

\* The register has room for what the queues can hold.
LEMMA StatusRegisterType ==
  ASSUME BoardTypeOK
  PROVE  StatusRegister \in [Dirs -> Status]
<1> SUFFICES ASSUME NEW d \in Dirs
             PROVE  /\ Len(queue[d]) \in 0..Slots
                    /\ done[d].completed \in BOOLEAN
                    /\ done[d].flushed \in BOOLEAN
  BY DEF StatusRegister, Status
<1>1. queue[d] \in Seq(Command) /\ Len(queue[d]) <= Slots
  BY DEF BoardTypeOK
<1>2. Len(queue[d]) \in 0..Slots
  BY <1>1, DmaAssumption
<1>3. done[d] \in [completed : BOOLEAN, flushed : BOOLEAN]
  BY DEF BoardTypeOK
<1> QED
  BY <1>2, <1>3

\* The types hold at the start.
LEMMA TypeOKInit == Init => TypeOK
<1> SUFFICES ASSUME Init PROVE TypeOK
  OBVIOUS
<1>1. NoFrame \in Frame
  BY DmaAssumption DEF NoFrame, NewFrame, Frame, Dirs
<1>2. signals \in 0..MaxSignals
  BY DmaAssumption DEF Init
<1>3. CallersTypeOK
  BY <1>1, <1>2 DEF Init, Labels, CallersTypeOK
<1>4. status \in [Dirs -> Status]
  BY DmaAssumption DEF Init, Status
<1>5. DriverTypeOK
  BY <1>4 DEF Init, DriverTypeOK
<1>6. queue \in [Dirs -> Seq(Command)] /\ \A d \in Dirs : Len(queue[d]) <= Slots
  BY DmaAssumption DEF Init
<1>7. BoardTypeOK
  BY <1>6 DEF Init, BoardTypeOK
<1> QED
  BY <1>3, <1>5, <1>7 DEF TypeOK

\* A command that is written lands in the queue, is dropped, or is lost.
LEMMA WriteCommandType ==
  ASSUME BoardTypeOK, NEW d \in Dirs, NEW c \in Command, WriteCommand(d, c),
         UNCHANGED <<done, count, irq, filled>>
  PROVE  BoardTypeOK'
<1> USE DEF BoardTypeOK
<1>1. CASE draining[d] /\ draining' = [draining EXCEPT ![d] = ~c.last]
           /\ UNCHANGED <<queue, lost>>
  BY <1>1 DEF Command
<1>2. CASE /\ Len(queue[d]) < Slots
           /\ queue' = [queue EXCEPT ![d] = Append(@, c)]
           /\ UNCHANGED <<draining, lost>>
  <2>1. Append(queue[d], c) \in Seq(Command) /\ Len(Append(queue[d], c)) <= Slots
    BY <1>2, DmaAssumption
  <2>2. queue' \in [Dirs -> Seq(Command)] /\ \A e \in Dirs : Len(queue'[e]) <= Slots
    BY <1>2, <2>1
  <2> QED
    BY <1>2, <2>2
<1>3. CASE lost' = [lost EXCEPT ![d] = TRUE] /\ UNCHANGED <<queue, draining>>
  BY <1>3
<1> QED
  BY <1>1, <1>2, <1>3 DEF WriteCommand

\* A step that leaves the board, or the callers, alone keeps their types.
LEMMA BoardUnchanged == BoardTypeOK /\ UNCHANGED boardVars => BoardTypeOK'
BY DEF BoardTypeOK, boardVars

LEMMA CallersUnchanged == CallersTypeOK /\ UNCHANGED callerVars => CallersTypeOK'
BY DEF CallersTypeOK, callerVars

\* The exit labels by name.
LEMMA ExitLabelsAre ==
  ExitLabels = {"unmap_sg_list", "release_locked_pages", "free_page_pointer_mem"}
BY DEF ExitLabels, Releases

\* A call begins with a frame of the right type.
LEMMA NewFrameType ==
  ASSUME NEW d \in Dirs, NEW n \in 0..MaxBlocks, NEW m \in 0..MaxBlocks,
         NEW error \in {"none", "ENOMEM", "EFAULT", "EINVAL"}
  PROVE  NewFrame(d, n, m, error) \in Frame
BY DmaAssumption DEF NewFrame, Frame

\* Each action keeps the types: one lemma for each, the first for every way the
\* preparation of a call can end.
LEMMA PrepareType ==
  ASSUME TypeOK, NEW t \in Callers, NEW d \in Dirs, Prepare(t, d)
  PROVE  TypeOK'
<1> USE DEF TypeOK
<1>1. ASSUME NEW label \in ExitLabels, NEW m \in 0..MaxBlocks,
             NEW error \in {"ENOMEM", "EFAULT", "EINVAL"},
             NEW got \in SUBSET Resources, Unprepared(t, d, label, m, error, got),
             UNCHANGED <<signaled, signals>>
      PROVE  CallersTypeOK'
  <2>1. NewFrame(d, 0, m, error) \in Frame
    BY NewFrameType, DmaAssumption
  <2>2. label \in Labels
    BY DEF Labels
  <2> QED
    BY <1>1, <2>1, <2>2 DEF Unprepared, Goto, CallersTypeOK
<1>2. ASSUME NEW n \in 1..MaxBlocks, NEW m \in 1..MaxBlocks, Prepared(t, d, n, m),
             UNCHANGED <<signaled, signals>>
      PROVE  CallersTypeOK'
  <2>1. NewFrame(d, n, m, "none") \in Frame
    BY NewFrameType, DmaAssumption
  <2> QED
    BY <1>2, <2>1 DEF Prepared, Goto, CallersTypeOK, Labels
<1>3. UNCHANGED <<signaled, signals>>
  BY DEF Prepare
<1>4. CallersTypeOK'
  <2>1. CASE \E n \in Sizes :
               \E m \in (IF Coalesces THEN 1..n ELSE {n}) : Prepared(t, d, n, m)
    <3>1. PICK n \in 1..MaxBlocks : \E m \in 1..n : Prepared(t, d, n, m)
      <4>1. PICK n \in Sizes : \E m \in (IF Coalesces THEN 1..n ELSE {n}) : Prepared(t, d, n, m)
        BY <2>1
      <4>2. n \in 1..MaxBlocks
        BY DmaAssumption
      <4> QED
        BY <4>1, <4>2, DmaAssumption
    <3>2. PICK m \in 1..MaxBlocks : Prepared(t, d, n, m)
      BY <3>1, DmaAssumption
    <3> QED
      BY <1>2, <1>3, <3>2
  <2>2. CASE PinFails(t, d)
    BY <1>1, <1>3, <2>2, ExitLabelsAre, DmaAssumption DEF PinFails, Resources
  <2>3. CASE TableFails(t, d)
    BY <1>1, <1>3, <2>3, ExitLabelsAre, DmaAssumption DEF TableFails, Resources
  <2>4. CASE MapSgFails(t, d)
    BY <1>1, <1>3, <2>4, ExitLabelsAre, DmaAssumption DEF MapSgFails, Resources
  <2>5. CASE RangeFails(t, d)
    BY <1>1, <1>3, <2>5, ExitLabelsAre, DmaAssumption DEF RangeFails, Resources
  <2> QED
    BY <2>1, <2>2, <2>3, <2>4, <2>5 DEF Prepare
<1>5. DriverTypeOK'
  BY DEF Prepare, DriverTypeOK
<1>6. BoardTypeOK'
  BY DEF Prepare, BoardTypeOK
<1> QED
  BY <1>4, <1>5, <1>6

LEMMA TryLockType ==
  ASSUME TypeOK, NEW t \in Callers, NEW d \in Dirs, TryLock(t, d)
  PROVE  TypeOK'
<1> USE DEF TypeOK, TryLock, Goto
<1>1. CallersTypeOK'
  BY ExitLabelsAre DEF CallersTypeOK, Labels, Frame
<1>2. DriverTypeOK'
  BY DEF DriverTypeOK
<1> QED
  BY <1>1, <1>2, BoardUnchanged

LEMMA ClearDmaStatusType ==
  ASSUME TypeOK, NEW t \in Callers, ClearDmaStatus(t)
  PROVE  TypeOK'
<1> USE DEF TypeOK, ClearDmaStatus, Goto
<1>1. frame[t].dir \in Dirs
  BY DEF CallersTypeOK, Frame
<1>2. CallersTypeOK'
  BY DEF CallersTypeOK, Labels
<1>3. DriverTypeOK'
  BY <1>1 DEF DriverTypeOK, ClearedStatus, Status
<1>4. BoardTypeOK'
  BY <1>1 DEF BoardTypeOK
<1> QED
  BY <1>2, <1>3, <1>4

LEMMA SlotsType ==
  ASSUME TypeOK, NEW t \in Callers, FirstSlots(t) \/ NextSlots(t)
  PROVE  TypeOK'
<1> USE DEF TypeOK, FirstSlots, NextSlots, Goto
<1>1. SlotsFree(frame[t].dir) \in 0..Slots
  BY DmaAssumption DEF CallersTypeOK, DriverTypeOK, Frame, Status, SlotsFree
<1>2. CallersTypeOK'
  <2>1. [frame[t] EXCEPT !.slots_free = SlotsFree(frame[t].dir)] \in Frame
    BY <1>1 DEF CallersTypeOK, Frame
  <2> QED
    BY <2>1 DEF CallersTypeOK, Labels
<1>3. DriverTypeOK'
  BY DEF DriverTypeOK
<1> QED
  BY <1>2, <1>3, BoardUnchanged

LEMMA SendType ==
  ASSUME TypeOK, NEW t \in Callers, NEW d \in Dirs, Send(t, d)
  PROVE  TypeOK'
<1> USE DEF TypeOK, Send, Goto
<1>1. frame[t] \in Frame
  BY DEF CallersTypeOK
<1>2. CASE UNCHANGED <<frame, queue, draining, lost>>
  BY <1>2 DEF CallersTypeOK, DriverTypeOK, BoardTypeOK, Labels
<1>3. CASE /\ frame[t].sent < frame[t].blocks
           /\ frame[t].slots_free > 0
           /\ WriteCommand(d, [owner |-> t, block |-> frame[t].sent + 1,
                               last |-> frame[t].sent + 1 = frame[t].blocks,
                               intr |-> RequestsIntr(t)])
           /\ frame' = [frame EXCEPT ![t].sent = @ + 1, ![t].slots_free = @ - 1]
           /\ UNCHANGED pc
  <2>1. /\ frame[t].sent + 1 \in 0..MaxBlocks
        /\ frame[t].slots_free - 1 \in 0..Slots
    BY <1>1, <1>3, DmaAssumption DEF Frame
  <2>2. CallersTypeOK'
    BY <1>3, <2>1 DEF CallersTypeOK, Frame
  <2>3. [owner |-> t, block |-> frame[t].sent + 1,
         last |-> frame[t].sent + 1 = frame[t].blocks,
         intr |-> RequestsIntr(t)] \in Command
    BY <2>1 DEF Command, RequestsIntr
  <2>4. BoardTypeOK'
    BY <1>3, <2>3, WriteCommandType
  <2>5. DriverTypeOK'
    BY DEF DriverTypeOK
  <2> QED
    BY <2>2, <2>4, <2>5
<1> QED
  BY <1>2, <1>3

LEMMA RefreshType ==
  ASSUME TypeOK, NEW t \in Callers, Refresh(t)
  PROVE  TypeOK'
<1> USE DEF TypeOK, Refresh, Goto
<1>1. CallersTypeOK'
  BY DEF CallersTypeOK, Labels
<1>2. DriverTypeOK'
  BY StatusRegisterType DEF DriverTypeOK, UpdateDmaBufferStatus
<1> QED
  BY <1>1, <1>2, BoardUnchanged

LEMMA WaitSlotType ==
  ASSUME TypeOK, NEW t \in Callers, NEW d \in Dirs, NEW next \in {"flush_test", "reslot"},
         WaitSlot(t, d, next)
  PROVE  TypeOK'
<1> USE DEF TypeOK, WaitSlot, WaitEvent, SlotWaitInterrupted, Goto
<1>1. CallersTypeOK'
  <2>1. [frame[t] EXCEPT !.err = "EIO"] \in Frame
    BY DEF CallersTypeOK, Frame
  <2>2. "unmap_sg_list" \in Labels /\ next \in Labels
    BY ExitLabelsAre DEF Labels
  <2> QED
    BY <2>1, <2>2 DEF CallersTypeOK
<1>2. DriverTypeOK'
  BY DEF DriverTypeOK
<1> QED
  BY <1>1, <1>2, BoardUnchanged

LEMMA FlushTestType ==
  ASSUME TypeOK, NEW t \in Callers, FlushTest(t)
  PROVE  TypeOK'
<1> USE DEF TypeOK, FlushTest, Goto
<1>1. CallersTypeOK'
  BY DEF CallersTypeOK, Labels
<1>2. DriverTypeOK'
  BY DEF DriverTypeOK
<1>3. [owner |-> t, block |-> 0, last |-> TRUE, intr |-> FALSE] \in Command
  BY DmaAssumption DEF Command
<1>4. BoardTypeOK'
  BY <1>3, WriteCommandType DEF Dirs, BoardTypeOK
<1> QED
  BY <1>1, <1>2, <1>4

LEMMA WaitDoneType ==
  ASSUME TypeOK, NEW t \in Callers, NEW d \in Dirs, NEW condition, WaitDone(t, d, condition)
  PROVE  TypeOK'
<1> USE DEF TypeOK, WaitDone, WaitEvent, Goto
<1>1. CallersTypeOK'
  <2>1. [frame[t] EXCEPT !.err = "EIO"] \in Frame
    BY DEF CallersTypeOK, Frame
  <2> QED
    BY <2>1 DEF CallersTypeOK, Labels
<1>2. DriverTypeOK'
  BY DEF DriverTypeOK
<1> QED
  BY <1>1, <1>2, BoardUnchanged

LEMMA CountType ==
  ASSUME TypeOK, NEW t \in Callers, NEW d \in Dirs, Count(t, d)
  PROVE  TypeOK'
<1> USE DEF TypeOK, Count, Goto
<1>1. CallersTypeOK'
  <2>1. count[d] \in Nat
    BY DEF BoardTypeOK
  <2>2. [frame[t] EXCEPT !.byte_count = count[d]] \in Frame
    BY <2>1 DEF CallersTypeOK, Frame
  <2> QED
    BY <2>2, ExitLabelsAre DEF CallersTypeOK, Labels
<1>2. DriverTypeOK'
  BY DEF DriverTypeOK
<1> QED
  BY <1>1, <1>2, BoardUnchanged

LEMMA LeaveType ==
  ASSUME TypeOK, NEW t \in Callers, NEW d \in Dirs, Leave(t, d)
  PROVE  TypeOK'
<1> USE DEF TypeOK, Leave, Goto
<1>1. CallersTypeOK'
  <2>1. NoFrame \in Frame
    BY NewFrameType, DmaAssumption DEF NoFrame, Dirs
  <2> QED
    BY <2>1 DEF CallersTypeOK, Labels
<1>2. DriverTypeOK'
  BY DEF DriverTypeOK
<1> QED
  BY <1>1, <1>2, BoardUnchanged

LEMMA SignalType ==
  ASSUME TypeOK, NEW t \in Callers, Signal(t)
  PROVE  TypeOK'
<1> USE DEF TypeOK, Signal
<1>1. signals' \in 0..MaxSignals
  BY DmaAssumption DEF CallersTypeOK
<1>2. CallersTypeOK'
  BY <1>1 DEF CallersTypeOK
<1>3. DriverTypeOK'
  BY DEF DriverTypeOK
<1> QED
  BY <1>2, <1>3, BoardUnchanged

LEMMA IntrType ==
  ASSUME TypeOK, IntrUpdate \/ IntrWake
  PROVE  TypeOK'
<1> USE DEF TypeOK
<1>1. CallersTypeOK'
  BY CallersUnchanged DEF IntrUpdate, IntrWake, callerVars
<1>2. DriverTypeOK'
  BY StatusRegisterType DEF IntrUpdate, IntrWake, UpdateDmaBufferStatus, DriverTypeOK
<1>3. BoardTypeOK'
  BY DEF IntrUpdate, IntrWake, BoardTypeOK, boardVars
<1> QED
  BY <1>1, <1>2, <1>3

LEMMA MoveType ==
  ASSUME TypeOK, NEW d \in Dirs, NEW ended \in BOOLEAN, Move(d, ended)
  PROVE  TypeOK'
<1> USE DEF TypeOK
<1>1. CallersTypeOK'
  BY CallersUnchanged DEF Move
<1>2. DriverTypeOK'
  BY DEF Move, DriverTypeOK
<1>3. BoardTypeOK'
  <2> DEFINE c == Head(queue[d])
             rest == Tail(queue[d])
             flush == ended /\ ~c.last
  <2>1. queue[d] \in Seq(Command) /\ Len(queue[d]) <= Slots /\ queue[d] # <<>>
    BY DEF Move, BoardTypeOK
  <2>2. c \in Command /\ rest \in Seq(Command) /\ Len(rest) <= Slots
    BY <2>1, HeadTailProperties, DmaAssumption
  <2> HIDE DEF c, rest, flush
  <2>3. AfterEndOfList(rest) \in Seq(Command) /\ Len(AfterEndOfList(rest)) <= Slots
    <3>1. /\ AfterEndOfList(rest) \in Seq(Command)
          /\ Len(AfterEndOfList(rest)) <= Len(rest)
      BY <2>2, AfterEndOfListType
    <3> QED
      BY <2>2, <3>1, DmaAssumption
  <2>4. /\ queue' \in [Dirs -> Seq(Command)]
        /\ \A e \in Dirs : Len(queue'[e]) <= Slots
    <3>1. queue' = [queue EXCEPT ![d] = IF flush THEN AfterEndOfList(rest) ELSE rest]
      BY DEF Move, c, rest, flush
    <3> QED
      BY <3>1, <2>2, <2>3 DEF BoardTypeOK
  <2>5. draining' \in [Dirs -> BOOLEAN]
    BY DEF Move, BoardTypeOK, flush, c, rest
  <2>6. done' \in [Dirs -> [completed : BOOLEAN, flushed : BOOLEAN]]
    BY <2>2 DEF Move, BoardTypeOK, Command, c
  <2>7. irq' \in BOOLEAN
    BY <2>2 DEF Move, BoardTypeOK, Command, c
  <2>8. count' \in [Dirs -> Nat] /\ filled' \in [Callers -> Nat] /\ lost' \in [Dirs -> BOOLEAN]
    <3>1. c.owner \in Callers
      BY <2>2 DEF Command
    <3>2. \/ UNCHANGED <<count, filled>>
          \/ /\ count' = [count EXCEPT ![d] = @ + 1]
             /\ filled' = [filled EXCEPT ![c.owner] = @ + 1]
      BY DEF Move, c
    <3>3. UNCHANGED lost
      BY DEF Move
    <3>4. count \in [Dirs -> Nat] /\ filled \in [Callers -> Nat] /\ lost \in [Dirs -> BOOLEAN]
      BY DEF BoardTypeOK
    <3>5. count' \in [Dirs -> Nat] /\ filled' \in [Callers -> Nat]
      BY <3>1, <3>2, <3>4
    <3> QED
      BY <3>3, <3>4, <3>5
  <2> QED
    BY <2>4, <2>5, <2>6, <2>7, <2>8 DEF BoardTypeOK
<1> QED
  BY <1>1, <1>2, <1>3

\* The type invariant is inductive.
LEMMA TypeOKStep == TypeOK /\ [Next]_vars => TypeOK'
<1> SUFFICES ASSUME TypeOK, [Next]_vars PROVE TypeOK'
  OBVIOUS
<1>1. ASSUME NEW t \in Callers, PrepareRead(t) \/ PrepareWrite(t)
      PROVE  TypeOK'
  BY <1>1, PrepareType DEF PrepareRead, PrepareWrite, Dirs
<1>2. ASSUME NEW t \in Callers, ReadCall(t)
      PROVE  TypeOK'
  BY <1>2, TryLockType, SendType, WaitSlotType, FlushTestType, WaitDoneType, CountType, LeaveType
  DEF ReadCall, TryLockRead, SendRead, WaitSlotRead, WaitDoneRead, CountRead, LeaveRead, Dirs
<1>3. ASSUME NEW t \in Callers, WriteCall(t)
      PROVE  TypeOK'
  BY <1>3, TryLockType, SendType, WaitSlotType, WaitDoneType, CountType, LeaveType
  DEF WriteCall, TryLockWrite, SendWrite, WaitSlotWrite, WaitDoneWrite, CountWrite, LeaveWrite,
      Dirs
<1>4. ASSUME NEW t \in Callers, EitherCall(t) \/ Signal(t)
      PROVE  TypeOK'
  BY <1>4, ClearDmaStatusType, SlotsType, RefreshType, SignalType DEF EitherCall
<1>5. CASE IntrUpdate \/ IntrWake
  BY <1>5, IntrType
<1>6. ASSUME NEW d \in Dirs, BoardStep(d)
      PROVE  TypeOK'
  BY <1>6, MoveType DEF BoardStep
<1>7. CASE UNCHANGED vars
  <2>1. UNCHANGED <<callerVars, boardVars>> /\ UNCHANGED <<asleep, mutex, status, handler>>
    BY <1>7 DEF vars, callerVars, boardVars
  <2> QED
    BY <2>1, CallersUnchanged, BoardUnchanged DEF TypeOK, DriverTypeOK
<1> QED
  BY <1>1, <1>2, <1>3, <1>4, <1>5, <1>6, <1>7 DEF Next, CallerStep

\* In every state each variable has its type.  What is more than bookkeeping in
\* it: the board's queues never grow beyond their slots, and the free slots that
\* a caller computes from the cached level are never fewer than none.
THEOREM TypeCorrect == Spec => []TypeOK
<1>1. Init => TypeOK
  BY TypeOKInit
<1>2. TypeOK /\ [Next]_vars => TypeOK'
  BY TypeOKStep
<1> QED
  BY <1>1, <1>2, PTL DEF Spec
-----------------------------------------------------------------------------
(***************************************************************************)
(* One feeder for each queue: an invariant as it stands, given the types.  *)
(***************************************************************************)

\* A step of a caller that leaves the mutexes alone and enters no critical
\* section.
LEMMA FeederKept ==
  ASSUME TypeOK, OneFeederPerQueue, NEW t \in Callers,
         \A u \in Callers \ {t} : pc'[u] = pc[u] /\ frame'[u] = frame[u],
         pc'[t] \in CriticalLabels => pc[t] \in CriticalLabels /\ frame'[t].dir = frame[t].dir,
         UNCHANGED mutex
  PROVE  OneFeederPerQueue'
<1> SUFFICES ASSUME NEW u \in Callers, pc'[u] \in CriticalLabels
             PROVE  mutex'[frame'[u].dir] = u
  BY DEF OneFeederPerQueue
<1>1. CASE u = t
  BY <1>1 DEF OneFeederPerQueue
<1>2. CASE u # t
  BY <1>2 DEF OneFeederPerQueue
<1> QED
  BY <1>1, <1>2

\* A caller that gives its mutex back has left its critical section.
LEMMA FeederLeaves ==
  ASSUME TypeOK, OneFeederPerQueue, NEW t \in Callers,
         \A u \in Callers \ {t} : pc'[u] = pc[u] /\ frame'[u] = frame[u],
         pc[t] \in CriticalLabels, pc'[t] \notin CriticalLabels,
         mutex' = [mutex EXCEPT ![frame[t].dir] = None]
  PROVE  OneFeederPerQueue'
<1> SUFFICES ASSUME NEW u \in Callers, pc'[u] \in CriticalLabels
             PROVE  mutex'[frame'[u].dir] = u
  BY DEF OneFeederPerQueue
<1>1. u # t /\ pc[u] \in CriticalLabels /\ frame'[u] = frame[u]
  OBVIOUS
<1>2. mutex[frame[u].dir] = u /\ mutex[frame[t].dir] = t
  BY <1>1 DEF OneFeederPerQueue
<1>3. frame[u].dir \in Dirs /\ frame[t].dir \in Dirs /\ mutex \in [Dirs -> Callers \cup {None}]
  BY DEF TypeOK, CallersTypeOK, DriverTypeOK, Frame
<1> QED
  BY <1>1, <1>2, <1>3

\* A caller that gets past mutex_trylock is the one the mutex names.
LEMMA FeederTryLock ==
  ASSUME TypeOK, OneFeederPerQueue, NEW t \in Callers, NEW d \in Dirs, TryLock(t, d)
  PROVE  OneFeederPerQueue'
<1>1. /\ pc \in [Callers -> Labels]
      /\ frame \in [Callers -> Frame]
      /\ mutex \in [Dirs -> Callers \cup {None}]
  BY DEF TypeOK, CallersTypeOK, DriverTypeOK
<1>2. CASE TryLockSucceeds(d)
  <2> SUFFICES ASSUME NEW u \in Callers, pc'[u] \in CriticalLabels
               PROVE  mutex'[frame'[u].dir] = u
    BY DEF OneFeederPerQueue
  <2>1. mutex' = [mutex EXCEPT ![d] = t] /\ frame' = frame /\ frame[t].dir = d
    BY <1>2 DEF TryLock
  <2>2. CASE u = t
    BY <1>1, <2>1, <2>2
  <2>3. CASE u # t
    <3>1. pc'[u] = pc[u]
      BY <1>1, <1>2, <2>3 DEF TryLock, Goto
    <3>2. mutex[frame[u].dir] = u
      BY <3>1 DEF OneFeederPerQueue
    <3>3. frame[u].dir # d
      BY <1>2, <3>2, DmaAssumption DEF TryLockSucceeds
    <3> QED
      BY <1>1, <2>1, <3>2, <3>3
  <2> QED
    BY <2>2, <2>3
<1>3. CASE ~TryLockSucceeds(d)
  <2>1. pc'[t] \notin CriticalLabels
    BY <1>1, <1>3 DEF TryLock, Goto, CriticalLabels
  <2> QED
    BY <1>1, <1>3, <2>1, FeederKept DEF TryLock, Goto
<1> QED
  BY <1>2, <1>3

\* The owner of each mutex is kept by every step.
LEMMA FeederStep == TypeOK /\ OneFeederPerQueue /\ [Next]_vars => OneFeederPerQueue'
<1> SUFFICES ASSUME TypeOK, OneFeederPerQueue, [Next]_vars PROVE OneFeederPerQueue'
  OBVIOUS
<1>1. pc \in [Callers -> Labels] /\ frame \in [Callers -> Frame]
  BY DEF TypeOK, CallersTypeOK
<1>2. ASSUME NEW t \in Callers, PrepareRead(t) \/ PrepareWrite(t)
      PROVE  OneFeederPerQueue'
  <2>1. PICK d \in Dirs : Prepare(t, d)
    BY <1>2 DEF PrepareRead, PrepareWrite, Dirs
  <2>2. PICK label \in {"lock"} \cup ExitLabels :
               Goto(t, label) /\ \E f : frame' = [frame EXCEPT ![t] = f]
    BY <2>1, ExitLabelsAre DEF Prepare, Prepared, PinFails, TableFails, MapSgFails, RangeFails, Unprepared
  <2>3. label \notin CriticalLabels
    BY ExitLabelsAre DEF CriticalLabels
  <2>4. UNCHANGED mutex
    BY <2>1 DEF Prepare
  <2> QED
    BY <1>1, <2>2, <2>3, <2>4, FeederKept DEF Goto
<1>3. ASSUME NEW t \in Callers, NEW d \in Dirs, TryLock(t, d)
      PROVE  OneFeederPerQueue'
  BY <1>3, FeederTryLock
<1>4. ASSUME NEW t \in Callers, EitherCall(t)
      PROVE  OneFeederPerQueue'
  BY <1>1, <1>4, FeederKept
  DEF EitherCall, ClearDmaStatus, FirstSlots, Refresh, NextSlots, Goto, CriticalLabels, Frame
<1>5. ASSUME NEW t \in Callers, NEW d \in Dirs, Send(t, d)
      PROVE  OneFeederPerQueue'
  BY <1>1, <1>5, FeederKept DEF Send, Goto, CriticalLabels, Frame
<1>6. ASSUME NEW t \in Callers, NEW d \in Dirs, NEW next \in {"flush_test", "reslot"},
             WaitSlot(t, d, next)
      PROVE  OneFeederPerQueue'
  <2>1. CASE UNCHANGED mutex /\ UNCHANGED frame
    BY <1>1, <1>6, <2>1, FeederKept
    DEF WaitSlot, WaitEvent, SlotWaitInterrupted, Goto, CriticalLabels, Frame
  <2>2. CASE SlotWaitInterrupted(t, d)
    BY <1>1, <1>6, <2>2, FeederLeaves DEF WaitSlot, SlotWaitInterrupted, Goto, CriticalLabels
  <2> QED
    BY <1>6, <2>1, <2>2 DEF WaitSlot, WaitEvent
<1>7. ASSUME NEW t \in Callers, FlushTest(t)
      PROVE  OneFeederPerQueue'
  BY <1>1, <1>7, FeederKept DEF FlushTest, Goto, CriticalLabels
<1>8. ASSUME NEW t \in Callers, NEW d \in Dirs, NEW condition, WaitDone(t, d, condition)
      PROVE  OneFeederPerQueue'
  BY <1>1, <1>8, FeederKept DEF WaitDone, WaitEvent, Goto, CriticalLabels, Frame
<1>9. ASSUME NEW t \in Callers, NEW d \in Dirs, Count(t, d)
      PROVE  OneFeederPerQueue'
  BY <1>1, <1>9, FeederLeaves DEF Count, Goto, CriticalLabels
<1>10. ASSUME NEW t \in Callers, NEW d \in Dirs, Leave(t, d)
       PROVE  OneFeederPerQueue'
  BY <1>1, <1>10, FeederKept DEF Leave, Goto, CriticalLabels
<1>11. CASE UNCHANGED <<pc, frame, mutex>>
  BY <1>11 DEF OneFeederPerQueue
<1>12. ASSUME NEW t \in Callers, ReadCall(t) \/ WriteCall(t)
       PROVE  OneFeederPerQueue'
  BY <1>12, <1>3, <1>5, <1>6, <1>7, <1>8, <1>9, <1>10
  DEF ReadCall, WriteCall, TryLockRead, SendRead, WaitSlotRead, WaitDoneRead, CountRead, LeaveRead,
      TryLockWrite, SendWrite, WaitSlotWrite, WaitDoneWrite, CountWrite, LeaveWrite, Dirs
<1>13. ASSUME NEW t \in Callers, Signal(t)
       PROVE  UNCHANGED <<pc, frame, mutex>>
  BY <1>13 DEF Signal
<1>14. ASSUME NEW d \in Dirs, BoardStep(d)
       PROVE  UNCHANGED <<pc, frame, mutex>>
  BY <1>14 DEF BoardStep, Move, callerVars
<1>15. ASSUME IntrUpdate \/ IntrWake \/ UNCHANGED vars
       PROVE  UNCHANGED <<pc, frame, mutex>>
  BY <1>15 DEF IntrUpdate, IntrWake, vars, callerVars
<1> QED
  BY <1>2, <1>4, <1>11, <1>12, <1>13, <1>14, <1>15 DEF Next, CallerStep

\* The caller in the critical section of a direction is the one the mutex of
\* that direction names: no two callers ever feed one command queue.
THEOREM MutualExclusion == Spec => []OneFeederPerQueue
<1>1. Init => OneFeederPerQueue
  BY DEF Init, OneFeederPerQueue, CriticalLabels
<1>2. TypeOK /\ OneFeederPerQueue /\ [Next]_vars => OneFeederPerQueue'
  BY FeederStep
<1> QED
  BY <1>1, <1>2, TypeCorrect, PTL DEF Spec
-----------------------------------------------------------------------------
(***************************************************************************)
(* No wake-up is lost.  The invariant needs two facts more: only the two   *)
(* waits sleep, and what the board has to tell and the cached status does  *)
(* not know yet is announced by an interrupt.                              *)
(***************************************************************************)
SleepersWait == \A t \in asleep : pc[t] \in {"wait_slot", "wait_done"}

NewsIsAnnounced ==
  \A d \in Dirs :
    /\ done[d].completed /\ ~status[d].completed => irq
    /\ done[d].flushed /\ ~status[d].flushed => irq

WakeInv == SleepersWait /\ NewsIsAnnounced /\ NoLostWakeup

\* A step of a caller that is awake and leaves the news as they are.
LEMMA WakeKept ==
  ASSUME TypeOK, WakeInv, NEW t \in Callers \ asleep,
         \A u \in Callers \ {t} : pc'[u] = pc[u] /\ frame'[u] = frame[u],
         UNCHANGED <<asleep, done, status, irq, handler>>
  PROVE  WakeInv'
<1>1. \A u \in asleep' : u \in asleep /\ u \in Callers /\ pc'[u] = pc[u] /\ frame'[u] = frame[u]
  BY DEF TypeOK, DriverTypeOK
<1>2. SleepersWait'
  BY <1>1 DEF WakeInv, SleepersWait
<1>3. NewsIsAnnounced'
  BY DEF WakeInv, NewsIsAnnounced
<1>4. NoLostWakeup'
  BY <1>1 DEF WakeInv, NoLostWakeup, ReadDone, WriteDone, OverOnBoard, WakeUpPending
<1> QED
  BY <1>2, <1>3, <1>4 DEF WakeInv

\* A caller outside the two waits is awake.
LEMMA Awake ==
  ASSUME WakeInv, NEW t \in Callers, pc[t] \notin {"wait_slot", "wait_done"}
  PROVE  t \in Callers \ asleep
BY DEF WakeInv, SleepersWait

\* Clearing the status makes no condition true.
LEMMA WakeClear ==
  ASSUME TypeOK, WakeInv, NEW t \in Callers, ClearDmaStatus(t)
  PROVE  WakeInv'
<1> DEFINE d == frame[t].dir
<1>1. /\ pc \in [Callers -> Labels]
      /\ d \in Dirs
      /\ done \in [Dirs -> [completed : BOOLEAN, flushed : BOOLEAN]]
      /\ status \in [Dirs -> Status]
  BY DEF TypeOK, CallersTypeOK, DriverTypeOK, BoardTypeOK, Frame
<1>2. \A u \in asleep' : u \in asleep /\ pc'[u] = pc[u] /\ frame'[u] = frame[u]
  BY <1>1, Awake DEF ClearDmaStatus, Goto, TypeOK, DriverTypeOK
<1>3. /\ ~done'[d].completed /\ ~done'[d].flushed
      /\ ~status'[d].completed /\ ~status'[d].flushed
      /\ \A e \in Dirs \ {d} : done'[e] = done[e] /\ status'[e] = status[e]
  BY <1>1 DEF ClearDmaStatus, ClearedStatus, Status
<1>4. irq' = irq /\ handler' = handler
  BY DEF ClearDmaStatus
<1> HIDE DEF d
<1>5. SleepersWait'
  BY <1>2 DEF WakeInv, SleepersWait
<1>6. NewsIsAnnounced'
  BY <1>3, <1>4 DEF WakeInv, NewsIsAnnounced
<1>7. NoLostWakeup'
  BY <1>2, <1>3, <1>4 DEF WakeInv, NoLostWakeup, ReadDone, WriteDone, OverOnBoard, WakeUpPending, Dirs
<1> QED
  BY <1>5, <1>6, <1>7 DEF WakeInv

\* Reading the status tells the cached fields what the board knows.
LEMMA StatusIsNews ==
  ASSUME UpdateDmaBufferStatus, NEW d \in Dirs
  PROVE  status'[d].completed = done[d].completed /\ status'[d].flushed = done[d].flushed
BY DEF UpdateDmaBufferStatus, StatusRegister

\* A caller that refreshes the status takes news only while an interrupt is pending.
LEMMA WakeRefresh ==
  ASSUME TypeOK, WakeInv, NEW t \in Callers, Refresh(t)
  PROVE  WakeInv'
<1>1. \A u \in asleep' : u \in asleep /\ pc'[u] = pc[u] /\ frame'[u] = frame[u]
  BY Awake DEF Refresh, Goto, TypeOK, CallersTypeOK, DriverTypeOK
<1>2. /\ \A d \in Dirs : /\ status'[d].completed = done[d].completed
                         /\ status'[d].flushed = done[d].flushed
      /\ UNCHANGED <<done, irq, handler>>
  BY StatusIsNews DEF Refresh, boardVars
<1>3. SleepersWait'
  BY <1>1 DEF WakeInv, SleepersWait
<1>4. NewsIsAnnounced'
  BY <1>2 DEF NewsIsAnnounced
<1>5. NoLostWakeup'
  BY <1>1, <1>2 DEF WakeInv, NoLostWakeup, ReadDone, WriteDone, OverOnBoard, WakeUpPending, Dirs
<1> QED
  BY <1>3, <1>4, <1>5 DEF WakeInv

\* A caller that falls asleep at the end of its transfer has just seen the
\* cached status; if the board knows better, an interrupt is on its way.
LEMMA WakeWaitDone ==
  ASSUME TypeOK, WakeInv, NEW t \in Callers,
         WaitDone(t, "read", ReadDone) \/ WaitDone(t, "write", WriteDone)
  PROVE  WakeInv'
<1>1. /\ pc \in [Callers -> Labels]
      /\ asleep \in SUBSET Callers
      /\ t \notin asleep
      /\ UNCHANGED <<done, status, irq, handler>>
      /\ \A u \in Callers \ {t} : pc'[u] = pc[u] /\ frame'[u] = frame[u]
  BY DEF WaitDone, WaitEvent, Goto, boardVars, TypeOK, CallersTypeOK, DriverTypeOK
<1>2. CASE UNCHANGED asleep
  BY <1>1, <1>2, WakeKept
<1>3. CASE asleep' = asleep \cup {t} /\ pc' = pc /\ frame' = frame
  <2>1. NewsIsAnnounced'
    BY <1>1 DEF WakeInv, NewsIsAnnounced
  <2>2. SleepersWait'
    BY <1>3 DEF WakeInv, SleepersWait, WaitDone
  <2>3. NoLostWakeup'
    <3> SUFFICES ASSUME NEW u \in asleep', pc'[u] = "wait_done"
                 PROVE
          /\ frame'[u].dir = "read" /\ (ReadDone \/ OverOnBoard("read"))' => WakeUpPending'
          /\ frame'[u].dir = "write" /\ (WriteDone \/ OverOnBoard("write"))' => WakeUpPending'
      BY DEF NoLostWakeup
    <3>1. CASE u # t
      BY <1>1, <1>3, <3>1
      DEF WakeInv, NoLostWakeup, ReadDone, WriteDone, OverOnBoard, WakeUpPending
    <3>2. CASE u = t /\ frame[t].dir = "read" /\ ~ReadDone
      BY <1>1, <1>3, <3>2
      DEF WakeInv, NewsIsAnnounced, ReadDone, OverOnBoard, WakeUpPending, Dirs
    <3>3. CASE u = t /\ frame[t].dir = "write" /\ ~WriteDone
      BY <1>1, <1>3, <3>3
      DEF WakeInv, NewsIsAnnounced, WriteDone, OverOnBoard, WakeUpPending, Dirs
    <3> QED
      BY <1>1, <1>3, <3>1, <3>2, <3>3 DEF WaitDone, WaitEvent
  <2> QED
    BY <2>1, <2>2, <2>3 DEF WakeInv
<1> QED
  BY <1>2, <1>3 DEF WaitDone, WaitEvent

\* A caller that waits for a slot disturbs no sleeper.
LEMMA WakeWaitSlot ==
  ASSUME TypeOK, WakeInv, NEW t \in Callers, WaitSlotRead(t) \/ WaitSlotWrite(t)
  PROVE  WakeInv'
<1> USE DEF WaitSlotRead, WaitSlotWrite
<1>1. /\ pc \in [Callers -> Labels]
      /\ asleep \in SUBSET Callers
      /\ t \notin asleep
      /\ UNCHANGED <<done, status, irq, handler>>
      /\ \A u \in Callers \ {t} : pc'[u] = pc[u] /\ frame'[u] = frame[u]
  BY DEF WaitSlot, WaitEvent, SlotWaitInterrupted, Goto, boardVars,
         TypeOK, CallersTypeOK, DriverTypeOK
<1>2. CASE UNCHANGED asleep
  BY <1>1, <1>2, WakeKept
<1>3. CASE asleep' = asleep \cup {t} /\ pc' = pc /\ frame' = frame
  <2>1. pc[t] = "wait_slot"
    BY DEF WaitSlot
  <2>2. NewsIsAnnounced'
    BY <1>1 DEF WakeInv, NewsIsAnnounced
  <2>3. SleepersWait'
    BY <1>3, <2>1 DEF WakeInv, SleepersWait
  <2>4. NoLostWakeup'
    BY <1>1, <1>3, <2>1
    DEF WakeInv, NoLostWakeup, ReadDone, WriteDone, OverOnBoard, WakeUpPending
  <2> QED
    BY <2>2, <2>3, <2>4 DEF WakeInv
<1> QED
  BY <1>2, <1>3 DEF WaitSlot, WaitEvent

\* A signal wakes one caller, and the handler's wake-up all of them.
LEMMA WakeWoken ==
  ASSUME WakeInv, asleep' \subseteq asleep, UNCHANGED <<pc, frame, done, status, irq>>,
         handler' = handler \/ asleep' = {}
  PROVE  WakeInv'
<1>1. SleepersWait' /\ NewsIsAnnounced'
  BY DEF WakeInv, SleepersWait, NewsIsAnnounced
<1>2. NoLostWakeup'
  BY DEF WakeInv, NoLostWakeup, ReadDone, WriteDone, OverOnBoard, WakeUpPending
<1> QED
  BY <1>1, <1>2 DEF WakeInv

\* The handler reads the status before it wakes: what it learns, it will tell.
LEMMA WakeIntrUpdate ==
  ASSUME WakeInv, IntrUpdate
  PROVE  WakeInv'
<1>1. NewsIsAnnounced'
  <2>1. \A d \in Dirs : /\ status'[d].completed = done[d].completed
                        /\ status'[d].flushed = done[d].flushed
    BY StatusIsNews DEF IntrUpdate
  <2> QED
    BY <2>1 DEF IntrUpdate, NewsIsAnnounced
<1>2. SleepersWait'
  BY DEF IntrUpdate, WakeInv, SleepersWait
<1>3. NoLostWakeup'
  BY DEF IntrUpdate, NoLostWakeup, WakeUpPending
<1> QED
  BY <1>1, <1>2, <1>3 DEF WakeInv

\* The board sends an interrupt whenever it sets one of its bits.
LEMMA WakeMove ==
  ASSUME TypeOK, WakeInv, NEW d \in Dirs, NEW ended \in BOOLEAN, Move(d, ended)
  PROVE  WakeInv'
<1>1. UNCHANGED <<pc, frame, asleep, status, handler>>
  BY DEF Move, callerVars
<1>2. done \in [Dirs -> [completed : BOOLEAN, flushed : BOOLEAN]]
  BY DEF TypeOK, BoardTypeOK
<1>3. irq => irq'
  BY DEF Move
<1>4. irq' \/ \A e \in Dirs : /\ done'[e].completed => done[e].completed
                              /\ done'[e].flushed => done[e].flushed
  <2> DEFINE c == Head(queue[d])
             completed == c.last /\ ~ended
             bits == [completed |-> done[d].completed \/ completed,
                      flushed   |-> done[d].flushed \/ ended]
  <2>1. (c.last => irq') /\ (ended => irq')
    BY DEF Move
  <2>2. done' = [done EXCEPT ![d] = bits]
    BY DEF Move
  <2>3. /\ bits.completed => done[d].completed \/ completed
        /\ bits.flushed => done[d].flushed \/ ended
    OBVIOUS
  <2>4. completed => c.last
    OBVIOUS
  <2> HIDE DEF c, bits, completed
  <2>5. \A e \in Dirs : done'[e] = IF e = d THEN bits ELSE done[e]
    BY <1>2, <2>2
  <2> QED
    BY <2>1, <2>3, <2>4, <2>5
<1>5. SleepersWait'
  BY <1>1 DEF WakeInv, SleepersWait
<1>6. CASE irq'
  BY <1>5, <1>6 DEF WakeInv, NewsIsAnnounced, NoLostWakeup, WakeUpPending
<1>7. CASE ~irq'
  <2>1. \A e \in Dirs : /\ done'[e].completed => done[e].completed
                        /\ done'[e].flushed => done[e].flushed
    BY <1>4, <1>7
  <2>2. NewsIsAnnounced'
    BY <1>1, <1>3, <1>7, <2>1 DEF WakeInv, NewsIsAnnounced
  <2>3. (OverOnBoard("read")' => OverOnBoard("read")) /\ (OverOnBoard("write")' => OverOnBoard("write"))
    BY <2>1 DEF OverOnBoard, Dirs
  <2>4. NoLostWakeup'
    BY <1>1, <1>3, <2>3 DEF WakeInv, NoLostWakeup, ReadDone, WriteDone, WakeUpPending
  <2> QED
    BY <1>5, <2>2, <2>4 DEF WakeInv
<1> QED
  BY <1>6, <1>7

\* The strengthened invariant is inductive.
LEMMA WakeStep == TypeOK /\ WakeInv /\ [Next]_vars => WakeInv'
<1> SUFFICES ASSUME TypeOK, WakeInv, [Next]_vars PROVE WakeInv'
  OBVIOUS
<1>1. pc \in [Callers -> Labels] /\ frame \in [Callers -> Frame]
  BY DEF TypeOK, CallersTypeOK
<1>2. ASSUME NEW t \in Callers, PrepareRead(t) \/ PrepareWrite(t)
      PROVE  WakeInv'
  <2>1. t \in Callers \ asleep
    BY <1>2, Awake DEF PrepareRead, PrepareWrite, Prepare
  <2>2. /\ UNCHANGED <<asleep, done, status, irq, handler>>
        /\ \A u \in Callers \ {t} : pc'[u] = pc[u] /\ frame'[u] = frame[u]
    <3>1. PICK d \in Dirs : Prepare(t, d)
      BY <1>2 DEF PrepareRead, PrepareWrite, Dirs
    <3>2. PICK label, f : Goto(t, label) /\ frame' = [frame EXCEPT ![t] = f]
      BY <3>1 DEF Prepare, Prepared, PinFails, TableFails, MapSgFails, RangeFails, Unprepared
    <3> QED
      BY <1>1, <3>1, <3>2 DEF Prepare, Goto
  <2> QED
    BY <2>1, <2>2, WakeKept
<1>3. ASSUME NEW t \in Callers, NEW d \in Dirs, TryLock(t, d) \/ Count(t, d) \/ Leave(t, d)
      PROVE  WakeInv'
  <2>1. t \in Callers \ asleep
    BY <1>3, Awake, ExitLabelsAre DEF TryLock, Count, Leave
  <2>2. /\ UNCHANGED <<asleep, done, status, irq, handler>>
        /\ \A u \in Callers \ {t} : pc'[u] = pc[u] /\ frame'[u] = frame[u]
    BY <1>1, <1>3 DEF TryLock, Count, Leave, Goto, boardVars
  <2> QED
    BY <2>1, <2>2, WakeKept
<1>4. ASSUME NEW t \in Callers, NEW d \in Dirs, Send(t, d) \/ FlushTest(t)
      PROVE  WakeInv'
  <2>1. t \in Callers \ asleep
    BY <1>4, Awake DEF Send, FlushTest
  <2>2. /\ UNCHANGED <<asleep, done, status, irq, handler>>
        /\ \A u \in Callers \ {t} : pc'[u] = pc[u] /\ frame'[u] = frame[u]
    BY <1>1, <1>4 DEF Send, FlushTest, Goto
  <2> QED
    BY <2>1, <2>2, WakeKept
<1>5. ASSUME NEW t \in Callers, FirstSlots(t) \/ NextSlots(t)
      PROVE  WakeInv'
  <2>1. t \in Callers \ asleep
    BY <1>5, Awake DEF FirstSlots, NextSlots
  <2>2. /\ UNCHANGED <<asleep, done, status, irq, handler>>
        /\ \A u \in Callers \ {t} : pc'[u] = pc[u] /\ frame'[u] = frame[u]
    BY <1>1, <1>5 DEF FirstSlots, NextSlots, Goto, boardVars
  <2> QED
    BY <2>1, <2>2, WakeKept
<1>6. ASSUME NEW t \in Callers, EitherCall(t)
      PROVE  WakeInv'
  BY <1>5, <1>6, WakeClear, WakeRefresh DEF EitherCall
<1>7. ASSUME NEW t \in Callers, ReadCall(t) \/ WriteCall(t)
      PROVE  WakeInv'
  BY <1>3, <1>4, <1>7, WakeWaitSlot, WakeWaitDone
  DEF ReadCall, WriteCall, TryLockRead, SendRead, WaitDoneRead, CountRead, LeaveRead,
      TryLockWrite, SendWrite, WaitDoneWrite, CountWrite, LeaveWrite, Dirs
<1>8. ASSUME NEW t \in Callers, Signal(t)
      PROVE  WakeInv'
  BY <1>8, WakeWoken DEF Signal, boardVars
<1>9. CASE IntrUpdate
  BY <1>9, WakeIntrUpdate
<1>10. CASE IntrWake
  BY <1>10, WakeWoken DEF IntrWake, callerVars, boardVars
<1>11. ASSUME NEW d \in Dirs, BoardStep(d)
       PROVE  WakeInv'
  BY <1>11, WakeMove DEF BoardStep
<1>12. CASE UNCHANGED vars
  BY <1>12, WakeWoken DEF vars
<1> QED
  BY <1>2, <1>6, <1>7, <1>8, <1>9, <1>10, <1>11, <1>12 DEF Next, CallerStep

\* A caller asleep at the end of its transfer is woken: whenever the board or
\* the cached status says that the transfer is over, an interrupt is pending or
\* its handler is about to wake the wait queue.  The unlocked test in wait_event
\* and the status updates of the other direction do not break this.
THEOREM WakeUpsAreKept == Spec => []NoLostWakeup
<1>1. Init => WakeInv
  BY DEF Init, WakeInv, SleepersWait, NewsIsAnnounced, NoLostWakeup
<1>2. TypeOK /\ WakeInv /\ [Next]_vars => WakeInv'
  BY WakeStep
<1>3. WakeInv => NoLostWakeup
  BY DEF WakeInv
<1> QED
  BY <1>1, <1>2, <1>3, TypeCorrect, PTL DEF Spec
-----------------------------------------------------------------------------
(***************************************************************************)
(* Every exit path gives back what was taken.                              *)
(***************************************************************************)

\* What a call holds, wherever it is.
HoldInv ==
  \A t \in Callers :
    /\ pc[t] \in {"lock"} \cup CriticalLabels => held[t] = Resources
    /\ pc[t] \in ExitLabels
         => /\ held[t] \subseteq Releases[pc[t]]
            /\ Releases[pc[t]] \ held[t] \subseteq {r \in {"dma_mapping"} : frame[t].mapped = 0}

\* What the labels release, by name.
LEMMA ReleasesAre ==
  /\ Releases["unmap_sg_list"] = Resources
  /\ Releases["release_locked_pages"] = {"page_array", "pinned_pages"}
  /\ Releases["free_page_pointer_mem"] = {"page_array"}
BY DEF Releases

\* A step of a caller that keeps what it holds, and leaves through the label
\* that releases everything.
LEMMA HoldKept ==
  ASSUME TypeOK, HoldInv, NEW t \in Callers, NEW label \in Labels,
         pc[t] \in {"lock"} \cup CriticalLabels,
         label \in {"unmap_sg_list"} \cup CriticalLabels,
         Goto(t, label) \/ UNCHANGED pc, UNCHANGED held,
         \A u \in Callers \ {t} : frame'[u] = frame[u]
  PROVE  HoldInv'
<1>1. pc \in [Callers -> Labels]
  BY DEF TypeOK, CallersTypeOK
<1>2. pc[t] \notin ExitLabels
  BY ExitLabelsAre DEF CriticalLabels
<1>3. label \in ExitLabels => label = "unmap_sg_list"
  BY ExitLabelsAre DEF CriticalLabels
<1> SUFFICES ASSUME NEW u \in Callers
             PROVE  /\ pc'[u] \in {"lock"} \cup CriticalLabels => held'[u] = Resources
                    /\ pc'[u] \in ExitLabels
                         => /\ held'[u] \subseteq Releases[pc'[u]]
                            /\ Releases[pc'[u]] \ held'[u] \subseteq
                                 {r \in {"dma_mapping"} : frame'[u].mapped = 0}
  BY DEF HoldInv
<1>4. CASE pc'[u] = pc[u]
  BY <1>2, <1>4 DEF HoldInv
<1>5. CASE u = t /\ pc'[u] = label
  <2>1. held'[u] = Resources
    BY <1>5 DEF HoldInv
  <2> QED
    BY <1>3, <1>5, <2>1, ReleasesAre
<1> QED
  BY <1>1, <1>4, <1>5 DEF Goto

\* The preparation of a call, however it ends.
LEMMA HoldPrepare ==
  ASSUME TypeOK, HoldInv, NEW t \in Callers, NEW d \in Dirs, Prepare(t, d)
  PROVE  HoldInv'
<1>1. /\ pc \in [Callers -> Labels] /\ held \in [Callers -> SUBSET Resources]
      /\ frame \in [Callers -> Frame]
  BY DEF TypeOK, CallersTypeOK
<1>2. PICK label, m, f, got :
        /\ pc' = [pc EXCEPT ![t] = label]
        /\ held' = [held EXCEPT ![t] = got]
        /\ frame' = [frame EXCEPT ![t] = f]
        /\ f.mapped = m
        /\ \/ label = "lock" /\ got = Resources
           \/ label = "free_page_pointer_mem" /\ got = {"page_array"}
           \/ label = "release_locked_pages" /\ got = {"page_array", "pinned_pages"}
           \/ label = "unmap_sg_list" /\ got = Resources
           \/ label = "unmap_sg_list" /\ got = Resources \ {"dma_mapping"} /\ m = 0
  <2>1. ASSUME NEW n, NEW m, NEW error PROVE NewFrame(d, n, m, error).mapped = m
    BY DEF NewFrame
  <2>2. CASE \E n \in Sizes :
               \E m \in (IF Coalesces THEN 1..n ELSE {n}) : Prepared(t, d, n, m)
    BY <2>1, <2>2, Zenon DEF Prepared, Goto
  <2>3. CASE PinFails(t, d) \/ TableFails(t, d)
    BY <2>1, <2>3, Zenon DEF PinFails, TableFails, Unprepared, Goto
  <2>4. CASE MapSgFails(t, d)
    BY <2>1, <2>4, Zenon DEF MapSgFails, Unprepared, Goto
  <2>5. CASE RangeFails(t, d)
    BY <2>1, <2>5, Zenon DEF RangeFails, Unprepared, Goto
  <2> QED
    BY <2>2, <2>3, <2>4, <2>5 DEF Prepare
<1> SUFFICES ASSUME NEW u \in Callers
             PROVE  /\ pc'[u] \in {"lock"} \cup CriticalLabels => held'[u] = Resources
                    /\ pc'[u] \in ExitLabels
                         => /\ held'[u] \subseteq Releases[pc'[u]]
                            /\ Releases[pc'[u]] \ held'[u] \subseteq
                                 {r \in {"dma_mapping"} : frame'[u].mapped = 0}
  BY DEF HoldInv
<1>3. CASE u # t
  <2>1. pc'[u] = pc[u] /\ held'[u] = held[u] /\ frame'[u] = frame[u]
    BY <1>1, <1>2, <1>3
  <2> QED
    BY <2>1 DEF HoldInv
<1>4. CASE u = t
  <2>1. pc'[u] = label /\ held'[u] = got /\ frame'[u].mapped = m
    BY <1>1, <1>2, <1>4
  <2> QED
    BY <1>2, <2>1, ReleasesAre, ExitLabelsAre DEF CriticalLabels
<1> QED
  BY <1>3, <1>4

\* What is held is kept by every step.
LEMMA HoldStep == TypeOK /\ HoldInv /\ [Next]_vars => HoldInv'
<1> SUFFICES ASSUME TypeOK, HoldInv, [Next]_vars PROVE HoldInv'
  OBVIOUS
<1>1. /\ pc \in [Callers -> Labels] /\ held \in [Callers -> SUBSET Resources]
      /\ frame \in [Callers -> Frame]
  BY DEF TypeOK, CallersTypeOK
<1>2. ASSUME NEW t \in Callers, PrepareRead(t) \/ PrepareWrite(t) PROVE HoldInv'
  BY <1>2, HoldPrepare DEF PrepareRead, PrepareWrite, Dirs
<1>3. ASSUME NEW t \in Callers, NEW d \in Dirs, TryLock(t, d) \/ Count(t, d) PROVE HoldInv'
  BY <1>1, <1>3, HoldKept DEF TryLock, Count, CriticalLabels, Labels, ExitLabels, Releases
<1>4. ASSUME NEW t \in Callers, EitherCall(t) PROVE HoldInv'
  BY <1>1, <1>4, HoldKept
  DEF EitherCall, ClearDmaStatus, FirstSlots, Refresh, NextSlots, CriticalLabels, Labels
<1>5. ASSUME NEW t \in Callers, NEW d \in Dirs, Send(t, d) \/ FlushTest(t) PROVE HoldInv'
  BY <1>1, <1>5, HoldKept DEF Send, FlushTest, CriticalLabels, Labels
<1>6. ASSUME NEW t \in Callers, NEW d \in Dirs, NEW next \in {"flush_test", "reslot"},
             WaitSlot(t, d, next)
      PROVE  HoldInv'
  BY <1>1, <1>6, HoldKept, ExitLabelsAre
  DEF WaitSlot, WaitEvent, SlotWaitInterrupted, CriticalLabels, Labels
<1>7. ASSUME NEW t \in Callers, NEW d \in Dirs, NEW condition, WaitDone(t, d, condition)
      PROVE  HoldInv'
  BY <1>1, <1>7, HoldKept DEF WaitDone, WaitEvent, CriticalLabels, Labels
<1>8. ASSUME NEW t \in Callers, NEW d \in Dirs, Leave(t, d) PROVE HoldInv'
  BY <1>1, <1>8, ExitLabelsAre DEF Leave, Goto, HoldInv, CriticalLabels
<1>9. CASE UNCHANGED <<pc, held, frame>>
  BY <1>9 DEF HoldInv
<1>10. ASSUME NEW t \in Callers, ReadCall(t) \/ WriteCall(t) PROVE HoldInv'
  BY <1>10, <1>3, <1>5, <1>6, <1>7, <1>8
  DEF ReadCall, WriteCall, TryLockRead, SendRead, WaitSlotRead, WaitDoneRead, CountRead, LeaveRead,
      TryLockWrite, SendWrite, WaitSlotWrite, WaitDoneWrite, CountWrite, LeaveWrite, Dirs
<1>11. ASSUME NEW t \in Callers, Signal(t) PROVE UNCHANGED <<pc, held, frame>>
  BY <1>11 DEF Signal
<1>12. ASSUME NEW d \in Dirs, BoardStep(d) PROVE UNCHANGED <<pc, held, frame>>
  BY <1>12 DEF BoardStep, Move, callerVars
<1>13. ASSUME IntrUpdate \/ IntrWake \/ UNCHANGED vars PROVE UNCHANGED <<pc, held, frame>>
  BY <1>13 DEF IntrUpdate, IntrWake, vars, callerVars
<1> QED
  BY <1>2, <1>4, <1>9, <1>10, <1>11, <1>12, <1>13 DEF Next, CallerStep

\* Whichever way a call ends, it keeps nothing of what it has taken, and gives
\* back nothing else, but for the unmapping of a list whose mapping has failed.
THEOREM UnwindingIsExact == Spec => []UnwindIsExact
<1>1. Init => HoldInv
  BY ExitLabelsAre DEF Init, HoldInv, CriticalLabels
<1>2. TypeOK /\ HoldInv /\ [Next]_vars => HoldInv'
  BY HoldStep
<1>3. HoldInv => UnwindIsExact
  BY DEF HoldInv, UnwindIsExact
<1> QED
  BY <1>1, <1>2, <1>3, TypeCorrect, PTL DEF Spec
-----------------------------------------------------------------------------
(***************************************************************************)
(* What a transfer does as long as no signal has been sent: no command is  *)
(* lost, none is left behind, and the count is exact.  The invariant says  *)
(* for each point of a call how far the board is with its list.            *)
(***************************************************************************)

\* The holder of a mutex is in its critical section.
HoldersFeed ==
  \A d \in Dirs :
    mutex[d] # None => pc[mutex[d]] \in CriticalLabels /\ frame[mutex[d]].dir = d

\* The end-of-list command is still to be written, or has been.
SendLabels == {"send", "full", "wait_slot", "flush_test", "reslot"}
ListOpen(t) == pc[t] \in SendLabels /\ frame[t].sent < frame[t].blocks
ListClosed(t) ==
  \/ pc[t] = "wait_done"
  \/ pc[t] = "send" /\ frame[t].sent = frame[t].blocks

\* What the board can know of a list that has not been closed: it works on it,
\* or it has flushed it and discards what is still to come.
OpenInv(t, d) ==
  ListOpen(t) =>
    /\ \A i \in DOMAIN queue[d] : ~queue[d][i].last
    /\ ~done[d].completed /\ ~status[d].completed
    /\ done[d].flushed <=> draining[d]
    /\ status[d].flushed => done[d].flushed
    /\ draining[d] => queue[d] = <<>> /\ d = "read"
    /\ count[d] + Len(queue[d]) <= frame[t].sent
    /\ d = "write" => count[d] + Len(queue[d]) = frame[t].sent

\* And of one that has: the last command is at the end, and the transfer is
\* over, in the register or in the cached status, only when nothing is left.
ClosedInv(t, d) ==
  ListClosed(t) =>
    /\ ~draining[d]
    /\ \A i \in DOMAIN queue[d] : queue[d][i].last <=> i = Len(queue[d])
    /\ done[d].completed \/ done[d].flushed => queue[d] = <<>>
    /\ status[d].completed => done[d].completed
    /\ status[d].flushed => done[d].flushed
    /\ count[d] + Len(queue[d]) <= frame[t].blocks
    /\ d = "write" => ~done[d].flushed /\ count[d] + Len(queue[d]) = frame[t].blocks

\* Before the first command and after the last one nothing is on the board.
QuietInv(t, d) ==
  /\ pc[t] \in {"clear", "slots", "count"} => queue[d] = <<>> /\ ~draining[d]
  /\ pc[t] = "slots" =>
       /\ ~done[d].completed /\ ~done[d].flushed
       /\ ~status[d].completed /\ ~status[d].flushed
  /\ pc[t] = "count" /\ d = "write" => count[d] = frame[t].blocks

\* The blocks: none are moved before the call is inside, the board's counter
\* is that of this call, and some are left to send in the sending loop.
BlocksInv(t, d) ==
  /\ pc[t] \in {"lock", "clear", "slots"} => filled[t] = 0 /\ frame[t].sent = 0
  /\ pc[t] \in {"lock"} \cup CriticalLabels => frame[t].blocks > 0 /\ frame[t].err = "none"
  /\ pc[t] \in CriticalLabels \ {"clear"} => count[d] = filled[t]
  /\ pc[t] = "send" => frame[t].sent <= frame[t].blocks
  /\ pc[t] \in SendLabels \ {"send"} => frame[t].sent < frame[t].blocks
  /\ pc[t] = "flush_test" => d = "read"

\* The free slots that the caller counts on are there.
SlotsInv(t, d) ==
  /\ pc[t] = "send" => frame[t].slots_free + Len(queue[d]) <= Slots
  /\ pc[t] \in {"wait_slot", "flush_test", "reslot"} => Len(queue[d]) <= status[d].level

\* What the call will return.
ResultInv(t, d) ==
  IF pc[t] = "unmap_sg_list" /\ frame[t].err = "none"
  THEN /\ frame[t].byte_count = filled[t]
       /\ d = "write" => filled[t] = frame[t].blocks
  ELSE frame[t].byte_count = 0

CallInv(t, d) ==
  /\ OpenInv(t, d) /\ ClosedInv(t, d) /\ QuietInv(t, d)
  /\ BlocksInv(t, d) /\ SlotsInv(t, d) /\ ResultInv(t, d)

\* The commands on the board are those of the call inside.
OwnCommands ==
  \A d \in Dirs : \A i \in DOMAIN queue[d] :
    queue[d][i].owner = mutex[d] /\ queue[d][i].block > 0
QuietWhenFree == \A d \in Dirs : mutex[d] = None => queue[d] = <<>> /\ ~draining[d]

BoardInv == NoCommandLost /\ OwnCommands /\ QuietWhenFree

TransferInv ==
  signals = 0 =>
    signaled = {} /\ BoardInv /\ \A t \in Callers : CallInv(t, frame[t].dir)

\* The types of what the invariant speaks about.
LEMMA CallTypes ==
  ASSUME TypeOK, NEW t \in Callers
  PROVE  /\ pc[t] \in Labels /\ frame[t] \in Frame /\ frame[t].dir \in Dirs
         /\ frame[t].blocks \in Nat /\ frame[t].sent \in Nat /\ frame[t].slots_free \in Nat
         /\ frame[t].byte_count \in Nat /\ filled[t] \in Nat
BY DmaAssumption DEF TypeOK, CallersTypeOK, BoardTypeOK, Frame

LEMMA BoardTypes ==
  ASSUME TypeOK, NEW d \in Dirs
  PROVE  /\ queue[d] \in Seq(Command) /\ Len(queue[d]) \in Nat /\ Len(queue[d]) <= Slots
         /\ draining[d] \in BOOLEAN /\ count[d] \in Nat
         /\ done[d].completed \in BOOLEAN /\ done[d].flushed \in BOOLEAN
         /\ status[d].level \in Nat /\ status[d].level <= Slots
         /\ status[d].completed \in BOOLEAN /\ status[d].flushed \in BOOLEAN
         /\ mutex[d] \in Callers \cup {None} /\ lost[d] \in BOOLEAN
<1>1. done[d] \in [completed : BOOLEAN, flushed : BOOLEAN] /\ status[d] \in Status
  BY DEF TypeOK, BoardTypeOK, DriverTypeOK
<1> QED
  BY <1>1, DmaAssumption DEF TypeOK, BoardTypeOK, DriverTypeOK, Status

\* A call is not disturbed by a step that leaves its frame and its queue alone,
\* also when the status is read afresh.
LEMMA CallKept ==
  ASSUME TypeOK, NEW u \in Callers, CallInv(u, frame[u].dir),
         pc'[u] = pc[u], frame'[u] = frame[u], filled'[u] = filled[u],
         pc[u] \in CriticalLabels =>
           LET e == frame[u].dir IN
           /\ queue'[e] = queue[e] /\ draining'[e] = draining[e]
           /\ done'[e] = done[e] /\ count'[e] = count[e]
           /\ status'[e] = status[e] \/ status'[e] = StatusRegister[e]
  PROVE  CallInv(u, frame[u].dir)'
<1> DEFINE e == frame[u].dir
<1>1. CASE pc[u] \notin CriticalLabels
  <2>1. pc[u] \notin SendLabels /\ pc[u] \notin {"clear", "slots", "count", "wait_done"}
    BY <1>1 DEF CriticalLabels, SendLabels
  <2>2. OpenInv(u, e)' /\ ClosedInv(u, e)' /\ QuietInv(u, e)' /\ SlotsInv(u, e)'
    BY <2>1 DEF OpenInv, ClosedInv, QuietInv, SlotsInv, ListOpen, ListClosed, SendLabels
  <2>3. BlocksInv(u, e)' /\ ResultInv(u, e)'
    BY <1>1, <2>1 DEF CallInv, BlocksInv, ResultInv, CriticalLabels
  <2> QED
    BY <2>2, <2>3 DEF CallInv
<1>2. CASE pc[u] \in CriticalLabels
  <2>1. e \in Dirs
    BY CallTypes
  <2>2. /\ queue'[e] = queue[e] /\ draining'[e] = draining[e]
        /\ done'[e] = done[e] /\ count'[e] = count[e]
    BY <1>2
  <2>3. \/ status'[e] = status[e]
        \/ /\ status'[e].completed = done[e].completed
           /\ status'[e].flushed = done[e].flushed
           /\ status'[e].level = Len(queue[e])
    BY <1>2, <2>1 DEF StatusRegister
  <2>4. Len(queue[e]) \in Nat
    BY <2>1, BoardTypes
  <2> HIDE DEF e
  <2>5. OpenInv(u, e)'
    BY <2>2, <2>3 DEF CallInv, OpenInv, ListOpen, e
  <2>6. ClosedInv(u, e)'
    BY <2>2, <2>3 DEF CallInv, ClosedInv, ListClosed, e
  <2>7. QuietInv(u, e)'
    BY <2>2, <2>3 DEF CallInv, QuietInv, e
  <2>8. BlocksInv(u, e)' /\ ResultInv(u, e)'
    BY <2>2 DEF CallInv, BlocksInv, ResultInv, e
  <2>9. SlotsInv(u, e)'
    BY <2>2, <2>3, <2>4 DEF CallInv, SlotsInv, e
  <2> QED
    BY <2>5, <2>6, <2>7, <2>8, <2>9 DEF CallInv, e
<1> QED
  BY <1>1, <1>2

\* A caller's step changes only its own frame, and the board only on its side
\* if it is inside, and not at all otherwise; the calls of the others go on.
OthersKept(t, d) ==
  /\ \A u \in Callers \ {t} : pc'[u] = pc[u] /\ frame'[u] = frame[u] /\ filled'[u] = filled[u]
  /\ \A e \in Dirs : e # d \/ pc[t] \notin CriticalLabels =>
       /\ queue'[e] = queue[e] /\ draining'[e] = draining[e]
       /\ done'[e] = done[e] /\ count'[e] = count[e]
       /\ status'[e] = status[e] \/ status'[e] = StatusRegister[e]

LEMMA OtherCalls ==
  ASSUME TypeOK, OneFeederPerQueue, NEW t \in Callers, NEW d \in Dirs,
         pc[t] \in CriticalLabels => frame[t].dir = d, OthersKept(t, d),
         \A u \in Callers : CallInv(u, frame[u].dir)
  PROVE  \A u \in Callers \ {t} : CallInv(u, frame[u].dir)'
<1> SUFFICES ASSUME NEW u \in Callers \ {t} PROVE CallInv(u, frame[u].dir)'
  OBVIOUS
<1>1. frame[u].dir \in Dirs
  BY CallTypes
<1>2. pc[u] \in CriticalLabels /\ pc[t] \in CriticalLabels => frame[u].dir # d
  BY DEF OneFeederPerQueue
<1> QED
  BY <1>1, <1>2, CallKept DEF OthersKept

\* A step of the caller inside that leaves it inside: what has to be shown is
\* about its own call and its own queue.
LEMMA InsideStep ==
  ASSUME TypeOK, OneFeederPerQueue, HoldersFeed, signals = 0, TransferInv,
         NEW t \in Callers, NEW d \in Dirs,
         pc[t] \in CriticalLabels, frame[t].dir = d, OthersKept(t, d),
         UNCHANGED <<mutex, signals, signaled>>,
         CallInv(t, frame[t].dir)',
         \A i \in DOMAIN queue'[d] : queue'[d][i].owner = t /\ queue'[d][i].block > 0,
         \A e \in Dirs : lost'[e] = lost[e]
  PROVE  TransferInv'
<1>1. mutex[d] = t
  BY DEF OneFeederPerQueue
<1>2. \A u \in Callers : CallInv(u, frame[u].dir)'
  BY OtherCalls DEF TransferInv
<1>3. NoCommandLost'
  BY DEF TransferInv, BoardInv, NoCommandLost
<1>4. OwnCommands'
  <2> SUFFICES ASSUME NEW e \in Dirs, NEW i \in DOMAIN queue'[e]
               PROVE  queue'[e][i].owner = mutex'[e] /\ queue'[e][i].block > 0
    BY DEF OwnCommands
  <2>1. CASE e = d
    BY <1>1, <2>1
  <2>2. CASE e # d
    BY <2>2 DEF OthersKept, TransferInv, BoardInv, OwnCommands
  <2> QED
    BY <2>1, <2>2
<1>5. QuietWhenFree'
  BY <1>1, DmaAssumption DEF OthersKept, TransferInv, BoardInv, QuietWhenFree
<1> QED
  BY <1>2, <1>3, <1>4, <1>5 DEF TransferInv, BoardInv

\* A step outside of the critical section leaves the board alone.
LEMMA OutsideStep ==
  ASSUME TypeOK, OneFeederPerQueue, HoldersFeed, signals = 0, TransferInv,
         NEW t \in Callers, pc[t] \notin CriticalLabels,
         \A u \in Callers \ {t} : pc'[u] = pc[u] /\ frame'[u] = frame[u] /\ filled'[u] = filled[u],
         UNCHANGED <<mutex, signals, queue, draining, done, count, status, lost>>,
         signaled' \subseteq signaled,
         CallInv(t, frame[t].dir)'
  PROVE  TransferInv'
<1>1. PICK d \in Dirs : TRUE
  BY DEF Dirs
<1>2. OthersKept(t, d)
  BY DEF OthersKept
<1>3. \A u \in Callers : CallInv(u, frame[u].dir)'
  BY <1>2, OtherCalls DEF TransferInv
<1>4. BoardInv'
  BY DEF TransferInv, BoardInv, NoCommandLost, OwnCommands, QuietWhenFree
<1> QED
  BY <1>3, <1>4 DEF TransferInv

\* The call begins.
LEMMA PrepareTransfer ==
  ASSUME TypeOK, OneFeederPerQueue, HoldersFeed, signals = 0, TransferInv,
         NEW t \in Callers, NEW d \in Dirs, Prepare(t, d)
  PROVE  TransferInv'
<1>1. /\ pc \in [Callers -> Labels] /\ frame \in [Callers -> Frame]
      /\ filled \in [Callers -> Nat]
  BY DEF TypeOK, CallersTypeOK, BoardTypeOK
<1>2. PICK label, n, m, error :
        /\ pc' = [pc EXCEPT ![t] = label]
        /\ frame' = [frame EXCEPT ![t] = NewFrame(d, n, m, error)]
        /\ \/ label = "lock" /\ n \in 1 .. MaxBlocks /\ error = "none"
           \/ label \in ExitLabels /\ error # "none"
  <2>1. CASE \E n \in Sizes :
               \E m \in (IF Coalesces THEN 1..n ELSE {n}) : Prepared(t, d, n, m)
    BY <2>1, DmaAssumption, Zenon DEF Prepared, Goto
  <2>2. CASE PinFails(t, d) \/ TableFails(t, d) \/ MapSgFails(t, d) \/ RangeFails(t, d)
    <3>1. {"EFAULT", "ENOMEM", "EINVAL"} \cap {"none"} = {}
      OBVIOUS
    <3>2. PICK label, m, error : /\ pc' = [pc EXCEPT ![t] = label]
                                 /\ frame' = [frame EXCEPT ![t] = NewFrame(d, 0, m, error)]
                                 /\ label \in ExitLabels
                                 /\ error \in {"EFAULT", "ENOMEM", "EINVAL"}
      BY <2>2, ExitLabelsAre DEF PinFails, TableFails, MapSgFails, RangeFails, Unprepared, Goto
    <3>3. error # "none"
      BY <3>1, <3>2
    <3> QED
      BY <3>2, <3>3
  <2> QED
    BY <2>1, <2>2 DEF Prepare
<1>3. pc'[t] = label /\ frame'[t] = NewFrame(d, n, m, error) /\ filled'[t] = 0
  BY <1>1, <1>2 DEF Prepare
<1>4. label \notin CriticalLabels
  BY <1>2, ExitLabelsAre DEF CriticalLabels
<1>5. CallInv(t, frame[t].dir)'
  <2>1. ResultInv(t, frame[t].dir)'
    BY <1>2, <1>3 DEF ResultInv, NewFrame
  <2>2. pc'[t] = "lock" => /\ filled'[t] = 0 /\ frame'[t].sent = 0
                           /\ frame'[t].blocks > 0 /\ frame'[t].err = "none"
    BY <1>2, <1>3, ExitLabelsAre, DmaAssumption DEF NewFrame
  <2> QED
    BY <1>3, <1>4, <2>1, <2>2 
       DEF CallInv, OpenInv, ClosedInv, QuietInv, BlocksInv, SlotsInv, ListOpen, ListClosed,
       SendLabels, CriticalLabels
<1>6. pc[t] \notin CriticalLabels
  BY DEF Prepare, CriticalLabels
<1>7. \A u \in Callers \ {t} : pc'[u] = pc[u] /\ frame'[u] = frame[u] /\ filled'[u] = filled[u]
  BY <1>1, <1>2 DEF Prepare
<1> QED
  BY <1>5, <1>6, <1>7, OutsideStep DEF Prepare

\* The call gets the board, which has nothing to do, or gives up.
LEMMA TryLockTransfer ==
  ASSUME TypeOK, OneFeederPerQueue, HoldersFeed, signals = 0, TransferInv,
         NEW t \in Callers, NEW d \in Dirs, TryLock(t, d)
  PROVE  TransferInv'
<1>1. /\ pc \in [Callers -> Labels] /\ frame \in [Callers -> Frame]
      /\ mutex \in [Dirs -> Callers \cup {None}]
  BY DEF TypeOK, CallersTypeOK, DriverTypeOK
<1>2. /\ pc[t] = "lock" /\ frame[t].dir = d
      /\ UNCHANGED <<signals, signaled, queue, draining, done, count, status, filled, lost>>
  BY DEF TryLock, boardVars
<1>3. CallInv(t, d)
  BY <1>2 DEF TransferInv
<1>4. CASE mutex[d] = None
  <2>1. /\ mutex' = [mutex EXCEPT ![d] = t] /\ frame' = frame
        /\ pc' = [pc EXCEPT ![t] = "clear"]
    BY <1>4 DEF TryLock, TryLockSucceeds, Goto
  <2>2. pc[t] \notin CriticalLabels
    BY <1>2 DEF CriticalLabels
  <2>3. OthersKept(t, d)
    BY <1>1, <1>2, <2>1 DEF OthersKept
  <2>4. \A u \in Callers \ {t} : CallInv(u, frame[u].dir)'
    BY <1>2, <2>2, <2>3, OtherCalls DEF TransferInv
  <2>5. queue[d] = <<>> /\ ~draining[d]
    BY <1>4 DEF TransferInv, BoardInv, QuietWhenFree
  <2>6. CallInv(t, frame[t].dir)'
    <3>1. pc'[t] = "clear" /\ frame'[t] = frame[t]
      BY <1>1, <2>1
    <3>2. OpenInv(t, d)' /\ ClosedInv(t, d)' /\ QuietInv(t, d)' /\ SlotsInv(t, d)'
      BY <1>2, <2>5, <3>1 DEF OpenInv, ClosedInv, QuietInv, SlotsInv, ListOpen, ListClosed, SendLabels
    <3>3. BlocksInv(t, d)' /\ ResultInv(t, d)'
      BY <1>2, <1>3, <3>1 DEF CallInv, BlocksInv, ResultInv, SendLabels
    <3> QED
      BY <1>2, <3>1, <3>2, <3>3 DEF CallInv
  <2>7. BoardInv'
    BY <1>1, <1>2, <2>1, <2>5 DEF TransferInv, BoardInv, NoCommandLost, OwnCommands, QuietWhenFree
  <2> QED
    BY <1>2, <2>4, <2>6, <2>7 DEF TransferInv
<1>5. CASE mutex[d] # None
  <2>1. /\ pc' = [pc EXCEPT ![t] = "unmap_sg_list"]
        /\ frame' = [frame EXCEPT ![t].err = "EBUSY"]
        /\ mutex' = mutex
    BY <1>5 DEF TryLock, TryLockSucceeds, Goto
  <2>2. /\ pc'[t] = "unmap_sg_list" /\ frame'[t].err = "EBUSY"
        /\ frame'[t].byte_count = frame[t].byte_count
    BY <1>1, <2>1 DEF Frame
  <2>3. frame[t].byte_count = 0
    BY <1>2, <1>3 DEF CallInv, ResultInv
  <2>4. CallInv(t, frame[t].dir)'
    BY <2>2, <2>3 
       DEF CallInv, OpenInv, ClosedInv, QuietInv, BlocksInv, SlotsInv, ResultInv, ListOpen, ListClosed,
       SendLabels, CriticalLabels
  <2>5. \A u \in Callers \ {t} : pc'[u] = pc[u] /\ frame'[u] = frame[u] /\ filled'[u] = filled[u]
    BY <1>1, <1>2, <2>1
  <2>6. pc[t] \notin CriticalLabels
    BY <1>2 DEF CriticalLabels
  <2> QED
    BY <1>2, <2>1, <2>4, <2>5, <2>6, OutsideStep
<1> QED
  BY <1>4, <1>5

\* Clearing the status makes the board, and the cached bits, forget the last
\* transfer.
LEMMA ClearTransfer ==
  ASSUME TypeOK, OneFeederPerQueue, HoldersFeed, signals = 0, TransferInv,
         NEW t \in Callers, ClearDmaStatus(t)
  PROVE  TransferInv'
<1>1. PICK d \in Dirs : frame[t].dir = d
  BY CallTypes
<1>2. /\ pc \in [Callers -> Labels]
      /\ done \in [Dirs -> [completed : BOOLEAN, flushed : BOOLEAN]]
      /\ status \in [Dirs -> Status] /\ count \in [Dirs -> Nat]
  BY DEF TypeOK, CallersTypeOK, DriverTypeOK, BoardTypeOK
<1>3. /\ pc[t] = "clear" /\ pc' = [pc EXCEPT ![t] = "slots"]
      /\ UNCHANGED <<frame, filled, queue, draining, mutex, signals, signaled, lost>>
  BY DEF ClearDmaStatus, Goto
<1>4. CallInv(t, d)
  BY <1>1 DEF TransferInv
<1>5. /\ ~done'[d].completed /\ ~done'[d].flushed /\ count'[d] = 0
      /\ ~status'[d].completed /\ ~status'[d].flushed
      /\ \A e \in Dirs \ {d} : done'[e] = done[e] /\ status'[e] = status[e] /\ count'[e] = count[e]
  BY <1>1, <1>2 DEF ClearDmaStatus, ClearedStatus, Status
<1>6. OthersKept(t, d)
  BY <1>2, <1>3, <1>5 DEF OthersKept, CriticalLabels
<1>7. pc'[t] = "slots"
  BY <1>2, <1>3
<1>8. queue[d] = <<>> /\ ~draining[d] /\ filled[t] = 0
  BY <1>3, <1>4 DEF CallInv, QuietInv, BlocksInv
<1>9. OpenInv(t, d)' /\ ClosedInv(t, d)' /\ SlotsInv(t, d)'
  BY <1>7 DEF OpenInv, ClosedInv, SlotsInv, ListOpen, ListClosed, SendLabels
<1>10. QuietInv(t, d)'
  BY <1>3, <1>5, <1>7, <1>8 DEF QuietInv
<1>11. BlocksInv(t, d)' /\ ResultInv(t, d)'
  BY <1>3, <1>4, <1>5, <1>7, <1>8
  DEF CallInv, BlocksInv, ResultInv, SendLabels, CriticalLabels
<1>12. CallInv(t, frame[t].dir)'
  BY <1>1, <1>3, <1>9, <1>10, <1>11 DEF CallInv
<1>13. \A i \in DOMAIN queue'[d] : queue'[d][i].owner = t /\ queue'[d][i].block > 0
  BY <1>3, <1>8
<1> QED
  BY <1>1, <1>3, <1>6, <1>12, <1>13, InsideStep DEF CriticalLabels

\* The commands on the board's side of a call inside are its own.
LEMMA OwnQueue ==
  ASSUME OneFeederPerQueue, signals = 0, TransferInv, NEW t \in Callers,
         pc[t] \in CriticalLabels, NEW d \in Dirs, frame[t].dir = d
  PROVE  \A i \in DOMAIN queue[d] : queue[d][i].owner = t /\ queue[d][i].block > 0
BY DEF OneFeederPerQueue, TransferInv, BoardInv, OwnCommands

\* The free slots are taken from the cached level, which is at most behind.
LEMMA SlotsTransfer ==
  ASSUME TypeOK, OneFeederPerQueue, HoldersFeed, signals = 0, TransferInv,
         NEW t \in Callers, FirstSlots(t) \/ NextSlots(t)
  PROVE  TransferInv'
<1>1. PICK d \in Dirs : frame[t].dir = d
  BY CallTypes
<1>2. pc \in [Callers -> Labels] /\ frame \in [Callers -> Frame] /\ frame[t] \in Frame
  BY DEF TypeOK, CallersTypeOK
<1>3. /\ pc[t] \in {"slots", "reslot"} /\ pc' = [pc EXCEPT ![t] = "send"]
      /\ frame' = [frame EXCEPT ![t].slots_free = SlotsFree(d)]
      /\ UNCHANGED <<filled, queue, draining, done, count, status, mutex, signals, signaled, lost>>
  BY <1>1 DEF FirstSlots, NextSlots, Goto, boardVars
<1>4. CallInv(t, d)
  BY <1>1 DEF TransferInv
<1>5. /\ pc'[t] = "send" /\ frame'[t].dir = d
      /\ frame'[t].sent = frame[t].sent /\ frame'[t].blocks = frame[t].blocks
      /\ frame'[t].err = frame[t].err /\ frame'[t].byte_count = frame[t].byte_count
      /\ frame'[t].slots_free = Slots - status[d].level
  BY <1>1, <1>2, <1>3 DEF Frame, SlotsFree
<1>6. /\ Len(queue[d]) \in Nat /\ status[d].level \in Nat /\ status[d].level <= Slots
      /\ queue[d] \in Seq(Command) /\ count[d] \in Nat
  BY BoardTypes
<1>7. frame[t].blocks \in Nat /\ frame[t].sent \in Nat
  BY CallTypes
<1>8. OthersKept(t, d)
  BY <1>2, <1>3 DEF OthersKept
<1>9. pc[t] \in CriticalLabels
  BY <1>3 DEF CriticalLabels
<1>10. BlocksInv(t, d)' /\ ResultInv(t, d)' /\ frame[t].sent < frame[t].blocks
  BY <1>3, <1>4, <1>5, <1>7 DEF CallInv, BlocksInv, ResultInv, QuietInv, SendLabels, CriticalLabels
<1>11. \A i \in DOMAIN queue'[d] : queue'[d][i].owner = t /\ queue'[d][i].block > 0
  BY <1>1, <1>3, <1>9, OwnQueue
<1>12. CASE pc[t] = "slots"
  <2>1. /\ queue[d] = <<>> /\ ~draining[d] /\ ~done[d].completed /\ ~done[d].flushed
        /\ ~status[d].completed /\ ~status[d].flushed
        /\ count[d] = 0 /\ frame[t].sent = 0
    BY <1>4, <1>12 DEF CallInv, QuietInv, BlocksInv, CriticalLabels
  <2>2. OpenInv(t, d)' /\ ClosedInv(t, d)' /\ QuietInv(t, d)' /\ SlotsInv(t, d)'
    BY <1>3, <1>5, <1>6, <1>7, <1>10, <2>1, DmaAssumption
    DEF OpenInv, ClosedInv, QuietInv, SlotsInv, ListOpen, ListClosed, SendLabels
  <2>3. CallInv(t, frame[t].dir)'
    BY <1>5, <1>10, <2>2 DEF CallInv
  <2> QED
    BY <1>1, <1>3, <1>8, <1>9, <1>11, <2>3, InsideStep
<1>13. CASE pc[t] = "reslot"
  <2>1. OpenInv(t, d)' /\ ClosedInv(t, d)'
    BY <1>3, <1>4, <1>5, <1>7, <1>10, <1>13
    DEF CallInv, OpenInv, ClosedInv, ListOpen, ListClosed, SendLabels
  <2>2. QuietInv(t, d)' /\ SlotsInv(t, d)'
    BY <1>3, <1>4, <1>5, <1>6, <1>13, DmaAssumption DEF CallInv, QuietInv, SlotsInv
  <2>3. CallInv(t, frame[t].dir)'
    BY <1>5, <1>10, <2>1, <2>2 DEF CallInv
  <2> QED
    BY <1>1, <1>3, <1>8, <1>9, <1>11, <2>3, InsideStep
<1> QED
  BY <1>3, <1>12, <1>13

\* What becomes of a command that is written.
LEMMA WriteCommandEffect ==
  ASSUME TypeOK, NEW d \in Dirs, NEW c, WriteCommand(d, c)
  PROVE  /\ \A e \in Dirs \ {d} : queue'[e] = queue[e] /\ draining'[e] = draining[e]
         /\ \/ /\ draining[d] /\ draining'[d] = ~c.last
               /\ queue'[d] = queue[d] /\ lost' = lost
            \/ /\ ~draining[d] /\ ~draining'[d]
               /\ queue'[d] = Append(queue[d], c) /\ lost' = lost
            \/ ~draining[d] /\ Len(queue[d]) >= Slots
BY DEF WriteCommand, TypeOK, BoardTypeOK

\* A turn of the sending loop that sends nothing.
LEMMA SendPauses ==
  ASSUME TypeOK, OneFeederPerQueue, HoldersFeed, signals = 0, TransferInv,
         NEW t \in Callers, NEW d \in Dirs, frame[t].dir = d, pc[t] = "send",
         \/ frame[t].sent = frame[t].blocks /\ Goto(t, "wait_done")
         \/ frame[t].sent < frame[t].blocks /\ Goto(t, "full"),
         UNCHANGED <<frame, filled, queue, draining, done, count, status, mutex, signals, signaled, lost>>
  PROVE  TransferInv'
<1>1. /\ pc'[t] \in {"wait_done", "full"}
      /\ pc'[t] = "wait_done" <=> frame[t].sent = frame[t].blocks
      /\ pc'[t] = "full" <=> frame[t].sent < frame[t].blocks
      /\ frame[t].sent \in Nat /\ frame[t].blocks \in Nat
  BY CallTypes DEF Goto, TypeOK, CallersTypeOK
<1>2. CallInv(t, d)
  BY DEF TransferInv
<1>3. OpenInv(t, d)' /\ ClosedInv(t, d)'
  BY <1>1, <1>2 DEF CallInv, OpenInv, ClosedInv, ListOpen, ListClosed, SendLabels
<1>4. QuietInv(t, d)' /\ BlocksInv(t, d)' /\ SlotsInv(t, d)' /\ ResultInv(t, d)'
  BY <1>1, <1>2 DEF CallInv, QuietInv, BlocksInv, SlotsInv, ResultInv, SendLabels, CriticalLabels
<1>5. CallInv(t, frame[t].dir)'
  BY <1>3, <1>4 DEF CallInv
<1>6. OthersKept(t, d)
  BY DEF OthersKept, Goto, TypeOK, CallersTypeOK
<1>7. pc[t] \in CriticalLabels
  BY DEF CriticalLabels
<1> QED
  BY <1>5, <1>6, <1>7, InsideStep, OwnQueue

\* What a turn that sends does to the frames.
SentOne(t) ==
  /\ frame'[t].sent = frame[t].sent + 1
  /\ frame'[t].slots_free = frame[t].slots_free - 1
  /\ frame'[t].dir = frame[t].dir /\ frame'[t].blocks = frame[t].blocks
  /\ frame'[t].err = frame[t].err /\ frame'[t].byte_count = frame[t].byte_count
  /\ \A u \in Callers \ {t} : frame'[u] = frame[u]

\* A command is sent: the board has room for it, or discards it.
LEMMA SendOne ==
  ASSUME TypeOK, OneFeederPerQueue, HoldersFeed, signals = 0, TransferInv,
         NEW t \in Callers, NEW d \in Dirs, frame[t].dir = d, pc[t] = "send",
         frame[t].sent < frame[t].blocks, frame[t].slots_free > 0,
         NEW c \in Command, c.owner = t, c.block = frame[t].sent + 1,
         c.last <=> frame[t].sent + 1 = frame[t].blocks,
         WriteCommand(d, c),
         SentOne(t), UNCHANGED <<pc, filled, done, count, status, mutex, signals, signaled>>
  PROVE  TransferInv'
<1> DEFINE q == queue[d]
<1>1. /\ frame[t].sent \in Nat /\ frame[t].blocks \in Nat /\ frame[t].slots_free \in Nat
      /\ q \in Seq(Command) /\ Len(q) \in Nat /\ count[d] \in Nat /\ draining[d] \in BOOLEAN
      /\ c.last \in BOOLEAN
  BY CallTypes, BoardTypes DEF Command
<1>2. CallInv(t, d)
  BY DEF TransferInv
<1>3. /\ frame'[t].dir = d /\ frame'[t].sent = frame[t].sent + 1
      /\ frame'[t].slots_free = frame[t].slots_free - 1
      /\ frame'[t].blocks = frame[t].blocks /\ frame'[t].err = frame[t].err
      /\ frame'[t].byte_count = frame[t].byte_count
      /\ \A u \in Callers \ {t} : frame'[u] = frame[u]
  BY DEF SentOne
<1>4. c.last <=> frame'[t].sent = frame'[t].blocks
  BY <1>3
<1>5. ListOpen(t)
  BY DEF ListOpen, SendLabels
<1>6. /\ \A i \in DOMAIN q : ~q[i].last
      /\ ~done[d].completed /\ ~status[d].completed
      /\ done[d].flushed <=> draining[d]
      /\ status[d].flushed => done[d].flushed
      /\ draining[d] => q = <<>> /\ d = "read"
      /\ count[d] + Len(q) <= frame[t].sent
      /\ d = "write" => count[d] + Len(q) = frame[t].sent
      /\ frame[t].slots_free + Len(q) <= Slots
  BY <1>2, <1>5 DEF CallInv, OpenInv, SlotsInv
<1>7. /\ \A e \in Dirs \ {d} : queue'[e] = queue[e] /\ draining'[e] = draining[e]
      /\ lost' = lost
      /\ \/ /\ draining[d] /\ draining'[d] = ~c.last /\ queue'[d] = q
         \/ /\ ~draining[d] /\ ~draining'[d] /\ queue'[d] = Append(q, c)
  BY <1>1, <1>6, WriteCommandEffect, DmaAssumption
<1>8. OthersKept(t, d)
  BY <1>3, <1>7 DEF OthersKept, CriticalLabels
<1>9. pc[t] \in CriticalLabels
  BY DEF CriticalLabels
<1>10. \A i \in DOMAIN q : q[i].owner = t /\ q[i].block > 0
  BY <1>9, OwnQueue
<1>11. BlocksInv(t, d)' /\ ResultInv(t, d)' /\ QuietInv(t, d)'
  BY <1>1, <1>2, <1>3 DEF CallInv, BlocksInv, ResultInv, QuietInv, SendLabels, CriticalLabels
<1>12. CASE draining[d] /\ draining'[d] = ~c.last /\ queue'[d] = q
  <2>1. draining'[d] <=> frame'[t].sent # frame'[t].blocks
    BY <1>12, <1>4, Zenon
  <2>2. /\ q = <<>> /\ Len(q) = 0 /\ d = "read" /\ done[d].flushed
        /\ count'[d] + Len(queue'[d]) <= frame'[t].sent
    BY <1>1, <1>3, <1>6, <1>12
  <2>3. OpenInv(t, d)'
    BY <1>1, <1>3, <1>6, <1>12, <2>1, <2>2 DEF OpenInv, ListOpen
  <2>4. ClosedInv(t, d)'
    BY <1>1, <1>3, <1>6, <1>12, <2>1, <2>2 DEF ClosedInv, ListClosed
  <2>5. SlotsInv(t, d)'
    BY <1>1, <1>3, <1>6, <1>12, DmaAssumption DEF SlotsInv
  <2>6. CallInv(t, frame[t].dir)'
    BY <1>3, <1>11, <2>3, <2>4, <2>5 DEF CallInv
  <2>7. \A i \in DOMAIN queue'[d] : queue'[d][i].owner = t /\ queue'[d][i].block > 0
    BY <1>10, <1>12
  <2> QED
    BY <1>7, <1>8, <1>9, <2>6, <2>7, InsideStep
<1>13. CASE ~draining[d] /\ ~draining'[d] /\ queue'[d] = Append(q, c)
  <2>1. /\ Len(queue'[d]) = Len(q) + 1 /\ DOMAIN queue'[d] = 1 .. (Len(q) + 1)
        /\ \A i \in DOMAIN q : queue'[d][i] = q[i]
        /\ queue'[d][Len(q) + 1] = c
    BY <1>1, <1>13, AppendProperties
  <2>2. DOMAIN q = 1 .. Len(q) /\ DOMAIN queue'[d] = DOMAIN q \cup {Len(q) + 1}
    BY <1>1, <2>1
  <2>3. /\ count'[d] + Len(queue'[d]) <= frame'[t].sent
        /\ d = "write" => count'[d] + Len(queue'[d]) = frame'[t].sent
    BY <1>1, <1>3, <1>6, <2>1
  <2>4. \A i \in DOMAIN queue'[d] :
          queue'[d][i].last <=> frame'[t].sent = frame'[t].blocks /\ i = Len(queue'[d])
    BY <1>1, <1>6, <1>4, <2>1, <2>2
  <2>5. OpenInv(t, d)'
    <3>1. ListOpen(t)' => \A i \in DOMAIN queue'[d] : ~queue'[d][i].last
      BY <1>1, <1>3, <2>4 DEF ListOpen
    <3> QED
      BY <1>6, <1>13, <2>3, <3>1 DEF OpenInv
  <2>6. ClosedInv(t, d)'
    BY <1>1, <1>3, <1>6, <1>13, <2>3, <2>4 DEF ClosedInv, ListClosed
  <2>7. SlotsInv(t, d)'
    BY <1>1, <1>3, <1>6, <2>1, DmaAssumption DEF SlotsInv
  <2>8. CallInv(t, frame[t].dir)'
    BY <1>3, <1>11, <2>5, <2>6, <2>7 DEF CallInv
  <2>9. \A i \in DOMAIN queue'[d] : queue'[d][i].owner = t /\ queue'[d][i].block > 0
    BY <1>1, <1>10, <2>1, <2>2
  <2> QED
    BY <1>7, <1>8, <1>9, <2>8, <2>9, InsideStep
<1> QED
  BY <1>7, <1>12, <1>13

LEMMA SendTransfer ==
  ASSUME TypeOK, OneFeederPerQueue, HoldersFeed, signals = 0, TransferInv,
         NEW t \in Callers, NEW d \in Dirs, Send(t, d)
  PROVE  TransferInv'
<1> DEFINE c == [owner |-> t, block |-> frame[t].sent + 1,
                 last |-> frame[t].sent + 1 = frame[t].blocks, intr |-> RequestsIntr(t)]
<1>1. /\ pc[t] = "send" /\ frame[t].dir = d
      /\ UNCHANGED <<filled, done, count, status, mutex, signals, signaled>>
  BY DEF Send
<1>2. CASE frame[t].sent < frame[t].blocks /\ frame[t].slots_free > 0 /\ WriteCommand(d, c)
           /\ frame' = [frame EXCEPT ![t].sent = @ + 1, ![t].slots_free = @ - 1]
           /\ UNCHANGED pc
  <2>1. frame[t].sent + 1 \in 0 .. MaxBlocks
    BY <1>2, DmaAssumption DEF TypeOK, CallersTypeOK, Frame
  <2>2. c \in Command
    BY <2>1 DEF Command, RequestsIntr
  <2>3. c.owner = t /\ c.block = frame[t].sent + 1 /\ (c.last <=> frame[t].sent + 1 = frame[t].blocks)
    OBVIOUS
  <2>4. SentOne(t)
    BY <1>2 DEF SentOne, TypeOK, CallersTypeOK, Frame
  <2> HIDE DEF c
  <2> QED
    BY <1>1, <1>2, <2>2, <2>3, <2>4, SendOne
<1>3. CASE /\ \/ frame[t].sent = frame[t].blocks /\ Goto(t, "wait_done")
              \/ frame[t].sent < frame[t].blocks /\ Goto(t, "full")
           /\ UNCHANGED <<frame, queue, draining, lost>>
  BY <1>1, <1>3, SendPauses
<1> QED
  BY <1>2, <1>3 DEF Send

\* The status is read afresh: what a caller takes from it is the truth.
LEMMA RefreshTransfer ==
  ASSUME TypeOK, OneFeederPerQueue, HoldersFeed, signals = 0, TransferInv,
         NEW t \in Callers, Refresh(t)
  PROVE  TransferInv'
<1>1. PICK d \in Dirs : frame[t].dir = d
  BY CallTypes
<1>2. pc \in [Callers -> Labels]
  BY DEF TypeOK, CallersTypeOK
<1>3. /\ pc[t] = "full" /\ pc' = [pc EXCEPT ![t] = "wait_slot"] /\ status' = StatusRegister
      /\ UNCHANGED <<frame, filled, queue, draining, done, count, mutex, signals, signaled, lost>>
  BY DEF Refresh, UpdateDmaBufferStatus, Goto, boardVars
<1>4. CallInv(t, d)
  BY <1>1 DEF TransferInv
<1>5. /\ pc'[t] = "wait_slot"
      /\ status'[d].completed = done[d].completed /\ status'[d].flushed = done[d].flushed
      /\ status'[d].level = Len(queue[d]) /\ Len(queue[d]) \in Nat
  BY <1>2, <1>3, BoardTypes DEF StatusRegister
<1>6. OthersKept(t, d)
  BY <1>2, <1>3 DEF OthersKept
<1>7. pc[t] \in CriticalLabels
  BY <1>3 DEF CriticalLabels
<1>8. OpenInv(t, d)' /\ ClosedInv(t, d)'
  BY <1>3, <1>4, <1>5 DEF CallInv, OpenInv, ClosedInv, ListOpen, ListClosed, SendLabels
<1>9. QuietInv(t, d)' /\ SlotsInv(t, d)'
  BY <1>3, <1>5 DEF QuietInv, SlotsInv
<1>10. BlocksInv(t, d)' /\ ResultInv(t, d)'
  BY <1>3, <1>4, <1>5 DEF CallInv, BlocksInv, ResultInv, SendLabels, CriticalLabels
<1>11. CallInv(t, frame[t].dir)'
  BY <1>1, <1>3, <1>8, <1>9, <1>10 DEF CallInv
<1>12. \A i \in DOMAIN queue'[d] : queue'[d][i].owner = t /\ queue'[d][i].block > 0
  BY <1>1, <1>3, <1>7, OwnQueue
<1> QED
  BY <1>1, <1>3, <1>6, <1>7, <1>11, <1>12, InsideStep

\* A step that changes nothing the invariant speaks of but the place of one
\* caller that stays inside, with its list open.
LEMMA WaitSlotTransfer ==
  ASSUME TypeOK, OneFeederPerQueue, HoldersFeed, signals = 0, TransferInv,
         NEW t \in Callers, WaitSlotRead(t) \/ WaitSlotWrite(t)
  PROVE  TransferInv'
<1>1. PICK d \in Dirs : frame[t].dir = d
  BY CallTypes
<1>2. pc \in [Callers -> Labels]
  BY DEF TypeOK, CallersTypeOK
<1>3. /\ pc[t] = "wait_slot"
      /\ UNCHANGED <<status, filled, queue, draining, done, count, signals, signaled, lost>>
  BY DEF WaitSlotRead, WaitSlotWrite, WaitSlot, boardVars
<1>4. t \notin signaled
  BY DEF TransferInv
<1>5. PICK label : /\ pc' = [pc EXCEPT ![t] = label] /\ UNCHANGED <<frame, mutex>>
                   /\ \/ label = "wait_slot"
                      \/ label = "flush_test" /\ d = "read"
                      \/ label = "reslot"
  <2>1. CASE UNCHANGED <<pc, frame, mutex>>
    BY <1>2, <1>3, <2>1
  <2>2. CASE WaitSlotRead(t) /\ Goto(t, "flush_test") /\ UNCHANGED <<frame, mutex>>
    BY <1>1, <2>2 DEF WaitSlotRead, WaitSlot, Goto
  <2>3. CASE WaitSlotWrite(t) /\ Goto(t, "reslot") /\ UNCHANGED <<frame, mutex>>
    BY <2>3 DEF Goto
  <2> QED
    BY <1>4, <2>1, <2>2, <2>3 DEF WaitSlotRead, WaitSlotWrite, WaitSlot, WaitEvent
<1>6. CallInv(t, d)
  BY <1>1 DEF TransferInv
<1>7. pc'[t] = label
  BY <1>2, <1>5
<1>8. OthersKept(t, d)
  BY <1>2, <1>3, <1>5 DEF OthersKept
<1>9. pc[t] \in CriticalLabels
  BY <1>3 DEF CriticalLabels
<1>10. OpenInv(t, d)' /\ ClosedInv(t, d)'
  BY <1>3, <1>5, <1>6, <1>7 DEF CallInv, OpenInv, ClosedInv, ListOpen, ListClosed, SendLabels
<1>11. QuietInv(t, d)' /\ SlotsInv(t, d)'
  BY <1>3, <1>5, <1>6, <1>7 DEF CallInv, QuietInv, SlotsInv
<1>12. BlocksInv(t, d)' /\ ResultInv(t, d)'
  BY <1>3, <1>5, <1>6, <1>7 DEF CallInv, BlocksInv, ResultInv, SendLabels, CriticalLabels
<1>13. CallInv(t, frame[t].dir)'
  BY <1>1, <1>5, <1>10, <1>11, <1>12 DEF CallInv
<1>14. \A i \in DOMAIN queue'[d] : queue'[d][i].owner = t /\ queue'[d][i].block > 0
  BY <1>1, <1>3, <1>9, OwnQueue
<1> QED
  BY <1>1, <1>3, <1>5, <1>8, <1>9, <1>13, <1>14, InsideStep

\* A read that has been flushed closes its list, and the board, which has
\* discarded everything up to there, is ready for the next one.
LEMMA FlushTransfer ==
  ASSUME TypeOK, OneFeederPerQueue, HoldersFeed, signals = 0, TransferInv,
         NEW t \in Callers, FlushTest(t)
  PROVE  TransferInv'
<1> DEFINE d == "read"
<1>1. pc \in [Callers -> Labels] /\ d \in Dirs
  BY DEF TypeOK, CallersTypeOK, Dirs
<1>2. /\ pc[t] = "flush_test"
      /\ UNCHANGED <<frame, status, filled, done, count, mutex, signals, signaled>>
  BY DEF FlushTest
<1>3. frame[t].dir = d /\ CallInv(t, d)
  BY <1>2 DEF TransferInv, CallInv, BlocksInv
<1>4. pc[t] \in CriticalLabels /\ ListOpen(t)
  BY <1>2, <1>3 DEF CriticalLabels, ListOpen, CallInv, BlocksInv, SendLabels
<1>5. /\ status[d].flushed => draining[d] /\ queue[d] = <<>> /\ done[d].flushed
      /\ ~done[d].completed /\ ~status[d].completed
      /\ count[d] + Len(queue[d]) <= frame[t].sent /\ frame[t].sent < frame[t].blocks
      /\ count[d] \in Nat /\ frame[t].sent \in Nat /\ frame[t].blocks \in Nat
      /\ queue[d] \in Seq(Command) /\ Len(queue[d]) \in Nat
  BY <1>1, <1>3, <1>4, CallTypes, BoardTypes DEF CallInv, OpenInv, ListOpen
<1>6. CASE status[d].flushed
  <2> DEFINE c == [owner |-> t, block |-> 0, last |-> TRUE, intr |-> FALSE]
  <2>1. pc' = [pc EXCEPT ![t] = "wait_done"] /\ WriteCommand(d, c)
    BY <1>6 DEF FlushTest, Goto
  <2>2. c.last
    OBVIOUS
  <2> HIDE DEF c
  <2>3. /\ ~draining'[d] /\ queue'[d] = queue[d] /\ lost' = lost
        /\ \A e \in Dirs \ {d} : queue'[e] = queue[e] /\ draining'[e] = draining[e]
    BY <1>1, <1>5, <1>6, <2>1, <2>2, WriteCommandEffect
  <2>4. pc'[t] = "wait_done" /\ \A u \in Callers \ {t} : pc'[u] = pc[u]
    BY <1>1, <2>1
  <2>5. OthersKept(t, d)
    BY <1>2, <1>4, <2>3, <2>4 DEF OthersKept
  <2>6. OpenInv(t, d)' /\ QuietInv(t, d)' /\ SlotsInv(t, d)'
    BY <2>4 DEF OpenInv, QuietInv, SlotsInv, ListOpen, SendLabels
  <2>7. ClosedInv(t, d)'
    BY <1>2, <1>5, <1>6, <2>3 DEF ClosedInv
  <2>8. BlocksInv(t, d)' /\ ResultInv(t, d)'
    BY <1>2, <1>3, <2>4 DEF CallInv, BlocksInv, ResultInv, SendLabels, CriticalLabels
  <2>9. CallInv(t, frame[t].dir)'
    BY <1>2, <1>3, <2>6, <2>7, <2>8 DEF CallInv
  <2>10. \A i \in DOMAIN queue'[d] : queue'[d][i].owner = t /\ queue'[d][i].block > 0
    BY <1>5, <1>6, <2>3
  <2> QED
    BY <1>1, <1>2, <1>3, <1>4, <2>3, <2>5, <2>9, <2>10, InsideStep
<1>7. CASE ~status[d].flushed
  <2>1. pc' = [pc EXCEPT ![t] = "reslot"] /\ UNCHANGED <<queue, draining, lost>>
    BY <1>7 DEF FlushTest, Goto
  <2>2. pc'[t] = "reslot"
    BY <1>1, <2>1
  <2>3. OthersKept(t, d)
    BY <1>1, <1>2, <2>1 DEF OthersKept
  <2>4. OpenInv(t, d)' /\ ClosedInv(t, d)'
    BY <1>2, <1>3, <2>1, <2>2 DEF CallInv, OpenInv, ClosedInv, ListOpen, ListClosed, SendLabels
  <2>5. QuietInv(t, d)' /\ SlotsInv(t, d)'
    BY <1>2, <1>3, <2>1, <2>2 DEF CallInv, QuietInv, SlotsInv
  <2>6. BlocksInv(t, d)' /\ ResultInv(t, d)'
    BY <1>2, <1>3, <2>1, <2>2 DEF CallInv, BlocksInv, ResultInv, SendLabels, CriticalLabels
  <2>7. CallInv(t, frame[t].dir)'
    BY <1>2, <1>3, <2>4, <2>5, <2>6 DEF CallInv
  <2>8. \A i \in DOMAIN queue'[d] : queue'[d][i].owner = t /\ queue'[d][i].block > 0
    BY <1>1, <1>3, <1>4, <2>1, OwnQueue
  <2> QED
    BY <1>1, <1>2, <1>3, <1>4, <2>1, <2>3, <2>7, <2>8, InsideStep
<1> QED
  BY <1>6, <1>7

\* A call goes on to its counter only when the board has nothing left of it.
LEMMA WaitDoneTransfer ==
  ASSUME TypeOK, OneFeederPerQueue, HoldersFeed, signals = 0, TransferInv,
         NEW t \in Callers, WaitDoneRead(t) \/ WaitDoneWrite(t)
  PROVE  TransferInv'
<1>1. PICK d \in Dirs : frame[t].dir = d
  BY CallTypes
<1>2. pc \in [Callers -> Labels]
  BY DEF TypeOK, CallersTypeOK
<1>3. /\ pc[t] = "wait_done"
      /\ UNCHANGED <<mutex, status, filled, queue, draining, done, count, signals, signaled, lost>>
  BY DEF WaitDoneRead, WaitDoneWrite, WaitDone, WaitEvent, boardVars
<1>4. t \notin signaled
  BY DEF TransferInv
<1>5. PICK label : /\ pc' = [pc EXCEPT ![t] = label] /\ UNCHANGED frame
                   /\ \/ label = "wait_done"
                      \/ label = "count" /\ (status[d].completed \/ (status[d].flushed /\ d = "read"))
  <2>1. CASE UNCHANGED <<pc, frame>>
    BY <1>2, <1>3, <2>1
  <2>2. CASE WaitDoneRead(t) /\ ReadDone /\ Goto(t, "count") /\ UNCHANGED frame
    BY <1>1, <2>2 DEF WaitDoneRead, WaitDone, ReadDone, Goto
  <2>3. CASE WaitDoneWrite(t) /\ WriteDone /\ Goto(t, "count") /\ UNCHANGED frame
    BY <1>1, <2>3 DEF WaitDoneWrite, WaitDone, WriteDone, Goto
  <2> QED
    BY <1>4, <2>1, <2>2, <2>3 DEF WaitDoneRead, WaitDoneWrite, WaitDone, WaitEvent
<1>6. CallInv(t, d) /\ ListClosed(t)
  BY <1>1, <1>3 DEF TransferInv, ListClosed
<1>7. pc'[t] = label
  BY <1>2, <1>5
<1>8. OthersKept(t, d)
  BY <1>2, <1>3, <1>5 DEF OthersKept
<1>9. pc[t] \in CriticalLabels
  BY <1>3 DEF CriticalLabels
<1>10. OpenInv(t, d)' /\ ClosedInv(t, d)' /\ SlotsInv(t, d)'
  BY <1>3, <1>5, <1>6, <1>7
  DEF CallInv, OpenInv, ClosedInv, SlotsInv, ListOpen, ListClosed, SendLabels
<1>11. QuietInv(t, d)'
  <2>1. label = "count" => queue[d] = <<>> /\ ~draining[d] /\ (d = "write" => count[d] = frame[t].blocks)
    BY <1>5, <1>6, BoardTypes DEF CallInv, ClosedInv
  <2> QED
    BY <1>3, <1>5, <1>7, <2>1 DEF QuietInv
<1>12. BlocksInv(t, d)' /\ ResultInv(t, d)'
  BY <1>3, <1>5, <1>6, <1>7 DEF CallInv, BlocksInv, ResultInv, SendLabels, CriticalLabels
<1>13. CallInv(t, frame[t].dir)'
  BY <1>1, <1>5, <1>10, <1>11, <1>12 DEF CallInv
<1>14. \A i \in DOMAIN queue'[d] : queue'[d][i].owner = t /\ queue'[d][i].block > 0
  BY <1>1, <1>3, <1>9, OwnQueue
<1> QED
  BY <1>1, <1>3, <1>8, <1>9, <1>13, <1>14, InsideStep

\* The count is taken inside, and the board is left with nothing to do.
LEMMA CountTransfer ==
  ASSUME TypeOK, OneFeederPerQueue, HoldersFeed, signals = 0, TransferInv,
         NEW t \in Callers, NEW d \in Dirs, Count(t, d)
  PROVE  TransferInv'
<1>1. /\ pc \in [Callers -> Labels] /\ frame \in [Callers -> Frame]
      /\ mutex \in [Dirs -> Callers \cup {None}]
  BY DEF TypeOK, CallersTypeOK, DriverTypeOK
<1>2. /\ pc[t] = "count" /\ frame[t].dir = d
      /\ pc' = [pc EXCEPT ![t] = "unmap_sg_list"]
      /\ frame' = [frame EXCEPT ![t].byte_count = count[d]]
      /\ mutex' = [mutex EXCEPT ![d] = None]
      /\ UNCHANGED <<status, filled, queue, draining, done, count, signals, signaled, lost>>
  BY DEF Count, Goto, boardVars
<1>3. CallInv(t, d)
  BY <1>2 DEF TransferInv
<1>4. /\ pc'[t] = "unmap_sg_list" /\ frame'[t].byte_count = count[d] /\ frame'[t].dir = d
      /\ frame'[t].err = frame[t].err /\ frame'[t].blocks = frame[t].blocks
      /\ mutex'[d] = None /\ \A e \in Dirs \ {d} : mutex'[e] = mutex[e]
  BY <1>1, <1>2 DEF Frame
<1>5. OthersKept(t, d)
  BY <1>1, <1>2 DEF OthersKept
<1>6. /\ queue[d] = <<>> /\ ~draining[d] /\ count[d] = filled[t] /\ frame[t].err = "none"
      /\ d = "write" => count[d] = frame[t].blocks
  BY <1>2, <1>3 DEF CallInv, QuietInv, BlocksInv, CriticalLabels
<1>7. ResultInv(t, d)'
  BY <1>2, <1>4, <1>6 DEF ResultInv
<1>8. CallInv(t, frame[t].dir)'
  BY <1>4, <1>7 DEF CallInv, OpenInv, ClosedInv, QuietInv, BlocksInv, SlotsInv, ListOpen,
    ListClosed, SendLabels, CriticalLabels
<1>9. \A u \in Callers : CallInv(u, frame[u].dir)'
  BY <1>2, <1>5, <1>8, OtherCalls DEF TransferInv
<1>10. BoardInv'
  BY <1>2, <1>4, <1>6 DEF TransferInv, BoardInv, NoCommandLost, OwnCommands, QuietWhenFree
<1> QED
  BY <1>2, <1>9, <1>10 DEF TransferInv

\* The call returns.
LEMMA LeaveTransfer ==
  ASSUME TypeOK, OneFeederPerQueue, HoldersFeed, signals = 0, TransferInv,
         NEW t \in Callers, NEW d \in Dirs, Leave(t, d)
  PROVE  TransferInv'
<1>1. pc \in [Callers -> Labels] /\ frame \in [Callers -> Frame]
  BY DEF TypeOK, CallersTypeOK
<1>2. /\ pc[t] \notin CriticalLabels
      /\ pc' = [pc EXCEPT ![t] = "idle"] /\ frame' = [frame EXCEPT ![t] = NoFrame]
      /\ UNCHANGED <<mutex, status, filled, queue, draining, done, count, signals, lost>>
      /\ signaled' \subseteq signaled
  BY ExitLabelsAre DEF Leave, Goto, boardVars, CriticalLabels
<1>3. pc'[t] = "idle" /\ frame'[t].byte_count = 0
  BY <1>1, <1>2 DEF NoFrame, NewFrame
<1>4. CallInv(t, frame[t].dir)'
  BY <1>3 DEF CallInv, OpenInv, ClosedInv, QuietInv, BlocksInv, SlotsInv, ResultInv, ListOpen,
    ListClosed, SendLabels, CriticalLabels
<1>5. \A u \in Callers \ {t} : pc'[u] = pc[u] /\ frame'[u] = frame[u] /\ filled'[u] = filled[u]
  BY <1>1, <1>2
<1> QED
  BY <1>2, <1>4, <1>5, OutsideStep

\* When only the last command of a queue can end a list, discarding leaves nothing.
LEMMA NothingAfterTheEnd ==
  ASSUME NEW q \in Seq(Command), \A i \in DOMAIN q : q[i].last => i = Len(q)
  PROVE  AfterEndOfList(q) = <<>>
<1> DEFINE ends == {i \in DOMAIN q : q[i].last}
           first == CHOOSE i \in ends : \A j \in ends : i <= j
<1>1. CASE ends = {}
  BY <1>1 DEF AfterEndOfList
<1>2. CASE ends # {}
  <2>1. ends = {Len(q)} /\ Len(q) \in Nat
    BY <1>2
  <2>2. first = Len(q)
    BY <2>1
  <2> HIDE DEF first
  <2>3. SubSeq(q, 1 + first, Len(q)) = <<>>
    BY <2>1, <2>2, SubSeqProperties
  <2> QED
    BY <1>2, <2>3 DEF AfterEndOfList, first
<1> QED
  BY <1>1, <1>2

\* The call for which the board works: it is inside and has sent something.
LEMMA Served ==
  ASSUME TypeOK, OneFeederPerQueue, HoldersFeed, signals = 0, TransferInv,
         NEW d \in Dirs, queue[d] # <<>>
  PROVE  \E t \in Callers :
           /\ pc[t] \in CriticalLabels /\ frame[t].dir = d /\ mutex[d] = t
           /\ CallInv(t, d) /\ ~draining[d] /\ Head(queue[d]).owner = t
           /\ Head(queue[d]).block > 0
           /\ (ListOpen(t) \/ ListClosed(t))
           /\ pc[t] \notin {"clear", "slots", "count"}
<1>1. queue[d] \in Seq(Command) /\ 1 \in DOMAIN queue[d] /\ Head(queue[d]) = queue[d][1]
      /\ queue[d][1] \in Command
  BY BoardTypes
<1>2. PICK t \in Callers : mutex[d] = t /\ queue[d][1].owner = t /\ queue[d][1].block > 0
  BY <1>1 DEF TransferInv, BoardInv, OwnCommands, Command
<1>3. pc[t] \in CriticalLabels /\ frame[t].dir = d
  BY <1>2, DmaAssumption DEF HoldersFeed
<1>4. CallInv(t, d)
  BY <1>3 DEF TransferInv
<1>5. pc[t] \notin {"clear", "slots", "count"}
  BY <1>4 DEF CallInv, QuietInv
<1>6. ListOpen(t) \/ ListClosed(t)
  BY <1>3, <1>4, <1>5, CallTypes
  DEF CallInv, BlocksInv, ListOpen, ListClosed, CriticalLabels, SendLabels
<1>7. ~draining[d]
  BY <1>4, <1>6 DEF CallInv, OpenInv, ClosedInv
<1> QED
  BY <1>1, <1>2, <1>3, <1>4, <1>5, <1>6, <1>7

\* What carrying out a command does: one block moves, and of the rest of the
\* list nothing stays when the message has ended.
LEMMA MoveEffect ==
  ASSUME TypeOK, OneFeederPerQueue, HoldersFeed, signals = 0, TransferInv,
         NEW d \in Dirs, NEW ended \in BOOLEAN, Move(d, ended)
  PROVE  /\ queue[d] # <<>>
         /\ \A e \in Dirs \ {d} :
              /\ queue'[e] = queue[e] /\ draining'[e] = draining[e]
              /\ done'[e] = done[e] /\ count'[e] = count[e]
         /\ count'[d] = count[d] + 1
         /\ filled' = [filled EXCEPT ![Head(queue[d]).owner] = @ + 1]
         /\ \/ /\ ~(ended /\ ~Head(queue[d]).last)
               /\ queue'[d] = Tail(queue[d]) /\ ~draining'[d]
            \/ /\ ended /\ d = "read" /\ ~Head(queue[d]).last
               /\ queue'[d] = <<>>
               /\ draining'[d] <=> \A i \in DOMAIN Tail(queue[d]) : ~Tail(queue[d])[i].last
         /\ done'[d].completed <=> done[d].completed \/ (Head(queue[d]).last /\ ~ended)
         /\ done'[d].flushed <=> done[d].flushed \/ ended
         /\ ended => d = "read"
<1> DEFINE c == Head(queue[d])
           rest == Tail(queue[d])
           flush == ended /\ ~c.last
<1>1. queue[d] # <<>> /\ (ended => d = "read")
  BY DEF Move
<1>2. PICK t \in Callers :
        /\ CallInv(t, d) /\ (ListOpen(t) \/ ListClosed(t)) /\ c.owner = t /\ c.block > 0
  BY <1>1, Served
<1>3. /\ queue \in [Dirs -> Seq(Command)] /\ queue[d] \in Seq(Command) /\ draining \in [Dirs -> BOOLEAN]
      /\ done \in [Dirs -> [completed : BOOLEAN, flushed : BOOLEAN]]
      /\ count \in [Dirs -> Nat]
  BY DEF TypeOK, BoardTypeOK
<1>4. /\ rest \in Seq(Command) /\ Len(rest) = Len(queue[d]) - 1
      /\ \A i \in DOMAIN rest : rest[i] = queue[d][i + 1] /\ i + 1 \in DOMAIN queue[d]
      /\ Len(queue[d]) \in Nat
  BY <1>1, <1>3, HeadTailProperties
<1>5. \A i \in DOMAIN rest : rest[i].last => i = Len(rest)
  <2> SUFFICES ASSUME NEW i \in DOMAIN rest, rest[i].last PROVE i = Len(rest)
    OBVIOUS
  <2>1. queue[d][i + 1].last /\ i + 1 \in DOMAIN queue[d] /\ i \in Nat
    BY <1>4
  <2>2. i + 1 = Len(queue[d])
    BY <1>2, <2>1 DEF CallInv, OpenInv, ClosedInv
  <2> QED
    BY <1>4, <2>1, <2>2
<1>6. AfterEndOfList(rest) = <<>>
  BY <1>4, <1>5, NothingAfterTheEnd
<1>7. /\ queue' = [queue EXCEPT ![d] = IF flush THEN AfterEndOfList(rest) ELSE rest]
      /\ draining' = [draining EXCEPT ![d] = flush /\ \A i \in DOMAIN rest : ~rest[i].last]
      /\ done' = [done EXCEPT ![d] = [completed |-> @.completed \/ (c.last /\ ~ended),
                                      flushed   |-> @.flushed \/ ended]]
  BY DEF Move
<1>8. count' = [count EXCEPT ![d] = @ + 1] /\ filled' = [filled EXCEPT ![c.owner] = @ + 1]
  BY <1>2 DEF Move
<1> HIDE DEF c, rest, flush
<1>9. /\ queue'[d] = IF flush THEN <<>> ELSE rest
      /\ draining'[d] = (flush /\ \A i \in DOMAIN rest : ~rest[i].last)
      /\ \A e \in Dirs \ {d} : queue'[e] = queue[e] /\ draining'[e] = draining[e]
  BY <1>3, <1>6, <1>7
<1>10. /\ done'[d].completed = (done[d].completed \/ (c.last /\ ~ended))
       /\ done'[d].flushed = (done[d].flushed \/ ended)
       /\ \A e \in Dirs \ {d} : done'[e] = done[e]
  BY <1>3, <1>7
<1>11. count'[d] = count[d] + 1 /\ \A e \in Dirs \ {d} : count'[e] = count[e]
  BY <1>3, <1>8
<1>12. CASE flush
  BY <1>1, <1>8, <1>9, <1>10, <1>11, <1>12, Zenon DEF c, rest, flush
<1>13. CASE ~flush
  BY <1>1, <1>8, <1>9, <1>10, <1>11, <1>13, Zenon DEF c, rest, flush
<1> QED
  BY <1>12, <1>13

\* The board carries out a command of the call inside.
LEMMA MoveTransfer ==
  ASSUME TypeOK, TypeOK', OneFeederPerQueue, HoldersFeed, signals = 0, TransferInv,
         NEW d \in Dirs, NEW ended \in BOOLEAN, Move(d, ended)
  PROVE  TransferInv'
<1> DEFINE q == queue[d]
           rest == Tail(queue[d])
<1>1. q # <<>>
  BY MoveEffect
<1>2. PICK t \in Callers :
        /\ pc[t] \in CriticalLabels /\ frame[t].dir = d /\ mutex[d] = t
        /\ CallInv(t, d) /\ ~draining[d] /\ Head(q).owner = t
        /\ (ListOpen(t) \/ ListClosed(t))
        /\ pc[t] \notin {"clear", "slots", "count"}
  BY <1>1, Served
<1>3. UNCHANGED <<pc, frame, mutex, status, signals, signaled, lost>>
  BY DEF Move, callerVars
<1>4. /\ q \in Seq(Command) /\ Len(q) \in Nat /\ Len(q) > 0 /\ count[d] \in Nat
      /\ frame[t].sent \in Nat /\ frame[t].blocks \in Nat /\ filled[t] \in Nat
      /\ filled \in [Callers -> Nat] /\ done'[d].flushed \in BOOLEAN /\ done'[d].completed \in BOOLEAN
      /\ frame[t].slots_free \in Nat /\ status[d].level \in Nat
      /\ draining'[d] \in BOOLEAN
  BY <1>1, CallTypes, BoardTypes DEF TypeOK, BoardTypeOK
<1>5. /\ rest \in Seq(Command) /\ Len(rest) = Len(q) - 1 /\ Head(q) = q[1] /\ 1 \in DOMAIN q
      /\ \A i \in DOMAIN rest : rest[i] = q[i + 1] /\ i + 1 \in DOMAIN q /\ i \in Nat
  BY <1>1, <1>4, HeadTailProperties
<1>6. /\ \A e \in Dirs \ {d} :
           /\ queue'[e] = queue[e] /\ draining'[e] = draining[e]
           /\ done'[e] = done[e] /\ count'[e] = count[e]
      /\ count'[d] = count[d] + 1 /\ filled' = [filled EXCEPT ![t] = @ + 1]
      /\ done'[d].completed <=> done[d].completed \/ (q[1].last /\ ~ended)
      /\ done'[d].flushed <=> done[d].flushed \/ ended
      /\ ended => d = "read"
  BY <1>2, <1>5, MoveEffect
<1>7. \/ /\ ~(ended /\ ~q[1].last)
         /\ queue'[d] = rest /\ ~draining'[d]
      \/ /\ ended /\ d = "read" /\ ~q[1].last
         /\ queue'[d] = <<>>
         /\ draining'[d] <=> \A i \in DOMAIN rest : ~rest[i].last
  BY <1>5, MoveEffect
<1>8. filled'[t] = filled[t] + 1 /\ \A u \in Callers \ {t} : filled'[u] = filled[u]
  BY <1>4, <1>6
<1>9. OthersKept(t, d)
  BY <1>2, <1>3, <1>6, <1>8 DEF OthersKept
<1>10. \A i \in DOMAIN queue'[d] : queue'[d][i].owner = t /\ queue'[d][i].block > 0
  <2>1. \A i \in DOMAIN q : q[i].owner = t /\ q[i].block > 0
    BY <1>2, OwnQueue
  <2>2. CASE queue'[d] = rest
    BY <1>5, <2>1, <2>2
  <2>3. CASE queue'[d] = <<>>
    BY <2>3
  <2> QED
    BY <1>7, <2>2, <2>3
<1>11. /\ Len(queue'[d]) \in Nat /\ Len(queue'[d]) <= Len(q) - 1
       /\ d = "write" => Len(queue'[d]) = Len(q) - 1
  <2>1. queue'[d] = rest \/ (queue'[d] = <<>> /\ d = "read")
    BY <1>7, Zenon
  <2>2. CASE queue'[d] = rest
    BY <1>4, <1>5, <2>2
  <2>3. CASE queue'[d] = <<>> /\ d = "read"
    BY <1>4, <2>3
  <2> QED
    BY <2>1, <2>2, <2>3
<1>12. count'[d] = count[d] + 1 /\ frame'[t] = frame[t]
  BY <1>3, <1>6
<1>13. QuietInv(t, d)' /\ ResultInv(t, d)' /\ BlocksInv(t, d)' /\ SlotsInv(t, d)'
  <2>1. QuietInv(t, d)'
    BY <1>2, <1>3 DEF QuietInv
  <2>2. ResultInv(t, d)'
    BY <1>2, <1>3 DEF CallInv, ResultInv, CriticalLabels
  <2>3. BlocksInv(t, d)'
    BY <1>2, <1>3, <1>4, <1>6, <1>8 DEF CallInv, BlocksInv, CriticalLabels
  <2>4. SlotsInv(t, d)'
    <3>1. SlotsInv(t, d) /\ Slots \in Nat
      BY <1>2, DmaAssumption DEF CallInv
    <3> QED
      BY <1>3, <1>4, <1>11, <3>1 DEF SlotsInv
  <2> QED
    BY <2>1, <2>2, <2>3, <2>4
<1>14. OpenInv(t, d)'
  <2> SUFFICES ASSUME ListOpen(t)' PROVE OpenInv(t, d)'
    BY DEF OpenInv
  <2>1. ListOpen(t)
    BY <1>3 DEF ListOpen
  <2>2. /\ \A i \in DOMAIN q : ~q[i].last
        /\ ~done[d].completed /\ ~status[d].completed /\ ~done[d].flushed /\ ~status[d].flushed
        /\ count[d] + Len(q) <= frame[t].sent
        /\ d = "write" => count[d] + Len(q) = frame[t].sent
    BY <1>2, <2>1 DEF CallInv, OpenInv
  <2>3. \A i \in DOMAIN rest : ~rest[i].last
    BY <1>5, <2>2
  <2>4. /\ count'[d] + Len(queue'[d]) <= frame'[t].sent
        /\ d = "write" => count'[d] + Len(queue'[d]) = frame'[t].sent
    <3> DEFINE l == Len(queue'[d])
               n == Len(q)
               k == count[d]
    <3>1. k + n <= frame[t].sent /\ (d = "write" => k + n = frame[t].sent)
      BY <2>2
    <3>2. l <= n - 1 /\ (d = "write" => l = n - 1) /\ l \in Nat /\ n \in Nat /\ k \in Nat
      BY <1>4, <1>11
    <3>3. count'[d] = k + 1 /\ frame'[t].sent = frame[t].sent /\ frame[t].sent \in Nat
      BY <1>4, <1>12
    <3> HIDE DEF l, n, k
    <3>4. count'[d] + l <= frame'[t].sent /\ (d = "write" => count'[d] + l = frame'[t].sent)
      BY <3>1, <3>2, <3>3
    <3> QED
      BY <3>4 DEF l
  <2>5. ~q[1].last
    BY <1>5, <2>2
  <2>6. CASE ended
    BY <1>3, <1>6, <1>7, <2>2, <2>3, <2>4, <2>5, <2>6 DEF OpenInv
  <2>7. CASE ~ended
    BY <1>3, <1>6, <1>7, <2>2, <2>3, <2>4, <2>5, <2>7 DEF OpenInv
  <2> QED
    BY <2>6, <2>7
<1>15. ClosedInv(t, d)'
  <2> SUFFICES ASSUME ListClosed(t)' PROVE ClosedInv(t, d)'
    BY DEF ClosedInv
  <2>1. ListClosed(t)
    BY <1>3 DEF ListClosed
  <2>2. /\ \A i \in DOMAIN q : q[i].last <=> i = Len(q)
        /\ ~done[d].completed /\ ~done[d].flushed /\ ~status[d].completed /\ ~status[d].flushed
        /\ count[d] + Len(q) <= frame[t].blocks
        /\ d = "write" => count[d] + Len(q) = frame[t].blocks
    BY <1>1, <1>2, <2>1 DEF CallInv, ClosedInv
  <2>3. \A i \in DOMAIN rest : rest[i].last <=> i = Len(rest)
    <3> SUFFICES ASSUME NEW i \in DOMAIN rest PROVE rest[i].last <=> i = Len(rest)
      OBVIOUS
    <3>1. rest[i] = q[i + 1] /\ i + 1 \in DOMAIN q /\ i \in Nat
      BY <1>5
    <3>2. i + 1 = Len(q) <=> i = Len(rest)
      <4>1. Len(rest) = Len(q) - 1 /\ Len(q) \in Nat /\ i \in Nat
        BY <1>4, <1>5, <3>1
      <4> HIDE DEF q, rest
      <4> QED
        BY <4>1
    <3>3. q[i + 1].last <=> i + 1 = Len(q)
      BY <2>2, <3>1
    <3> QED
      BY <3>1, <3>2, <3>3, Zenon
  <2>4. /\ count'[d] + Len(queue'[d]) <= frame'[t].blocks
        /\ d = "write" => count'[d] + Len(queue'[d]) = frame'[t].blocks
    <3> DEFINE l == Len(queue'[d])
               n == Len(q)
               k == count[d]
    <3>1. k + n <= frame[t].blocks /\ (d = "write" => k + n = frame[t].blocks)
      BY <2>2
    <3>2. l <= n - 1 /\ (d = "write" => l = n - 1) /\ l \in Nat /\ n \in Nat /\ k \in Nat
      BY <1>4, <1>11
    <3>3. count'[d] = k + 1 /\ frame'[t].blocks = frame[t].blocks /\ frame[t].blocks \in Nat
      BY <1>4, <1>12
    <3> HIDE DEF l, n, k
    <3>4. count'[d] + l <= frame'[t].blocks /\ (d = "write" => count'[d] + l = frame'[t].blocks)
      BY <3>1, <3>2, <3>3
    <3> QED
      BY <3>4 DEF l
  <2>5. q[1].last <=> Len(q) = 1
    BY <1>5, <2>2
  <2>6. CASE q[1].last
    <3>1. rest = <<>>
      BY <1>5, <2>5, <2>6
    <3>2. queue'[d] = <<>> /\ ~draining'[d]
      BY <1>7, <2>6, <3>1
    <3>3. d = "write" => ~done'[d].flushed
      BY <1>6, <2>2
    <3> QED
      BY <1>3, <2>2, <2>4, <3>2, <3>3 DEF ClosedInv
  <2>7. CASE ~q[1].last
    <3>1. Len(rest) \in DOMAIN rest /\ rest[Len(rest)].last
      <4>1. Len(q) # 1
        BY <2>5, <2>7, Zenon
      <4>2. Len(rest) \in DOMAIN rest
        <5>1. Len(q) \in Nat /\ Len(q) > 0 /\ Len(rest) = Len(q) - 1 /\ rest \in Seq(Command)
          BY <1>4, <1>5
        <5>2. Len(rest) \in Nat /\ DOMAIN rest = 1 .. Len(rest)
          BY <1>5, LenProperties
        <5> HIDE DEF rest, q
        <5>3. Len(rest) \in 1 .. Len(rest)
          BY <4>1, <5>1, <5>2
        <5> QED
          BY <5>2, <5>3
      <4> QED
        BY <2>3, <4>2, Zenon
    <3>2. ~draining'[d]
      BY <1>7, <3>1
    <3>3. CASE ended
      BY <1>3, <1>6, <1>7, <2>2, <2>4, <2>7, <3>2, <3>3 DEF ClosedInv
    <3>4. CASE ~ended
      BY <1>3, <1>6, <1>7, <2>2, <2>3, <2>4, <2>7, <3>2, <3>4 DEF ClosedInv
    <3> QED
      BY <3>3, <3>4
  <2> QED
    BY <2>6, <2>7
<1>16. CallInv(t, frame[t].dir)'
  BY <1>2, <1>3, <1>13, <1>14, <1>15 DEF CallInv
<1> QED
  BY <1>2, <1>3, <1>9, <1>10, <1>16, InsideStep

\* A step that changes no mutex and leaves no caller's critical section.
LEMMA HolderKept ==
  ASSUME TypeOK, HoldersFeed, NEW t \in Callers, UNCHANGED mutex,
         \A u \in Callers \ {t} : pc'[u] = pc[u] /\ frame'[u] = frame[u],
         pc[t] \in CriticalLabels => pc'[t] \in CriticalLabels /\ frame'[t].dir = frame[t].dir
  PROVE  HoldersFeed'
BY DmaAssumption DEF HoldersFeed, TypeOK, DriverTypeOK

\* A caller that leaves its critical section gives its mutex back.
LEMMA HolderLeaves ==
  ASSUME TypeOK, OneFeederPerQueue, HoldersFeed, NEW t \in Callers, NEW d \in Dirs,
         pc[t] \in CriticalLabels, frame[t].dir = d, mutex' = [mutex EXCEPT ![d] = None],
         \A u \in Callers \ {t} : pc'[u] = pc[u] /\ frame'[u] = frame[u]
  PROVE  HoldersFeed'
<1>1. mutex \in [Dirs -> Callers \cup {None}]
  BY DEF TypeOK, DriverTypeOK
<1> SUFFICES ASSUME NEW e \in Dirs, mutex'[e] # None
             PROVE  pc'[mutex'[e]] \in CriticalLabels /\ frame'[mutex'[e]].dir = e
  BY DEF HoldersFeed
<1>2. e # d /\ mutex'[e] = mutex[e] /\ mutex[e] \in Callers
  BY <1>1
<1>3. mutex[e] # t
  BY <1>2 DEF HoldersFeed
<1> QED
  BY <1>2, <1>3 DEF HoldersFeed

\* Who holds a mutex is in the critical section it protects.
LEMMA HoldersStep == TypeOK /\ OneFeederPerQueue /\ HoldersFeed /\ [Next]_vars => HoldersFeed'
<1> SUFFICES ASSUME TypeOK, OneFeederPerQueue, HoldersFeed, [Next]_vars PROVE HoldersFeed'
  OBVIOUS
<1>1. /\ pc \in [Callers -> Labels] /\ frame \in [Callers -> Frame]
      /\ mutex \in [Dirs -> Callers \cup {None}]
  BY DEF TypeOK, CallersTypeOK, DriverTypeOK
<1>2. ASSUME NEW t \in Callers, PrepareRead(t) \/ PrepareWrite(t)
      PROVE  HoldersFeed'
  <2>1. PICK d \in Dirs : Prepare(t, d)
    BY <1>2 DEF PrepareRead, PrepareWrite, Dirs
  <2>2. \E label : Goto(t, label) /\ \E f : frame' = [frame EXCEPT ![t] = f]
    BY <2>1 DEF Prepare, Prepared, PinFails, TableFails, MapSgFails, RangeFails, Unprepared
  <2>3. UNCHANGED mutex /\ pc[t] \notin CriticalLabels
    BY <2>1 DEF Prepare, CriticalLabels
  <2> QED
    BY <1>1, <2>2, <2>3, HolderKept DEF Goto
<1>3. ASSUME NEW t \in Callers, NEW d \in Dirs, TryLock(t, d)
      PROVE  HoldersFeed'
  <2>1. pc[t] = "lock" /\ frame[t].dir = d
    BY <1>3 DEF TryLock
  <2>2. CASE UNCHANGED mutex
    BY <1>1, <1>3, <2>1, <2>2, HolderKept DEF TryLock, Goto, CriticalLabels
  <2>3. CASE mutex' = [mutex EXCEPT ![d] = t] /\ Goto(t, "clear") /\ UNCHANGED frame
    <3>1. \A e \in Dirs \ {d} : mutex'[e] = mutex[e] /\ mutex[e] # t
      BY <1>1, <2>1, <2>3, DmaAssumption DEF HoldersFeed, CriticalLabels
    <3>2. pc'[t] = "clear" /\ mutex'[d] = t /\ \A u \in Callers \ {t} : pc'[u] = pc[u]
      BY <1>1, <2>3 DEF Goto
    <3> QED
      BY <1>1, <2>1, <2>3, <3>1, <3>2 DEF HoldersFeed, CriticalLabels
  <2> QED
    BY <1>3, <2>2, <2>3 DEF TryLock
<1>4. ASSUME NEW t \in Callers, EitherCall(t)
      PROVE  HoldersFeed'
  BY <1>1, <1>4, HolderKept
  DEF EitherCall, ClearDmaStatus, FirstSlots, Refresh, NextSlots, Goto, CriticalLabels, Frame
<1>5. ASSUME NEW t \in Callers, NEW d \in Dirs, Send(t, d)
      PROVE  HoldersFeed'
  BY <1>1, <1>5, HolderKept DEF Send, Goto, CriticalLabels, Frame
<1>6. ASSUME NEW t \in Callers, NEW d \in Dirs, NEW next \in {"flush_test", "reslot"},
             WaitSlot(t, d, next)
      PROVE  HoldersFeed'
  <2>1. CASE UNCHANGED mutex /\ UNCHANGED frame /\ (UNCHANGED pc \/ Goto(t, next))
    BY <1>1, <1>6, <2>1, HolderKept DEF WaitSlot, Goto, CriticalLabels, Frame
  <2>2. CASE SlotWaitInterrupted(t, d)
    BY <1>1, <1>6, <2>2, HolderLeaves DEF WaitSlot, SlotWaitInterrupted, Goto, CriticalLabels
  <2> QED
    BY <1>6, <2>1, <2>2 DEF WaitSlot, WaitEvent
<1>7. ASSUME NEW t \in Callers, FlushTest(t)
      PROVE  HoldersFeed'
  BY <1>1, <1>7, HolderKept DEF FlushTest, Goto, CriticalLabels
<1>8. ASSUME NEW t \in Callers, NEW d \in Dirs, NEW condition, WaitDone(t, d, condition)
      PROVE  HoldersFeed'
  BY <1>1, <1>8, HolderKept DEF WaitDone, WaitEvent, Goto, CriticalLabels, Frame
<1>9. ASSUME NEW t \in Callers, NEW d \in Dirs, Count(t, d)
      PROVE  HoldersFeed'
  BY <1>1, <1>9, HolderLeaves DEF Count, Goto, CriticalLabels
<1>10. ASSUME NEW t \in Callers, NEW d \in Dirs, Leave(t, d)
       PROVE  HoldersFeed'
  BY <1>1, <1>10, ExitLabelsAre, HolderKept DEF Leave, Goto, CriticalLabels
<1>11. CASE UNCHANGED <<pc, frame, mutex>>
  BY <1>11 DEF HoldersFeed
<1>12. ASSUME NEW t \in Callers, ReadCall(t) \/ WriteCall(t)
       PROVE  HoldersFeed'
  BY <1>12, <1>3, <1>5, <1>6, <1>7, <1>8, <1>9, <1>10
  DEF ReadCall, WriteCall, TryLockRead, SendRead, WaitSlotRead, WaitDoneRead, CountRead, LeaveRead,
      TryLockWrite, SendWrite, WaitSlotWrite, WaitDoneWrite, CountWrite, LeaveWrite, Dirs
<1>13. ASSUME NEW t \in Callers, Signal(t)
       PROVE  UNCHANGED <<pc, frame, mutex>>
  BY <1>13 DEF Signal
<1>14. ASSUME NEW d \in Dirs, BoardStep(d)
       PROVE  UNCHANGED <<pc, frame, mutex>>
  BY <1>14 DEF BoardStep, Move, callerVars
<1>15. ASSUME IntrUpdate \/ IntrWake \/ UNCHANGED vars
       PROVE  UNCHANGED <<pc, frame, mutex>>
  BY <1>15 DEF IntrUpdate, IntrWake, vars, callerVars
<1> QED
  BY <1>2, <1>4, <1>11, <1>12, <1>13, <1>14, <1>15 DEF Next, CallerStep

\* The interrupt handler reads the status afresh, which tells every call no
\* more than the board knows.
LEMMA HandlerTransfer ==
  ASSUME TypeOK, TransferInv, signals = 0,
         UNCHANGED <<pc, frame, signaled, signals, mutex, queue, draining, done, count, filled, lost>>,
         status' = status \/ status' = StatusRegister
  PROVE  TransferInv'
<1>1. \A u \in Callers : CallInv(u, frame[u].dir)'
  <2> SUFFICES ASSUME NEW u \in Callers PROVE CallInv(u, frame[u].dir)'
    OBVIOUS
  <2> QED
    BY CallKept DEF TransferInv
<1>2. BoardInv'
  BY DEF TransferInv, BoardInv, NoCommandLost, OwnCommands, QuietWhenFree
<1> QED
  BY <1>1, <1>2 DEF TransferInv

\* Every step keeps it.
LEMMA TransferStep ==
  TypeOK /\ TypeOK' /\ OneFeederPerQueue /\ HoldersFeed /\ TransferInv /\ [Next]_vars => TransferInv'
<1> SUFFICES ASSUME TypeOK, TypeOK', OneFeederPerQueue, HoldersFeed, TransferInv, [Next]_vars
             PROVE  TransferInv'
  OBVIOUS
<1>1. CASE signals # 0
  <2>1. signals \in Nat
    BY DmaAssumption DEF TypeOK, CallersTypeOK
  <2>2. signals' = signals \/ signals' = signals + 1
    <3>1. ASSUME NEW t \in Callers, PrepareRead(t) \/ PrepareWrite(t) PROVE signals' = signals
      BY <3>1 DEF PrepareRead, PrepareWrite, Prepare
    <3>2. ASSUME NEW t \in Callers, CallerStep(t) PROVE signals' = signals
      BY <3>2
      DEF CallerStep, ReadCall, WriteCall, EitherCall, ClearDmaStatus, FirstSlots, Refresh, NextSlots,
          TryLockRead, SendRead, WaitSlotRead, WaitDoneRead, CountRead, LeaveRead, FlushTest,
          TryLockWrite, SendWrite, WaitSlotWrite, WaitDoneWrite, CountWrite, LeaveWrite,
          TryLock, Send, WaitSlot, WaitDone, Count, Leave
    <3> QED
      BY <3>1, <3>2
      DEF Next, Signal, IntrUpdate, IntrWake, BoardStep, Move, vars, callerVars
  <2> QED
    BY <1>1, <2>1, <2>2 DEF TransferInv
<1>2. CASE signals = 0
  <2>1. ASSUME NEW t \in Callers, PrepareRead(t) \/ PrepareWrite(t) PROVE TransferInv'
    BY <1>2, <2>1, PrepareTransfer DEF PrepareRead, PrepareWrite, Dirs
  <2>2. ASSUME NEW t \in Callers, EitherCall(t) PROVE TransferInv'
    BY <1>2, <2>2, ClearTransfer, SlotsTransfer, RefreshTransfer DEF EitherCall
  <2>3. ASSUME NEW t \in Callers, ReadCall(t) \/ WriteCall(t) PROVE TransferInv'
    BY <1>2, <2>3, TryLockTransfer, SendTransfer, WaitSlotTransfer, FlushTransfer, WaitDoneTransfer,
       CountTransfer, LeaveTransfer
    DEF ReadCall, WriteCall, TryLockRead, SendRead, CountRead, LeaveRead,
        TryLockWrite, SendWrite, CountWrite, LeaveWrite, Dirs
  <2>4. ASSUME NEW t \in Callers, Signal(t) PROVE TransferInv'
    BY <1>2, <2>4 DEF Signal, TransferInv
  <2>5. CASE IntrUpdate \/ IntrWake \/ UNCHANGED vars
    BY <1>2, <2>5, HandlerTransfer
    DEF IntrUpdate, IntrWake, UpdateDmaBufferStatus, vars, callerVars, boardVars
  <2>6. ASSUME NEW d \in Dirs, BoardStep(d) PROVE TransferInv'
    BY <1>2, <2>6, MoveTransfer DEF BoardStep
  <2> QED
    BY <2>1, <2>2, <2>3, <2>4, <2>5, <2>6 DEF Next, CallerStep
<1> QED
  BY <1>1, <1>2

\* At the start nobody is inside and nothing is on the board.
LEMMA TransferInit == Init => HoldersFeed /\ TransferInv
<1> SUFFICES ASSUME Init PROVE HoldersFeed /\ TransferInv
  OBVIOUS
<1>1. \A t \in Callers : pc[t] = "idle" /\ frame[t].byte_count = 0
  BY DEF Init, NoFrame, NewFrame
<1>2. \A t \in Callers : CallInv(t, frame[t].dir)
  BY <1>1 DEF CallInv, OpenInv, ClosedInv, QuietInv, BlocksInv, SlotsInv, ResultInv, ListOpen,
              ListClosed, SendLabels, CriticalLabels
<1>3. HoldersFeed /\ BoardInv /\ signaled = {}
  BY DEF Init, HoldersFeed, BoardInv, NoCommandLost, OwnCommands, QuietWhenFree
<1> QED
  BY <1>2, <1>3 DEF TransferInv

\* The mutexes, the position of every call and what the board has of its list
\* agree in every reachable state in which no signal has been sent yet.
THEOREM TransferCorrect == Spec => [](HoldersFeed /\ TransferInv)
<1>1. Init => HoldersFeed /\ TransferInv
  BY TransferInit
<1>2. TypeOK /\ OneFeederPerQueue /\ HoldersFeed /\ TransferInv /\ TypeOK' /\ [Next]_vars
        => HoldersFeed' /\ TransferInv'
  BY HoldersStep, TransferStep
<1> QED
  BY <1>1, <1>2, TypeCorrect, MutualExclusion, PTL DEF Spec

\* What the invariant means for the properties.
LEMMA TransferMeans ==
  ASSUME TypeOK, OneFeederPerQueue, HoldersFeed, signals = 0, TransferInv
  PROVE  NoCommandLost /\ NoDmaAfterUnmap /\ CountIsExact
<1>1. NoCommandLost /\ OwnCommands /\ \A t \in Callers : ResultInv(t, frame[t].dir)
  BY DEF TransferInv, BoardInv, CallInv
<1>2. NoDmaAfterUnmap
  <2> SUFFICES ASSUME NEW t \in Callers, NEW d \in Dirs, pc[t] \in ExitLabels,
                      NEW i \in DOMAIN queue[d], queue[d][i].owner = t
               PROVE  FALSE
    BY DEF NoDmaAfterUnmap
  <2>1. mutex[d] = t /\ pc[t] \notin CriticalLabels
    BY <1>1, ExitLabelsAre DEF OwnCommands, CriticalLabels
  <2> QED
    BY <2>1, DmaAssumption DEF HoldersFeed
<1> QED
  BY <1>1, <1>2 DEF CountIsExact, ResultInv

\* As long as no signal has been sent, for every number of callers, blocks and
\* slots: slots_free never promises what the board does not have, no command is
\* left behind when the pages are unmapped, and the count that is returned is
\* that of this very call.
THEOREM TransfersAreSafe ==
  Spec => [](signals = 0 => NoCommandLost /\ NoDmaAfterUnmap /\ CountIsExact)
<1>1. TypeOK /\ OneFeederPerQueue /\ HoldersFeed /\ TransferInv
        => (signals = 0 => NoCommandLost /\ NoDmaAfterUnmap /\ CountIsExact)
  BY TransferMeans
<1> QED
  BY <1>1, TypeCorrect, MutualExclusion, TransferCorrect, PTL

\* Without signals there are none.
LEMMA NoSignals ==
  ASSUME MaxSignals = 0
  PROVE  Spec => [](signals = 0)
<1>1. TypeOK => signals = 0
  BY DEF TypeOK, CallersTypeOK
<1> QED
  BY <1>1, TypeCorrect, PTL

\* The driver never writes to a full queue, though slots_free comes from a level
\* that the interrupt handler and the other direction update at any time.
THEOREM NoCommandIsLost ==
  ASSUME MaxSignals = 0
  PROVE  Spec => []NoCommandLost
BY TransfersAreSafe, NoSignals, PTL

\* A call that no signal cuts short leaves none of its commands on the board;
\* run BnocDmaUnmap shows that the assumption is needed.
THEOREM NothingMovesAfterUnmap ==
  ASSUME MaxSignals = 0
  PROVE  Spec => []NoDmaAfterUnmap
BY TransfersAreSafe, NoSignals, PTL

-----------------------------------------------------------------------------
(***************************************************************************)
(* The refinement: seen through Promise, each step of a transfer is a step *)
(* of DmaTransfer or leaves its variables as they are.                     *)
(***************************************************************************)

\* The stages by name.
LEMMA Stages ==
  /\ StageOf("idle") = "out" /\ StageOf("lock") = "asking"
  /\ \A label \in CriticalLabels : StageOf(label) = "inside"
  /\ \A label \in ExitLabels : StageOf(label) = "leaving"
BY ExitLabelsAre DEF StageOf, CriticalLabels

\* A call is inside exactly in the critical section.
LEMMA LabelOfStage ==
  ASSUME NEW label \in Labels
  PROVE  StageOf(label) = "inside" <=> label \in CriticalLabels
BY Stages, ExitLabelsAre DEF Labels, CriticalLabels

\* A step of one call, seen through the mapping.
LEMMA OneCallMoves ==
  ASSUME NEW t \in Callers,
         \A u \in Callers \ {t} : pc'[u] = pc[u] /\ frame'[u] = frame[u] /\ filled'[u] = filled[u]
  PROVE  /\ [u \in Callers |-> StageOf(pc[u])]' =
              [[u \in Callers |-> StageOf(pc[u])] EXCEPT ![t] = StageOf(pc'[t])]
         /\ [u \in Callers |-> frame[u].dir]' =
              [[u \in Callers |-> frame[u].dir] EXCEPT ![t] = frame'[t].dir]
         /\ [u \in Callers |-> frame[u].blocks]' =
              [[u \in Callers |-> frame[u].blocks] EXCEPT ![t] = frame'[t].blocks]
         /\ [u \in Callers |-> Moved(u)]' =
              [[u \in Callers |-> Moved(u)] EXCEPT ![t] = IF pc'[t] = "idle" THEN 0 ELSE filled'[t]]
         /\ [u \in Callers |-> frame[u].byte_count]' =
              [[u \in Callers |-> frame[u].byte_count] EXCEPT ![t] = frame'[t].byte_count]
BY DEF Moved

\* A step inside is none for the caller.
LEMMA PromiseStutters ==
  ASSUME NEW t \in Callers,
         \A u \in Callers \ {t} : pc'[u] = pc[u] /\ frame'[u] = frame[u] /\ filled'[u] = filled[u],
         pc'[t] = pc[t] \/ (pc[t] \in CriticalLabels /\ pc'[t] \in CriticalLabels),
         frame'[t].dir = frame[t].dir, frame'[t].blocks = frame[t].blocks,
         frame'[t].byte_count = frame[t].byte_count, filled'[t] = filled[t]
  PROVE  UNCHANGED Promise!vars
<1>1. \A u \in Callers : StageOf(pc[u])' = StageOf(pc[u]) /\ Moved(u)' = Moved(u)
  BY Stages DEF Moved, CriticalLabels
<1>2. \A u \in Callers : /\ frame'[u].dir = frame[u].dir /\ frame'[u].blocks = frame[u].blocks
                         /\ frame'[u].byte_count = frame[u].byte_count
  OBVIOUS
<1> QED
  BY <1>1, <1>2 DEF Promise!vars

\* The call begins, or fails before it asks for the board.
LEMMA PromiseBegin ==
  ASSUME TypeOK, TransferInv, signals = 0, NEW t \in Callers, NEW d \in Dirs, Prepare(t, d)
  PROVE  Promise!Begin(t)
<1>1. /\ pc \in [Callers -> Labels] /\ frame \in [Callers -> Frame]
      /\ filled \in [Callers -> Nat]
  BY DEF TypeOK, CallersTypeOK, BoardTypeOK
<1>2. PICK label, n, m, error :
        /\ pc' = [pc EXCEPT ![t] = label]
        /\ frame' = [frame EXCEPT ![t] = NewFrame(d, n, m, error)]
        /\ n \in 0 .. MaxBlocks
        /\ StageOf(label) = IF n > 0 THEN "asking" ELSE "leaving"
  <2>1. CASE \E n \in Sizes :
               \E m \in (IF Coalesces THEN 1..n ELSE {n}) : Prepared(t, d, n, m)
    <3>1. PICK n \in 1..MaxBlocks : \E m : Prepared(t, d, n, m)
      BY <2>1, DmaAssumption
    <3>2. n \in 0..MaxBlocks /\ n > 0
      BY DmaAssumption
    <3> QED
      BY <3>1, <3>2, Stages DEF Prepared, Goto
  <2>2. CASE PinFails(t, d) \/ TableFails(t, d) \/ MapSgFails(t, d) \/ RangeFails(t, d)
    <3>1. PICK label \in ExitLabels :
            \E m, error : Goto(t, label) /\ frame' = [frame EXCEPT ![t] = NewFrame(d, 0, m, error)]
      BY <2>2, ExitLabelsAre DEF PinFails, TableFails, MapSgFails, RangeFails, Unprepared
    <3>2. 0 \in 0..MaxBlocks /\ ~(0 > 0)
      BY DmaAssumption
    <3> QED
      BY <3>1, <3>2, Stages DEF Goto
  <2> QED
    BY <2>1, <2>2 DEF Prepare
<1>3. /\ pc'[t] = label /\ frame'[t] = NewFrame(d, n, m, error) /\ filled'[t] = 0
      /\ \A u \in Callers \ {t} : pc'[u] = pc[u] /\ frame'[u] = frame[u] /\ filled'[u] = filled[u]
  BY <1>1, <1>2 DEF Prepare
<1>4. /\ frame'[t].dir = d /\ frame'[t].blocks = n /\ frame'[t].byte_count = 0
  BY <1>3 DEF NewFrame
<1>5. pc[t] = "idle" /\ StageOf(pc[t]) = "out" /\ Moved(t) = 0 /\ frame[t].byte_count = 0
  BY Stages DEF Prepare, Moved, TransferInv, CallInv, ResultInv
<1>6. d \in {"read", "write"}
  BY DEF Dirs
<1>7. UNCHANGED <<[u \in Callers |-> Moved(u)], [u \in Callers |-> frame[u].byte_count]>>
  BY <1>3, <1>4, <1>5 DEF Moved
<1>8. /\ [u \in Callers |-> frame[u].dir]' = [[u \in Callers |-> frame[u].dir] EXCEPT ![t] = d]
      /\ [u \in Callers |-> frame[u].blocks]' = [[u \in Callers |-> frame[u].blocks] EXCEPT ![t] = n]
      /\ [u \in Callers |-> StageOf(pc[u])]' =
           [[u \in Callers |-> StageOf(pc[u])] EXCEPT ![t] = IF n > 0 THEN "asking" ELSE "leaving"]
  <2>1. StageOf(pc'[t]) = IF n > 0 THEN "asking" ELSE "leaving"
    BY <1>2, <1>3, Zenon
  <2> QED
    BY <1>3, <1>4, <2>1, OneCallMoves
<1>9. [u \in Callers |-> StageOf(pc[u])][t] = "out"
  BY <1>5
<1> QED
  BY <1>2, <1>6, <1>7, <1>8, <1>9, Zenon DEF Promise!Begin

\* It gets the board, or finds it taken.
LEMMA PromiseAsk ==
  ASSUME TypeOK, OneFeederPerQueue, HoldersFeed, NEW t \in Callers, NEW d \in Dirs, TryLock(t, d)
  PROVE  Promise!Enter(t) \/ Promise!Busy(t)
<1>1. /\ pc \in [Callers -> Labels] /\ frame \in [Callers -> Frame]
      /\ mutex \in [Dirs -> Callers \cup {None}]
  BY DEF TypeOK, CallersTypeOK, DriverTypeOK
<1>2. pc[t] = "lock" /\ frame[t].dir = d /\ UNCHANGED filled /\ StageOf(pc[t]) = "asking"
  BY Stages DEF TryLock, boardVars
<1>3. CASE mutex[d] = None
  <2>1. pc' = [pc EXCEPT ![t] = "clear"] /\ frame' = frame
    BY <1>3 DEF TryLock, TryLockSucceeds, Goto
  <2>2. \A u \in Callers : ~(StageOf(pc[u]) = "inside" /\ frame[u].dir = d)
    <3> SUFFICES ASSUME NEW u \in Callers, StageOf(pc[u]) = "inside", frame[u].dir = d PROVE FALSE
      OBVIOUS
    <3>1. pc[u] \in CriticalLabels
      BY <1>1, LabelOfStage
    <3> QED
      BY <1>3, <3>1, DmaAssumption DEF OneFeederPerQueue
  <2>3. StageOf(pc'[t]) = "inside"
    BY <1>1, <2>1, Stages DEF CriticalLabels
  <2>4. [u \in Callers |-> StageOf(pc[u])]' = [[u \in Callers |-> StageOf(pc[u])] EXCEPT ![t] = "inside"]
    BY <1>1, <2>1, <2>3
  <2>5. [u \in Callers |-> Moved(u)]' = [u \in Callers |-> Moved(u)]
    BY <1>1, <1>2, <2>1 DEF Moved
  <2> QED
    BY <1>2, <2>1, <2>2, <2>4, <2>5 DEF Promise!Enter
<1>4. CASE mutex[d] # None
  <2>1. pc' = [pc EXCEPT ![t] = "unmap_sg_list"] /\ frame' = [frame EXCEPT ![t].err = "EBUSY"]
    BY <1>4 DEF TryLock, TryLockSucceeds, Goto
  <2>2. mutex[d] \in Callers /\ StageOf(pc[mutex[d]]) = "inside" /\ frame[mutex[d]].dir = d
    BY <1>1, <1>4, Stages DEF HoldersFeed
  <2>3. StageOf("unmap_sg_list") = "leaving"
    BY Stages, ExitLabelsAre
  <2>4. [u \in Callers |-> StageOf(pc[u])]' = [[u \in Callers |-> StageOf(pc[u])] EXCEPT ![t] = "leaving"]
    BY <1>1, <2>1, <2>3
  <2>5. [u \in Callers |-> Moved(u)]' = [u \in Callers |-> Moved(u)]
    BY <1>1, <1>2, <2>1 DEF Moved
  <2>6. \A u \in Callers : /\ frame'[u].dir = frame[u].dir /\ frame'[u].blocks = frame[u].blocks
                           /\ frame'[u].byte_count = frame[u].byte_count
    BY <1>1, <2>1 DEF Frame
  <2> QED
    BY <1>2, <2>2, <2>4, <2>5, <2>6 DEF Promise!Busy
<1> QED
  BY <1>3, <1>4

\* It leaves the board with its count.
LEMMA PromiseComplete ==
  ASSUME TypeOK, TransferInv, signals = 0, NEW t \in Callers, NEW d \in Dirs, Count(t, d)
  PROVE  Promise!Complete(t)
<1>1. pc \in [Callers -> Labels] /\ frame \in [Callers -> Frame] /\ filled \in [Callers -> Nat]
  BY DEF TypeOK, CallersTypeOK, BoardTypeOK
<1>2. /\ pc[t] = "count" /\ frame[t].dir = d /\ UNCHANGED filled
      /\ frame' = [frame EXCEPT ![t].byte_count = count[d]]
      /\ pc' = [pc EXCEPT ![t] = "unmap_sg_list"]
  BY DEF Count, boardVars, Goto
<1>3. count[d] = filled[t] /\ (d = "write" => filled[t] = frame[t].blocks)
  BY <1>2 DEF TransferInv, CallInv, BlocksInv, QuietInv, CriticalLabels
<1>4. StageOf(pc[t]) = "inside" /\ StageOf("unmap_sg_list") = "leaving" /\ Moved(t) = filled[t]
  BY <1>2, Stages, ExitLabelsAre DEF CriticalLabels, Moved
<1>5. [u \in Callers |-> StageOf(pc[u])]' = [[u \in Callers |-> StageOf(pc[u])] EXCEPT ![t] = "leaving"]
  BY <1>1, <1>2, <1>4
<1>6. [u \in Callers |-> Moved(u)]' = [u \in Callers |-> Moved(u)]
  BY <1>1, <1>2 DEF Moved
<1>7. \A u \in Callers : /\ frame'[u].dir = frame[u].dir /\ frame'[u].blocks = frame[u].blocks
                         /\ frame'[u].byte_count = IF u = t THEN filled[t] ELSE frame[u].byte_count
  BY <1>1, <1>2, <1>3 DEF Frame
<1>8. [u \in Callers |-> frame[u].byte_count]' =
        [[u \in Callers |-> frame[u].byte_count] EXCEPT ![t] = filled[t]]
  BY <1>7
<1>9. /\ [u \in Callers |-> frame[u].dir]' = [u \in Callers |-> frame[u].dir]
      /\ [u \in Callers |-> frame[u].blocks]' = [u \in Callers |-> frame[u].blocks]
  BY <1>7
<1> QED
  BY <1>2, <1>3, <1>4, <1>5, <1>6, <1>8, <1>9 DEF Promise!Complete

\* It returns.
LEMMA PromiseReturn ==
  ASSUME TypeOK, NEW t \in Callers, NEW d \in Dirs, Leave(t, d)
  PROVE  Promise!Return(t)
<1>1. pc \in [Callers -> Labels] /\ frame \in [Callers -> Frame] /\ filled \in [Callers -> Nat]
  BY DEF TypeOK, CallersTypeOK, BoardTypeOK
<1>2. /\ pc[t] \in ExitLabels /\ UNCHANGED filled
      /\ frame' = [frame EXCEPT ![t] = NoFrame] /\ pc' = [pc EXCEPT ![t] = "idle"]
  BY DEF Leave, boardVars, Goto
<1>3. /\ frame'[t].dir = "read" /\ frame'[t].blocks = 0 /\ frame'[t].byte_count = 0
      /\ pc'[t] = "idle" /\ StageOf(pc'[t]) = "out" /\ StageOf(pc[t]) = "leaving"
      /\ \A u \in Callers \ {t} : pc'[u] = pc[u] /\ frame'[u] = frame[u] /\ filled'[u] = filled[u]
  BY <1>1, <1>2, Stages DEF NoFrame, NewFrame
<1> QED
  BY <1>3, OneCallMoves DEF Promise!Return

\* A block moves, which only the call inside can see.
LEMMA PromiseTransfer ==
  ASSUME TypeOK, OneFeederPerQueue, HoldersFeed, signals = 0, TransferInv,
         NEW d \in Dirs, NEW ended \in BOOLEAN, Move(d, ended)
  PROVE  \E t \in Callers : Promise!Transfer(t)
<1>1. queue[d] # <<>> /\ filled' = [filled EXCEPT ![Head(queue[d]).owner] = @ + 1]
      /\ UNCHANGED <<pc, frame>>
  BY MoveEffect DEF Move, callerVars
<1>2. PICK t \in Callers : /\ pc[t] \in CriticalLabels /\ frame[t].dir = d
                           /\ CallInv(t, d) /\ Head(queue[d]).owner = t
                           /\ (ListOpen(t) \/ ListClosed(t))
                           /\ pc[t] \notin {"clear", "slots", "count"}
  BY <1>1, Served
<1>3. filled \in [Callers -> Nat]
  BY DEF TypeOK, BoardTypeOK
<1>4. filled[t] < frame[t].blocks
  <2>1. Len(queue[d]) \in Nat /\ Len(queue[d]) > 0
    BY <1>1, BoardTypes
  <2>2. /\ count[d] \in Nat /\ filled[t] \in Nat /\ frame[t].blocks \in Nat /\ frame[t].sent \in Nat
    BY CallTypes, BoardTypes
  <2>3. count[d] = filled[t]
    BY <1>2 DEF CallInv, BlocksInv
  <2>4. CASE ListOpen(t)
    <3>1. count[d] + Len(queue[d]) <= frame[t].sent /\ frame[t].sent < frame[t].blocks
      BY <1>2, <2>4 DEF CallInv, OpenInv, ListOpen
    <3> QED
      BY <2>1, <2>2, <2>3, <3>1
  <2>5. CASE ListClosed(t)
    <3>1. count[d] + Len(queue[d]) <= frame[t].blocks
      BY <1>2, <2>5 DEF CallInv, ClosedInv
    <3> QED
      BY <2>1, <2>2, <2>3, <3>1
  <2> QED
    BY <1>2, <2>4, <2>5
<1>5. pc[t] # "idle" /\ Moved(t) = filled[t] /\ StageOf(pc[t]) = "inside"
  BY <1>2, Stages DEF CriticalLabels, Moved
<1>6. [u \in Callers |-> Moved(u)]' = [[u \in Callers |-> Moved(u)] EXCEPT ![t] = @ + 1]
  BY <1>1, <1>2, <1>3, <1>5 DEF Moved
<1>7. Promise!Transfer(t)
  BY <1>1, <1>4, <1>5, <1>6 DEF Promise!Transfer
<1> QED
  BY <1>7

\* The steps that change no more than a caller's place inside, or nothing of
\* it at all.
LEMMA PromiseKept ==
  ASSUME TypeOK, NEW t \in Callers,
         pc[t] \in CriticalLabels,
         pc' = pc \/ \E label \in CriticalLabels : pc' = [pc EXCEPT ![t] = label],
         \A u \in Callers \ {t} : frame'[u] = frame[u],
         frame'[t].dir = frame[t].dir, frame'[t].blocks = frame[t].blocks,
         frame'[t].byte_count = frame[t].byte_count, UNCHANGED filled
  PROVE  UNCHANGED Promise!vars
<1>1. pc \in [Callers -> Labels] /\ frame \in [Callers -> Frame]
  BY DEF TypeOK, CallersTypeOK
<1>2. \A u \in Callers \ {t} : pc'[u] = pc[u] /\ frame'[u] = frame[u] /\ filled'[u] = filled[u]
  BY <1>1
<1>3. pc'[t] = pc[t] \/ (pc[t] \in CriticalLabels /\ pc'[t] \in CriticalLabels)
  BY <1>1
<1> QED
  BY <1>2, <1>3, PromiseStutters

\* Every step of a call is one of the promise, or none.
LEMMA PromiseStep ==
  ASSUME TypeOK, OneFeederPerQueue, HoldersFeed, TransferInv, MaxSignals = 0, [Next]_vars
  PROVE  [Promise!Next]_(Promise!vars)
<1>1. frame \in [Callers -> Frame]
  BY DEF TypeOK, CallersTypeOK
<1>2. signals = 0 /\ signaled = {}
  BY DEF TypeOK, CallersTypeOK, TransferInv
<1>3. ASSUME NEW t \in Callers, PrepareRead(t) \/ PrepareWrite(t) PROVE Promise!Next
  BY <1>2, <1>3, PromiseBegin DEF PrepareRead, PrepareWrite, Dirs, Promise!Next
<1>4. ASSUME NEW t \in Callers, EitherCall(t) PROVE UNCHANGED Promise!vars
  <2>1. UNCHANGED filled
    BY <1>4 DEF EitherCall, ClearDmaStatus, FirstSlots, Refresh, NextSlots, boardVars
  <2>2. pc[t] \in CriticalLabels /\ \E label \in CriticalLabels : pc' = [pc EXCEPT ![t] = label]
    BY <1>4 DEF EitherCall, ClearDmaStatus, FirstSlots, Refresh, NextSlots, Goto, CriticalLabels
  <2>3. /\ \A u \in Callers \ {t} : frame'[u] = frame[u]
        /\ frame'[t].dir = frame[t].dir /\ frame'[t].blocks = frame[t].blocks
        /\ frame'[t].byte_count = frame[t].byte_count
    BY <1>1, <1>4 DEF EitherCall, ClearDmaStatus, FirstSlots, Refresh, NextSlots, Frame
  <2> QED
    BY <2>1, <2>2, <2>3, PromiseKept
<1>5. ASSUME NEW t \in Callers, NEW d \in Dirs, Send(t, d) PROVE UNCHANGED Promise!vars
  <2>1. UNCHANGED filled /\ pc[t] \in CriticalLabels
    BY <1>5 DEF Send, CriticalLabels
  <2>2. pc' = pc \/ \E label \in CriticalLabels : pc' = [pc EXCEPT ![t] = label]
    BY <1>5 DEF Send, Goto, CriticalLabels
  <2>3. /\ \A u \in Callers \ {t} : frame'[u] = frame[u]
        /\ frame'[t].dir = frame[t].dir /\ frame'[t].blocks = frame[t].blocks
        /\ frame'[t].byte_count = frame[t].byte_count
    BY <1>1, <1>5 DEF Send, Frame
  <2> QED
    BY <2>1, <2>2, <2>3, PromiseKept
<1>6. ASSUME NEW t \in Callers, NEW d \in Dirs, NEW next \in {"flush_test", "reslot"},
             WaitSlot(t, d, next) \/ FlushTest(t)
      PROVE  UNCHANGED Promise!vars
  <2>1. UNCHANGED filled /\ pc[t] \in CriticalLabels
    BY <1>6 DEF WaitSlot, FlushTest, boardVars, CriticalLabels
  <2>2. pc' = pc \/ \E label \in CriticalLabels : pc' = [pc EXCEPT ![t] = label]
    BY <1>2, <1>6 DEF WaitSlot, WaitEvent, FlushTest, Goto, CriticalLabels
  <2>3. UNCHANGED frame
    BY <1>2, <1>6 DEF WaitSlot, WaitEvent, FlushTest
  <2> QED
    BY <2>1, <2>2, <2>3, PromiseKept
<1>7. ASSUME NEW t \in Callers, NEW d \in Dirs, NEW condition, WaitDone(t, d, condition)
      PROVE  UNCHANGED Promise!vars
  <2>1. UNCHANGED filled /\ pc[t] \in CriticalLabels
    BY <1>7 DEF WaitDone, boardVars, CriticalLabels
  <2>2. pc' = pc \/ \E label \in CriticalLabels : pc' = [pc EXCEPT ![t] = label]
    BY <1>2, <1>7 DEF WaitDone, WaitEvent, Goto, CriticalLabels
  <2>3. UNCHANGED frame
    BY <1>2, <1>7 DEF WaitDone, WaitEvent
  <2> QED
    BY <2>1, <2>2, <2>3, PromiseKept
<1>8. ASSUME NEW t \in Callers, NEW d \in Dirs, TryLock(t, d) \/ Count(t, d) \/ Leave(t, d)
      PROVE  Promise!Next
  BY <1>2, <1>8, PromiseAsk, PromiseComplete, PromiseReturn DEF Promise!Next
<1>9. ASSUME NEW t \in Callers, ReadCall(t) \/ WriteCall(t)
      PROVE  Promise!Next \/ UNCHANGED Promise!vars
  BY <1>5, <1>6, <1>7, <1>8, <1>9
  DEF ReadCall, WriteCall, TryLockRead, SendRead, WaitSlotRead, WaitDoneRead, CountRead, LeaveRead,
      TryLockWrite, SendWrite, WaitSlotWrite, WaitDoneWrite, CountWrite, LeaveWrite, Dirs
<1>10. ASSUME NEW t \in Callers, Signal(t) PROVE FALSE
  BY <1>2, <1>10 DEF Signal
<1>11. ASSUME NEW d \in Dirs, BoardStep(d) PROVE Promise!Next
  BY <1>2, <1>11, PromiseTransfer DEF BoardStep, Promise!Next
<1>12. CASE IntrUpdate \/ IntrWake \/ UNCHANGED vars
  <2>1. UNCHANGED <<pc, frame, filled>>
    BY <1>12 DEF IntrUpdate, IntrWake, vars, callerVars, boardVars
  <2> QED
    BY <2>1 DEF Promise!vars, Moved
<1> QED
  BY <1>3, <1>4, <1>9, <1>10, <1>11, <1>12 DEF Next, CallerStep

\* The slots, the waits, the interrupts and the cached status implement what
\* read(2) and write(2) promise.
THEOREM ImplementsPromise ==
  ASSUME MaxSignals = 0
  PROVE  Spec => PromiseSpec
<1>1. Init => Promise!Init
  <2> SUFFICES ASSUME Init PROVE Promise!Init
    OBVIOUS
  <2>1. \A t \in Callers : /\ StageOf(pc[t]) = "out" /\ frame[t].dir = "read" /\ frame[t].blocks = 0
                           /\ Moved(t) = 0 /\ frame[t].byte_count = 0
    BY Stages DEF Init, NoFrame, NewFrame, Moved
  <2> QED
    BY <2>1, Zenon DEF Promise!Init
<1>2. TypeOK /\ OneFeederPerQueue /\ HoldersFeed /\ TransferInv /\ [Next]_vars
        => [Promise!Next]_(Promise!vars)
  BY PromiseStep
<1> QED
  BY <1>1, <1>2, TypeCorrect, MutualExclusion, TransferCorrect, PTL DEF Spec, PromiseSpec, Promise!Spec
=============================================================================
