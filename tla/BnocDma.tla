------------------------------- MODULE BnocDma -------------------------------
(***************************************************************************)
(* The scatter-gather DMA transfers of the BlueNoC kernel driver           *)
(* (src/bluenoc/drivers/bluenoc.c): bluenoc_read and bluenoc_write running *)
(* in several callers at once on one active board, the interrupt handler,  *)
(* the status fields they share, and the board at the other end of the     *)
(* register accesses.                                                      *)
(*                                                                         *)
(* A caller is a thread in a system call.  Each of its accesses to shared  *)
(* state (a mutex, a status field, a device register, the wait queue) is a *)
(* step of its own.  The work that touches only the caller's own frame is  *)
(* folded into the step before or after it.                                *)
(*                                                                         *)
(* The board is not part of the sources that can be read (it is a netlist) *)
(* and is modelled as the driver uses it.  What is assumed of it is said   *)
(* at each of its actions.                                                 *)
(*                                                                         *)
(* Left out: debug printing, the profiling counters, read_ok and write_ok  *)
(* (which only bluenoc_poll reads), dirtying the user pages.               *)
(***************************************************************************)
EXTENDS Naturals, Sequences

CONSTANTS
  Callers,       \* threads that call read(2) and write(2) on the board
  None,          \* no caller: a mutex that is free
  Slots,         \* entries of the board's command queue, 16 in the code
  MaxBlocks,     \* bound: pages of the largest buffer, at most 4096 in the code
  Sizes,         \* the sizes of buffers, in pages, that callers use
  MaxSignals,    \* bound: signals sent to callers in a behaviour
  EndsEarly,     \* can a message end before the buffer of a read is full?
  MapFails,      \* can pci_map_sg fail, or its blocks be out of the device's range?
  Coalesces      \* can pci_map_sg merge pages (does an IOMMU sit in between)?

ASSUME DmaAssumption ==
  /\ None \notin Callers
  /\ Slots \in Nat \ {0}
  /\ MaxBlocks \in Nat \ {0}
  /\ Sizes \subseteq 1..MaxBlocks
  /\ MaxSignals \in Nat
  /\ {EndsEarly, MapFails, Coalesces} \subseteq BOOLEAN

VARIABLES
  pc,       \* where each caller is in bluenoc_read or bluenoc_write
  frame,    \* the locals of that call
  held,     \* what the call holds and must give back
  signaled, \* callers with a signal pending
  signals,  \* signals sent so far
  asleep,   \* callers asleep on intr_wq
  mutex,    \* read_mutex and write_mutex: the caller inside, or None
  status,   \* the cached DMA status fields of tBoard
  queue,    \* the board's command queues
  draining, \* is the board discarding the rest of a list it has flushed?
  done,     \* the board's status register: completed and flushed bits
  count,    \* the board's transfer counters, in blocks
  irq,      \* an MSI has been sent and not yet handled
  handler,  \* the interrupt handler: idle, or about to wake the wait queue
  filled,   \* history: blocks of each caller's buffer the board has moved
  lost      \* history: has a command been written to a full queue?

callerVars == <<pc, frame, held, signaled, signals>>
boardVars  == <<queue, draining, done, count, irq, filled, lost>>
vars == <<pc, frame, held, signaled, signals, asleep, mutex, status, queue, draining,
          done, count, irq, handler, filled, lost>>
-----------------------------------------------------------------------------
Dirs == {"read", "write"}

\* What a transfer takes before it reaches the board, in the order it does.
Resources == {"page_array", "pinned_pages", "sg_table", "dma_mapping"}

\* What the code releases from each of its exit labels down.
Releases ==
  [unmap_sg_list         |-> Resources,
   release_locked_pages  |-> {"page_array", "pinned_pages"},
   free_page_pointer_mem |-> {"page_array"}]

ExitLabels == DOMAIN Releases

Labels == {"idle", "lock", "clear", "slots", "send", "full", "wait_slot",
           "flush_test", "reslot", "wait_done", "count"} \cup ExitLabels

\* The DMA status of one direction, as the register and as tBoard hold it.
Status == [level : 0..Slots, full : BOOLEAN, completed : BOOLEAN, flushed : BOOLEAN]

\* A command: block number of its owner's list (0 for the bare end of list),
\* the end-of-list bit 63 and the interrupt-request bit 62.
Command == [owner : Callers, block : 0..MaxBlocks, last : BOOLEAN, intr : BOOLEAN]

Frame == [dir : Dirs, blocks : 0..MaxBlocks, mapped : 0..MaxBlocks,
          sent : 0..MaxBlocks, slots_free : 0..Slots,
          err : {"none", "EIO", "EBUSY", "ENOMEM", "EFAULT", "EINVAL"}, byte_count : Nat]

\* The locals of a call that has been prepared, or has failed to be.
NewFrame(d, n, m, error) ==
  [dir |-> d, blocks |-> n, mapped |-> m, sent |-> 0, slots_free |-> 0,
   err |-> error, byte_count |-> 0]

NoFrame == NewFrame("read", 0, 0, "none")

Goto(t, label) == pc' = [pc EXCEPT ![t] = label]

\* A write of one command to the queue register.  A board that is discarding a
\* list drops its commands as they come, up to the end of the list.  A queue
\* that is full has nowhere to put a command.
WriteCommand(d, c) ==
  \/ /\ draining[d]
     /\ draining' = [draining EXCEPT ![d] = ~c.last]
     /\ UNCHANGED <<queue, lost>>
  \/ /\ ~draining[d]
     /\ Len(queue[d]) < Slots
     /\ queue' = [queue EXCEPT ![d] = Append(@, c)]
     /\ UNCHANGED <<draining, lost>>
  \/ /\ ~draining[d]
     /\ Len(queue[d]) >= Slots
     /\ lost' = [lost EXCEPT ![d] = TRUE]
     /\ UNCHANGED <<queue, draining>>

\* The board's buffer status register, 64 bits that hold both directions.
StatusRegister ==
  [d \in Dirs |-> [level     |-> Len(queue[d]),
                   full      |-> Len(queue[d]) = Slots,
                   completed |-> done[d].completed,
                   flushed   |-> done[d].flushed]]

\* update_dma_buffer_status: every field of both directions, in the spin lock.
UpdateDmaBufferStatus == status' = StatusRegister

\* wait_event_interruptible: the condition is tested before a caller sleeps
\* and after each wake-up, and wins over a signal.
WaitEvent(t, condition, ready, interrupted) ==
  /\ t \notin asleep
  /\ \/ /\ condition
        /\ ready
        /\ UNCHANGED asleep
     \/ /\ ~condition
        /\ t \in signaled
        /\ interrupted
        /\ UNCHANGED asleep
     \/ /\ ~condition
        /\ t \notin signaled
        /\ asleep' = asleep \cup {t}
        /\ UNCHANGED <<pc, frame, mutex>>
-----------------------------------------------------------------------------
Init ==
  /\ pc = [t \in Callers |-> "idle"]
  /\ frame = [t \in Callers |-> NoFrame]
  /\ held = [t \in Callers |-> {}]
  /\ signaled = {}
  /\ signals = 0
  /\ asleep = {}
  /\ mutex = [d \in Dirs |-> None]
  /\ queue = [d \in Dirs |-> <<>>]
  /\ draining = [d \in Dirs |-> FALSE]
  /\ done = [d \in Dirs |-> [completed |-> FALSE, flushed |-> FALSE]]
  /\ count = [d \in Dirs |-> 0]
  /\ irq = FALSE
  /\ handler = "idle"
  /\ filled = [t \in Callers |-> 0]
  /\ lost = [d \in Dirs |-> FALSE]
  \* activate has called update_dma_buffer_status
  /\ status = [d \in Dirs |-> [level |-> 0, full |-> FALSE,
                               completed |-> FALSE, flushed |-> FALSE]]
-----------------------------------------------------------------------------
(***************************************************************************)
(* From the call to the critical section.                                  *)
(***************************************************************************)

\* The list is built and mapped: n pages become m <= n DMA blocks.
Prepared(t, d, n, m) ==
  /\ Goto(t, "lock")
  /\ frame' = [frame EXCEPT ![t] = NewFrame(d, n, m, "none")]
  /\ held' = [held EXCEPT ![t] = Resources]

\* A step of the preparation fails, with m blocks mapped so far, and jumps to
\* the label that is to undo the steps before it.
Unprepared(t, d, label, m, error, got) ==
  /\ Goto(t, label)
  /\ frame' = [frame EXCEPT ![t] = NewFrame(d, 0, m, error)]
  /\ held' = [held EXCEPT ![t] = got]

\* Mutant of PinFails: jumps one label too early.
PinFailsTooDeep(t, d) ==
  Unprepared(t, d, "release_locked_pages", 0, "EFAULT", {"page_array"})

\* get_user_pages_fast fails, or pins fewer pages than asked for (those it did
\* pin are put back on the spot).
PinFails(t, d) ==
  \E error \in {"EFAULT", "EINVAL"} :
    Unprepared(t, d, "free_page_pointer_mem", 0, error, {"page_array"})

\* sg_alloc_table fails.
TableFails(t, d) ==
  Unprepared(t, d, "release_locked_pages", 0, "ENOMEM", {"page_array", "pinned_pages"})

\* pci_map_sg fails, and the list that is not mapped is unmapped all the same.
MapSgFails(t, d) ==
  Unprepared(t, d, "unmap_sg_list", 0, "EFAULT", Resources \ {"dma_mapping"})

\* With DEBUG_DMA set, an address beyond 48 bits or a block of more than 16384
\* bytes is refused once the list is mapped; to how many blocks makes no
\* difference any more.
RangeFails(t, d) == Unprepared(t, d, "unmap_sg_list", 1, "EFAULT", Resources)

Prepare(t, d) ==
  /\ pc[t] = "idle"
  /\ \/ \E n \in Sizes :
          \E m \in (IF Coalesces THEN 1..n ELSE {n}) : Prepared(t, d, n, m)
     \/ PinFails(t, d)
     \/ TableFails(t, d)
     \/ MapFails /\ (MapSgFails(t, d) \/ RangeFails(t, d))
  /\ filled' = [filled EXCEPT ![t] = 0]
  /\ UNCHANGED <<signaled, signals, asleep, mutex, status, queue, draining, done, count,
                 irq, handler, lost>>

\* The calls that return before they allocate anything (no bytes asked for, a
\* buffer of more than 4096 pages or off its 128-byte boundary, no memory for
\* the page array) change no state and are no actions here.
PrepareRead(t)  == Prepare(t, "read")
PrepareWrite(t) == Prepare(t, "write")

\* Mutant of TryLockSucceeds: the result of mutex_trylock is not looked at.
TryLockSucceedsAlways(d) == TRUE

TryLockSucceeds(d) == mutex[d] = None

\* mutex_trylock: a caller that finds the direction in use gives up.
TryLock(t, d) ==
  /\ pc[t] = "lock"
  /\ frame[t].dir = d
  /\ IF TryLockSucceeds(d)
     THEN /\ mutex' = [mutex EXCEPT ![d] = t]
          /\ Goto(t, "clear")
          /\ UNCHANGED frame
     ELSE /\ Goto(t, "unmap_sg_list")
          /\ frame' = [frame EXCEPT ![t].err = "EBUSY"]
          /\ UNCHANGED mutex
  /\ UNCHANGED <<held, signaled, signals, asleep, status, handler, boardVars>>

TryLockRead(t)  == TryLock(t, "read")
TryLockWrite(t) == TryLock(t, "write")

\* Mutant of ClearedStatus: the cached bits of the last transfer stay.
ClearedStatusForgotten(d) == status[d]

\* The register write of clear_dma_status makes the board forget its two bits
\* and restart its counter; the cached bits go with them.  The cached level
\* and full fields are left as they were.
ClearedStatus(d) == [status[d] EXCEPT !.completed = FALSE, !.flushed = FALSE]

ClearDmaStatus(t) ==
  LET d == frame[t].dir IN
  /\ pc[t] = "clear"
  /\ done' = [done EXCEPT ![d] = [completed |-> FALSE, flushed |-> FALSE]]
  /\ count' = [count EXCEPT ![d] = 0]
  /\ status' = [status EXCEPT ![d] = ClearedStatus(d)]
  /\ Goto(t, "slots")
  /\ UNCHANGED <<frame, held, signaled, signals, asleep, mutex, queue, draining, irq,
                 handler, filled, lost>>
-----------------------------------------------------------------------------
(***************************************************************************)
(* Sending the scatter-gather list.                                        *)
(***************************************************************************)

\* Mutants of SlotsFree: one slot too many, and the level not looked at.
SlotsFreeOffByOne(d) == Slots + 1 - status[d].level
SlotsFreeAll(d) == Slots

\* slots_free, from the cached level: whatever the last update has left there.
SlotsFree(d) == Slots - status[d].level

FirstSlots(t) ==
  /\ pc[t] = "slots"
  /\ frame' = [frame EXCEPT ![t].slots_free = SlotsFree(frame[t].dir)]
  /\ Goto(t, "send")
  /\ UNCHANGED <<held, signaled, signals, asleep, mutex, status, handler, boardVars>>

\* Mutant of RequestsIntr: bit 62 is never set.
RequestsIntrNever(t) == FALSE

\* The last free slot carries the request for an interrupt.
RequestsIntr(t) == frame[t].slots_free = 1

\* One turn of the sending loop.  sg_next walks the list as it was allocated,
\* one entry for each page.
Send(t, d) ==
  LET f == frame[t]
      c == [owner |-> t, block |-> f.sent + 1,
            last |-> f.sent + 1 = f.blocks, intr |-> RequestsIntr(t)]
  IN
  /\ pc[t] = "send"
  /\ f.dir = d
  /\ \/ /\ f.sent = f.blocks
        /\ Goto(t, "wait_done")
        /\ UNCHANGED <<frame, queue, draining, lost>>
     \/ /\ f.sent < f.blocks
        /\ f.slots_free = 0
        /\ Goto(t, "full")
        /\ UNCHANGED <<frame, queue, draining, lost>>
     \/ /\ f.sent < f.blocks
        /\ f.slots_free > 0
        /\ WriteCommand(d, c)
        /\ frame' = [frame EXCEPT ![t].sent = @ + 1, ![t].slots_free = @ - 1]
        /\ UNCHANGED pc
  /\ UNCHANGED <<held, signaled, signals, asleep, mutex, status, done, count, irq,
                 handler, filled>>

SendRead(t)  == Send(t, "read")
SendWrite(t) == Send(t, "write")

\* No slot is left: after udelay(5) the status is read afresh.
Refresh(t) ==
  /\ pc[t] = "full"
  /\ UpdateDmaBufferStatus
  /\ Goto(t, "wait_slot")
  /\ UNCHANGED <<frame, held, signaled, signals, asleep, mutex, handler, boardVars>>

\* A signal in either wait; only this one leaves the critical section at once,
\* with the commands sent so far still in the board's queue.
SlotWaitInterrupted(t, d) ==
  /\ frame' = [frame EXCEPT ![t].err = "EIO"]
  /\ mutex' = [mutex EXCEPT ![d] = None]
  /\ Goto(t, "unmap_sg_list")

WaitSlot(t, d, next) ==
  /\ pc[t] = "wait_slot"
  /\ frame[t].dir = d
  /\ WaitEvent(t, ~status[d].full,
               Goto(t, next) /\ UNCHANGED <<frame, mutex>>,
               SlotWaitInterrupted(t, d))
  /\ UNCHANGED <<held, signaled, signals, status, handler, boardVars>>

WaitSlotRead(t)  == WaitSlot(t, "read", "flush_test")
WaitSlotWrite(t) == WaitSlot(t, "write", "reslot")

\* A read that the board has flushed stops sending and closes the list with a
\* bare end-of-list command.
FlushTest(t) ==
  /\ pc[t] = "flush_test"
  /\ IF status["read"].flushed
     THEN /\ WriteCommand("read", [owner |-> t, block |-> 0, last |-> TRUE, intr |-> FALSE])
          /\ Goto(t, "wait_done")
     ELSE /\ Goto(t, "reslot")
          /\ UNCHANGED <<queue, draining, lost>>
  /\ UNCHANGED <<frame, held, signaled, signals, asleep, mutex, status, done, count, irq,
                 handler, filled>>

NextSlots(t) ==
  /\ pc[t] = "reslot"
  /\ frame' = [frame EXCEPT ![t].slots_free = SlotsFree(frame[t].dir)]
  /\ Goto(t, "send")
  /\ UNCHANGED <<held, signaled, signals, asleep, mutex, status, handler, boardVars>>
-----------------------------------------------------------------------------
(***************************************************************************)
(* Waiting for the transfer and leaving.                                   *)
(***************************************************************************)
\* What a read and a write wait for: a write is never flushed.
ReadDone == status["read"].completed \/ status["read"].flushed

\* Mutant of WriteDone: the condition of the other wait.
WriteDoneBySlot == ~status["write"].full

WriteDone == status["write"].completed

WaitDone(t, d, condition) ==
  /\ pc[t] = "wait_done"
  /\ frame[t].dir = d
  /\ WaitEvent(t, condition,
               Goto(t, "count") /\ UNCHANGED <<frame, mutex>>,
               /\ frame' = [frame EXCEPT ![t].err = "EIO"]
               /\ Goto(t, "count")
               /\ UNCHANGED mutex)
  /\ UNCHANGED <<held, signaled, signals, status, handler, boardVars>>

WaitDoneRead(t)  == WaitDone(t, "read", ReadDone)
WaitDoneWrite(t) == WaitDone(t, "write", WriteDone)

\* The transfer counter is read inside the critical section, which ends here.
Count(t, d) ==
  /\ pc[t] = "count"
  /\ frame[t].dir = d
  /\ frame' = [frame EXCEPT ![t].byte_count = count[d]]
  /\ mutex' = [mutex EXCEPT ![d] = None]
  /\ Goto(t, "unmap_sg_list")
  /\ UNCHANGED <<held, signaled, signals, asleep, status, handler, boardVars>>

CountRead(t)  == Count(t, "read")
CountWrite(t) == Count(t, "write")

\* The exit labels fall through to the return; a signal is delivered there.
Leave(t, d) ==
  /\ pc[t] \in ExitLabels
  /\ frame[t].dir = d
  /\ held' = [held EXCEPT ![t] = @ \ Releases[pc[t]]]
  /\ frame' = [frame EXCEPT ![t] = NoFrame]
  /\ signaled' = signaled \ {t}
  /\ Goto(t, "idle")
  /\ UNCHANGED <<signals, asleep, mutex, status, handler, boardVars>>

LeaveRead(t)  == Leave(t, "read")
LeaveWrite(t) == Leave(t, "write")

\* A signal is sent to a caller in the driver and ends its sleep.
Signal(t) ==
  /\ signals < MaxSignals
  /\ pc[t] # "idle"
  /\ t \notin signaled
  /\ signals' = signals + 1
  /\ signaled' = signaled \cup {t}
  /\ asleep' = asleep \ {t}
  /\ UNCHANGED <<pc, frame, held, mutex, status, handler, boardVars>>
-----------------------------------------------------------------------------
(***************************************************************************)
(* The interrupt handler: status first, wake-up after.                     *)
(***************************************************************************)
IntrUpdate ==
  /\ irq
  /\ handler = "idle"
  /\ irq' = FALSE
  /\ UpdateDmaBufferStatus
  /\ handler' = "wake"
  /\ UNCHANGED <<pc, frame, held, signaled, signals, asleep, mutex, queue, draining, done,
                 count, filled, lost>>

\* Mutant of IntrWake: an exclusive wake-up, though reads and writes share intr_wq.
IntrWakeOne ==
  /\ handler = "wake"
  /\ \/ asleep = {} /\ UNCHANGED asleep
     \/ \E t \in asleep : asleep' = asleep \ {t}
  /\ handler' = "idle"
  /\ UNCHANGED <<callerVars, mutex, status, boardVars>>

IntrWake ==
  /\ handler = "wake"
  /\ asleep' = {}
  /\ handler' = "idle"
  /\ UNCHANGED <<callerVars, mutex, status, boardVars>>
-----------------------------------------------------------------------------
(***************************************************************************)
(* The board.  It takes the commands of a queue in order.  It interrupts   *)
(* when a list is completed, when a read is flushed, and when it has       *)
(* carried out a command that asks for it (bit 62).  It discards at its    *)
(* clock rate, which no register write can outrun, so in no time here.     *)
(***************************************************************************)

\* What is left of a queue when the list at its head has been discarded.
AfterEndOfList(q) ==
  LET ends == {i \in DOMAIN q : q[i].last} IN
  IF ends = {} THEN <<>>
  ELSE SubSeq(q, 1 + CHOOSE i \in ends : \A j \in ends : i <= j, Len(q))

\* The head command is carried out.  When the message of a read ends there,
\* the rest of the list is discarded up to its end-of-list command.
Move(d, ended) ==
  LET c == Head(queue[d])
      rest == Tail(queue[d])
      flush == ended /\ ~c.last
  IN
  /\ queue[d] # <<>>
  /\ ended => EndsEarly /\ d = "read"
  /\ queue' = [queue EXCEPT ![d] = IF flush THEN AfterEndOfList(rest) ELSE rest]
  /\ draining' = [draining EXCEPT ![d] = flush /\ \A i \in DOMAIN rest : ~rest[i].last]
  /\ done' = [done EXCEPT ![d] = [completed |-> @.completed \/ (c.last /\ ~ended),
                                  flushed   |-> @.flushed \/ ended]]
  /\ irq' = (irq \/ c.last \/ ended \/ c.intr)
  /\ IF c.block = 0
     THEN UNCHANGED <<count, filled>>
     ELSE /\ count' = [count EXCEPT ![d] = @ + 1]
          /\ filled' = [filled EXCEPT ![c.owner] = @ + 1]
  /\ UNCHANGED <<callerVars, asleep, mutex, status, handler, lost>>
-----------------------------------------------------------------------------
ReadCall(t) ==
  \/ TryLockRead(t) \/ SendRead(t) \/ WaitSlotRead(t) \/ FlushTest(t)
  \/ WaitDoneRead(t) \/ CountRead(t) \/ LeaveRead(t)

WriteCall(t) ==
  \/ TryLockWrite(t) \/ SendWrite(t) \/ WaitSlotWrite(t)
  \/ WaitDoneWrite(t) \/ CountWrite(t) \/ LeaveWrite(t)

\* The code the two functions share, word for word.
EitherCall(t) == ClearDmaStatus(t) \/ FirstSlots(t) \/ Refresh(t) \/ NextSlots(t)

CallerStep(t) == ReadCall(t) \/ WriteCall(t) \/ EitherCall(t)

BoardStep(d) == \E ended \in BOOLEAN : Move(d, ended)

Next ==
  \/ \E t \in Callers : PrepareRead(t) \/ PrepareWrite(t) \/ CallerStep(t) \/ Signal(t)
  \/ IntrUpdate
  \/ IntrWake
  \/ \E d \in Dirs : BoardStep(d)

Spec == Init /\ [][Next]_vars

\* The kernel runs every runnable thread and the handler of every interrupt.
\* The board moves data as long as it has commands: the far end of the network
\* keeps producing and consuming.
Fairness ==
  /\ \A t \in Callers : WF_vars(CallerStep(t))
  /\ WF_vars(IntrUpdate)
  /\ WF_vars(IntrWake)
  /\ \A d \in Dirs : WF_vars(BoardStep(d))

FairSpec == Spec /\ Fairness
-----------------------------------------------------------------------------
CallersTypeOK ==
  /\ pc \in [Callers -> Labels]
  /\ frame \in [Callers -> Frame]
  /\ held \in [Callers -> SUBSET Resources]
  /\ signaled \in SUBSET Callers
  /\ signals \in 0..MaxSignals

DriverTypeOK ==
  /\ asleep \in SUBSET Callers
  /\ mutex \in [Dirs -> Callers \cup {None}]
  /\ status \in [Dirs -> Status]
  /\ handler \in {"idle", "wake"}

BoardTypeOK ==
  /\ queue \in [Dirs -> Seq(Command)]
  /\ \A d \in Dirs : Len(queue[d]) <= Slots
  /\ draining \in [Dirs -> BOOLEAN]
  /\ done \in [Dirs -> [completed : BOOLEAN, flushed : BOOLEAN]]
  /\ count \in [Dirs -> Nat]
  /\ irq \in BOOLEAN
  /\ filled \in [Callers -> Nat]
  /\ lost \in [Dirs -> BOOLEAN]

\* Every variable has its type; in particular the levels and the counts of free
\* slots that the callers compute from a cached status stay within the queue.
TypeOK == CallersTypeOK /\ DriverTypeOK /\ BoardTypeOK

CriticalLabels == {"clear", "slots", "send", "full", "wait_slot", "flush_test",
                   "reslot", "wait_done", "count"}

\* The caller between mutex_trylock and mutex_unlock is the one that the mutex
\* of its direction names, and so the only one that feeds that queue.
OneFeederPerQueue ==
  \A t \in Callers : pc[t] \in CriticalLabels => mutex[frame[t].dir] = t

\* The driver never writes a command to a full queue: slots_free, though it is
\* computed from a cached level, never promises more than the board has.
NoCommandLost == \A d \in Dirs : ~lost[d]

\* When a call comes to pci_unmap_sg, no command that moves data into or out of
\* its pages is left on the board.
NoDmaAfterUnmap ==
  \A t \in Callers, d \in Dirs :
    pc[t] \in ExitLabels => \A i \in DOMAIN queue[d] : queue[d][i].owner # t

\* A call that succeeds returns what the board moved for this very call, and a
\* write that succeeds has moved its whole buffer.
CountIsExact ==
  \A t \in Callers :
    pc[t] = "unmap_sg_list" /\ frame[t].err = "none"
      => /\ frame[t].byte_count = filled[t]
         /\ frame[t].dir = "write" => filled[t] = frame[t].blocks

\* The call as its caller sees it: outside, asking for the board, inside the
\* critical section, or on one of the exit paths.
StageOf(label) ==
  CASE label = "idle"            -> "out"
    [] label = "lock"            -> "asking"
    [] label \in CriticalLabels  -> "inside"
    [] label \in ExitLabels      -> "leaving"

\* A call that is over has no buffer any more.
Moved(t) == IF pc[t] = "idle" THEN 0 ELSE filled[t]

Promise == INSTANCE DmaTransfer WITH
  stage    <- [t \in Callers |-> StageOf(pc[t])],
  dir      <- [t \in Callers |-> frame[t].dir],
  size     <- [t \in Callers |-> frame[t].blocks],
  moved    <- [t \in Callers |-> Moved(t)],
  returned <- [t \in Callers |-> frame[t].byte_count]

\* Queue, slots, interrupts and waits amount to this: one call at a time is
\* inside in each direction, the board moves blocks for no other, and the call
\* returns what was moved for it, a write only when that is the whole buffer.
PromiseSpec == Promise!Spec

\* The exit label that a call jumps to keeps nothing of what the call has taken,
\* and gives back nothing that it has not taken, but for one thing: a call whose
\* pci_map_sg has failed unmaps the list that was never mapped.
UnwindIsExact ==
  \A t \in Callers :
    pc[t] \in ExitLabels
      => /\ held[t] \subseteq Releases[pc[t]]
         /\ Releases[pc[t]] \ held[t] \subseteq
              {r \in {"dma_mapping"} : frame[t].mapped = 0}

WakeUpPending == irq \/ handler = "wake"

OverOnBoard(d) == done[d].completed \/ (d = "read" /\ done[d].flushed)

\* A caller asleep at the end of its transfer is not forgotten: if the board or
\* the cached status says that it is over, a wake-up is on its way.
NoLostWakeup ==
  \A t \in asleep :
    pc[t] = "wait_done"
      => /\ frame[t].dir = "read" /\ (ReadDone \/ OverOnBoard("read")) => WakeUpPending
         /\ frame[t].dir = "write" /\ (WriteDone \/ OverOnBoard("write")) => WakeUpPending

\* A call that no signal interrupts returns: no wake-up is lost between the
\* interrupt handler, the status updates of the other direction and the two waits.
CallReturns(t) == pc[t] # "idle" ~> pc[t] = "idle"
=============================================================================
