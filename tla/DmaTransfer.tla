---------------------------- MODULE DmaTransfer ----------------------------
(***************************************************************************)
(* What read(2) and write(2) on a BlueNoC board promise to their callers,  *)
(* as long as no signal interrupts them: in each direction one call at a   *)
(* time is inside; only for the call inside does the board move blocks,    *)
(* never more than the buffer has; the call returns exactly the blocks     *)
(* that were moved, and a write returns only when all of them were.        *)
(***************************************************************************)
EXTENDS Naturals

CONSTANTS
  Callers,   \* threads that call read(2) and write(2)
  MaxBlocks  \* bound: blocks of the largest buffer

VARIABLES
  stage,     \* how far each call is
  dir,       \* what it wants
  size,      \* the blocks of its buffer
  moved,     \* the blocks moved for it so far
  returned   \* the blocks it returns

vars == <<stage, dir, size, moved, returned>>

Init ==
  /\ stage = [t \in Callers |-> "out"]
  /\ dir = [t \in Callers |-> "read"]
  /\ size = [t \in Callers |-> 0]
  /\ moved = [t \in Callers |-> 0]
  /\ returned = [t \in Callers |-> 0]

\* A call begins, or fails before it has asked for the board.
Begin(t) ==
  /\ stage[t] = "out"
  /\ \E d \in {"read", "write"}, n \in 0 .. MaxBlocks :
       /\ dir' = [dir EXCEPT ![t] = d]
       /\ size' = [size EXCEPT ![t] = n]
       /\ stage' = [stage EXCEPT ![t] = IF n > 0 THEN "asking" ELSE "leaving"]
  /\ UNCHANGED <<moved, returned>>

\* It gets the board for its direction when no other call has it.
Enter(t) ==
  /\ stage[t] = "asking"
  /\ \A u \in Callers : ~(stage[u] = "inside" /\ dir[u] = dir[t])
  /\ stage' = [stage EXCEPT ![t] = "inside"]
  /\ UNCHANGED <<dir, size, moved, returned>>

\* It fails at once when another call has it.
Busy(t) ==
  /\ stage[t] = "asking"
  /\ \E u \in Callers : stage[u] = "inside" /\ dir[u] = dir[t]
  /\ stage' = [stage EXCEPT ![t] = "leaving"]
  /\ UNCHANGED <<dir, size, moved, returned>>

\* The board moves a block of its buffer.
Transfer(t) ==
  /\ stage[t] = "inside"
  /\ moved[t] < size[t]
  /\ moved' = [moved EXCEPT ![t] = @ + 1]
  /\ UNCHANGED <<stage, dir, size, returned>>

\* It leaves the board.  A message may end before the buffer of a read is full.
Complete(t) ==
  /\ stage[t] = "inside"
  /\ dir[t] = "write" => moved[t] = size[t]
  /\ stage' = [stage EXCEPT ![t] = "leaving"]
  /\ returned' = [returned EXCEPT ![t] = moved[t]]
  /\ UNCHANGED <<dir, size, moved>>

Return(t) ==
  /\ stage[t] = "leaving"
  /\ stage' = [stage EXCEPT ![t] = "out"]
  /\ dir' = [dir EXCEPT ![t] = "read"]
  /\ size' = [size EXCEPT ![t] = 0]
  /\ moved' = [moved EXCEPT ![t] = 0]
  /\ returned' = [returned EXCEPT ![t] = 0]

Next ==
  \E t \in Callers :
    Begin(t) \/ Enter(t) \/ Busy(t) \/ Transfer(t) \/ Complete(t) \/ Return(t)

Spec == Init /\ [][Next]_vars
=============================================================================
