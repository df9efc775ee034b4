----------------------------- MODULE DmiAccess -----------------------------
(***************************************************************************)
(* What the JTAG bridge of the simulators promises to a debugger: a scan   *)
(* of the DMI register is one access of the debug module, carried out once *)
(* and in the order of asking, and its answer is the result of that access *)
(* and of no other.  A no-operation asks again for what was read last: it  *)
(* is promised while no write has come between, as the bridge then gives   *)
(* whatever the debug module has answered the write with.                  *)
(* JtagBridge implements it.                                               *)
(***************************************************************************)
CONSTANTS
  Addrs, \* registers of the debug module
  Data,  \* their contents
  Zero,  \* what a no-operation gives before any read
  None   \* no access, no answer, nothing read

VARIABLES
  regs,    \* the registers of the debug module
  last,    \* what was read last, or None when a write came after it
  pending, \* the access asked for and not carried out
  answer   \* the answer to the access that the debugger waits for

vars == <<regs, last, pending, answer>>

DmiOps == [op : {"nop", "read", "write"}, addr : Addrs, data : Data]

Init ==
  /\ regs \in [Addrs -> Data]
  /\ last = Zero
  /\ pending = None
  /\ answer = None

Ask(o) ==
  /\ pending = None
  /\ answer = None
  /\ pending' = o
  /\ UNCHANGED <<regs, last, answer>>

\* The debug module answers a read with the register.  What it answers a write
\* with is its own affair, and so is what a no-operation finds after a write.
Results(o) ==
  CASE o.op = "nop"   -> IF last = None THEN Data ELSE {last}
    [] o.op = "read"  -> {regs[o.addr]}
    [] o.op = "write" -> Data

Perform ==
  /\ pending # None
  /\ answer' \in Results(pending)
  /\ last' = CASE pending.op = "nop"   -> last
               [] pending.op = "read"  -> answer'
               [] pending.op = "write" -> None
  /\ regs' = IF pending.op = "write" THEN [regs EXCEPT ![pending.addr] = pending.data]
                                     ELSE regs
  /\ pending' = None

Take ==
  /\ answer # None
  /\ answer' = None
  /\ UNCHANGED <<regs, last, pending>>

Next == (\E o \in DmiOps : Ask(o)) \/ Perform \/ Take

Spec == Init /\ [][Next]_vars
=============================================================================
