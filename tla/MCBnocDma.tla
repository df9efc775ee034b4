------------------------------ MODULE MCBnocDma ------------------------------
EXTENDS BnocDma, TLC

Symmetry == Permutations(Callers)

\* Where no signal is sent, every call of one caller returns: reads and writes
\* share intr_wq, the handler and the status, and none leaves another asleep.  The
\* callers are interchangeable, so that what holds of one holds of each.
CallsReturn == CallReturns(CHOOSE t \in Callers : TRUE)
=============================================================================
