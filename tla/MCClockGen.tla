----------------------------- MODULE MCClockGen -----------------------------
EXTENDS ClockGen
=============================================================================
