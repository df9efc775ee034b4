---------------------------- MODULE MCBnocBoards ----------------------------
EXTENDS BnocBoards, TLC

Symmetry == Permutations(Devices) \cup Permutations(Files)
=============================================================================
