---------------------------- MODULE MCJtagBridge ----------------------------
EXTENDS JtagBridge

CONSTANTS a1, v1, v2

\* From RUN_TEST_IDLE to SHIFT_DR and SHIFT_IR, back, and by a pause.
MCPaths == {<<1, 0, 0>>, <<1, 1, 0, 0>>, <<1, 0>>, <<0, 1>>}
=============================================================================
