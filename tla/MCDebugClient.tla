--------------------------- MODULE MCDebugClient ---------------------------
EXTENDS DebugClient
=============================================================================
