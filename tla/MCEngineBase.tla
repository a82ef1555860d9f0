---------------------------- MODULE MCEngineBase ----------------------------
EXTENDS EngineBase

CONSTANTS c1, c2

MCCallIds == {c1, c2}
=============================================================================
