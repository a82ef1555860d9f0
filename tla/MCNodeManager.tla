---------------------------- MODULE MCNodeManager ----------------------------
EXTENDS NodeManager

CONSTANTS n1, n2, c1, c2, c3

MCNodeIds == {n1, n2}
MCCallIds == {c1, c2, c3}
=============================================================================
