--------------------------- MODULE MCEdgeRouting ---------------------------
\* A small instance of EdgeRouting for TLC.
EXTENDS EdgeRouting

TwoSolvers == {"s1", "s2"}
=============================================================================
