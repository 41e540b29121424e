--------------------------- MODULE MCAccessJwks ---------------------------
\* A small instance of AccessJwks for TLC.
EXTENDS AccessJwks, TLC

\* Requests are interchangeable, and so are key ids.
Symmetry == Permutations(Requests) \cup Permutations(Kids)
===========================================================================
