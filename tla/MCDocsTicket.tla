--------------------------- MODULE MCDocsTicket ---------------------------
\* Small instances of DocsTicket for TLC.
EXTENDS DocsTicket, TLC

\* Pages, arrivals and tokens are interchangeable.
Symmetry == Permutations(Browsers) \cup Permutations(Attempts) \cup Permutations(Tokens)
===========================================================================
