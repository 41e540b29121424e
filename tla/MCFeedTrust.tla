--------------------------- MODULE MCFeedTrust ---------------------------
\* Small instances of FeedTrust for TLC.
EXTENDS FeedTrust, TLC

ClientsOf(sdks, pins, skews) == [sdk : sdks, pin : pins, skew : skews]

\* Every implementation: unpinned with every clock, pinned with a good
\* pin or with one that is no address.  The reference verifier has no pin.
AllClients ==
  ClientsOf(Sdks, {None}, -1 .. 1)
    \cup ClientsOf(Sdks \ {"reference"}, Signers, {0})
    \cup ClientsOf(Sdks \ {"reference"}, {Malformed}, {0})
UnpinnedOnTime == ClientsOf(Sdks, {None}, {0})

\* Signers and chains are interchangeable.
Symmetry == Permutations(Signers) \cup Permutations(Chains)
===========================================================================
