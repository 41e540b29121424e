--------------------------- MODULE IndexFollower ---------------------------
(***************************************************************************)
(* What an index promises its readers ("Indexes may lag, reorganize, or be *)
(* unavailable", docs-site/docs/indexing.md): it takes the next state of   *)
(* its chain or falls back to the state before, and shows no other.        *)
(***************************************************************************)
EXTENDS Naturals, Sequences

CONSTANT Indexes
VARIABLES
  truth, \* truth[i]: the states of index i's chain, oldest first
  trail, \* trail[i]: the states of the fork index i is on, as far as it has come
  shown  \* shown[i]: the state index i shows

vars == <<truth, trail, shown>>

Init == \A i \in Indexes :
  Len(truth[i]) = 1 /\ trail[i] = truth[i] /\ shown[i] = truth[i][1]

Advance(i) ==
  /\ Len(trail[i]) < Len(truth[i])
  /\ trail[i] = SubSeq(truth[i], 1, Len(trail[i]))
  /\ trail'[i] = Append(trail[i], truth[i][Len(trail[i]) + 1])
  /\ shown'[i] = truth[i][Len(trail[i]) + 1]

FallBack(i) ==
  /\ Len(trail[i]) > 1
  /\ trail'[i] = SubSeq(trail[i], 1, Len(trail[i]) - 1)
  /\ shown'[i] = trail[i][Len(trail[i]) - 1]

Rest(i) == trail'[i] = trail[i] /\ shown'[i] = shown[i]

\* The chains move at their own will, and take no index with them.
Next ==
  \/ /\ UNCHANGED truth
     /\ \E i \in Indexes :
          /\ Advance(i) \/ FallBack(i)
          /\ \A j \in Indexes \ {i} : Rest(j)
  \/ \A i \in Indexes : Rest(i)

Spec == Init /\ [][Next]_vars
=============================================================================
