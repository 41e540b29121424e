----------------------------- MODULE Indexing -----------------------------
(***************************************************************************)
(* The three public projections of the V6 event logs side by side: a       *)
(* subgraph and a Substreams package per chain, and Dune's tables, which   *)
(* one set of queries reads for all chains together.  An index follows the *)
(* log of its chain at its own pace.  Its engine is external: it hands     *)
(* over the entries in order and, when the chain has left the fork the     *)
(* index is on, restores the store as it was before the orphaned entry.    *)
(* The engines work block by block; here a reader may look after any       *)
(* entry.                                                                  *)
(***************************************************************************)
EXTENDS GraphMapping, SubstreamsStores, DuneQueries

CONSTANTS
  Indexes,      \* deployments: records of a view and a chain
  Publications, \* the sets of deployments that may be in service together
  MaxCopies     \* bound on rows Dune decodes twice

ASSUME IndexesAssumption ==
  /\ Indexes \subseteq [view : {"graph", "substreams", "dune"}, chain : Chains]
  /\ Publications \subseteq SUBSET Indexes

IndexesOf(view) == {i \in Indexes : i.view = view}

VARIABLES
  published, \* the deployments in service
  seen,   \* seen[i]: the entries index i has taken, oldest first
  graph,  \* graph[i]: the entity store after each number of entries
  stores, \* stores[i]: the Substreams stores after each number of entries
  table   \* the rows of Dune's decoded tables, all chains together

indexVars == <<published, seen, graph, stores, table>>
vars == <<chainVars, indexVars>>

Init ==
  /\ LogInit /\ published \in Publications
  /\ seen = [i \in Indexes |-> <<>>]
  /\ graph = [i \in IndexesOf("graph") |-> <<EmptyGraph>>]
  /\ stores = [i \in IndexesOf("substreams") |-> <<EmptyStores>>]
  /\ table = {}

OnChain(i) ==
  /\ Len(seen[i]) <= Len(log[i.chain])
  /\ seen[i] = SubSeq(log[i.chain], 1, Len(seen[i]))

\* The engine hands the next entry to the handlers.
Follow(i) ==
  /\ OnChain(i) /\ Len(seen[i]) < Len(log[i.chain])
  /\ LET at == Len(seen[i]) + 1
         e == log[i.chain][at]
     IN  /\ seen' = [seen EXCEPT ![i] = Append(@, e)]
         /\ graph' = IF i.view = "graph"
                     THEN [graph EXCEPT ![i] = Append(@, handleGraph(@[at], e, at))] ELSE graph
         /\ stores' = IF i.view = "substreams"
                      THEN [stores EXCEPT ![i] = Append(@, runStores(@[at], e, at))] ELSE stores
         /\ table' = IF i.view = "dune"
                     THEN table \cup {[chain |-> i.chain, at |-> at, copy |-> 1, event |-> e]}
                     ELSE table
  /\ UNCHANGED <<chainVars, published>>

\* The engine takes back an entry of a fork the chain has left.
Rewind(i) ==
  /\ ~OnChain(i)
  /\ LET n == Len(seen[i])
     IN  /\ seen' = [seen EXCEPT ![i] = SubSeq(@, 1, n - 1)]
         /\ graph' = IF i.view = "graph" THEN [graph EXCEPT ![i] = SubSeq(@, 1, n)] ELSE graph
         /\ stores' = IF i.view = "substreams"
                      THEN [stores EXCEPT ![i] = SubSeq(@, 1, n)] ELSE stores
         /\ table' = {r \in table : ~(i.view = "dune" /\ r.chain = i.chain /\ r.at = n)}
  /\ UNCHANGED <<chainVars, published>>

DecodeTwice ==
  /\ Cardinality({r \in table : r.copy = 2}) < MaxCopies
  /\ \E r \in table : table' = table \cup {[r EXCEPT !.copy = 2]}
  /\ UNCHANGED <<chainVars, published, seen, graph, stores>>

\* A chain nobody follows is left alone.
Next ==
  \/ \E i \in published : ChainStep(i.chain) /\ UNCHANGED indexVars
  \/ \E i \in published : Follow(i) \/ Rewind(i)
  \/ DecodeTwice

Spec == Init /\ [][Next]_vars
\* The engines keep running; the chains owe nothing.
FairSpec == Spec /\ \A i \in Indexes : WF_vars(i \in published /\ (Follow(i) \/ Rewind(i)))
----------------------------------------------------------------------------
\* The Substreams stores keep no fills: they leave the map module as events.
Cover(i, state) ==
  IF i.view = "substreams" THEN [k \in Keys \ Fills |-> state[k]] ELSE state

\* What a reader of index i is shown.
Shown(i) ==
  CASE i.view = "graph" ->
         [k \in Keys |-> EntityValue(graph[i][Len(graph[i])], k)]
    [] i.view = "substreams" ->
         [k \in Keys \ Fills |-> StoredValue(stores[i][Len(stores[i])], k)]
    [] i.view = "dune" ->
         LET events == canonical(table) IN [k \in Keys |-> QueriedValue(events, i.chain, k)]

\* The states of the contracts along a log, as far as index i covers them.
StateAt(entries, n) == IF n = 0 THEN Blank ELSE entries[n].after
StatesAlong(entries, i) ==
  [n \in 1 .. Len(entries) + 1 |-> Cover(i, StateAt(entries, n - 1))]

Follower == INSTANCE IndexFollower WITH
  truth <- [i \in Indexes |-> StatesAlong(log[i.chain], i)],
  trail <- [i \in Indexes |-> StatesAlong(seen[i], i)],
  shown <- [i \in Indexes |-> Shown(i)]

\* Every index, whatever its store looks like, is a follower of its chain: it shows
\* the state of the contracts at one position of a fork the chain was on, takes the
\* states in order, and falls back one at a time when the fork is abandoned.
ViewsFollowTheChain == Follower!Spec
----------------------------------------------------------------------------
TypeOK ==
  /\ log \in [Chains -> Seq(Entries)] /\ emits \in 0 .. MaxEmits /\ forks \in 0 .. MaxForks
  /\ published \in SUBSET Indexes /\ seen \in [Indexes -> Seq(Entries)]
  /\ graph \in [IndexesOf("graph") -> Seq(GraphStores)]
  /\ stores \in [IndexesOf("substreams") -> Seq(SubstreamsStates)]
  /\ table \in SUBSET TableRows

\* The positions of the deployment's own entries among those taken.
OwnAt(i) == {n \in 1 .. Len(seen[i]) : seen[i][n].address = "nexa"}

\* The change rows of a subgraph are the status, intake and module events of the
\* entries it has taken, one row each: none is lost when the entity it is about was
\* not there, none outlives its fork, none is overwritten (schema.graphql: immutable).
ChangesAreTheLog ==
  \A i \in IndexesOf("graph") :
    LET changed == {n \in OwnAt(i) : seen[i][n].kind \notin {"Registered", "SourceFill"}}
    IN  graph[i][Len(graph[i])].changes =
          {[id |-> n, key |-> seen[i][n].key, previous |-> seen[i][n].previous,
            value |-> seen[i][n].value] : n \in changed}

\* The provenance of an entity or a record names the last event of its kind about
\* its key, and a ProtocolDeployment the contract's first event ("All entity provenance originates from the canonical event log
\* coordinates", docs-site/docs/indexing.md).
LastAbout(i, k, kinds) ==
  LET about == {n \in OwnAt(i) : seen[i][n].key = k /\ seen[i][n].kind \in kinds}
  IN  IF about = {} THEN 0 ELSE CHOOSE n \in about : \A m \in about : m <= n
ProvenanceIsTheEvent ==
  /\ \A i \in IndexesOf("graph"), k \in Keys :
       graph[i][Len(graph[i])].entity[k].at = LastAbout(i, k, Kinds)
  /\ \A i \in IndexesOf("substreams"), k \in Items :
       LET now == stores[i][Len(stores[i])]
       IN  /\ now[key(k, "identity")].at = LastAbout(i, k, {"Registered"})
           /\ now[key(k, "status")].at = LastAbout(i, k, {"StatusChanged"})
  /\ \A i \in IndexesOf("graph"), contract \in Contracts :
       LET events == {n \in OwnAt(i) : ContractOf(seen[i][n].kind) = contract}
           at == graph[i][Len(graph[i])].deployment[contract]
       IN  IF events = {} THEN at = 0 ELSE at \in events /\ \A n \in events : at <= n

\* The counts of the overview are those of the contracts, however often Dune
\* decoded an event and whatever the other chains hold.
CountsAreTheContracts ==
  \A i \in IndexesOf("dune") :
    LET now == StateAt(seen[i], Len(seen[i]))
        events == canonical(table)
        holds(items) == Cardinality({k \in items : now[k] # Absent})
    IN  /\ registered(events, i.chain, Networks) = holds(Networks)
        /\ registered(events, i.chain, Assets) = holds(Assets)
        /\ registered(events, i.chain, Routes) = holds(Routes)
        /\ source_fill_count(events, i.chain) = holds(Fills)
        /\ source_intake_events(events, i.chain)
             = Cardinality({n \in OwnAt(i) : seen[i][n].kind = "SourceIntakeConfigured"})

\* Once the chains come to rest, every index shows their last state for good.
CaughtUp(i) == Shown(i) = Cover(i, StateAfter(log[i.chain]))
EveryIndexCatchesUp == \A i \in Indexes : <>[](i \in published => CaughtUp(i))
=============================================================================
