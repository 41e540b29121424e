----------------------- MODULE IndexingViews_proofs -----------------------
(***************************************************************************)
(* What the Dune queries show, and the refinement: every index is a        *)
(* follower of its chain.  The queries compute from all rows of all chains *)
(* at once, so their proof has two halves: the rows of a chain, one copy   *)
(* of each, are the entries the index has taken (CanonicalRows); and what  *)
(* a history says of a key is its latest event, after a registration for   *)
(* an item (HistoryTells, by the shortest prefix that would not).          *)
(***************************************************************************)
EXTENDS Indexing_proofs, FiniteSetTheorems, WellFoundedInduction

LEMMA Smallest ==
  ASSUME NEW T \in SUBSET Nat, T # {}
  PROVE  \E x \in T : \A y \in T : x <= y
<1>1. PICK x \in T : \A y \in T : <<y, x>> \notin OpToRel(<, Nat)
  BY WFMin, NatLessThanWellFounded, Zenon
<1>2. ASSUME NEW y \in T PROVE ~(y < x) BY <1>1, Zenon DEF OpToRel
<1> QED BY <1>2

LEMMA Largest ==
  ASSUME NEW n \in Nat, NEW T \in SUBSET (1 .. n), T # {}
  PROVE  Latest(T) \in T /\ \A y \in T : y <= Latest(T)
<1> DEFINE U == {n - x : x \in T}
<1>0. \A x \in T : n - x \in Nat OBVIOUS
<1>1. U \in SUBSET Nat /\ U # {} BY <1>0
<1>2. PICK u \in U : \A v \in U : u <= v BY <1>1, Smallest
<1>3. PICK x \in T : u = n - x OBVIOUS
<1>4. ASSUME NEW y \in T PROVE y <= x
  <2>1. n - y \in U OBVIOUS
  <2>2. n - x <= n - y BY <1>2, <1>3, <2>1
  <2> QED BY <2>2
<1> HIDE DEF U
<1>5. \E z \in T : \A y \in T : y <= z BY <1>4
<1>6. Latest(T) = CHOOSE z \in T : \A y \in T : y <= z BY DEF Latest
<1> QED BY <1>5, <1>6
----------------------------------------------------------------------------
\* What the events of a history say of each key, the latest one last.
Value(s, T) == IF T = {} THEN Absent ELSE s[Latest(T)].value
Registrations(s, m, k) == About(s, m, k, {"Registered"})
StatusChanges(s, m, k) == About(s, m, k, {"StatusChanged"})
Intakes(s, m) == About(s, m, Router, {"SourceIntakeConfigured"})
Configurations(s, m, k) == About(s, m, k, {"StandardModuleConfigured"})
FillsOf(s, m, f) == About(s, m, f, {"SourceFill"})

ItemTold(s, m, k) ==
  /\ StateAt(s, m)[k]
       = IF Registrations(s, m, k) = {} THEN Absent
         ELSE IF StatusChanges(s, m, k) = {} THEN [val |-> REGISTERED, gen |-> 1]
         ELSE Value(s, StatusChanges(s, m, k))
  /\ Registrations(s, m, k) = {} <=> StateAt(s, m)[k] = Absent
  /\ Registrations(s, m, k) = {} => StatusChanges(s, m, k) = {}

Told(s, m) ==
  /\ \A k \in Items : ItemTold(s, m, k)
  /\ StateAt(s, m)[Router] = Value(s, Intakes(s, m))
  /\ \A k \in Standards : StateAt(s, m)[k] = Value(s, Configurations(s, m, k))
  /\ \A f \in Fills : /\ StateAt(s, m)[f] = Value(s, FillsOf(s, m, f))
                      /\ FillsOf(s, m, f) = {} <=> StateAt(s, m)[f] = Absent
                      /\ \A x, y \in FillsOf(s, m, f) : x = y

LEMMA ValueKept ==
  ASSUME NEW s, NEW m \in Nat, NEW T \in SUBSET (1 .. m)
  PROVE  Value(s, T \cup {m + 1}) = s[m + 1].value
BY LatestIsNew DEF Value

\* The first entry says what is new, and nothing else changes.
LEMMA ToldStep ==
  ASSUME NEW s \in Seq(Entries), NEW m \in Nat, m < Len(s),
         Legit(StateAt(s, m), s[m + 1]), Told(s, m)
  PROVE  Told(s, m + 1)
<1> DEFINE e == s[m + 1]  at == m + 1
<1>0. e \in Entries /\ at \in Nat /\ at # 0 /\ m \in 0 .. Len(s) OBVIOUS
<1>1. e.key \in Keys /\ e.value \in Values /\ e.kind \in Kinds BY <1>0 DEF Entries
<1>2. StateAt(s, at) = e.after BY <1>0 DEF StateAt
<1>3. StateAt(s, m) \in States BY <1>0, StateIsState
<1>4. Adds(s, s, m, e) BY OnePosition DEF Continues
<1>5. \A k, kinds : About(s, m, k, kinds) \in SUBSET (1 .. m) BY DEF About
<1> HIDE DEF e, at
<1>6. \A k, kinds : About(s, at, k, kinds)
        = IF e.address = "nexa" /\ e.key = k /\ e.kind \in kinds
          THEN About(s, m, k, kinds) \cup {at} ELSE About(s, m, k, kinds)
  BY <1>4 DEF Adds, at
<1>7. ASSUME NEW k, NEW kinds, e.address = "nexa", e.key = k, e.kind \in kinds
      PROVE  Value(s, About(s, at, k, kinds)) = e.value
  <2>1. About(s, at, k, kinds) = About(s, m, k, kinds) \cup {m + 1} BY <1>6, <1>7 DEF at
  <2>2. About(s, m, k, kinds) \in SUBSET (1 .. m) BY <1>5
  <2> QED BY <2>1, <2>2, ValueKept DEF e
<1>8. CASE e.address = "foreign"
  <2>1. StateAt(s, at) = StateAt(s, m) BY <1>2, <1>8 DEF Legit, e
  <2>2. \A k, kinds : About(s, at, k, kinds) = About(s, m, k, kinds) BY <1>6, <1>8
  <2>3. \A k : /\ Registrations(s, at, k) = Registrations(s, m, k)
               /\ StatusChanges(s, at, k) = StatusChanges(s, m, k)
               /\ Configurations(s, at, k) = Configurations(s, m, k)
               /\ FillsOf(s, at, k) = FillsOf(s, m, k)
    BY <2>2 DEF Registrations, StatusChanges, Configurations, FillsOf
  <2>4. Intakes(s, at) = Intakes(s, m) BY <2>2 DEF Intakes
  <2>5. Told(s, at) BY <2>1, <2>3, <2>4 DEF Told, ItemTold
  <2> QED BY <2>5 DEF at
<1>9. CASE e.address # "foreign"
  <2>0. e.address = "nexa" BY <1>0, <1>9 DEF Entries
  <2>l. Legit(StateAt(s, m), e) BY DEF e
  <2>1. /\ e.after = [StateAt(s, m) EXCEPT ![e.key] = e.value]
        /\ e.value.gen > 0
        /\ \/ /\ e.kind = "Registered" /\ e.key \in Items /\ StateAt(s, m)[e.key] = Absent
              /\ e.value = [val |-> REGISTERED, gen |-> 1]
           \/ e.kind = "StatusChanged" /\ e.key \in Items /\ StateAt(s, m)[e.key] # Absent
           \/ e.kind = "SourceIntakeConfigured" /\ e.key = Router
           \/ e.kind = "StandardModuleConfigured" /\ e.key \in Standards
           \/ e.kind = "SourceFill" /\ e.key \in Fills /\ StateAt(s, m)[e.key] = Absent
    BY <1>9, <2>l DEF Legit
  <2>2. /\ StateAt(s, at)[e.key] = e.value
        /\ \A k \in Keys \ {e.key} : StateAt(s, at)[k] = StateAt(s, m)[k]
    BY <1>1, <1>2, <1>3, <2>1 DEF States
  <2>3. e.value # Absent BY <2>1 DEF Absent
  <2>4. \A k, kinds : e.key # k \/ e.kind \notin kinds
          => About(s, at, k, kinds) = About(s, m, k, kinds)
    BY <1>6
  <2>d. /\ Items \subseteq Keys /\ Standards \subseteq Keys /\ Fills \subseteq Keys /\ Router \in Keys
        /\ Router \notin Items /\ Router \notin Standards /\ Router \notin Fills
        /\ Items \cap Standards = {} /\ Items \cap Fills = {} /\ Standards \cap Fills = {}
    BY KeysAssumption DEF Keys
  <2>5. ASSUME NEW k \in Items PROVE ItemTold(s, at, k)
    <3>0. ItemTold(s, m, k) BY DEF Told
    <3>1. CASE k # e.key
      <4>1. /\ Registrations(s, at, k) = Registrations(s, m, k)
            /\ StatusChanges(s, at, k) = StatusChanges(s, m, k)
        BY <2>4, <3>1 DEF Registrations, StatusChanges
      <4>2. StateAt(s, at)[k] = StateAt(s, m)[k] BY <2>2, <2>d, <3>1
      <4> QED BY <3>0, <4>1, <4>2 DEF ItemTold
    <3>2. CASE k = e.key /\ e.kind = "Registered"
      <4>1. StateAt(s, m)[k] = Absent /\ e.value = [val |-> REGISTERED, gen |-> 1] BY <2>1, <3>2
      <4>2. StatusChanges(s, m, k) = {} BY <3>0, <4>1 DEF ItemTold
      <4>3. StatusChanges(s, at, k) = {} BY <2>4, <3>2, <4>2 DEF StatusChanges
      <4>4. at \in Registrations(s, at, k) BY <1>6, <2>0, <3>2 DEF Registrations
      <4> QED BY <2>2, <2>3, <3>2, <4>1, <4>3, <4>4 DEF ItemTold
    <3>3. CASE k = e.key /\ e.kind = "StatusChanged"
      <4>1. StateAt(s, m)[k] # Absent BY <2>1, <3>3
      <4>2. Registrations(s, m, k) # {} BY <3>0, <4>1 DEF ItemTold
      <4>3. Registrations(s, at, k) = Registrations(s, m, k) BY <2>4, <3>3 DEF Registrations
      <4>4. at \in StatusChanges(s, at, k) BY <1>6, <2>0, <3>3 DEF StatusChanges
      <4>5. Value(s, StatusChanges(s, at, k)) = e.value BY <1>7, <2>0, <3>3 DEF StatusChanges
      <4> QED BY <2>2, <2>3, <3>3, <4>2, <4>3, <4>4, <4>5 DEF ItemTold
    <3> QED BY <2>1, <2>d, <3>1, <3>2, <3>3
  <2>6. StateAt(s, at)[Router] = Value(s, Intakes(s, at))
    <3>0. StateAt(s, m)[Router] = Value(s, Intakes(s, m)) BY DEF Told
    <3>1. CASE e.key = Router
      <4>1. e.kind = "SourceIntakeConfigured" BY <2>1, <2>d, <3>1
      <4> QED BY <1>7, <2>0, <2>2, <3>1, <4>1 DEF Intakes
    <3>2. CASE e.key # Router
      BY <2>2, <2>4, <2>d, <3>0, <3>2 DEF Intakes
    <3> QED BY <3>1, <3>2
  <2>7. ASSUME NEW k \in Standards PROVE StateAt(s, at)[k] = Value(s, Configurations(s, at, k))
    <3>0. StateAt(s, m)[k] = Value(s, Configurations(s, m, k)) BY DEF Told
    <3>1. CASE e.key = k
      <4>1. e.kind = "StandardModuleConfigured" BY <2>1, <2>d, <3>1
      <4> QED BY <1>7, <2>0, <2>2, <3>1, <4>1 DEF Configurations
    <3>2. CASE e.key # k
      BY <2>2, <2>4, <2>d, <3>0, <3>2 DEF Configurations
    <3> QED BY <3>1, <3>2
  <2>8. ASSUME NEW f \in Fills
        PROVE  /\ StateAt(s, at)[f] = Value(s, FillsOf(s, at, f))
               /\ FillsOf(s, at, f) = {} <=> StateAt(s, at)[f] = Absent
               /\ \A x, y \in FillsOf(s, at, f) : x = y
    <3>0. /\ StateAt(s, m)[f] = Value(s, FillsOf(s, m, f))
          /\ FillsOf(s, m, f) = {} <=> StateAt(s, m)[f] = Absent
          /\ \A x, y \in FillsOf(s, m, f) : x = y
      BY DEF Told
    <3>1. CASE e.key = f
      <4>1. e.kind = "SourceFill" /\ StateAt(s, m)[f] = Absent BY <2>1, <2>d, <3>1
      <4>2. FillsOf(s, at, f) = {at} BY <1>6, <2>0, <3>0, <3>1, <4>1 DEF FillsOf
      <4>3. Value(s, FillsOf(s, at, f)) = e.value BY <1>7, <2>0, <3>1, <4>1 DEF FillsOf
      <4> QED BY <2>2, <2>3, <3>1, <4>2, <4>3
    <3>2. CASE e.key # f
      <4>1. FillsOf(s, at, f) = FillsOf(s, m, f) BY <2>4, <3>2 DEF FillsOf
      <4>2. StateAt(s, at)[f] = StateAt(s, m)[f] BY <2>2, <2>d, <3>2
      <4> QED BY <3>0, <4>1, <4>2
    <3> QED BY <3>1, <3>2
  <2>9. Told(s, at) BY <2>5, <2>6, <2>7, <2>8 DEF Told
  <2> QED BY <2>9 DEF at
<1> QED BY <1>8, <1>9

\* What a history says of a key is its latest event, after a registration for an item.
LEMMA HistoryTells ==
  ASSUME NEW s \in Seq(Entries), History(s)
  PROVE  \A m \in 0 .. Len(s) : Told(s, m)
<1> DEFINE Untold == {m \in 0 .. Len(s) : ~Told(s, m)}
<1> SUFFICES ASSUME Untold # {} PROVE FALSE OBVIOUS
<1>1. PICK x \in Untold : \A y \in Untold : x <= y
  <2>1. Untold \in SUBSET Nat OBVIOUS
  <2> QED BY <2>1, Smallest
<1>2. x \in 0 .. Len(s) /\ ~Told(s, x) OBVIOUS
<1>3. CASE x = 0
  <2>1. StateAt(s, 0) = Blank BY DEF StateAt
  <2>2. \A k, kinds : About(s, 0, k, kinds) = {} BY DEF About
  <2>3. Told(s, 0)
    BY <2>1, <2>2 DEF Told, ItemTold, Registrations, StatusChanges, Intakes, Configurations,
       FillsOf, Value, Blank, Keys
  <2> QED BY <1>2, <1>3, <2>3
<1>4. CASE x # 0
  <2> DEFINE m == x - 1
  <2>1. m \in Nat /\ m < Len(s) /\ m + 1 = x /\ m \in 0 .. Len(s) /\ ~(x <= m) BY <1>2, <1>4
  <2>2. Told(s, m) BY <1>1, <2>1
  <2>3. Legit(StateAt(s, m), s[m + 1])
    <3>1. x \in 1 .. Len(s) BY <1>2, <1>4
    <3> QED BY <2>1, <3>1 DEF History
  <2> HIDE DEF m
  <2>4. Told(s, m + 1) BY <2>1, <2>2, <2>3, ToldStep
  <2> QED BY <1>2, <2>1, <2>4
<1> QED BY <1>3, <1>4
----------------------------------------------------------------------------
\* The rows of a chain are the entries its index has taken, decoded once or twice.
Decoded(c, s, n, copy) == [chain |-> c, at |-> n, copy |-> copy, event |-> s[n]]
RowOf(r, c, s) ==
  /\ r.at \in 1 .. Len(s) /\ r.copy \in {1, 2}
  /\ r = Decoded(c, s, r.at, r.copy)

TableShows ==
  /\ \A r \in table : \E i \in IndexesOf("dune") : r.chain = i.chain
  /\ \A i \in IndexesOf("dune") :
       /\ \A r \in table : r.chain = i.chain => RowOf(r, i.chain, seen[i])
       /\ \A n \in 1 .. Len(seen[i]) : Decoded(i.chain, seen[i], n, 1) \in table

\* Of every chain Dune has one set of tables.
LEMMA OneTable ==
  ASSUME NEW i \in IndexesOf("dune"), NEW j \in IndexesOf("dune"), i.chain = j.chain
  PROVE  i = j
BY IndexesAssumption DEF IndexesOf

LEMMA TableFollows ==
  ASSUME IInv, TableShows, NEW i \in published, Follow(i)
  PROVE  TableShows'
<1> DEFINE n == Len(seen[i])  e == log[i.chain][n + 1]  u == Append(seen[i], e)
<1>0. Trails /\ LogType /\ LogsAreHistories BY DEF IInv
<1>1. /\ n \in Nat /\ seen' = [seen EXCEPT ![i] = u] /\ Len(u) = n + 1
      /\ \A m \in 1 .. n : u[m] = seen[i][m]
      /\ u[n + 1] = e
  BY <1>0, FollowTakes
<1>2. i \in Indexes BY <1>0, InService
<1>3. table' = IF i.view = "dune"
               THEN table \cup {[chain |-> i.chain, at |-> n + 1, copy |-> 1, event |-> e]}
               ELSE table
  BY DEF Follow
<1> HIDE DEF n, e, u
<1>4. seen'[i] = u /\ \A j \in Indexes \ {i} : seen'[j] = seen[j] BY <1>0, <1>1, <1>2 DEF Trails
<1>5. CASE i.view # "dune"
  <2>1. table' = table /\ \A j \in IndexesOf("dune") : seen'[j] = seen[j]
    BY <1>3, <1>4, <1>5 DEF IndexesOf
  <2> QED BY <2>1 DEF TableShows
<1>6. CASE i.view = "dune"
  <2> DEFINE new == Decoded(i.chain, u, n + 1, 1)
  <2>1. i \in IndexesOf("dune") BY <1>2, <1>6 DEF IndexesOf
  <2>2. table' = table \cup {new} BY <1>1, <1>3, <1>6 DEF Decoded
  <2>3. RowOf(new, i.chain, u) /\ new.chain = i.chain BY <1>1 DEF RowOf, Decoded
  <2> HIDE DEF new
  <2>4. \A r \in table' : \E j \in IndexesOf("dune") : r.chain = j.chain
    BY <2>1, <2>2, <2>3 DEF TableShows
  <2>5. ASSUME NEW j \in IndexesOf("dune")
        PROVE  /\ \A r \in table' : r.chain = j.chain => RowOf(r, j.chain, seen'[j])
               /\ \A m \in 1 .. Len(seen'[j]) : Decoded(j.chain, seen'[j], m, 1) \in table'
    <3>1. CASE j = i
      <4>1. ASSUME NEW r \in table, r.chain = i.chain PROVE RowOf(r, i.chain, u)
        <5>1. RowOf(r, i.chain, seen[i]) BY <2>1, <4>1 DEF TableShows
        <5>2. r.at \in 1 .. n BY <5>1 DEF RowOf, n
        <5>3. r.at \in 1 .. n + 1 /\ u[r.at] = seen[i][r.at] BY <1>1, <5>2
        <5> QED BY <1>1, <5>1, <5>3 DEF RowOf, Decoded
      <4>2. ASSUME NEW m \in 1 .. n + 1 PROVE Decoded(i.chain, u, m, 1) \in table'
        <5>1. CASE m = n + 1 BY <2>2, <5>1 DEF new
        <5>2. CASE m \in 1 .. n
          <6>1. Decoded(i.chain, seen[i], m, 1) \in table BY <2>1, <5>2 DEF TableShows, n
          <6>2. u[m] = seen[i][m] BY <1>1, <5>2
          <6> QED BY <2>2, <6>1, <6>2 DEF Decoded
        <5> QED BY <1>1, <5>1, <5>2
      <4> QED BY <1>1, <1>4, <2>2, <2>3, <3>1, <4>1, <4>2
    <3>2. CASE j # i
      <4>1. seen'[j] = seen[j] BY <1>4, <3>2 DEF IndexesOf
      <4>2. j.chain # i.chain BY <2>1, <3>2, OneTable
      <4> QED BY <2>2, <2>3, <4>1, <4>2 DEF TableShows
    <3> QED BY <3>1, <3>2
  <2> QED BY <2>4, <2>5 DEF TableShows
<1> QED BY <1>5, <1>6

LEMMA TableRewinds ==
  ASSUME IInv, TableShows, NEW i \in published, Rewind(i)
  PROVE  TableShows'
<1> DEFINE n == Len(seen[i])  u == SubSeq(seen[i], 1, n - 1)
<1>0. Trails /\ LogType /\ LogsAreHistories BY DEF IInv
<1>1. /\ n \in Nat /\ n > 0 /\ seen' = [seen EXCEPT ![i] = u] /\ Len(u) = n - 1
      /\ \A m \in 1 .. n - 1 : u[m] = seen[i][m]
  BY <1>0, RewindDrops
<1>2. i \in Indexes BY <1>0, InService
<1>3. table' = {r \in table : ~(i.view = "dune" /\ r.chain = i.chain /\ r.at = n)} BY DEF Rewind
<1> HIDE DEF n, u
<1>4. seen'[i] = u /\ \A j \in Indexes \ {i} : seen'[j] = seen[j] BY <1>0, <1>1, <1>2 DEF Trails
<1>5. CASE i.view # "dune"
  <2>1. table' = table BY <1>3, <1>5
  <2>2. \A j \in IndexesOf("dune") : seen'[j] = seen[j] BY <1>4, <1>5 DEF IndexesOf
  <2> QED BY <2>1, <2>2 DEF TableShows
<1>6. CASE i.view = "dune"
  <2>1. i \in IndexesOf("dune") BY <1>2, <1>6 DEF IndexesOf
  <2>2. \A r : r \in table' <=> r \in table /\ ~(r.chain = i.chain /\ r.at = n) BY <1>3, <1>6
  <2>3. \A r \in table' : \E j \in IndexesOf("dune") : r.chain = j.chain
    BY <2>2 DEF TableShows
  <2>4. ASSUME NEW j \in IndexesOf("dune")
        PROVE  /\ \A r \in table' : r.chain = j.chain => RowOf(r, j.chain, seen'[j])
               /\ \A m \in 1 .. Len(seen'[j]) : Decoded(j.chain, seen'[j], m, 1) \in table'
    <3>1. CASE j = i
      <4>1. ASSUME NEW r \in table', r.chain = i.chain PROVE RowOf(r, i.chain, u)
        <5>1. RowOf(r, i.chain, seen[i]) /\ r.at # n BY <2>1, <2>2, <4>1 DEF TableShows
        <5>2. r.at \in 1 .. n BY <5>1 DEF RowOf, n
        <5>3. r.at \in 1 .. n - 1 BY <1>1, <5>1, <5>2
        <5>4. u[r.at] = seen[i][r.at] BY <1>1, <5>3
        <5> QED BY <1>1, <5>1, <5>3, <5>4 DEF RowOf, Decoded
      <4>2. ASSUME NEW m \in 1 .. n - 1 PROVE Decoded(i.chain, u, m, 1) \in table'
        <5>1. m \in 1 .. n /\ m # n BY <1>1
        <5>2. Decoded(i.chain, seen[i], m, 1) \in table BY <2>1, <5>1 DEF TableShows, n
        <5>3. u[m] = seen[i][m] BY <1>1
        <5>4. Decoded(i.chain, u, m, 1) = Decoded(i.chain, seen[i], m, 1)
              /\ Decoded(i.chain, u, m, 1).at = m
          BY <5>3 DEF Decoded
        <5> QED BY <2>2, <5>1, <5>2, <5>4
      <4> QED BY <1>1, <1>4, <3>1, <4>1, <4>2
    <3>2. CASE j # i
      <4>1. seen'[j] = seen[j] BY <1>4, <3>2 DEF IndexesOf
      <4>2. j.chain # i.chain BY <2>1, <3>2, OneTable
      <4>3. \A m : Decoded(j.chain, seen[j], m, 1).chain = j.chain BY DEF Decoded
      <4> QED BY <2>2, <4>1, <4>2, <4>3 DEF TableShows
    <3> QED BY <3>1, <3>2
  <2> QED BY <2>3, <2>4 DEF TableShows
<1> QED BY <1>5, <1>6

LEMMA TableRepeats == TableShows /\ DecodeTwice => TableShows'
<1> SUFFICES ASSUME TableShows, DecodeTwice PROVE TableShows' OBVIOUS
<1>1. PICK r \in table : table' = table \cup {[r EXCEPT !.copy = 2]} BY DEF DecodeTwice
<1>2. seen' = seen BY DEF DecodeTwice
<1> DEFINE new == [r EXCEPT !.copy = 2]
<1>3. PICK i \in IndexesOf("dune") : r.chain = i.chain BY DEF TableShows
<1>4. RowOf(r, i.chain, seen[i]) BY <1>3 DEF TableShows
<1>5. new = Decoded(i.chain, seen[i], r.at, 2) BY <1>4 DEF RowOf, Decoded
<1>6. RowOf(new, i.chain, seen[i]) /\ new.chain = i.chain BY <1>4, <1>5 DEF RowOf, Decoded
<1>7. table' = table \cup {new} BY <1>1
<1> HIDE DEF new
<1>8. \A q \in table' : \E j \in IndexesOf("dune") : q.chain = j.chain
  BY <1>6, <1>7 DEF TableShows
<1>9. ASSUME NEW j \in IndexesOf("dune")
      PROVE  /\ \A q \in table' : q.chain = j.chain => RowOf(q, j.chain, seen'[j])
             /\ \A m \in 1 .. Len(seen'[j]) : Decoded(j.chain, seen'[j], m, 1) \in table'
  <2>1. j.chain = i.chain => j = i BY OneTable
  <2> QED BY <1>2, <1>6, <1>7, <2>1 DEF TableShows
<1> QED BY <1>8, <1>9 DEF TableShows

VInv == IInv /\ TableShows

LEMMA ViewsInvariant == Spec => []VInv
<1>1. Init => TableShows BY DEF Init, TableShows, IndexesOf
<1>2. ASSUME IInv, TableShows, [Next]_vars PROVE TableShows'
  <2>1. ASSUME NEW i \in published, ChainStep(i.chain), UNCHANGED indexVars PROVE TableShows'
    BY <1>2, <2>1 DEF indexVars, TableShows
  <2>2. ASSUME NEW i \in published, Follow(i) \/ Rewind(i) PROVE TableShows'
    BY <1>2, <2>2, TableFollows, TableRewinds
  <2>3. CASE DecodeTwice BY <1>2, <2>3, TableRepeats
  <2>4. CASE UNCHANGED vars BY <1>2, <2>4 DEF vars, indexVars, TableShows
  <2> QED BY <1>2, <2>1, <2>2, <2>3, <2>4 DEF Next
<1> QED BY Invariant, <1>1, <1>2, PTL DEF Spec, VInv
----------------------------------------------------------------------------
\* What the queries compute from the rows of one chain among all.
Rows(c, s, T) == {Decoded(c, s, n, 1) : n \in T}

LEMMA CanonicalRows ==
  ASSUME TableShows, NEW i \in IndexesOf("dune"), NEW r
  PROVE  r \in canonical(table) /\ r.chain = i.chain
           <=> \E n \in OwnAt(i) : r = Decoded(i.chain, seen[i], n, 1)
<1>1. ASSUME r \in canonical(table), r.chain = i.chain
      PROVE  \E n \in OwnAt(i) : r = Decoded(i.chain, seen[i], n, 1)
  <2>1. r \in table /\ r.event.address = "nexa" BY <1>1 DEF canonical
  <2>2. RowOf(r, i.chain, seen[i]) BY <1>1, <2>1 DEF TableShows
  <2> DEFINE q == Decoded(i.chain, seen[i], r.at, 1)
  <2>3. q \in table /\ q.copy = 1 /\ q.chain = i.chain /\ q.at = r.at
    BY <2>2 DEF TableShows, RowOf, Decoded
  <2>4. ~(q.copy < r.copy) BY <1>1, <2>3 DEF canonical
  <2>5. r.copy = 1 BY <2>2, <2>3, <2>4 DEF RowOf
  <2>6. r.event = seen[i][r.at] BY <2>2 DEF RowOf, Decoded
  <2>7. r.at \in OwnAt(i) BY <2>1, <2>2, <2>6 DEF RowOf, OwnAt
  <2> QED BY <2>2, <2>5, <2>7 DEF RowOf
<1>2. ASSUME NEW n \in OwnAt(i), r = Decoded(i.chain, seen[i], n, 1)
      PROVE  r \in canonical(table) /\ r.chain = i.chain
  <2>1. n \in 1 .. Len(seen[i]) /\ seen[i][n].address = "nexa" BY DEF OwnAt
  <2>2. r \in table BY <1>2, <2>1 DEF TableShows
  <2>3. r.event.address = "nexa" /\ r.chain = i.chain /\ r.copy = 1 BY <1>2, <2>1 DEF Decoded
  <2>4. ASSUME NEW q \in table, q.copy < r.copy, q.chain = r.chain PROVE FALSE
    <3>1. RowOf(q, i.chain, seen[i]) BY <2>3, <2>4 DEF TableShows
    <3> QED BY <2>3, <2>4, <3>1 DEF RowOf
  <2> QED BY <2>2, <2>3, <2>4 DEF canonical
<1> QED BY <1>1, <1>2

LEMMA RowsOfKey ==
  ASSUME TableShows, NEW i \in IndexesOf("dune"), NEW kind, NEW k
  PROVE  eventRows(canonical(table), kind, i.chain, k)
           = Rows(i.chain, seen[i], About(seen[i], Len(seen[i]), k, {kind}))
<1> DEFINE found == eventRows(canonical(table), kind, i.chain, k)
           about == About(seen[i], Len(seen[i]), k, {kind})
<1>1. ASSUME NEW r \in found PROVE r \in Rows(i.chain, seen[i], about)
  <2>1. r \in canonical(table) /\ r.chain = i.chain /\ r.event.key = k /\ r.event.kind = kind
    BY DEF eventRows
  <2>2. PICK n \in OwnAt(i) : r = Decoded(i.chain, seen[i], n, 1) BY <2>1, CanonicalRows
  <2>3. r.event = seen[i][n] BY <2>2 DEF Decoded
  <2>4. n \in about BY <2>1, <2>3 DEF OwnAt, About
  <2> QED BY <2>2, <2>4 DEF Rows
<1>2. ASSUME NEW n \in about PROVE Decoded(i.chain, seen[i], n, 1) \in found
  <2> DEFINE r == Decoded(i.chain, seen[i], n, 1)
  <2>1. n \in OwnAt(i) /\ seen[i][n].key = k /\ seen[i][n].kind = kind BY DEF OwnAt, About
  <2>2. r \in canonical(table) /\ r.chain = i.chain BY <2>1, CanonicalRows
  <2>3. r.event = seen[i][n] BY DEF Decoded
  <2> HIDE DEF r
  <2> QED BY <2>1, <2>2, <2>3 DEF eventRows, r
<1> HIDE DEF found, about
<1>3. found = Rows(i.chain, seen[i], about) BY <1>1, <1>2 DEF Rows
<1> QED BY <1>3 DEF found, about

LEMMA LatestRow ==
  ASSUME NEW c, NEW s, NEW m \in Nat, NEW T \in SUBSET (1 .. m)
  PROVE  /\ valueOf(Rows(c, s, T)) = Value(s, T)
         /\ Rows(c, s, T) = {} <=> T = {}
<1> DEFINE found == Rows(c, s, T)
<1>1. found = {} <=> T = {} BY DEF Rows
<1>2. CASE T = {} BY <1>1, <1>2 DEF valueOf, Value
<1>3. CASE T # {}
  <2> DEFINE x == Latest(T)
             row == Decoded(c, s, x, 1)
  <2>1. x \in T /\ \A y \in T : y <= x BY <1>3, Largest
  <2>2. \A y : Decoded(c, s, y, 1).at = y /\ Decoded(c, s, y, 1).event = s[y] BY DEF Decoded
  <2> HIDE DEF x
  <2>3. row \in latest(found)
    <3>1. row \in found BY <2>1 DEF Rows
    <3>2. \A q \in found : q.at <= row.at BY <2>1, <2>2 DEF Rows
    <3> QED BY <3>1, <3>2 DEF latest
  <2>4. ASSUME NEW r \in latest(found) PROVE r = row
    <3>1. r \in found /\ \A q \in found : q.at <= r.at BY DEF latest
    <3>2. PICK y \in T : r = Decoded(c, s, y, 1) BY <3>1 DEF Rows
    <3>3. row \in found BY <2>1 DEF Rows
    <3>4. x <= y /\ y <= x BY <2>1, <2>2, <3>1, <3>2, <3>3
    <3>5. x = y BY <2>1, <3>4
    <3> QED BY <3>2, <3>5
  <2>5. (CHOOSE r \in latest(found) : TRUE) = row BY <2>3, <2>4
  <2> HIDE DEF found, row
  <2>6. valueOf(found) = row.event.value BY <1>1, <1>3, <2>5 DEF valueOf
  <2> QED BY <1>1, <1>3, <2>2, <2>6 DEF Value, x, row, found
<1> QED BY <1>1, <1>2, <1>3
\* What is told of the entries a chain's tables hold.
LEMMA TablesTell ==
  ASSUME VInv, NEW i \in IndexesOf("dune")
  PROVE  /\ TableShows /\ i \in Indexes
         /\ seen[i] \in Seq(Entries) /\ Len(seen[i]) \in Nat /\ History(seen[i])
         /\ Told(seen[i], Len(seen[i]))
<1>1. TableShows /\ i \in Indexes BY DEF VInv, IndexesOf
<1>2. seen[i] \in Seq(Entries) /\ History(seen[i]) BY <1>1 DEF VInv, IInv, Trails
<1>3. Len(seen[i]) \in 0 .. Len(seen[i]) /\ Len(seen[i]) \in Nat BY <1>2
<1>4. Told(seen[i], Len(seen[i])) BY <1>2, <1>3, HistoryTells
<1> QED BY <1>1, <1>2, <1>3, <1>4

\* The queries show every key of the contracts as it is after the entries taken.
LEMMA QueriesShow ==
  ASSUME VInv, NEW i \in IndexesOf("dune"), NEW k \in Keys
  PROVE  QueriedValue(canonical(table), i.chain, k) = StateAt(seen[i], Len(seen[i]))[k]
<1> DEFINE c == i.chain  s == seen[i]  m == Len(seen[i])  events == canonical(table)
<1>1. TableShows /\ m \in Nat /\ Told(s, m) BY TablesTell
<1>2. \A kind, j : eventRows(events, kind, c, j) = Rows(c, s, About(s, m, j, {kind}))
  BY <1>1, RowsOfKey
<1>3. \A j, kinds : About(s, m, j, kinds) \in SUBSET (1 .. m) BY DEF About
<1> HIDE DEF s, m, c, events
<1>4. ASSUME NEW kind, NEW j
      PROVE  /\ valueOf(eventRows(events, kind, c, j)) = Value(s, About(s, m, j, {kind}))
             /\ eventRows(events, kind, c, j) = {} <=> About(s, m, j, {kind}) = {}
  <2> DEFINE T == About(s, m, j, {kind})
  <2>1. eventRows(events, kind, c, j) = Rows(c, s, T) BY <1>2
  <2>2. T \in SUBSET (1 .. m) BY <1>3
  <2> HIDE DEF T
  <2>3. valueOf(Rows(c, s, T)) = Value(s, T) /\ (Rows(c, s, T) = {} <=> T = {})
    BY <1>1, <2>2, LatestRow
  <2> QED BY <2>1, <2>3 DEF T
<1>5. CASE k \in Items
  <2>1. QueriedValue(events, c, k) = current(events, c, k)
    BY <1>5, KeysAssumption DEF QueriedValue
  <2>2. ItemTold(s, m, k) BY <1>1, <1>5 DEF Told
  <2>3. current(events, c, k) = StateAt(s, m)[k]
    BY <1>4, <2>2 DEF current, ItemTold, Registrations, StatusChanges
  <2> QED BY <2>1, <2>3 DEF s, m, c, events
<1>6. CASE k = Router
  <2>1. QueriedValue(events, c, k) = routerState(events, c)
    BY <1>6, KeysAssumption DEF QueriedValue
  <2>2. routerState(events, c) = StateAt(s, m)[k]
    BY <1>1, <1>4, <1>6 DEF routerState, Told, Intakes
  <2> QED BY <2>1, <2>2 DEF s, m, c, events
<1>7. CASE k \in Standards
  <2>1. QueriedValue(events, c, k) = standardModule(events, c, k)
    BY <1>7, KeysAssumption DEF QueriedValue
  <2>2. standardModule(events, c, k) = StateAt(s, m)[k]
    BY <1>1, <1>4, <1>7 DEF standardModule, Told, Configurations
  <2> QED BY <2>1, <2>2 DEF s, m, c, events
<1>8. CASE k \in Fills
  <2>1. QueriedValue(events, c, k) = sourceFill(events, c, k)
    BY <1>8, KeysAssumption DEF QueriedValue
  <2>2. sourceFill(events, c, k) = StateAt(s, m)[k]
    BY <1>1, <1>4, <1>8 DEF sourceFill, Told, FillsOf
  <2> QED BY <2>1, <2>2 DEF s, m, c, events
<1> QED BY <1>5, <1>6, <1>7, <1>8 DEF Keys

\* The rows of a set of positions are as many as the positions.
LEMMA RowsAreCounted ==
  ASSUME NEW c, NEW s, NEW m \in Nat, NEW T \in SUBSET (1 .. m)
  PROVE  IsFiniteSet(T) /\ Cardinality(Rows(c, s, T)) = Cardinality(T)
<1>1. IsFiniteSet(T)
  <2>1. IsFiniteSet(1 .. m) BY FS_Interval
  <2> QED BY <2>1, FS_Subset
<1> DEFINE f == [n \in T |-> Decoded(c, s, n, 1)]
<1>2. \A n \in T : Decoded(c, s, n, 1).at = n BY DEF Decoded
<1>3. f \in [T -> Rows(c, s, T)] BY DEF Rows
<1>4. \A x, y \in T : f[x] = f[y] => x = y BY <1>2
<1>5. \A r \in Rows(c, s, T) : \E n \in T : f[n] = r BY DEF Rows
<1> HIDE DEF f
<1>6. f \in Bijection(T, Rows(c, s, T))
  BY <1>3, <1>4, <1>5 DEF Bijection, Injection, Surjection, IsInjective
<1>7. ExistsBijection(T, Rows(c, s, T)) BY <1>6 DEF ExistsBijection
<1> QED BY <1>1, <1>7, FS_Bijection

\* The entries of a history that fill or switch are about the keys of fills and intake.
LEMMA KindsOfKeys ==
  ASSUME NEW s \in Seq(Entries), History(s), NEW n \in 1 .. Len(s), s[n].address = "nexa"
  PROVE  /\ s[n].kind = "SourceFill" => s[n].key \in Fills
         /\ s[n].kind = "SourceIntakeConfigured" => s[n].key = Router
BY DEF History, Legit

\* CountsAreTheContracts for all chains, keys, logs, reorganizations and repeated rows:
\* the overview counts what the contracts hold.
THEOREM OverviewCounts == Spec => []CountsAreTheContracts
<1>1. ASSUME VInv, NEW i \in IndexesOf("dune")
      PROVE  LET now == StateAt(seen[i], Len(seen[i]))
                 events == canonical(table)
                 holds(items) == Cardinality({k \in items : now[k] # Absent})
             IN  /\ registered(events, i.chain, Networks) = holds(Networks)
                 /\ registered(events, i.chain, Assets) = holds(Assets)
                 /\ registered(events, i.chain, Routes) = holds(Routes)
                 /\ source_fill_count(events, i.chain) = holds(Fills)
                 /\ source_intake_events(events, i.chain)
                      = Cardinality({n \in OwnAt(i) : seen[i][n].kind = "SourceIntakeConfigured"})
  <2> DEFINE c == i.chain  s == seen[i]  m == Len(seen[i])  events == canonical(table)
             now == StateAt(s, m)
             holds(items) == Cardinality({k \in items : now[k] # Absent})
  <2>1. /\ TableShows /\ m \in Nat /\ Told(s, m) /\ s \in Seq(Entries) /\ History(s)
        /\ Len(s) = m
    BY <1>1, TablesTell
  <2>2. \A kind, j : eventRows(events, kind, c, j) = Rows(c, s, About(s, m, j, {kind}))
    BY <2>1, RowsOfKey
  <2>3. \A j, kinds : About(s, m, j, kinds) \in SUBSET (1 .. m) BY DEF About
  <2>o. OwnAt(i) = {n \in 1 .. m : s[n].address = "nexa"} BY DEF OwnAt
  <2> HIDE DEF s, m, c, events
  <2>4. ASSUME NEW items, items \subseteq Items
        PROVE  registered(events, c, items) = holds(items)
    <3>1. ASSUME NEW k \in items
          PROVE  eventRows(events, "Registered", c, k) # {} <=> now[k] # Absent
      <4>1. eventRows(events, "Registered", c, k) = Rows(c, s, Registrations(s, m, k))
        BY <2>2 DEF Registrations
      <4>2. Rows(c, s, Registrations(s, m, k)) = {} <=> Registrations(s, m, k) = {} BY DEF Rows
      <4>3. Registrations(s, m, k) = {} <=> now[k] = Absent BY <2>1, <2>4 DEF Told, ItemTold
      <4> QED BY <4>1, <4>2, <4>3
    <3>2. {k \in items : eventRows(events, "Registered", c, k) # {}} = {k \in items : now[k] # Absent}
      BY <3>1
    <3> QED BY <3>2 DEF registered
  <2>5. source_intake_events(events, c)
          = Cardinality({n \in OwnAt(i) : s[n].kind = "SourceIntakeConfigured"})
    <3>1. eventRows(events, "SourceIntakeConfigured", c, Router) = Rows(c, s, Intakes(s, m))
      BY <2>2 DEF Intakes
    <3>2. Intakes(s, m) \in SUBSET (1 .. m) BY <2>3 DEF Intakes
    <3>3. Cardinality(Rows(c, s, Intakes(s, m))) = Cardinality(Intakes(s, m))
      BY <2>1, <3>2, RowsAreCounted
    <3>4. Intakes(s, m) = {n \in OwnAt(i) : s[n].kind = "SourceIntakeConfigured"}
      BY <2>1, <2>o, KindsOfKeys DEF Intakes, About
    <3> QED BY <3>1, <3>3, <3>4 DEF source_intake_events
  <2>6. source_fill_count(events, c) = holds(Fills)
    <3> DEFINE filled == {n \in OwnAt(i) : s[n].kind = "SourceFill"}
               there == {k \in Fills : now[k] # Absent}
               g == [n \in filled |-> s[n].key]
    <3>0. filled \in SUBSET (1 .. m) BY <2>o
    <3>1. ASSUME NEW n \in filled PROVE s[n].key \in Fills /\ n \in FillsOf(s, m, s[n].key)
      <4>1. n \in 1 .. Len(s) /\ s[n].address = "nexa" /\ s[n].kind = "SourceFill" BY <2>1, <2>o
      <4> QED BY <2>1, <4>1, KindsOfKeys DEF FillsOf, About
    <3>2. ASSUME NEW k \in Fills, NEW n \in FillsOf(s, m, k) PROVE n \in filled /\ s[n].key = k
      BY <2>o DEF FillsOf, About
    <3>3. \A k \in Fills : FillsOf(s, m, k) # {} <=> k \in there BY <2>1 DEF Told
    <3> HIDE DEF filled, there
    <3>4. UNION {eventRows(events, "SourceFill", c, f) : f \in Fills} = Rows(c, s, filled)
      <4>1. \A f : eventRows(events, "SourceFill", c, f) = Rows(c, s, FillsOf(s, m, f))
        BY <2>2 DEF FillsOf
      <4>2. ASSUME NEW r PROVE (\E f \in Fills : r \in Rows(c, s, FillsOf(s, m, f)))
                                 <=> r \in Rows(c, s, filled)
        BY <3>1, <3>2 DEF Rows
      <4>3. ASSUME NEW r PROVE r \in UNION {eventRows(events, "SourceFill", c, f) : f \in Fills}
                                 <=> r \in Rows(c, s, filled)
        BY <4>1, <4>2
      <4> QED BY <4>3
    <3>5. IsFiniteSet(filled) /\ Cardinality(Rows(c, s, filled)) = Cardinality(filled)
      BY <2>1, <3>0, RowsAreCounted
    <3>6. g \in Bijection(filled, there)
      <4>1. ASSUME NEW n \in filled PROVE s[n].key \in there BY <3>1, <3>3
      <4>2. ASSUME NEW x \in filled, NEW y \in filled, s[x].key = s[y].key PROVE x = y
        <5>1. x \in FillsOf(s, m, s[x].key) /\ y \in FillsOf(s, m, s[x].key) /\ s[x].key \in Fills
          BY <3>1, <4>2
        <5> QED BY <2>1, <5>1 DEF Told
      <4>3. ASSUME NEW k \in there PROVE \E n \in filled : s[n].key = k
        <5>1. k \in Fills BY DEF there
        <5> QED BY <3>2, <3>3, <5>1
      <4> QED BY <4>1, <4>2, <4>3 DEF Bijection, Injection, Surjection, IsInjective
    <3> HIDE DEF g
    <3>7. Cardinality(there) = Cardinality(filled)
      BY <3>5, <3>6, FS_Bijection DEF ExistsBijection
    <3> QED BY <3>4, <3>5, <3>7 DEF source_fill_count, there
  <2>7. Networks \subseteq Items /\ Assets \subseteq Items /\ Routes \subseteq Items BY DEF Items
  <2> QED BY <2>4, <2>5, <2>6, <2>7 DEF s, m, c, events
<1>2. VInv => CountsAreTheContracts BY <1>1 DEF CountsAreTheContracts
<1> QED BY ViewsInvariant, <1>2, PTL
----------------------------------------------------------------------------
\* Every index shows the state of the contracts after the entries it has taken.
ShowsItsTrail == \A i \in Indexes : Shown(i) = Cover(i, StateAt(seen[i], Len(seen[i])))

LEMMA AllShowTheirTrail == VInv => ShowsItsTrail
<1> SUFFICES ASSUME VInv, NEW i \in Indexes
             PROVE  Shown(i) = Cover(i, StateAt(seen[i], Len(seen[i])))
  BY DEF ShowsItsTrail
<1>1. CASE i.view = "dune"
  <2> DEFINE now == StateAt(seen[i], Len(seen[i]))
  <2>1. i \in IndexesOf("dune") BY <1>1 DEF IndexesOf
  <2>2. \A k \in Keys : QueriedValue(canonical(table), i.chain, k) = now[k] BY <2>1, QueriesShow
  <2>3. seen[i] \in Seq(Entries) /\ Len(seen[i]) \in Nat BY <2>1, TablesTell
  <2>4. now \in States BY <2>3, StateIsState
  <2>5. Shown(i) = [k \in Keys |-> QueriedValue(canonical(table), i.chain, k)] BY <1>1 DEF Shown
  <2>6. Cover(i, now) = now BY <1>1 DEF Cover
  <2> HIDE DEF now
  <2>7. Shown(i) = Cover(i, now) BY <2>2, <2>4, <2>5, <2>6 DEF States
  <2> QED BY <2>7 DEF now
<1>2. CASE i.view # "dune"
  <2>1. i \in IndexesOf("graph") \cup IndexesOf("substreams")
    BY <1>2, IndexesAssumption DEF IndexesOf
  <2> QED BY <2>1, StoresShowTheirTrail DEF VInv, IndexesShowTheirTrail
<1> QED BY <1>1, <1>2

\* The states along a trail, one more than its entries.
Covers(i) == {Cover(i, state) : state \in States}

LEMMA AlongTrail ==
  ASSUME NEW s \in Seq(Entries), NEW i
  PROVE  /\ StatesAlong(s, i) \in Seq(Covers(i)) /\ Len(StatesAlong(s, i)) = Len(s) + 1
         /\ \A n \in 0 .. Len(s) : StatesAlong(s, i)[n + 1] = Cover(i, StateAt(s, n))
<1> DEFINE w == StatesAlong(s, i)
<1>1. w = [n \in 1 .. Len(s) + 1 |-> Cover(i, StateAt(s, n - 1))] BY DEF StatesAlong
<1> HIDE DEF w
<1>2. ASSUME NEW n \in 1 .. Len(s) + 1 PROVE Cover(i, StateAt(s, n - 1)) \in Covers(i)
  <2>1. n - 1 \in 0 .. Len(s) OBVIOUS
  <2>2. StateAt(s, n - 1) \in States BY <2>1, StateIsState
  <2> QED BY <2>2 DEF Covers
<1>3. w \in [1 .. Len(s) + 1 -> Covers(i)] BY <1>1, <1>2
<1>4. Len(s) + 1 \in Nat OBVIOUS
<1>5. w \in Seq(Covers(i)) /\ Len(w) = Len(s) + 1 BY <1>3, <1>4
<1>6. ASSUME NEW n \in 0 .. Len(s) PROVE w[n + 1] = Cover(i, StateAt(s, n))
  <2>1. n + 1 \in 1 .. Len(s) + 1 /\ (n + 1) - 1 = n OBVIOUS
  <2> QED BY <1>1, <2>1
<1> QED BY <1>5, <1>6 DEF w

LEMMA AlongPrefix ==
  ASSUME NEW s \in Seq(Entries), NEW n \in 0 .. Len(s), NEW i
  PROVE  StatesAlong(SubSeq(s, 1, n), i) = SubSeq(StatesAlong(s, i), 1, n + 1)
<1> DEFINE t == SubSeq(s, 1, n)  v == StatesAlong(t, i)  w == StatesAlong(s, i)
<1>1. t \in Seq(Entries) /\ Len(t) = n /\ \A m \in 1 .. n : t[m] = s[m] OBVIOUS
<1>2. /\ v \in Seq(Covers(i)) /\ Len(v) = n + 1
      /\ \A m \in 0 .. n : v[m + 1] = Cover(i, StateAt(t, m))
  <2>1. /\ v \in Seq(Covers(i)) /\ Len(v) = Len(t) + 1
        /\ \A m \in 0 .. Len(t) : v[m + 1] = Cover(i, StateAt(t, m))
    BY <1>1, AlongTrail
  <2> QED BY <1>1, <2>1
<1>3. /\ w \in Seq(Covers(i)) /\ Len(w) = Len(s) + 1
      /\ \A m \in 0 .. Len(s) : w[m + 1] = Cover(i, StateAt(s, m))
  BY AlongTrail
<1>4. \A m \in 0 .. n : StateAt(t, m) = StateAt(s, m) BY <1>1 DEF StateAt
<1> HIDE DEF t, v, w
<1>5. ASSUME NEW x \in 1 .. n + 1 PROVE v[x] = w[x]
  <2>1. x - 1 \in 0 .. n /\ x - 1 \in 0 .. Len(s) /\ (x - 1) + 1 = x OBVIOUS
  <2>2. v[(x - 1) + 1] = w[(x - 1) + 1] BY <1>2, <1>3, <1>4, <2>1
  <2> QED BY <2>1, <2>2
<1>6. SubSeq(w, 1, n + 1) \in Seq(Covers(i)) /\ Len(SubSeq(w, 1, n + 1)) = n + 1
      /\ \A x \in 1 .. n + 1 : SubSeq(w, 1, n + 1)[x] = w[x]
  BY <1>3
<1>7. v = SubSeq(w, 1, n + 1) BY <1>2, <1>5, <1>6
<1> QED BY <1>7 DEF t, v, w

LEMMA AlongAppend ==
  ASSUME NEW s \in Seq(Entries), NEW e \in Entries, NEW i
  PROVE  StatesAlong(Append(s, e), i) = Append(StatesAlong(s, i), Cover(i, e.after))
<1> DEFINE t == Append(s, e)  n == Len(s)  v == StatesAlong(t, i)  w == StatesAlong(s, i)
           z == Append(w, Cover(i, e.after))
<1>1. t \in Seq(Entries) /\ Len(t) = n + 1 /\ n \in Nat /\ t[n + 1] = e
      /\ \A m \in 1 .. n : t[m] = s[m]
  OBVIOUS
<1>2. /\ v \in Seq(Covers(i)) /\ Len(v) = Len(t) + 1
      /\ \A m \in 0 .. Len(t) : v[m + 1] = Cover(i, StateAt(t, m))
  BY <1>1, AlongTrail
<1>3. /\ w \in Seq(Covers(i)) /\ Len(w) = n + 1
      /\ \A m \in 0 .. n : w[m + 1] = Cover(i, StateAt(s, m))
  BY AlongTrail
<1>4. \A m \in 0 .. n : StateAt(t, m) = StateAt(s, m) BY <1>1 DEF StateAt
<1>5. StateAt(t, n + 1) = e.after BY <1>1 DEF StateAt
<1>6. Cover(i, e.after) \in Covers(i) BY DEF Covers, Entries
<1> HIDE DEF t, n, v, w
<1>7. z \in Seq(Covers(i)) /\ Len(z) = (n + 1) + 1 /\ z[(n + 1) + 1] = Cover(i, e.after)
      /\ \A x \in 1 .. n + 1 : z[x] = w[x]
  BY <1>3, <1>6
<1> HIDE DEF z
<1>8. ASSUME NEW x \in 1 .. (n + 1) + 1 PROVE v[x] = z[x]
  <2>1. x - 1 \in 0 .. n + 1 /\ (x - 1) + 1 = x BY <1>1
  <2>2. v[x] = Cover(i, StateAt(t, x - 1))
    <3>1. v[(x - 1) + 1] = Cover(i, StateAt(t, x - 1)) BY <1>1, <1>2, <2>1
    <3> QED BY <2>1, <3>1
  <2>3. CASE x = (n + 1) + 1
    <3>1. x - 1 = n + 1 BY <1>1, <2>3
    <3> QED BY <1>5, <1>7, <2>2, <2>3, <3>1
  <2>4. CASE x # (n + 1) + 1
    <3>1. x - 1 \in 0 .. n /\ x \in 1 .. n + 1 BY <1>1, <2>4
    <3>2. w[(x - 1) + 1] = Cover(i, StateAt(s, x - 1)) BY <1>3, <3>1
    <3> QED BY <1>4, <1>7, <2>1, <2>2, <3>1, <3>2
  <2> QED BY <2>3, <2>4
<1>9. v = z BY <1>1, <1>2, <1>7, <1>8
<1> QED BY <1>9 DEF t, n, v, w, z
\* An index that takes nothing and gives nothing back rests, whatever the others do.
LEMMA Rests ==
  ASSUME ShowsItsTrail, ShowsItsTrail', NEW i \in Indexes, seen'[i] = seen[i]
  PROVE  Follower!Rest(i)
<1>1. Shown(i) = Cover(i, StateAt(seen[i], Len(seen[i]))) BY DEF ShowsItsTrail
<1>2. Shown(i)' = Cover(i, StateAt(seen'[i], Len(seen'[i])))
  BY DEF ShowsItsTrail, Cover, StateAt, Blank
<1>3. StatesAlong(seen[i], i)' = StatesAlong(seen[i], i) BY DEF StatesAlong, Cover, StateAt
<1>4. Shown(i)' = Shown(i) BY <1>1, <1>2
<1> QED BY <1>3, <1>4 DEF Follower!Rest

LEMMA FollowAdvances ==
  ASSUME VInv, ShowsItsTrail, ShowsItsTrail', NEW i \in published, Follow(i)
  PROVE  Follower!Next
<1> DEFINE n == Len(seen[i])  s == log[i.chain]  e == s[n + 1]  u == Append(seen[i], e)
<1>0. Trails /\ LogType /\ LogsAreHistories BY DEF VInv, IInv
<1>1. /\ i \in Indexes /\ seen[i] \in Seq(Entries) /\ s \in Seq(Entries) BY <1>0, InService
<1>2. /\ n \in Nat /\ e \in Entries /\ seen' = [seen EXCEPT ![i] = u] BY <1>0, FollowTakes
<1>3. n < Len(s) /\ seen[i] = SubSeq(s, 1, n) BY DEF Follow, OnChain
<1>4. seen'[i] = u /\ \A j \in Indexes \ {i} : seen'[j] = seen[j] BY <1>0, <1>1, <1>2 DEF Trails
<1>5. log' = log BY DEF Follow, chainVars
<1> DEFINE w == StatesAlong(s, i)  v == StatesAlong(seen[i], i)
<1>6. /\ Len(w) = Len(s) + 1 /\ \A m \in 0 .. Len(s) : w[m + 1] = Cover(i, StateAt(s, m))
  BY <1>1, AlongTrail
<1>7. Len(v) = n + 1 BY <1>1, AlongTrail
<1>8. v = SubSeq(w, 1, Len(v))
  <2>1. n \in 0 .. Len(s) BY <1>2, <1>3, <1>1
  <2>2. StatesAlong(SubSeq(s, 1, n), i) = SubSeq(w, 1, n + 1) BY <1>1, <2>1, AlongPrefix
  <2> QED BY <1>3, <1>7, <2>2
<1>9. w[Len(v) + 1] = Cover(i, e.after)
  <2>1. n + 1 \in 0 .. Len(s) /\ n + 1 # 0 BY <1>1, <1>2, <1>3
  <2>2. StateAt(s, n + 1) = e.after BY <2>1 DEF StateAt
  <2> QED BY <1>6, <1>7, <2>1, <2>2
<1>10. StatesAlong(u, i) = Append(v, Cover(i, e.after)) BY <1>1, <1>2, AlongAppend
<1>11. StatesAlong(seen[i], i)' = StatesAlong(u, i) BY <1>4 DEF StatesAlong, Cover, StateAt, Blank
<1>12. Shown(i)' = Cover(i, e.after)
  <2>2. Shown(i)' = Cover(i, StateAt(seen'[i], Len(seen'[i])))
    BY <1>1 DEF ShowsItsTrail, Cover, StateAt, Blank
  <2>3. Len(u) = n + 1 /\ u[n + 1] = e /\ n + 1 # 0 BY <1>1, <1>2
  <2>4. StateAt(u, Len(u)) = e.after BY <2>3 DEF StateAt
  <2> QED BY <1>4, <2>2, <2>4
<1> HIDE DEF n, s, e, u, w, v
<1>13. Follower!Advance(i)
  <2>1. Len(v) < Len(w) BY <1>2, <1>1, <1>3, <1>6, <1>7 DEF s
  <2> QED BY <1>1, <1>8, <1>9, <1>10, <1>11, <1>12, <2>1 DEF Follower!Advance, v, w, s
<1>14. \A j \in Indexes \ {i} : Follower!Rest(j) BY <1>4, Rests
<1>15. UNCHANGED [j \in Indexes |-> StatesAlong(log[j.chain], j)]
  BY <1>5 DEF StatesAlong, Cover, StateAt
<1> QED BY <1>1, <1>13, <1>14, <1>15 DEF Follower!Next

LEMMA RewindFallsBack ==
  ASSUME VInv, ShowsItsTrail, ShowsItsTrail', NEW i \in published, Rewind(i)
  PROVE  Follower!Next
<1> DEFINE n == Len(seen[i])  u == SubSeq(seen[i], 1, n - 1)
<1>0. Trails /\ LogType /\ LogsAreHistories BY DEF VInv, IInv
<1>1. i \in Indexes /\ seen[i] \in Seq(Entries) BY <1>0, InService
<1>2. /\ n \in Nat /\ n > 0 /\ seen' = [seen EXCEPT ![i] = u] /\ Len(u) = n - 1
      /\ \A m \in 1 .. n - 1 : u[m] = seen[i][m]
  BY <1>0, RewindDrops
<1>4. seen'[i] = u /\ \A j \in Indexes \ {i} : seen'[j] = seen[j] BY <1>0, <1>1, <1>2 DEF Trails
<1>5. log' = log BY DEF Rewind, chainVars
<1>3. StateAt(u, n - 1) = StateAt(seen[i], n - 1)
  <2> HIDE DEF n, u
  <2>1. CASE n - 1 = 0 BY <2>1 DEF StateAt
  <2>2. CASE n - 1 # 0
    <3>1. n - 1 \in 1 .. n - 1 BY <1>2, <2>2
    <3> QED BY <1>2, <2>2, <3>1 DEF StateAt
  <2> QED BY <2>1, <2>2
<1> DEFINE v == StatesAlong(seen[i], i)
<1>6. /\ Len(v) = n + 1 /\ \A m \in 0 .. n : v[m + 1] = Cover(i, StateAt(seen[i], m))
  BY <1>1, AlongTrail
<1>7. StatesAlong(u, i) = SubSeq(v, 1, Len(v) - 1)
  <2>1. n - 1 \in 0 .. Len(seen[i]) /\ Len(v) - 1 = (n - 1) + 1 BY <1>2, <1>6
  <2> QED BY <1>1, <2>1, AlongPrefix
<1>8. v[Len(v) - 1] = Cover(i, StateAt(u, n - 1))
  <2>1. n - 1 \in 0 .. n /\ (n - 1) + 1 = Len(v) - 1 BY <1>2, <1>6
  <2>2. v[(n - 1) + 1] = Cover(i, StateAt(seen[i], n - 1)) BY <1>6, <2>1
  <2> QED BY <1>3, <2>1, <2>2
<1>9. StatesAlong(seen[i], i)' = StatesAlong(u, i) BY <1>4 DEF StatesAlong, Cover, StateAt, Blank
<1>10. Shown(i)' = Cover(i, StateAt(u, n - 1))
  <2>2. Shown(i)' = Cover(i, StateAt(seen'[i], Len(seen'[i])))
    BY <1>1 DEF ShowsItsTrail, Cover, StateAt, Blank
  <2> QED BY <1>2, <1>4, <2>2
<1> HIDE DEF n, u, v
<1>11. Follower!FallBack(i)
  <2>1. Len(v) > 1 BY <1>2, <1>6
  <2> QED BY <1>1, <1>7, <1>8, <1>9, <1>10, <2>1 DEF Follower!FallBack, v
<1>12. \A j \in Indexes \ {i} : Follower!Rest(j) BY <1>4, Rests
<1>13. UNCHANGED [j \in Indexes |-> StatesAlong(log[j.chain], j)]
  BY <1>5 DEF StatesAlong, Cover, StateAt
<1> QED BY <1>1, <1>11, <1>12, <1>13 DEF Follower!Next

\* ViewsFollowTheChain for all indexes, chains, keys, logs and reorganizations: Indexing
\* implements IndexFollower.
THEOREM IndexesAreFollowers == Spec => ViewsFollowTheChain
<1>1. ASSUME Init, VInv PROVE Follower!Init
  <2>1. ASSUME NEW i \in Indexes
        PROVE  /\ log[i.chain] = <<>> /\ seen[i] = <<>> /\ Shown(i) = Cover(i, Blank)
    <3>1. i.chain \in Chains BY IndexesAssumption
    <3>2. log[i.chain] = <<>> /\ seen[i] = <<>> BY <1>1, <3>1 DEF Init, LogInit
    <3>3. Shown(i) = Cover(i, StateAt(<<>>, 0)) BY <1>1, <3>2, AllShowTheirTrail DEF ShowsItsTrail
    <3> QED BY <3>2, <3>3 DEF StateAt
  <2>2. ASSUME NEW i \in Indexes
        PROVE  Len(StatesAlong(<<>>, i)) = 1 /\ StatesAlong(<<>>, i)[1] = Cover(i, Blank)
    <3>1. <<>> \in Seq(Entries) /\ Len(<<>>) = 0 OBVIOUS
    <3>2. /\ Len(StatesAlong(<<>>, i)) = Len(<<>>) + 1
          /\ \A m \in 0 .. Len(<<>>) : StatesAlong(<<>>, i)[m + 1] = Cover(i, StateAt(<<>>, m))
      BY <3>1, AlongTrail
    <3>3. StatesAlong(<<>>, i)[0 + 1] = Cover(i, StateAt(<<>>, 0)) BY <3>1, <3>2
    <3> QED BY <3>1, <3>2, <3>3 DEF StateAt
  <2> QED BY <2>1, <2>2 DEF Follower!Init
<1>2. ASSUME VInv, ShowsItsTrail, ShowsItsTrail', [Next]_vars PROVE [Follower!Next]_(Follower!vars)
  <2>1. ASSUME \A i \in Indexes : seen'[i] = seen[i] PROVE Follower!Next
    BY <1>2, <2>1, Rests DEF Follower!Next
  <2>2. ASSUME NEW i \in published, ChainStep(i.chain), UNCHANGED indexVars PROVE Follower!Next
    BY <2>1, <2>2 DEF indexVars
  <2>3. ASSUME NEW i \in published, Follow(i) \/ Rewind(i) PROVE Follower!Next
    BY <1>2, <2>3, FollowAdvances, RewindFallsBack
  <2>4. CASE DecodeTwice BY <2>1, <2>4 DEF DecodeTwice
  <2>5. CASE UNCHANGED vars BY <2>1, <2>5 DEF vars, indexVars
  <2> QED BY <1>2, <2>2, <2>3, <2>4, <2>5 DEF Next
<1>3. VInv => ShowsItsTrail BY AllShowTheirTrail
<1> QED BY ViewsInvariant, <1>1, <1>2, <1>3, PTL DEF Spec, ViewsFollowTheChain, Follower!Spec
=============================================================================
