-------------------------- MODULE Indexing_proofs --------------------------
(***************************************************************************)
(* Proofs about Indexing for any chains, keys, logs and reorganizations.   *)
(* The argument: a log is a history, each entry leading from the state     *)
(* before it to the state after it (History); a fork keeps a prefix, so    *)
(* what an index has taken is a history too, of its fork; and the handlers *)
(* turn a store that shows the state before an entry into one that shows   *)
(* the state after it (GraphStep, StoresStep).  The change rows and the    *)
(* events the records name are the index's own part of that step.  What    *)
(* the Dune queries show, which they compute from all rows at once, is in  *)
(* IndexingViews_proofs.                                                   *)
(***************************************************************************)
EXTENDS Indexing, TLAPS

\* What an entry may be, given the state of the contracts before it.
Legit(state, e) ==
  IF e.address = "foreign" THEN e.after = state
  ELSE /\ e.after = [state EXCEPT ![e.key] = e.value]
       /\ e.value.gen > 0
       /\ \/ /\ e.kind = "Registered" /\ e.key \in Items /\ state[e.key] = Absent
             /\ e.value = [val |-> REGISTERED, gen |-> 1]
          \/ e.kind = "StatusChanged" /\ e.key \in Items /\ state[e.key] # Absent
          \/ e.kind = "SourceIntakeConfigured" /\ e.key = Router
          \/ e.kind = "StandardModuleConfigured" /\ e.key \in Standards
          \/ e.kind = "SourceFill" /\ e.key \in Fills /\ state[e.key] = Absent

History(entries) ==
  \A n \in 1 .. Len(entries) : Legit(StateAt(entries, n - 1), entries[n])

LogType == log \in [Chains -> Seq(Entries)] /\ emits \in 0 .. MaxEmits /\ forks \in 0 .. MaxForks
LogsAreHistories == \A c \in Chains : History(log[c])
----------------------------------------------------------------------------
LEMMA StateIsState ==
  ASSUME NEW s \in Seq(Entries), NEW n \in 0 .. Len(s)
  PROVE  StateAt(s, n) \in States /\ StateAfter(s) = StateAt(s, Len(s))
<1>1. Blank \in States BY DEF Blank, States, Absent, Values
<1>2. CASE n = 0 BY <1>1, <1>2 DEF StateAt, StateAfter
<1>3. CASE n # 0
  <2>1. s[n] \in Entries BY <1>3
  <2>2. s[n].after \in States BY <2>1 DEF Entries
  <2> QED BY <1>3, <2>2 DEF StateAt, StateAfter
<1> QED BY <1>2, <1>3

LEMMA AppendHistory ==
  ASSUME NEW s \in Seq(Entries), NEW e \in Entries, History(s), Legit(StateAfter(s), e)
  PROVE  Append(s, e) \in Seq(Entries) /\ History(Append(s, e)) /\ StateAfter(Append(s, e)) = e.after
<1> DEFINE t == Append(s, e)
<1>1. t \in Seq(Entries) /\ Len(t) = Len(s) + 1 /\ t[Len(s) + 1] = e
      /\ \A m \in 1 .. Len(s) : t[m] = s[m]
  OBVIOUS
<1>2. StateAfter(t) = e.after BY <1>1 DEF StateAfter
<1>3. ASSUME NEW n \in 1 .. Len(t) PROVE Legit(StateAt(t, n - 1), t[n])
  <2>1. CASE n = Len(s) + 1
    <3>1. StateAt(t, n - 1) = StateAt(s, Len(s)) BY <1>1, <2>1 DEF StateAt
    <3>2. StateAt(s, Len(s)) = StateAfter(s) BY StateIsState
    <3> QED BY <1>1, <2>1, <3>1, <3>2
  <2>2. CASE n # Len(s) + 1
    <3>1. n \in 1 .. Len(s) BY <1>1, <2>2
    <3>2. t[n] = s[n] /\ StateAt(t, n - 1) = StateAt(s, n - 1) BY <1>1, <3>1 DEF StateAt
    <3> QED BY <3>1, <3>2 DEF History
  <2> QED BY <2>1, <2>2
<1> QED BY <1>1, <1>2, <1>3 DEF History

LEMMA PrefixHistory ==
  ASSUME NEW s \in Seq(Entries), NEW n \in 0 .. Len(s), History(s)
  PROVE  SubSeq(s, 1, n) \in Seq(Entries) /\ History(SubSeq(s, 1, n))
<1> DEFINE t == SubSeq(s, 1, n)
<1>1. t \in Seq(Entries) /\ Len(t) = n /\ \A m \in 1 .. n : t[m] = s[m] OBVIOUS
<1>2. ASSUME NEW m \in 1 .. n PROVE Legit(StateAt(t, m - 1), t[m])
  BY <1>1 DEF History, StateAt
<1> QED BY <1>1, <1>2 DEF History
----------------------------------------------------------------------------
\* The entry of an event about a key is an entry, and keeps the other keys.
LEMMA OwnIsEntry ==
  ASSUME LogType, NEW c \in Chains, NEW kind \in Kinds, NEW k \in Keys, NEW value \in Values
  PROVE  LET e == Own(c, kind, k, value)
         IN  /\ e \in Entries
             /\ e.address = "nexa" /\ e.kind = kind /\ e.key = k /\ e.value = value
             /\ e.after = [StateAfter(log[c]) EXCEPT ![k] = value]
<1>1. log[c] \in Seq(Entries) /\ forks \in Nat BY DEF LogType
<1>2. StateAfter(log[c]) \in States BY <1>1, StateIsState
<1>3. StateAfter(log[c])[k] \in Values BY <1>2 DEF States
<1>4. [StateAfter(log[c]) EXCEPT ![k] = value] \in States BY <1>2 DEF States
<1> QED BY <1>1, <1>3, <1>4 DEF Own, Entries, Values

LEMMA OwnIsLegit ==
  ASSUME LogType, NEW c \in Chains, NEW kind \in Kinds, NEW k \in Keys, NEW value \in Values,
         value.gen > 0,
         \/ kind = "StatusChanged" /\ k \in Items /\ StateAfter(log[c])[k] # Absent
         \/ kind = "SourceIntakeConfigured" /\ k = Router
         \/ kind = "StandardModuleConfigured" /\ k \in Standards
         \/ kind = "SourceFill" /\ k \in Fills /\ StateAfter(log[c])[k] = Absent
  PROVE  Own(c, kind, k, value) \in Entries /\ Legit(StateAfter(log[c]), Own(c, kind, k, value))
<1> DEFINE e == Own(c, kind, k, value)
<1>1. /\ e \in Entries
      /\ e.address = "nexa" /\ e.kind = kind /\ e.key = k /\ e.value = value
      /\ e.after = [StateAfter(log[c]) EXCEPT ![k] = value]
  BY OwnIsEntry
<1> HIDE DEF e
<1>2. Legit(StateAfter(log[c]), e) BY <1>1 DEF Legit
<1> QED BY <1>1, <1>2 DEF e

LEMMA EmitKeepsHistories ==
  ASSUME LogType, LogsAreHistories, NEW c \in Chains, NEW entries,
         log[c] \o entries \in Seq(Entries), History(log[c] \o entries), Emit(c, entries)
  PROVE  LogType' /\ LogsAreHistories'
<1>1. log' \in [Chains -> Seq(Entries)] /\ log'[c] = log[c] \o entries
      /\ \A d \in Chains \ {c} : log'[d] = log[d]
  BY DEF LogType, Emit
<1>2. emits' \in 0 .. MaxEmits /\ forks' \in 0 .. MaxForks
  BY ValuesAssumption DEF LogType, Emit
<1> QED BY <1>1, <1>2 DEF LogType, LogsAreHistories

LEMMA EmitOne ==
  ASSUME LogType, LogsAreHistories, NEW c \in Chains, NEW e \in Entries,
         Legit(StateAfter(log[c]), e), Emit(c, <<e>>)
  PROVE  LogType' /\ LogsAreHistories'
<1>1. log[c] \in Seq(Entries) /\ History(log[c]) BY DEF LogType, LogsAreHistories
<1>2. log[c] \o <<e>> = Append(log[c], e) BY <1>1
<1> QED BY <1>1, <1>2, AppendHistory, EmitKeepsHistories

\* Every step of a chain keeps the logs histories.
LEMMA ChainKeepsHistories ==
  ASSUME LogType, LogsAreHistories, NEW c \in Chains, ChainStep(c)
  PROVE  LogType' /\ LogsAreHistories'
<1> DEFINE state == StateAfter(log[c])
<1>0. log[c] \in Seq(Entries) /\ History(log[c]) BY DEF LogType, LogsAreHistories
<1>s. state \in States BY <1>0, StateIsState
<1>1. ASSUME NEW k \in Items, Register(c, k) PROVE LogType' /\ LogsAreHistories'
  <2> DEFINE one == [val |-> REGISTERED, gen |-> 1]
             e == Own(c, "Registered", k, one)
             f == [e EXCEPT !.kind = "StatusChanged"]
  <2>1. k \in Keys /\ one \in Values /\ one # Absent /\ one.gen > 0
    BY DEF Keys, Values, REGISTERED, Absent
  <2>2. e \in Entries /\ e.address = "nexa" /\ e.kind = "Registered" /\ e.key = k /\ e.value = one
        /\ e.after = [state EXCEPT ![k] = one]
    BY <2>1, OwnIsEntry DEF Kinds
  <2>3. f \in Entries /\ f.address = "nexa" /\ f.kind = "StatusChanged" /\ f.key = k /\ f.value = one
        /\ f.after = e.after
    BY <2>2 DEF Entries, Kinds
  <2>4. state[k] = Absent /\ Emit(c, <<e, f>>) BY <1>1 DEF Register
  <2>5. Legit(state, e) BY <2>1, <2>2, <2>4 DEF Legit
  <2>6. e.after[k] = one /\ [e.after EXCEPT ![k] = one] = e.after BY <2>1, <2>2, <1>s DEF States
  <2>7. Legit(e.after, f) BY <2>1, <2>2, <2>3, <2>6 DEF Legit
  <2> HIDE DEF e, f, one
  <2> DEFINE s == Append(log[c], e)
  <2>8. s \in Seq(Entries) /\ History(s) /\ StateAfter(s) = e.after
    BY <1>0, <2>2, <2>5, AppendHistory
  <2> HIDE DEF s
  <2>9. Append(s, f) \in Seq(Entries) /\ History(Append(s, f)) BY <2>3, <2>7, <2>8, AppendHistory
  <2>10. log[c] \o <<e, f>> = Append(s, f) BY <1>0 DEF s
  <2> QED BY <2>4, <2>9, <2>10, EmitKeepsHistories
<1>2. ASSUME NEW k \in Items, NEW s \in Statuses, ChangeStatus(c, k, s)
      PROVE LogType' /\ LogsAreHistories'
  <2> DEFINE v == [val |-> s, gen |-> state[k].gen + 1]
             e == Own(c, "StatusChanged", k, v)
  <2>1. k \in Keys BY DEF Keys
  <2>2. v \in Values /\ v.gen > 0 BY <1>s, <2>1, ValuesAssumption DEF Values, States
  <2>3. state[k] # Absent /\ Emit(c, <<e>>) BY <1>2 DEF ChangeStatus
  <2> HIDE DEF v
  <2>4. e \in Entries /\ Legit(state, e) BY <2>1, <2>2, <2>3, OwnIsLegit DEF Kinds
  <2> QED BY <2>3, <2>4, EmitOne
<1>3. ASSUME NEW on \in {0, 1}, ConfigureIntake(c, on) PROVE LogType' /\ LogsAreHistories'
  <2> DEFINE v == [val |-> on, gen |-> 1]
             e == Own(c, "SourceIntakeConfigured", Router, v)
  <2>1. Router \in Keys /\ v \in Values /\ v.gen > 0 BY DEF Keys, Values
  <2>2. Emit(c, <<e>>) BY <1>3 DEF ConfigureIntake
  <2> HIDE DEF v
  <2>3. e \in Entries /\ Legit(state, e) BY <2>1, OwnIsLegit DEF Kinds
  <2> QED BY <2>2, <2>3, EmitOne
<1>4. ASSUME NEW k \in Standards, NEW m \in Modules, ConfigureModule(c, k, m)
      PROVE LogType' /\ LogsAreHistories'
  <2> DEFINE v == [val |-> m, gen |-> 1]
             e == Own(c, "StandardModuleConfigured", k, v)
  <2>1. k \in Keys /\ v \in Values /\ v.gen > 0 BY ValuesAssumption DEF Keys, Values
  <2>2. Emit(c, <<e>>) BY <1>4 DEF ConfigureModule
  <2> HIDE DEF v
  <2>3. e \in Entries /\ Legit(state, e) BY <2>1, OwnIsLegit DEF Kinds
  <2> QED BY <2>2, <2>3, EmitOne
<1>5. ASSUME NEW f \in Fills, FillSource(c, f) PROVE LogType' /\ LogsAreHistories'
  <2> DEFINE v == [val |-> 1, gen |-> 1]
             e == Own(c, "SourceFill", f, v)
  <2>1. f \in Keys /\ v \in Values /\ v.gen > 0 BY DEF Keys, Values
  <2>2. state[f] = Absent /\ Emit(c, <<e>>) BY <1>5 DEF FillSource
  <2> HIDE DEF v
  <2>3. e \in Entries /\ Legit(state, e) BY <2>1, <2>2, OwnIsLegit DEF Kinds
  <2> QED BY <2>2, <2>3, EmitOne
<1>6. ASSUME NEW k \in Routes, Imitate(c, k) PROVE LogType' /\ LogsAreHistories'
  <2> DEFINE v == [val |-> 9, gen |-> 9]
             o == Own(c, "StatusChanged", k, v)
             e == [o EXCEPT !.address = "foreign", !.after = state]
  <2>1. k \in Keys /\ v \in Values BY DEF Keys, Values, Items
  <2>3. Emit(c, <<e>>) BY <1>6 DEF Imitate
  <2>k. "StatusChanged" \in Kinds BY DEF Kinds
  <2> HIDE DEF v
  <2>2. o \in Entries BY <2>1, <2>k, OwnIsEntry
  <2> HIDE DEF o
  <2>4. e \in Entries /\ e.address = "foreign" /\ e.after = state BY <2>2, <1>s DEF Entries
  <2>5. Legit(state, e) BY <2>4 DEF Legit
  <2> QED BY <2>3, <2>4, <2>5, EmitOne
<1>7. ASSUME Reorganize(c) PROVE LogType' /\ LogsAreHistories'
  <2>1. PICK n \in 0 .. Len(log[c]) - 1 : log' = [log EXCEPT ![c] = SubSeq(@, 1, n)]
    BY <1>7 DEF Reorganize
  <2>2. n \in 0 .. Len(log[c]) BY <1>0
  <2>3. SubSeq(log[c], 1, n) \in Seq(Entries) /\ History(SubSeq(log[c], 1, n))
    BY <1>0, <2>2, PrefixHistory
  <2>4. log' \in [Chains -> Seq(Entries)] BY <2>1, <2>3 DEF LogType
  <2>5. LogsAreHistories' BY <2>1, <2>3, <2>4 DEF LogsAreHistories, LogType
  <2>6. emits' \in 0 .. MaxEmits /\ forks' \in 0 .. MaxForks
    BY <1>7, ValuesAssumption DEF Reorganize, LogType
  <2> QED BY <2>4, <2>5, <2>6 DEF LogType
<1> QED BY <1>1, <1>2, <1>3, <1>4, <1>5, <1>6, <1>7 DEF ChainStep
----------------------------------------------------------------------------
\* Positions among the first m entries of a trail: the deployment's own events about a
\* key, those that leave a change row, and those of a contract.
About(s, m, k, kinds) ==
  {n \in 1 .. m : s[n].address = "nexa" /\ s[n].key = k /\ s[n].kind \in kinds}
Changed(kind) == kind \notin {"Registered", "SourceFill"}
ChangedAt(s, m) == {n \in 1 .. m : s[n].address = "nexa" /\ Changed(s[n].kind)}
EventsOf(s, m, contract) ==
  {n \in 1 .. m : s[n].address = "nexa" /\ ContractOf(s[n].kind) = contract}
ChangeOf(s, n) ==
  [id |-> n, key |-> s[n].key, previous |-> s[n].previous, value |-> s[n].value]

Latest(T) == IF T = {} THEN 0 ELSE CHOOSE n \in T : \A m \in T : m <= n
IsFirst(at, T) == IF T = {} THEN at = 0 ELSE at \in T /\ \A n \in T : at <= n

\* Trails that share their first m entries share what is said of them.
LEMMA SharedPrefix ==
  ASSUME NEW s, NEW t, NEW m \in Nat, \A n \in 1 .. m : t[n] = s[n]
  PROVE  /\ \A k, kinds : About(t, m, k, kinds) = About(s, m, k, kinds)
         /\ ChangedAt(t, m) = ChangedAt(s, m)
         /\ {ChangeOf(t, n) : n \in ChangedAt(t, m)} = {ChangeOf(s, n) : n \in ChangedAt(s, m)}
         /\ \A contract : EventsOf(t, m, contract) = EventsOf(s, m, contract)
<1>1. \A k, kinds : About(t, m, k, kinds) = About(s, m, k, kinds) BY DEF About
<1>2. ChangedAt(t, m) = ChangedAt(s, m) BY DEF ChangedAt
<1>3. \A contract : EventsOf(t, m, contract) = EventsOf(s, m, contract) BY DEF EventsOf
<1>4. \A n \in ChangedAt(s, m) : ChangeOf(t, n) = ChangeOf(s, n) BY DEF ChangedAt, ChangeOf
<1> QED BY <1>1, <1>2, <1>3, <1>4

\* Trail t is the first m entries of trail s and entry e.
Continues(t, s, m, e) == (\A n \in 1 .. m : t[n] = s[n]) /\ t[m + 1] = e

\* One entry more adds its position to what it is about, and to nothing else.
Adds(s, t, m, e) ==
  /\ \A k, kinds : About(t, m + 1, k, kinds)
        = IF e.address = "nexa" /\ e.key = k /\ e.kind \in kinds
          THEN About(s, m, k, kinds) \cup {m + 1} ELSE About(s, m, k, kinds)
  /\ ChangedAt(t, m + 1)
        = IF e.address = "nexa" /\ Changed(e.kind)
          THEN ChangedAt(s, m) \cup {m + 1} ELSE ChangedAt(s, m)
  /\ \A contract : EventsOf(t, m + 1, contract)
        = IF e.address = "nexa" /\ ContractOf(e.kind) = contract
          THEN EventsOf(s, m, contract) \cup {m + 1} ELSE EventsOf(s, m, contract)

LEMMA OnePosition ==
  ASSUME NEW s, NEW t, NEW m \in Nat, NEW e, Continues(t, s, m, e)
  PROVE  Adds(s, t, m, e)
<1>0. 1 .. m + 1 = (1 .. m) \cup {m + 1} /\ m + 1 \notin 1 .. m OBVIOUS
<1>1. ASSUME NEW k, NEW kinds
      PROVE  About(t, m + 1, k, kinds)
              = IF e.address = "nexa" /\ e.key = k /\ e.kind \in kinds
                THEN About(s, m, k, kinds) \cup {m + 1} ELSE About(s, m, k, kinds)
  BY <1>0 DEF Continues, About
<1>2. ChangedAt(t, m + 1)
              = IF e.address = "nexa" /\ Changed(e.kind)
                THEN ChangedAt(s, m) \cup {m + 1} ELSE ChangedAt(s, m)
  BY <1>0 DEF Continues, ChangedAt
<1>3. ASSUME NEW contract
      PROVE  EventsOf(t, m + 1, contract)
              = IF e.address = "nexa" /\ ContractOf(e.kind) = contract
                THEN EventsOf(s, m, contract) \cup {m + 1} ELSE EventsOf(s, m, contract)
  BY <1>0 DEF Continues, EventsOf
<1> QED BY <1>1, <1>2, <1>3 DEF Adds

LEMMA LatestIsNew ==
  ASSUME NEW m \in Nat, NEW T \in SUBSET (1 .. m)
  PROVE  Latest(T \cup {m + 1}) = m + 1
<1> DEFINE U == T \cup {m + 1}
<1>1. m + 1 \in U /\ \A n \in U : n <= m + 1 OBVIOUS
<1>2. \A x \in U : (\A n \in U : n <= x) => x = m + 1 OBVIOUS
<1>3. (CHOOSE x \in U : \A n \in U : n <= x) = m + 1 BY <1>1, <1>2
<1> QED BY <1>1, <1>3 DEF Latest
----------------------------------------------------------------------------
\* The subgraph's handlers.
LEMMA TouchKeepsEntities ==
  ASSUME NEW store \in GraphStores, NEW contract \in Contracts, NEW at \in Nat
  PROVE  /\ touchDeployment(store, contract, at) \in GraphStores
         /\ touchDeployment(store, contract, at).entity = store.entity
BY DEF touchDeployment, GraphStores

LEMMA SaveWrites ==
  ASSUME NEW store \in GraphStores, NEW k \in Keys, NEW value \in Values, NEW at \in Nat
  PROVE  /\ save(store, k, value, at) \in GraphStores
         /\ EntityValue(save(store, k, value, at), k) = value
         /\ \A j \in Keys \ {k} : EntityValue(save(store, k, value, at), j) = EntityValue(store, j)
<1> DEFINE new == putProvenance(value, at)
<1>1. new \in Entities /\ new.val = value.val /\ new.gen = value.gen
  BY DEF putProvenance, Entities, Values
<1>2. value = [val |-> value.val, gen |-> value.gen] BY DEF Values
<1> HIDE DEF new
<1>3. save(store, k, value, at) \in GraphStores
      /\ save(store, k, value, at).entity = [store.entity EXCEPT ![k] = new]
  BY <1>1 DEF save, new, GraphStores
<1>4. store.entity \in [Keys -> Entities] BY DEF GraphStores
<1> QED BY <1>1, <1>2, <1>3, <1>4 DEF EntityValue

LEMMA ChangeKeepsEntities ==
  ASSUME NEW store \in GraphStores, NEW e \in Entries, NEW at \in Nat
  PROVE  /\ saveChange(store, e, at) \in GraphStores
         /\ saveChange(store, e, at).entity = store.entity
<1>1. [id |-> changeId(at), key |-> e.key, previous |-> e.previous, value |-> e.value] \in Changes
  BY DEF Changes, Entries, changeId
<1> QED BY <1>1 DEF saveChange, GraphStores

\* Every handler of an own event does the same, once an entity it changes is there.
Saved(store, e, at) ==
  save(touchDeployment(store, ContractOf(e.kind), at), e.key, e.value, at)

LEMMA HandlersSave ==
  ASSUME NEW store \in GraphStores, NEW e \in Entries, NEW state \in States, NEW at \in Nat,
         Legit(state, e), \A k \in Keys : EntityValue(store, k) = state[k],
         e.address # "foreign"
  PROVE  /\ ContractOf(e.kind) \in Contracts
         /\ handleGraph(store, e, at) = IF Changed(e.kind) THEN saveChange(Saved(store, e, at), e, at)
                                       ELSE Saved(store, e, at)
<1>c. ContractOf(e.kind) \in Contracts BY DEF ContractOf, Contracts
<1>1. CASE e.kind = "Registered"
  <2>1. e.key \in Items /\ e.value = [val |-> REGISTERED, gen |-> 1] BY <1>1 DEF Legit
  <2> QED
    BY <1>c, <1>1, <2>1 DEF handleGraph, handleNetworkRegisteredV6, handleAssetRegisteredV6,
       handleRouteRegisteredV6, handleRegistered, Items, Saved, Changed, ContractOf
<1>2. CASE e.kind = "StatusChanged"
  <2> DEFINE touched == touchDeployment(store, "registry", at)
  <2>1. e.key \in Items /\ e.key \in Keys /\ state[e.key] # Absent BY <1>2 DEF Legit, Keys
  <2>2. EntityValue(store, e.key) # Absent BY <2>1
  <2>3. "registry" \in Contracts BY DEF Contracts
  <2>4. touched.entity[e.key] # NoEntity
    BY <2>2, <2>3, TouchKeepsEntities DEF EntityValue, NoEntity, Absent
  <2>5. handleStatusChanged(store, e, at) = saveChange(save(touched, e.key, e.value, at), e, at)
    BY <2>4 DEF handleStatusChanged
  <2>6. handleGraph(store, e, at) = handleStatusChanged(store, e, at)
    BY <1>2, <2>1 DEF handleGraph, handleNetworkStatusChangedV6, handleAssetStatusChangedV6,
                      handleRouteStatusChangedV6, Items
  <2> QED BY <1>c, <1>2, <2>5, <2>6 DEF Saved, Changed, ContractOf
<1>3. CASE e.kind = "SourceIntakeConfigured"
  BY <1>c, <1>3 DEF handleGraph, handleSourceIntakeConfigured, Saved, Changed, ContractOf
<1>4. CASE e.kind = "SourceFill"
  BY <1>c, <1>4 DEF handleGraph, handleSourceFillV6, Saved, Changed, ContractOf
<1>5. CASE e.kind = "StandardModuleConfigured"
  BY <1>c, <1>5 DEF handleGraph, handleStandardModuleConfiguredV6, Saved, Changed, ContractOf
<1> QED BY <1>1, <1>2, <1>3, <1>4, <1>5 DEF Legit

LEMMA GraphStep ==
  ASSUME NEW store \in GraphStores, NEW e \in Entries, NEW state \in States, NEW at \in Nat,
         Legit(state, e), \A k \in Keys : EntityValue(store, k) = state[k]
  PROVE  /\ handleGraph(store, e, at) \in GraphStores
         /\ \A k \in Keys : EntityValue(handleGraph(store, e, at), k) = e.after[k]
<1> DEFINE Goal(new) == new \in GraphStores /\ \A k \in Keys : EntityValue(new, k) = e.after[k]
<1>1. e.key \in Keys /\ e.value \in Values BY DEF Entries
<1>2. CASE e.address = "foreign"
  <2>1. handleGraph(store, e, at) = store BY <1>2 DEF handleGraph
  <2>2. e.after = state BY <1>2 DEF Legit
  <2> QED BY <2>1, <2>2
<1>3. CASE e.address # "foreign"
  <2> DEFINE touched == touchDeployment(store, ContractOf(e.kind), at)
             saved == save(touched, e.key, e.value, at)
  <2>0. e.after = [state EXCEPT ![e.key] = e.value] BY <1>3 DEF Legit
  <2>1. e.after[e.key] = e.value /\ \A k \in Keys \ {e.key} : e.after[k] = state[k]
    BY <1>1, <2>0 DEF States
  <2>2. /\ ContractOf(e.kind) \in Contracts
        /\ handleGraph(store, e, at) = IF Changed(e.kind) THEN saveChange(saved, e, at) ELSE saved
    BY <1>3, HandlersSave DEF Saved
  <2>3. touched \in GraphStores /\ \A k \in Keys : EntityValue(touched, k) = state[k]
    BY <2>2, TouchKeepsEntities DEF EntityValue
  <2> HIDE DEF touched
  <2>4. Goal(saved) BY <1>1, <2>1, <2>3, SaveWrites
  <2> HIDE DEF saved
  <2>5. Goal(saveChange(saved, e, at)) BY <2>4, ChangeKeepsEntities DEF EntityValue
  <2> QED BY <2>2, <2>4, <2>5
<1> QED BY <1>2, <1>3

\* The records of a subgraph: the change rows, the provenance of the entities, and the
\* contracts' first events.
GraphRecords(store, s, m) ==
  /\ store.changes = {ChangeOf(s, n) : n \in ChangedAt(s, m)}
  /\ \A k \in Keys : store.entity[k].at = Latest(About(s, m, k, Kinds))
  /\ \A contract \in Contracts : IsFirst(store.deployment[contract], EventsOf(s, m, contract))

LEMMA GraphRecordsStep ==
  ASSUME NEW store \in GraphStores, NEW e \in Entries, NEW state \in States, NEW m \in Nat,
         Legit(state, e), \A k \in Keys : EntityValue(store, k) = state[k],
         NEW s, NEW t, Continues(t, s, m, e), GraphRecords(store, s, m)
  PROVE  GraphRecords(handleGraph(store, e, m + 1), t, m + 1)
<1> DEFINE at == m + 1
           new == handleGraph(store, e, at)
<1>0. at \in Nat /\ at # 0 /\ e.key \in Keys /\ e.kind \in Kinds BY DEF Entries
<1>a. Adds(s, t, m, e) BY OnePosition
<1>b. \A k : About(t, at, k, Kinds)
              = IF e.address = "nexa" /\ e.key = k
                THEN About(s, m, k, Kinds) \cup {at} ELSE About(s, m, k, Kinds)
  BY <1>0, <1>a DEF Adds
<1>o. /\ ChangedAt(t, at) = IF e.address = "nexa" /\ Changed(e.kind)
                            THEN ChangedAt(s, m) \cup {at} ELSE ChangedAt(s, m)
      /\ \A contract : EventsOf(t, at, contract)
              = IF e.address = "nexa" /\ ContractOf(e.kind) = contract
                THEN EventsOf(s, m, contract) \cup {at} ELSE EventsOf(s, m, contract)
  BY <1>a DEF Adds
<1>e. \A n \in ChangedAt(s, m) : ChangeOf(t, n) = ChangeOf(s, n)
  BY DEF ChangedAt, ChangeOf, Continues
<1>1. CASE e.address = "foreign"
  <2>1. new = store BY <1>1 DEF handleGraph
  <2>2. /\ \A k : About(t, at, k, Kinds) = About(s, m, k, Kinds)
        /\ ChangedAt(t, at) = ChangedAt(s, m)
        /\ \A contract : EventsOf(t, at, contract) = EventsOf(s, m, contract)
    BY <1>1, <1>b, <1>o
  <2>3. {ChangeOf(t, n) : n \in ChangedAt(t, at)} = {ChangeOf(s, n) : n \in ChangedAt(s, m)}
    BY <1>e, <2>2
  <2> HIDE DEF at, new
  <2> QED BY <2>1, <2>2, <2>3 DEF GraphRecords, at, new
<1>2. CASE e.address # "foreign"
  <2> DEFINE c == ContractOf(e.kind)
             touched == touchDeployment(store, c, at)
             saved == save(touched, e.key, e.value, at)
  <2>0. e.address = "nexa" BY <1>2 DEF Entries
  <2>1. /\ c \in Contracts
        /\ new = IF Changed(e.kind) THEN saveChange(saved, e, at) ELSE saved
    BY <1>0, <1>2, HandlersSave DEF Saved
  <2>2. /\ touched.entity = store.entity /\ touched.changes = store.changes
        /\ touched.deployment = IF store.deployment[c] # 0 THEN store.deployment
                                ELSE [store.deployment EXCEPT ![c] = at]
        /\ touched \in GraphStores
    BY <1>0, <2>1, TouchKeepsEntities DEF touchDeployment, GraphStores
  <2> HIDE DEF touched
  <2>3. /\ saved.entity = [store.entity EXCEPT ![e.key] = putProvenance(e.value, at)]
        /\ saved.changes = store.changes /\ saved.deployment = touched.deployment
        /\ saved \in GraphStores
    BY <1>0, <2>2, SaveWrites DEF save, GraphStores, Entries
  <2> HIDE DEF saved
  <2>4. /\ new.entity = saved.entity /\ new.deployment = saved.deployment
        /\ new.changes = IF Changed(e.kind) THEN store.changes \cup {ChangeOf(t, at)}
                         ELSE store.changes
    BY <1>0, <2>1, <2>3 DEF saveChange, GraphStores, changeId, ChangeOf, Continues
  <2> HIDE DEF new, at, c
  <2>5. new.changes = {ChangeOf(t, n) : n \in ChangedAt(t, at)}
    <3>1. store.changes = {ChangeOf(t, n) : n \in ChangedAt(s, m)} BY <1>e DEF GraphRecords
    <3>2. CASE Changed(e.kind)
      <4>1. ChangedAt(t, at) = ChangedAt(s, m) \cup {at} BY <1>o, <2>0, <3>2
      <4> QED BY <2>4, <3>1, <3>2, <4>1
    <3>3. CASE ~Changed(e.kind)
      <4>1. ChangedAt(t, at) = ChangedAt(s, m) BY <1>o, <3>3
      <4> QED BY <2>4, <3>1, <3>3, <4>1
    <3> QED BY <3>2, <3>3
  <2>6. ASSUME NEW k \in Keys PROVE new.entity[k].at = Latest(About(t, at, k, Kinds))
    <3>0. store.entity \in [Keys -> Entities] BY DEF GraphStores
    <3>1. CASE k = e.key
      <4>1. new.entity[k].at = at BY <3>0, <3>1, <2>3, <2>4 DEF putProvenance
      <4>2. About(t, at, k, Kinds) = About(s, m, k, Kinds) \cup {at} BY <1>b, <2>0, <3>1
      <4>3. About(s, m, k, Kinds) \in SUBSET (1 .. m) BY DEF About
      <4>4. Latest(About(t, at, k, Kinds)) = at BY <4>2, <4>3, LatestIsNew DEF at
      <4> QED BY <4>1, <4>4
    <3>2. CASE k # e.key
      <4>1. new.entity[k] = store.entity[k] BY <3>0, <3>2, <2>3, <2>4
      <4>2. About(t, at, k, Kinds) = About(s, m, k, Kinds) BY <1>b, <3>2
      <4> QED BY <4>1, <4>2 DEF GraphRecords
    <3> QED BY <3>1, <3>2
  <2>7. ASSUME NEW d \in Contracts PROVE IsFirst(new.deployment[d], EventsOf(t, at, d))
    <3>0. store.deployment \in [Contracts -> Nat] BY DEF GraphStores
    <3>1. IsFirst(store.deployment[d], EventsOf(s, m, d)) BY DEF GraphRecords
    <3>2. \A n \in EventsOf(s, m, d) : n \in Nat /\ n # 0 /\ n <= at BY DEF EventsOf, at
    <3>3. CASE d = c
      <4>1. EventsOf(t, at, d) = EventsOf(s, m, d) \cup {at} BY <1>o, <2>0, <3>3 DEF c
      <4>2. CASE EventsOf(s, m, d) = {}
        <5>1. store.deployment[d] = 0 BY <3>1, <4>2 DEF IsFirst
        <5>2. new.deployment[d] = at BY <2>1, <2>2, <2>3, <2>4, <3>0, <3>3, <5>1
        <5>3. EventsOf(t, at, d) = {at} BY <4>1, <4>2
        <5> QED BY <1>0, <5>2, <5>3 DEF IsFirst, at
      <4>3. CASE EventsOf(s, m, d) # {}
        <5>1. /\ store.deployment[d] \in EventsOf(s, m, d)
              /\ \A n \in EventsOf(s, m, d) : store.deployment[d] <= n
          BY <3>1, <4>3 DEF IsFirst
        <5>2. store.deployment[d] # 0 BY <3>2, <5>1
        <5>3. new.deployment[d] = store.deployment[d] BY <2>2, <2>3, <2>4, <3>3, <5>2
        <5> QED BY <3>2, <4>1, <5>1, <5>3 DEF IsFirst
      <4> QED BY <4>2, <4>3
    <3>4. CASE d # c
      <4>1. EventsOf(t, at, d) = EventsOf(s, m, d) BY <1>o, <3>4 DEF c
      <4>2. new.deployment[d] = store.deployment[d] BY <2>2, <2>3, <2>4, <3>0, <3>4
      <4> QED BY <3>1, <4>1, <4>2
    <3> QED BY <3>3, <3>4
  <2> QED BY <2>5, <2>6, <2>7 DEF GraphRecords, at, new
<1> QED BY <1>1, <1>2
----------------------------------------------------------------------------
\* The Substreams stores.  A status record is there only with its generation.
StatusRecords(kv) ==
  \A k \in Items : kv[key(k, "status")] # NoRecord => kv[key(k, "status")].gen > 0

LEMMA SetWrites ==
  ASSUME NEW kv \in SubstreamsStates, NEW k \in StoreKeys, NEW value \in Values, NEW at \in Nat
  PROVE  /\ set(kv, k, value, at) \in SubstreamsStates
         /\ set(kv, k, value, at)[k] = [val |-> value.val, gen |-> value.gen, at |-> at]
         /\ \A j \in StoreKeys \ {k} : set(kv, k, value, at)[j] = kv[j]
BY DEF set, SubstreamsStates, Records, Values

\* Of the five stores one at most takes an event, under the key of its kind.
Slot(e) ==
  key(e.key, CASE e.kind = "Registered" -> "identity"
               [] e.kind = "StatusChanged" -> "status"
               [] e.kind = "SourceIntakeConfigured" -> "intake"
               [] e.kind = "StandardModuleConfigured" -> "module")

LEMMA HandlersSet ==
  ASSUME NEW kv \in SubstreamsStates, NEW e \in Entries, NEW state \in States, NEW at \in Nat,
         Legit(state, e)
  PROVE  IF e.address = "foreign" \/ e.kind = "SourceFill" THEN runStores(kv, e, at) = kv
         ELSE /\ Slot(e) \in StoreKeys
              /\ runStores(kv, e, at) = set(kv, Slot(e), e.value, at)
<1>1. CASE e.address = "foreign"
  BY <1>1 DEF runStores, decode_log
<1>2. CASE e.address # "foreign"
  <2>d. decode_log(e) # {} BY <1>2 DEF decode_log
  <2>1. CASE e.kind = "Registered"
    <3>1. e.key \in Items /\ e.value = [val |-> 1, gen |-> 1] BY <1>2, <2>1 DEF Legit, REGISTERED
    <3>2. runStores(kv, e, at) = set(kv, key(e.key, "identity"), [val |-> 1, gen |-> 1], at)
      BY <2>1, <2>d, <3>1, KeysAssumption DEF runStores, storeItems, store_networks, store_assets,
         store_routes, store_router_state, store_standard_modules, Items
    <3> QED BY <1>2, <2>1, <3>1, <3>2 DEF Slot, key, StoreKeys
  <2>2. CASE e.kind = "StatusChanged"
    <3>1. e.key \in Items BY <1>2, <2>2 DEF Legit
    <3>2. runStores(kv, e, at) = set(kv, key(e.key, "status"), e.value, at)
      BY <2>2, <2>d, <3>1, KeysAssumption DEF runStores, storeItems, store_networks, store_assets,
         store_routes, store_router_state, store_standard_modules, Items
    <3> QED BY <1>2, <2>2, <3>1, <3>2 DEF Slot, key, StoreKeys
  <2>3. CASE e.kind \in {"SourceIntakeConfigured", "StandardModuleConfigured", "SourceFill"}
    <3>1. /\ e.kind = "SourceIntakeConfigured" => e.key = Router
          /\ e.kind = "StandardModuleConfigured" => e.key \in Standards
      BY <1>2 DEF Legit
    <3>2. store_routes(store_assets(store_networks(kv, e, at), e, at), e, at) = kv
      BY <2>3 DEF storeItems, store_networks, store_assets, store_routes
    <3>3. runStores(kv, e, at)
            = IF e.kind = "SourceIntakeConfigured" THEN set(kv, key(e.key, "intake"), e.value, at)
              ELSE IF e.kind = "StandardModuleConfigured"
                   THEN set(kv, key(e.key, "module"), e.value, at) ELSE kv
      BY <2>3, <2>d, <3>2 DEF runStores, store_router_state, store_standard_modules
    <3> QED BY <1>2, <2>3, <3>1, <3>3 DEF Slot, key, StoreKeys
  <2> QED BY <1>2, <2>1, <2>2, <2>3 DEF Legit
<1> QED BY <1>1, <1>2

LEMMA StoresStep ==
  ASSUME NEW kv \in SubstreamsStates, NEW e \in Entries, NEW state \in States, NEW at \in Nat,
         Legit(state, e), StatusRecords(kv),
         \A k \in Keys \ Fills : StoredValue(kv, k) = state[k]
  PROVE  LET new == runStores(kv, e, at)
         IN  /\ new \in SubstreamsStates /\ StatusRecords(new)
             /\ \A k \in Keys \ Fills : StoredValue(new, k) = e.after[k]
<1> DEFINE Goal(new) == /\ new \in SubstreamsStates /\ StatusRecords(new)
                        /\ \A k \in Keys \ Fills : StoredValue(new, k) = e.after[k]
<1>0. e.key \in Keys /\ e.value \in Values
      /\ e.value = [val |-> e.value.val, gen |-> e.value.gen]
  BY DEF Entries, Values
<1>k. /\ \A k \in Items : key(k, "status") \in StoreKeys /\ key(k, "identity") \in StoreKeys
      /\ \A k \in Standards : key(k, "module") \in StoreKeys
      /\ key(Router, "intake") \in StoreKeys
      /\ Keys \ Fills = Items \cup {Router} \cup Standards
      /\ Router \notin Items /\ Router \notin Standards /\ Items \cap Standards = {}
  BY KeysAssumption DEF key, StoreKeys, Keys
<1>1. CASE e.address = "foreign"
  BY <1>1 DEF runStores, decode_log, Legit
<1>2. CASE e.address # "foreign"
  <2>0. e.after = [state EXCEPT ![e.key] = e.value] /\ e.value.gen > 0 BY <1>2 DEF Legit
  <2>a. e.after[e.key] = e.value /\ \A k \in Keys \ {e.key} : e.after[k] = state[k]
    BY <1>0, <2>0 DEF States
  <2>1. CASE e.kind = "Registered"
    <3> DEFINE new == set(kv, key(e.key, "identity"), [val |-> 1, gen |-> 1], at)
    <3>1. e.key \in Items /\ e.value = [val |-> 1, gen |-> 1] /\ state[e.key] = Absent
      BY <1>2, <2>1 DEF Legit, REGISTERED
    <3>2. runStores(kv, e, at) = new
      BY <1>2, <2>1, <3>1, HandlersSet DEF Slot
    <3>3. kv[key(e.key, "status")] = NoRecord
      <4>1. StoredValue(kv, e.key) = Absent BY <1>k, <3>1
      <4>2. kv[key(e.key, "status")] # NoRecord
              => StoredValue(kv, e.key).gen = kv[key(e.key, "status")].gen
        BY <1>k, <3>1 DEF StoredValue
      <4> QED BY <1>k, <3>1, <4>1, <4>2 DEF StatusRecords, Absent
    <3>4. /\ new \in SubstreamsStates
          /\ new[key(e.key, "identity")] = [val |-> 1, gen |-> 1, at |-> at]
          /\ \A j \in StoreKeys \ {key(e.key, "identity")} : new[j] = kv[j]
      BY <1>0, <1>k, <3>1, SetWrites
    <3> HIDE DEF new
    <3>5. StatusRecords(new) BY <1>k, <3>4 DEF StatusRecords, key
    <3>6. StoredValue(new, e.key) = e.value
      BY <1>k, <3>1, <3>3, <3>4 DEF StoredValue, key
    <3>7. ASSUME NEW k \in (Keys \ Fills) \ {e.key} PROVE StoredValue(new, k) = StoredValue(kv, k)
      BY <1>k, <3>1, <3>4 DEF StoredValue, key
    <3> QED BY <2>a, <3>2, <3>4, <3>5, <3>6, <3>7
  <2>2. CASE e.kind = "StatusChanged"
    <3> DEFINE new == set(kv, key(e.key, "status"), e.value, at)
    <3>1. e.key \in Items BY <1>2, <2>2 DEF Legit
    <3>2. runStores(kv, e, at) = new
      BY <1>2, <2>2, HandlersSet DEF Slot
    <3>4. /\ new \in SubstreamsStates
          /\ new[key(e.key, "status")] = [val |-> e.value.val, gen |-> e.value.gen, at |-> at]
          /\ \A j \in StoreKeys \ {key(e.key, "status")} : new[j] = kv[j]
      BY <1>0, <1>k, <3>1, SetWrites
    <3> HIDE DEF new
    <3>5. StatusRecords(new)
      <4>1. new[key(e.key, "status")].gen > 0 BY <2>0, <3>4
      <4>2. \A k \in Items \ {e.key} : new[key(k, "status")] = kv[key(k, "status")]
        BY <1>k, <3>4 DEF key
      <4> QED BY <4>1, <4>2 DEF StatusRecords
    <3>s. new[key(e.key, "status")] # NoRecord BY <1>0, <2>0, <3>4 DEF NoRecord, Values
    <3>6. StoredValue(new, e.key) = e.value
      BY <1>0, <1>k, <3>1, <3>4, <3>s DEF StoredValue
    <3>7. ASSUME NEW k \in (Keys \ Fills) \ {e.key} PROVE StoredValue(new, k) = StoredValue(kv, k)
      BY <1>k, <3>1, <3>4 DEF StoredValue, key
    <3> QED BY <2>a, <3>2, <3>4, <3>5, <3>6, <3>7
  <2>3. CASE e.kind = "SourceIntakeConfigured"
    <3> DEFINE new == set(kv, key(e.key, "intake"), e.value, at)
    <3>1. e.key = Router BY <1>2, <2>3 DEF Legit
    <3>2. runStores(kv, e, at) = new
      BY <1>2, <2>3, HandlersSet DEF Slot
    <3>4. /\ new \in SubstreamsStates
          /\ new[key(Router, "intake")] = [val |-> e.value.val, gen |-> e.value.gen, at |-> at]
          /\ \A j \in StoreKeys \ {key(Router, "intake")} : new[j] = kv[j]
      BY <1>0, <1>k, <3>1, SetWrites
    <3> HIDE DEF new
    <3>5. StatusRecords(new) BY <1>k, <3>4 DEF StatusRecords, key
    <3>6. StoredValue(new, e.key) = e.value BY <1>0, <3>1, <3>4 DEF StoredValue
    <3>7. ASSUME NEW k \in (Keys \ Fills) \ {e.key} PROVE StoredValue(new, k) = StoredValue(kv, k)
      BY <1>k, <3>1, <3>4 DEF StoredValue, key
    <3> QED BY <2>a, <3>2, <3>4, <3>5, <3>6, <3>7
  <2>4. CASE e.kind = "StandardModuleConfigured"
    <3> DEFINE new == set(kv, key(e.key, "module"), e.value, at)
    <3>1. e.key \in Standards BY <1>2, <2>4 DEF Legit
    <3>2. runStores(kv, e, at) = new
      BY <1>2, <2>4, HandlersSet DEF Slot
    <3>4. /\ new \in SubstreamsStates
          /\ new[key(e.key, "module")] = [val |-> e.value.val, gen |-> e.value.gen, at |-> at]
          /\ \A j \in StoreKeys \ {key(e.key, "module")} : new[j] = kv[j]
      BY <1>0, <1>k, <3>1, SetWrites
    <3> HIDE DEF new
    <3>5. StatusRecords(new) BY <1>k, <3>4 DEF StatusRecords, key
    <3>6. StoredValue(new, e.key) = e.value BY <1>0, <1>k, <3>1, <3>4 DEF StoredValue
    <3>7. ASSUME NEW k \in (Keys \ Fills) \ {e.key} PROVE StoredValue(new, k) = StoredValue(kv, k)
      BY <1>k, <3>1, <3>4 DEF StoredValue, key
    <3> QED BY <2>a, <3>2, <3>4, <3>5, <3>6, <3>7
  <2>5. CASE e.kind = "SourceFill"
    <3>1. e.key \in Fills BY <1>2, <2>5 DEF Legit
    <3>2. runStores(kv, e, at) = kv
      BY <1>2, <2>5, HandlersSet
    <3> QED BY <2>a, <3>1, <3>2
  <2> QED BY <1>2, <2>1, <2>2, <2>3, <2>4, <2>5 DEF Legit
<1> QED BY <1>1, <1>2

\* The records of the stores: an item's identity and its status name their last events.
StoreRecords(kv, s, m) ==
  \A k \in Items :
    /\ kv[key(k, "identity")].at = Latest(About(s, m, k, {"Registered"}))
    /\ kv[key(k, "status")].at = Latest(About(s, m, k, {"StatusChanged"}))

LEMMA StoreRecordsStep ==
  ASSUME NEW kv \in SubstreamsStates, NEW e \in Entries, NEW state \in States, NEW m \in Nat,
         Legit(state, e), NEW s, NEW t, Continues(t, s, m, e), StoreRecords(kv, s, m)
  PROVE  StoreRecords(runStores(kv, e, m + 1), t, m + 1)
<1> DEFINE at == m + 1
           new == runStores(kv, e, at)
<1>0. at \in Nat /\ e.value \in Values BY DEF Entries
<1>a. Adds(s, t, m, e) BY OnePosition
<1>1. CASE e.address = "foreign" \/ e.kind = "SourceFill"
  <2>1. new = kv BY <1>0, <1>1, HandlersSet
  <2>2. \A k, kinds : kinds \subseteq {"Registered", "StatusChanged"}
          => About(t, at, k, kinds) = About(s, m, k, kinds)
    BY <1>1, <1>a DEF Adds
  <2> HIDE DEF new, at
  <2> QED BY <2>1, <2>2 DEF StoreRecords, new, at
<1>2. CASE ~(e.address = "foreign" \/ e.kind = "SourceFill")
  <2>0. e.address = "nexa" BY <1>2 DEF Entries
  <2>s. Slot(e) \in StoreKeys /\ new = set(kv, Slot(e), e.value, at)
    BY <1>0, <1>2, HandlersSet
  <2> HIDE DEF new
  <2>1. /\ new[Slot(e)].at = at
        /\ \A j \in StoreKeys \ {Slot(e)} : new[j] = kv[j]
    <3>1. /\ new[Slot(e)] = [val |-> e.value.val, gen |-> e.value.gen, at |-> at]
          /\ \A j \in StoreKeys \ {Slot(e)} : new[j] = kv[j]
      BY <1>0, <2>s, SetWrites
    <3> QED BY <3>1
  <2>2. ASSUME NEW k \in Items, NEW kind, NEW suffix,
               \/ kind = "Registered" /\ suffix = "identity"
               \/ kind = "StatusChanged" /\ suffix = "status",
               kv[key(k, suffix)].at = Latest(About(s, m, k, {kind}))
        PROVE  new[key(k, suffix)].at = Latest(About(t, at, k, {kind}))
    <3>1. key(k, suffix) \in StoreKeys BY <2>2 DEF key, StoreKeys
    <3>2. key(k, suffix) = Slot(e) <=> e.key = k /\ e.kind = kind
      BY <1>2, <2>2 DEF key, Slot, Entries, Kinds
    <3>3. CASE e.key = k /\ e.kind = kind
      <4>1. About(t, at, k, {kind}) = About(s, m, k, {kind}) \cup {at}
        BY <1>a, <2>0, <3>3 DEF Adds
      <4>2. About(s, m, k, {kind}) \in SUBSET (1 .. m) BY DEF About
      <4> QED BY <2>1, <3>2, <3>3, <4>1, <4>2, LatestIsNew
    <3>4. CASE ~(e.key = k /\ e.kind = kind)
      <4>1. About(t, at, k, {kind}) = About(s, m, k, {kind}) BY <1>a, <3>4 DEF Adds
      <4> QED BY <2>1, <2>2, <3>1, <3>2, <3>4, <4>1
    <3> QED BY <3>3, <3>4
  <2> HIDE DEF at
  <2> QED BY <2>2 DEF StoreRecords, new, at
<1> QED BY <1>1, <1>2
----------------------------------------------------------------------------
\* What an index has taken, and what its store shows after each entry.
Trails ==
  /\ published \subseteq Indexes
  /\ seen \in [Indexes -> Seq(Entries)] /\ \A i \in Indexes : History(seen[i])

\* A store that shows the state of the contracts after the first m entries of a trail,
\* and has their records.
GraphAt(store, s, m) ==
  /\ \A k \in Keys : EntityValue(store, k) = StateAt(s, m)[k]
  /\ GraphRecords(store, s, m)
StoresAt(kv, s, m) ==
  /\ StatusRecords(kv) /\ StoreRecords(kv, s, m)
  /\ \A k \in Keys \ Fills : StoredValue(kv, k) = StateAt(s, m)[k]

\* An index keeps its store after every number of entries.
GraphShows ==
  /\ graph \in [IndexesOf("graph") -> Seq(GraphStores)]
  /\ \A i \in IndexesOf("graph") :
       /\ Len(graph[i]) = Len(seen[i]) + 1
       /\ \A n \in 1 .. Len(graph[i]) : GraphAt(graph[i][n], seen[i], n - 1)

StoresShow ==
  /\ stores \in [IndexesOf("substreams") -> Seq(SubstreamsStates)]
  /\ \A i \in IndexesOf("substreams") :
       /\ Len(stores[i]) = Len(seen[i]) + 1
       /\ \A n \in 1 .. Len(stores[i]) : StoresAt(stores[i][n], seen[i], n - 1)

IInv == LogType /\ LogsAreHistories /\ Trails /\ GraphShows /\ StoresShow

\* What a store shows of a prefix depends on nothing after it.
LEMMA AtPrefix ==
  ASSUME NEW s, NEW t, NEW m \in Nat, \A n \in 1 .. m : t[n] = s[n]
  PROVE  /\ \A store : GraphAt(store, s, m) => GraphAt(store, t, m)
         /\ \A kv : StoresAt(kv, s, m) => StoresAt(kv, t, m)
<1>1. StateAt(t, m) = StateAt(s, m) BY DEF StateAt
<1>2. /\ \A k, kinds : About(t, m, k, kinds) = About(s, m, k, kinds)
      /\ {ChangeOf(t, n) : n \in ChangedAt(t, m)} = {ChangeOf(s, n) : n \in ChangedAt(s, m)}
      /\ \A contract : EventsOf(t, m, contract) = EventsOf(s, m, contract)
  BY SharedPrefix
<1>3. ASSUME NEW store, GraphRecords(store, s, m) PROVE GraphRecords(store, t, m)
  BY <1>2, <1>3 DEF GraphRecords
<1>4. ASSUME NEW kv, StoreRecords(kv, s, m) PROVE StoreRecords(kv, t, m)
  BY <1>2, <1>4 DEF StoreRecords
<1> QED BY <1>1, <1>3, <1>4 DEF GraphAt, StoresAt

\* The handlers take a store that shows a trail to one that shows the longer trail.
LEMMA AtStep ==
  ASSUME NEW s, NEW t, NEW m \in Nat, NEW e \in Entries, StateAt(s, m) \in States,
         Legit(StateAt(s, m), e), Continues(t, s, m, e)
  PROVE  /\ \A store \in GraphStores : GraphAt(store, s, m) =>
              /\ handleGraph(store, e, m + 1) \in GraphStores
              /\ GraphAt(handleGraph(store, e, m + 1), t, m + 1)
         /\ \A kv \in SubstreamsStates : StoresAt(kv, s, m) =>
              /\ runStores(kv, e, m + 1) \in SubstreamsStates
              /\ StoresAt(runStores(kv, e, m + 1), t, m + 1)
<1>0. m + 1 \in Nat /\ m + 1 # 0 OBVIOUS
<1>s. StateAt(t, m + 1) = e.after BY <1>0 DEF StateAt, Continues
<1>1. ASSUME NEW store \in GraphStores, GraphAt(store, s, m)
      PROVE  /\ handleGraph(store, e, m + 1) \in GraphStores
             /\ GraphAt(handleGraph(store, e, m + 1), t, m + 1)
  <2> DEFINE new == handleGraph(store, e, m + 1)
  <2>1. \A k \in Keys : EntityValue(store, k) = StateAt(s, m)[k] BY <1>1 DEF GraphAt
  <2>2. new \in GraphStores /\ \A k \in Keys : EntityValue(new, k) = e.after[k]
    BY <1>0, <2>1, GraphStep
  <2>3. GraphRecords(store, s, m) BY <1>1 DEF GraphAt
  <2>4. GraphRecords(new, t, m + 1) BY <2>1, <2>3, GraphRecordsStep
  <2> HIDE DEF new
  <2> QED BY <1>s, <2>2, <2>4 DEF GraphAt, new
<1>2. ASSUME NEW kv \in SubstreamsStates, StoresAt(kv, s, m)
      PROVE  /\ runStores(kv, e, m + 1) \in SubstreamsStates
             /\ StoresAt(runStores(kv, e, m + 1), t, m + 1)
  <2> DEFINE new == runStores(kv, e, m + 1)
  <2>1. StatusRecords(kv) /\ \A k \in Keys \ Fills : StoredValue(kv, k) = StateAt(s, m)[k]
    BY <1>2 DEF StoresAt
  <2>2. /\ new \in SubstreamsStates /\ StatusRecords(new)
        /\ \A k \in Keys \ Fills : StoredValue(new, k) = e.after[k]
    BY <1>0, <2>1, StoresStep
  <2>3. StoreRecords(kv, s, m) BY <1>2 DEF StoresAt
  <2>4. StoreRecords(new, t, m + 1) BY <2>3, StoreRecordsStep
  <2> HIDE DEF new
  <2> QED BY <1>s, <2>2, <2>4 DEF StoresAt, new
<1> QED BY <1>1, <1>2

\* One entry more of a history.
LEMMA OneMore ==
  ASSUME NEW s \in Seq(Entries), History(s), NEW n \in 0 .. Len(s), n < Len(s),
         NEW t \in Seq(Entries), Len(t) = n, t = SubSeq(s, 1, n)
  PROVE  /\ s[n + 1] \in Entries
         /\ Append(t, s[n + 1]) \in Seq(Entries) /\ Len(Append(t, s[n + 1])) = n + 1
         /\ History(Append(t, s[n + 1]))
         /\ Legit(StateAt(t, n), s[n + 1])
         /\ \A m \in 1 .. n : Append(t, s[n + 1])[m] = t[m]
         /\ Append(t, s[n + 1])[n + 1] = s[n + 1]
<1> DEFINE e == s[n + 1]  u == Append(t, e)
<1>1. n + 1 \in 1 .. Len(s) OBVIOUS
<1>2. e \in Entries BY <1>1
<1>3. u \in Seq(Entries) /\ Len(u) = n + 1 /\ u[n + 1] = e BY <1>2
<1>4. \A m \in 1 .. n : u[m] = t[m] /\ t[m] = s[m] BY <1>2
<1>5. \A m \in 0 .. n : StateAt(u, m) = StateAt(t, m) BY <1>4 DEF StateAt
<1>6. StateAt(t, n) = StateAt(s, n) BY <1>4 DEF StateAt
<1>7. Legit(StateAt(s, (n + 1) - 1), s[n + 1]) BY <1>1 DEF History
<1>8. (n + 1) - 1 = n OBVIOUS
<1>9. Legit(StateAt(t, n), e) BY <1>6, <1>7, <1>8
<1>10. \A m \in 1 .. n : Legit(StateAt(t, m - 1), t[m])
  <2>1. t = SubSeq(s, 1, n) /\ n \in 0 .. Len(s) OBVIOUS
  <2>2. History(SubSeq(s, 1, n)) BY PrefixHistory
  <2> QED BY <2>1, <2>2 DEF History
<1>11. History(u)
  <2> SUFFICES ASSUME NEW m \in 1 .. n + 1 PROVE Legit(StateAt(u, m - 1), u[m])
    BY <1>3 DEF History
  <2>1. CASE m = n + 1
    <3>1. m - 1 = n /\ n \in 0 .. n BY <2>1, <1>8
    <3>2. StateAt(u, m - 1) = StateAt(t, n) BY <3>1, <1>5
    <3>3. u[m] = e BY <2>1, <1>3
    <3> HIDE DEF e, u
    <3> QED BY <3>2, <3>3, <1>9
  <2>2. CASE m \in 1 .. n
    <3>1. m - 1 \in 0 .. n BY <2>2
    <3>2. StateAt(u, m - 1) = StateAt(t, m - 1) BY <3>1, <1>5
    <3>3. u[m] = t[m] BY <2>2, <1>4
    <3>4. Legit(StateAt(t, m - 1), t[m]) BY <2>2, <1>10
    <3> HIDE DEF e, u
    <3> QED BY <3>2, <3>3, <3>4
  <2> QED BY <2>1, <2>2
<1> QED BY <1>2, <1>3, <1>4, <1>9, <1>11

LEMMA InService ==
  ASSUME Trails, LogType, LogsAreHistories, NEW i \in published
  PROVE  /\ i \in Indexes /\ i.chain \in Chains
         /\ seen[i] \in Seq(Entries) /\ History(seen[i])
         /\ log[i.chain] \in Seq(Entries) /\ History(log[i.chain])
<1>1. i \in Indexes /\ i.chain \in Chains BY IndexesAssumption DEF Trails
<1> QED BY <1>1 DEF Trails, LogType, LogsAreHistories

LEMMA FollowTakes ==
  ASSUME Trails, LogType, LogsAreHistories, NEW i \in published, Follow(i)
  PROVE  LET n == Len(seen[i])
             e == log[i.chain][n + 1]
         IN  /\ n \in Nat /\ e \in Entries
             /\ seen' = [seen EXCEPT ![i] = Append(@, e)]
             /\ Append(seen[i], e) \in Seq(Entries) /\ Len(Append(seen[i], e)) = n + 1
             /\ History(Append(seen[i], e))
             /\ Legit(StateAt(seen[i], n), e)
             /\ \A m \in 1 .. n : Append(seen[i], e)[m] = seen[i][m]
             /\ Append(seen[i], e)[n + 1] = e
<1>1. /\ i \in Indexes /\ seen[i] \in Seq(Entries)
      /\ log[i.chain] \in Seq(Entries) /\ History(log[i.chain])
  BY InService
<1>2. Len(seen[i]) \in 0 .. Len(log[i.chain]) /\ Len(seen[i]) < Len(log[i.chain])
  BY <1>1 DEF Follow
<1>3. seen[i] = SubSeq(log[i.chain], 1, Len(seen[i]))
  BY DEF Follow, OnChain
<1>4. seen' = [seen EXCEPT ![i] = Append(@, log[i.chain][Len(seen[i]) + 1])]
  BY DEF Follow
<1> DEFINE s == log[i.chain]  t == seen[i]  n == Len(t)
<1>5. /\ s \in Seq(Entries) /\ History(s) /\ n \in 0 .. Len(s) /\ n < Len(s) /\ n \in Nat
      /\ t \in Seq(Entries) /\ Len(t) = n /\ t = SubSeq(s, 1, n)
  BY <1>1, <1>2, <1>3
<1>6. seen' = [seen EXCEPT ![i] = Append(@, s[n + 1])] BY <1>4
<1> HIDE DEF s, t, n
<1>7. /\ s[n + 1] \in Entries
      /\ Append(t, s[n + 1]) \in Seq(Entries) /\ Len(Append(t, s[n + 1])) = n + 1
      /\ History(Append(t, s[n + 1]))
      /\ Legit(StateAt(t, n), s[n + 1])
      /\ \A m \in 1 .. n : Append(t, s[n + 1])[m] = t[m]
      /\ Append(t, s[n + 1])[n + 1] = s[n + 1]
  BY <1>5, OneMore
<1> QED BY <1>5, <1>6, <1>7 DEF s, t, n

LEMMA RewindDrops ==
  ASSUME Trails, LogType, LogsAreHistories, NEW i \in published, Rewind(i)
  PROVE  LET n == Len(seen[i])
             t == SubSeq(seen[i], 1, n - 1)
         IN  /\ n \in Nat /\ n > 0
             /\ seen' = [seen EXCEPT ![i] = SubSeq(@, 1, n - 1)]
             /\ t \in Seq(Entries) /\ Len(t) = n - 1 /\ History(t)
             /\ \A m \in 1 .. n - 1 : t[m] = seen[i][m]
<1> DEFINE n == Len(seen[i])  t == SubSeq(seen[i], 1, n - 1)
<1>1. /\ i \in Indexes /\ seen[i] \in Seq(Entries) /\ History(seen[i])
      /\ log[i.chain] \in Seq(Entries)
  BY InService
<1>2. n \in Nat BY <1>1
<1>3. n > 0
  <2> SUFFICES ASSUME n = 0 PROVE FALSE BY <1>2
  <2>1. seen[i] = <<>> BY <1>1
  <2>2. SubSeq(log[i.chain], 1, 0) = <<>> BY <1>1
  <2>3. Len(seen[i]) <= Len(log[i.chain]) BY <1>1
  <2>4. OnChain(i) BY <2>1, <2>2, <2>3 DEF OnChain
  <2> QED BY <2>4 DEF Rewind
<1>4. seen' = [seen EXCEPT ![i] = SubSeq(@, 1, n - 1)] BY DEF Rewind
<1>5. n - 1 \in 0 .. Len(seen[i]) BY <1>2, <1>3
<1>6. t \in Seq(Entries) /\ History(t) BY <1>1, <1>5, PrefixHistory
<1>7. Len(t) = n - 1 /\ \A m \in 1 .. n - 1 : t[m] = seen[i][m] BY <1>1, <1>5
<1> QED BY <1>2, <1>3, <1>4, <1>6, <1>7

LEMMA TrailsKept ==
  ASSUME Trails, LogType, LogsAreHistories, NEW i \in published, Follow(i) \/ Rewind(i)
  PROVE  Trails'
<1>0. i \in Indexes /\ published' = published BY InService DEF Follow, Rewind
<1>1. CASE Follow(i)
  <2> DEFINE u == Append(seen[i], log[i.chain][Len(seen[i]) + 1])
  <2>1. seen' = [seen EXCEPT ![i] = u] /\ u \in Seq(Entries) /\ History(u)
    BY <1>1, FollowTakes
  <2> HIDE DEF u
  <2> QED BY <1>0, <2>1 DEF Trails
<1>2. CASE Rewind(i)
  <2> DEFINE u == SubSeq(seen[i], 1, Len(seen[i]) - 1)
  <2>1. seen' = [seen EXCEPT ![i] = u] /\ u \in Seq(Entries) /\ History(u)
    BY <1>2, RewindDrops
  <2> HIDE DEF u
  <2> QED BY <1>0, <2>1 DEF Trails
<1> QED BY <1>1, <1>2

\* A store that shows the states along a trail goes on doing so.
LEMMA GraphFollows ==
  ASSUME Trails, LogType, LogsAreHistories, GraphShows, NEW i \in published, Follow(i)
  PROVE  GraphShows'
<1> DEFINE n == Len(seen[i])  e == log[i.chain][n + 1]  u == Append(seen[i], e)
<1>1. /\ n \in Nat /\ e \in Entries
      /\ seen' = [seen EXCEPT ![i] = u] /\ Len(u) = n + 1
      /\ Legit(StateAt(seen[i], n), e)
      /\ \A m \in 1 .. n : u[m] = seen[i][m]
      /\ u[n + 1] = e
  BY FollowTakes
<1>2. i \in Indexes /\ seen[i] \in Seq(Entries) BY InService
<1>3. graph' = IF i.view = "graph"
               THEN [graph EXCEPT ![i] = Append(@, handleGraph(@[n + 1], e, n + 1))] ELSE graph
  BY DEF Follow
<1>4. StateAt(seen[i], n) \in States BY <1>2, StateIsState
<1> HIDE DEF n, e, u
<1>5. \A j \in Indexes \ {i} : seen'[j] = seen[j] BY <1>1 DEF Trails
<1>6. seen'[i] = u BY <1>1, <1>2 DEF Trails
<1>7. CASE i.view # "graph"
  <2>1. graph' = graph /\ \A j \in IndexesOf("graph") : seen'[j] = seen[j]
    BY <1>3, <1>5, <1>7 DEF IndexesOf
  <2> QED BY <2>1 DEF GraphShows
<1>8. CASE i.view = "graph"
  <2> DEFINE g == graph[i]  new == handleGraph(g[n + 1], e, n + 1)
  <2>1. i \in IndexesOf("graph") BY <1>2, <1>8 DEF IndexesOf
  <2>2. g \in Seq(GraphStores) /\ Len(g) = n + 1 BY <2>1 DEF GraphShows, n
  <2>3. g[n + 1] \in GraphStores BY <1>1, <2>2
  <2>4. \A m \in 1 .. n + 1 : GraphAt(g[m], seen[i], m - 1)
    BY <2>1, <2>2 DEF GraphShows
  <2>5. GraphAt(g[n + 1], seen[i], n)
    <3>1. n + 1 \in 1 .. n + 1 /\ (n + 1) - 1 = n BY <1>1
    <3> QED BY <2>4, <3>1
  <2>6. new \in GraphStores /\ GraphAt(new, u, n + 1)
    <3>1. Continues(u, seen[i], n, e) BY <1>1 DEF Continues
    <3> QED BY <1>1, <1>4, <2>3, <2>5, <3>1, AtStep
  <2>7. graph' = [graph EXCEPT ![i] = Append(g, new)] BY <1>3, <1>8
  <2> HIDE DEF g, new
  <2>8. Append(g, new) \in Seq(GraphStores) /\ Len(Append(g, new)) = (n + 1) + 1
        /\ Append(g, new)[(n + 1) + 1] = new
        /\ \A m \in 1 .. n + 1 : Append(g, new)[m] = g[m]
    BY <1>1, <2>2, <2>6
  <2>9. graph' \in [IndexesOf("graph") -> Seq(GraphStores)] /\ graph'[i] = Append(g, new)
        /\ \A j \in IndexesOf("graph") \ {i} : graph'[j] = graph[j]
    BY <2>1, <2>7, <2>8 DEF GraphShows
  <2>10. ASSUME NEW m \in 1 .. (n + 1) + 1
         PROVE  GraphAt(Append(g, new)[m], u, m - 1)
    <3>1. CASE m = (n + 1) + 1
      <4>1. m - 1 = n + 1 BY <1>1, <3>1
      <4> QED BY <1>1, <2>6, <2>8, <3>1, <4>1
    <3>2. CASE m \in 1 .. n + 1
      <4>1. m - 1 \in Nat /\ \A x \in 1 .. m - 1 : u[x] = seen[i][x] BY <1>1, <3>2
      <4>2. Append(g, new)[m] = g[m] BY <2>8, <3>2
      <4>3. GraphAt(g[m], seen[i], m - 1) BY <2>4, <3>2
      <4> QED BY <4>1, <4>2, <4>3, AtPrefix
    <3>3. n \in Nat BY <1>1
    <3>4. m = (n + 1) + 1 \/ m \in 1 .. n + 1 BY <3>3
    <3> QED BY <3>1, <3>2, <3>4
  <2>11. ASSUME NEW j \in IndexesOf("graph")
         PROVE  /\ Len(graph'[j]) = Len(seen'[j]) + 1
                /\ \A m \in 1 .. Len(graph'[j]) :
                     GraphAt(graph'[j][m], seen'[j], m - 1)
    <3>1. CASE j = i
      BY <3>1, <1>1, <1>6, <2>8, <2>9, <2>10
    <3>2. CASE j # i
      <4>1. graph'[j] = graph[j] /\ seen'[j] = seen[j] BY <3>2, <1>5, <2>9 DEF IndexesOf
      <4> QED BY <4>1 DEF GraphShows
    <3> QED BY <3>1, <3>2
  <2> QED BY <2>9, <2>11 DEF GraphShows
<1> QED BY <1>7, <1>8

LEMMA GraphRewinds ==
  ASSUME Trails, LogType, LogsAreHistories, GraphShows, NEW i \in published, Rewind(i)
  PROVE  GraphShows'
<1> DEFINE n == Len(seen[i])  u == SubSeq(seen[i], 1, n - 1)
<1>1. /\ n \in Nat /\ n > 0
      /\ seen' = [seen EXCEPT ![i] = u] /\ Len(u) = n - 1
      /\ \A m \in 1 .. n - 1 : u[m] = seen[i][m]
  BY RewindDrops
<1>2. i \in Indexes BY InService
<1>3. graph' = IF i.view = "graph" THEN [graph EXCEPT ![i] = SubSeq(@, 1, n)] ELSE graph
  BY DEF Rewind
<1> HIDE DEF n, u
<1>5. \A j \in Indexes \ {i} : seen'[j] = seen[j] BY <1>1 DEF Trails
<1>6. seen'[i] = u BY <1>1, <1>2 DEF Trails
<1>7. CASE i.view # "graph"
  <2>1. graph' = graph /\ \A j \in IndexesOf("graph") : seen'[j] = seen[j]
    BY <1>3, <1>5, <1>7 DEF IndexesOf
  <2> QED BY <2>1 DEF GraphShows
<1>8. CASE i.view = "graph"
  <2> DEFINE g == graph[i]  new == SubSeq(g, 1, n)
  <2>1. i \in IndexesOf("graph") BY <1>2, <1>8 DEF IndexesOf
  <2>2. g \in Seq(GraphStores) /\ Len(g) = n + 1 BY <2>1 DEF GraphShows, n
  <2>4. \A m \in 1 .. n + 1 : GraphAt(g[m], seen[i], m - 1)
    BY <2>1, <2>2 DEF GraphShows
  <2>5. new \in Seq(GraphStores) /\ Len(new) = n /\ \A m \in 1 .. n : new[m] = g[m]
    BY <1>1, <2>2
  <2>7. graph' = [graph EXCEPT ![i] = new] BY <1>3, <1>8
  <2> HIDE DEF g, new
  <2>9. graph' \in [IndexesOf("graph") -> Seq(GraphStores)] /\ graph'[i] = new
        /\ \A j \in IndexesOf("graph") \ {i} : graph'[j] = graph[j]
    BY <2>1, <2>5, <2>7 DEF GraphShows
  <2>10. ASSUME NEW m \in 1 .. n
         PROVE  GraphAt(new[m], u, m - 1)
    <3>1. m - 1 \in Nat /\ \A x \in 1 .. m - 1 : u[x] = seen[i][x] BY <1>1
    <3>2. new[m] = g[m] /\ m \in 1 .. n + 1 BY <1>1, <2>5
    <3>3. GraphAt(g[m], seen[i], m - 1) BY <2>4, <3>2
    <3> QED BY <3>1, <3>2, <3>3, AtPrefix
  <2>11. ASSUME NEW j \in IndexesOf("graph")
         PROVE  /\ Len(graph'[j]) = Len(seen'[j]) + 1
                /\ \A m \in 1 .. Len(graph'[j]) :
                     GraphAt(graph'[j][m], seen'[j], m - 1)
    <3>1. CASE j = i
      <4>1. graph'[j] = new /\ seen'[j] = u BY <3>1, <1>6, <2>9
      <4>2. Len(new) = n /\ n = Len(u) + 1 BY <1>1, <2>5
      <4> QED BY <4>1, <4>2, <2>10
    <3>2. CASE j # i
      <4>1. graph'[j] = graph[j] /\ seen'[j] = seen[j] BY <3>2, <1>5, <2>9 DEF IndexesOf
      <4> QED BY <4>1 DEF GraphShows
    <3> QED BY <3>1, <3>2
  <2> QED BY <2>9, <2>11 DEF GraphShows
<1> QED BY <1>7, <1>8

LEMMA StoresFollow ==
  ASSUME Trails, LogType, LogsAreHistories, StoresShow, NEW i \in published, Follow(i)
  PROVE  StoresShow'
<1> DEFINE n == Len(seen[i])  e == log[i.chain][n + 1]  u == Append(seen[i], e)
<1>1. /\ n \in Nat /\ e \in Entries
      /\ seen' = [seen EXCEPT ![i] = u] /\ Len(u) = n + 1
      /\ Legit(StateAt(seen[i], n), e)
      /\ \A m \in 1 .. n : u[m] = seen[i][m]
      /\ u[n + 1] = e
  BY FollowTakes
<1>2. i \in Indexes /\ seen[i] \in Seq(Entries) BY InService
<1>3. stores' = IF i.view = "substreams"
               THEN [stores EXCEPT ![i] = Append(@, runStores(@[n + 1], e, n + 1))] ELSE stores
  BY DEF Follow
<1>4. StateAt(seen[i], n) \in States BY <1>2, StateIsState
<1> HIDE DEF n, e, u
<1>5. \A j \in Indexes \ {i} : seen'[j] = seen[j] BY <1>1 DEF Trails
<1>6. seen'[i] = u BY <1>1, <1>2 DEF Trails
<1>7. CASE i.view # "substreams"
  <2>1. stores' = stores /\ \A j \in IndexesOf("substreams") : seen'[j] = seen[j]
    BY <1>3, <1>5, <1>7 DEF IndexesOf
  <2> QED BY <2>1 DEF StoresShow
<1>8. CASE i.view = "substreams"
  <2> DEFINE g == stores[i]  new == runStores(g[n + 1], e, n + 1)
  <2>1. i \in IndexesOf("substreams") BY <1>2, <1>8 DEF IndexesOf
  <2>2. g \in Seq(SubstreamsStates) /\ Len(g) = n + 1 BY <2>1 DEF StoresShow, n
  <2>3. g[n + 1] \in SubstreamsStates BY <1>1, <2>2
  <2>4. \A m \in 1 .. n + 1 : StoresAt(g[m], seen[i], m - 1)
    BY <2>1, <2>2 DEF StoresShow
  <2>5. StoresAt(g[n + 1], seen[i], n)
    <3>1. n + 1 \in 1 .. n + 1 /\ (n + 1) - 1 = n BY <1>1
    <3> QED BY <2>4, <3>1
  <2>6. new \in SubstreamsStates /\ StoresAt(new, u, n + 1)
    <3>1. Continues(u, seen[i], n, e) BY <1>1 DEF Continues
    <3> QED BY <1>1, <1>4, <2>3, <2>5, <3>1, AtStep
  <2>7. stores' = [stores EXCEPT ![i] = Append(g, new)] BY <1>3, <1>8
  <2> HIDE DEF g, new
  <2>8. Append(g, new) \in Seq(SubstreamsStates) /\ Len(Append(g, new)) = (n + 1) + 1
        /\ Append(g, new)[(n + 1) + 1] = new
        /\ \A m \in 1 .. n + 1 : Append(g, new)[m] = g[m]
    BY <1>1, <2>2, <2>6
  <2>9. stores' \in [IndexesOf("substreams") -> Seq(SubstreamsStates)] /\ stores'[i] = Append(g, new)
        /\ \A j \in IndexesOf("substreams") \ {i} : stores'[j] = stores[j]
    BY <2>1, <2>7, <2>8 DEF StoresShow
  <2>10. ASSUME NEW m \in 1 .. (n + 1) + 1
         PROVE  StoresAt(Append(g, new)[m], u, m - 1)
    <3>1. CASE m = (n + 1) + 1
      <4>1. m - 1 = n + 1 BY <1>1, <3>1
      <4> QED BY <1>1, <2>6, <2>8, <3>1, <4>1
    <3>2. CASE m \in 1 .. n + 1
      <4>1. m - 1 \in Nat /\ \A x \in 1 .. m - 1 : u[x] = seen[i][x] BY <1>1, <3>2
      <4>2. Append(g, new)[m] = g[m] BY <2>8, <3>2
      <4>3. StoresAt(g[m], seen[i], m - 1) BY <2>4, <3>2
      <4> QED BY <4>1, <4>2, <4>3, AtPrefix
    <3>3. n \in Nat BY <1>1
    <3>4. m = (n + 1) + 1 \/ m \in 1 .. n + 1 BY <3>3
    <3> QED BY <3>1, <3>2, <3>4
  <2>11. ASSUME NEW j \in IndexesOf("substreams")
         PROVE  /\ Len(stores'[j]) = Len(seen'[j]) + 1
                /\ \A m \in 1 .. Len(stores'[j]) :
                     StoresAt(stores'[j][m], seen'[j], m - 1)
    <3>1. CASE j = i
      BY <3>1, <1>1, <1>6, <2>8, <2>9, <2>10
    <3>2. CASE j # i
      <4>1. stores'[j] = stores[j] /\ seen'[j] = seen[j] BY <3>2, <1>5, <2>9 DEF IndexesOf
      <4> QED BY <4>1 DEF StoresShow
    <3> QED BY <3>1, <3>2
  <2> QED BY <2>9, <2>11 DEF StoresShow
<1> QED BY <1>7, <1>8

LEMMA StoresRewind ==
  ASSUME Trails, LogType, LogsAreHistories, StoresShow, NEW i \in published, Rewind(i)
  PROVE  StoresShow'
<1> DEFINE n == Len(seen[i])  u == SubSeq(seen[i], 1, n - 1)
<1>1. /\ n \in Nat /\ n > 0
      /\ seen' = [seen EXCEPT ![i] = u] /\ Len(u) = n - 1
      /\ \A m \in 1 .. n - 1 : u[m] = seen[i][m]
  BY RewindDrops
<1>2. i \in Indexes BY InService
<1>3. stores' = IF i.view = "substreams" THEN [stores EXCEPT ![i] = SubSeq(@, 1, n)] ELSE stores
  BY DEF Rewind
<1> HIDE DEF n, u
<1>5. \A j \in Indexes \ {i} : seen'[j] = seen[j] BY <1>1 DEF Trails
<1>6. seen'[i] = u BY <1>1, <1>2 DEF Trails
<1>7. CASE i.view # "substreams"
  <2>1. stores' = stores /\ \A j \in IndexesOf("substreams") : seen'[j] = seen[j]
    BY <1>3, <1>5, <1>7 DEF IndexesOf
  <2> QED BY <2>1 DEF StoresShow
<1>8. CASE i.view = "substreams"
  <2> DEFINE g == stores[i]  new == SubSeq(g, 1, n)
  <2>1. i \in IndexesOf("substreams") BY <1>2, <1>8 DEF IndexesOf
  <2>2. g \in Seq(SubstreamsStates) /\ Len(g) = n + 1 BY <2>1 DEF StoresShow, n
  <2>4. \A m \in 1 .. n + 1 : StoresAt(g[m], seen[i], m - 1)
    BY <2>1, <2>2 DEF StoresShow
  <2>5. new \in Seq(SubstreamsStates) /\ Len(new) = n /\ \A m \in 1 .. n : new[m] = g[m]
    BY <1>1, <2>2
  <2>7. stores' = [stores EXCEPT ![i] = new] BY <1>3, <1>8
  <2> HIDE DEF g, new
  <2>9. stores' \in [IndexesOf("substreams") -> Seq(SubstreamsStates)] /\ stores'[i] = new
        /\ \A j \in IndexesOf("substreams") \ {i} : stores'[j] = stores[j]
    BY <2>1, <2>5, <2>7 DEF StoresShow
  <2>10. ASSUME NEW m \in 1 .. n
         PROVE  StoresAt(new[m], u, m - 1)
    <3>1. m - 1 \in Nat /\ \A x \in 1 .. m - 1 : u[x] = seen[i][x] BY <1>1
    <3>2. new[m] = g[m] /\ m \in 1 .. n + 1 BY <1>1, <2>5
    <3>3. StoresAt(g[m], seen[i], m - 1) BY <2>4, <3>2
    <3> QED BY <3>1, <3>2, <3>3, AtPrefix
  <2>11. ASSUME NEW j \in IndexesOf("substreams")
         PROVE  /\ Len(stores'[j]) = Len(seen'[j]) + 1
                /\ \A m \in 1 .. Len(stores'[j]) :
                     StoresAt(stores'[j][m], seen'[j], m - 1)
    <3>1. CASE j = i
      <4>1. stores'[j] = new /\ seen'[j] = u BY <3>1, <1>6, <2>9
      <4>2. Len(new) = n /\ n = Len(u) + 1 BY <1>1, <2>5
      <4> QED BY <4>1, <4>2, <2>10
    <3>2. CASE j # i
      <4>1. stores'[j] = stores[j] /\ seen'[j] = seen[j] BY <3>2, <1>5, <2>9 DEF IndexesOf
      <4> QED BY <4>1 DEF StoresShow
    <3> QED BY <3>1, <3>2
  <2> QED BY <2>9, <2>11 DEF StoresShow
<1> QED BY <1>7, <1>8

LEMMA IndexKeeps ==
  ASSUME IInv, NEW i \in published, Follow(i) \/ Rewind(i)
  PROVE  IInv'
<1>1. LogType' /\ LogsAreHistories'
  <2>1. UNCHANGED chainVars BY DEF Follow, Rewind
  <2> QED BY <2>1 DEF chainVars, LogType, LogsAreHistories, IInv
<1>2. Trails' BY TrailsKept DEF IInv
<1>3. GraphShows' BY GraphFollows, GraphRewinds DEF IInv
<1>4. StoresShow' BY StoresFollow, StoresRewind DEF IInv
<1> QED BY <1>1, <1>2, <1>3, <1>4 DEF IInv

LEMMA Starts == Init => IInv
<1> SUFFICES ASSUME Init PROVE IInv OBVIOUS
<1>1. LogType /\ LogsAreHistories
  BY ValuesAssumption DEF Init, LogInit, LogType, LogsAreHistories, History
<1>2. Trails
  <2>1. published \subseteq Indexes BY IndexesAssumption DEF Init
  <2>2. \A i \in Indexes : seen[i] = <<>> BY DEF Init
  <2>3. History(<<>>) BY DEF History
  <2>4. seen \in [Indexes -> Seq(Entries)] BY DEF Init
  <2> QED BY <2>1, <2>2, <2>3, <2>4 DEF Trails
<1>b. StateAt(<<>>, 0) = Blank BY DEF StateAt
<1>n. /\ \A k, kinds : About(<<>>, 0, k, kinds) = {}
      /\ ChangedAt(<<>>, 0) = {} /\ \A contract : EventsOf(<<>>, 0, contract) = {}
  BY DEF About, ChangedAt, EventsOf
<1>3. GraphShows
  <2>1. EmptyGraph \in GraphStores /\ GraphAt(EmptyGraph, <<>>, 0)
    <3>1. EmptyGraph \in GraphStores BY DEF EmptyGraph, GraphStores, NoEntity, Entities
    <3>2. \A k \in Keys : EntityValue(EmptyGraph, k) = StateAt(<<>>, 0)[k]
      BY <1>b DEF EmptyGraph, EntityValue, Blank, Absent, NoEntity
    <3>3. GraphRecords(EmptyGraph, <<>>, 0)
      BY <1>n DEF GraphRecords, EmptyGraph, NoEntity, Latest, IsFirst
    <3> QED BY <3>1, <3>2, <3>3 DEF GraphAt
  <2>2. \A i \in IndexesOf("graph") : graph[i] = <<EmptyGraph>> /\ seen[i] = <<>>
    BY DEF Init, IndexesOf
  <2>3. graph \in [IndexesOf("graph") -> Seq(GraphStores)] BY <2>1 DEF Init
  <2>4. Len(<<EmptyGraph>>) = 1 /\ <<EmptyGraph>>[1] = EmptyGraph /\ Len(<<>>) = 0 OBVIOUS
  <2>5. ASSUME NEW i \in IndexesOf("graph")
        PROVE  /\ Len(graph[i]) = Len(seen[i]) + 1
               /\ \A n \in 1 .. Len(graph[i]) : GraphAt(graph[i][n], seen[i], n - 1)
    <3>1. Len(graph[i]) = 1 /\ Len(seen[i]) = 0 /\ graph[i][1] = EmptyGraph BY <2>2, <2>4
    <3>2. GraphAt(graph[i][1], seen[i], 0) BY <2>1, <2>2, <3>1
    <3>3. \A n \in 1 .. Len(graph[i]) : n = 1 /\ n - 1 = 0 BY <3>1
    <3> QED BY <3>1, <3>2, <3>3
  <2> QED BY <2>3, <2>5 DEF GraphShows
<1>4. StoresShow
  <2>1. EmptyStores \in SubstreamsStates
    BY DEF EmptyStores, SubstreamsStates, Records, NoRecord
  <2>2. \A k \in StoreKeys : EmptyStores[k] = NoRecord BY DEF EmptyStores
  <2>3. StatusRecords(EmptyStores)
    BY <2>2 DEF StatusRecords, key, StoreKeys
  <2>4. ASSUME NEW k \in Keys \ Fills PROVE StoredValue(EmptyStores, k) = Blank[k]
    <3>1. k = Router \/ k \in Standards \/ k \in Items BY DEF Keys
    <3>2. /\ k = Router => key(k, "intake") \in StoreKeys
          /\ k \in Standards => key(k, "module") \in StoreKeys
          /\ k \in Items => key(k, "status") \in StoreKeys /\ key(k, "identity") \in StoreKeys
      BY DEF key, StoreKeys
    <3>3. StoredValue(EmptyStores, k) = [val |-> NoRecord.val, gen |-> NoRecord.gen]
      BY <2>2, <3>1, <3>2 DEF StoredValue
    <3> QED BY <3>3 DEF NoRecord, Blank, Absent
  <2>r. StoreRecords(EmptyStores, <<>>, 0)
    BY <1>n, <2>2 DEF StoreRecords, key, StoreKeys, NoRecord, Latest
  <2>5. StoresAt(EmptyStores, <<>>, 0) BY <1>b, <2>3, <2>4, <2>r DEF StoresAt
  <2>6. \A i \in IndexesOf("substreams") : stores[i] = <<EmptyStores>> /\ seen[i] = <<>>
    BY DEF Init, IndexesOf
  <2>7. stores \in [IndexesOf("substreams") -> Seq(SubstreamsStates)] BY <2>1 DEF Init
  <2>8. Len(<<EmptyStores>>) = 1 /\ <<EmptyStores>>[1] = EmptyStores /\ Len(<<>>) = 0 OBVIOUS
  <2>9. ASSUME NEW i \in IndexesOf("substreams")
        PROVE  /\ Len(stores[i]) = Len(seen[i]) + 1
               /\ \A n \in 1 .. Len(stores[i]) : StoresAt(stores[i][n], seen[i], n - 1)
    <3>1. Len(stores[i]) = 1 /\ Len(seen[i]) = 0 /\ stores[i][1] = EmptyStores BY <2>6, <2>8
    <3>2. StoresAt(stores[i][1], seen[i], 0) BY <2>5, <2>6, <3>1
    <3>3. \A n \in 1 .. Len(stores[i]) : n = 1 /\ n - 1 = 0 BY <3>1
    <3> QED BY <3>1, <3>2, <3>3
  <2> QED BY <2>7, <2>9 DEF StoresShow
<1> QED BY <1>1, <1>2, <1>3, <1>4 DEF IInv

LEMMA Invariant == Spec => []IInv
<1>1. ASSUME IInv, [Next]_vars PROVE IInv'
  <2>1. ASSUME NEW i \in published, ChainStep(i.chain), UNCHANGED indexVars PROVE IInv'
    <3>1. i.chain \in Chains BY <1>1, <2>1, InService DEF IInv
    <3>2. LogType' /\ LogsAreHistories' BY <1>1, <2>1, <3>1, ChainKeepsHistories DEF IInv
    <3> QED BY <1>1, <2>1, <3>2 DEF IInv, indexVars, Trails, GraphShows, StoresShow
  <2>2. ASSUME NEW i \in published, Follow(i) \/ Rewind(i) PROVE IInv'
    BY <1>1, <2>2, IndexKeeps
  <2>3. CASE DecodeTwice
    BY <1>1, <2>3 DEF DecodeTwice, chainVars, IInv, LogType, LogsAreHistories, Trails, GraphShows,
       StoresShow
  <2>4. CASE UNCHANGED vars
    BY <1>1, <2>4 DEF vars, indexVars, chainVars, IInv, LogType, LogsAreHistories, Trails,
       GraphShows, StoresShow
  <2> QED BY <1>1, <2>1, <2>2, <2>3, <2>4 DEF Next
<1> QED BY Starts, <1>1, PTL DEF Spec
----------------------------------------------------------------------------
\* What the refinement asks of a step, for the two views with a store of their own: at
\* every moment the subgraph and the Substreams package show the state of the contracts
\* after the entries they have taken, whatever the other indexes and the chains do.
IndexesShowTheirTrail ==
  \A i \in IndexesOf("graph") \cup IndexesOf("substreams") :
    Shown(i) = Cover(i, StateAt(seen[i], Len(seen[i])))

\* The last store of an index is the one after all the entries it has taken.
LEMMA LastStores ==
  ASSUME IInv
  PROVE  /\ \A i \in IndexesOf("graph") :
              GraphAt(graph[i][Len(graph[i])], seen[i], Len(seen[i]))
         /\ \A i \in IndexesOf("substreams") :
              StoresAt(stores[i][Len(stores[i])], seen[i], Len(seen[i]))
<1>1. ASSUME NEW i \in IndexesOf("graph")
      PROVE  GraphAt(graph[i][Len(graph[i])], seen[i], Len(seen[i]))
  <2>1. Len(seen[i]) \in Nat BY DEF IInv, Trails, IndexesOf
  <2>2. Len(graph[i]) = Len(seen[i]) + 1 BY DEF IInv, GraphShows
  <2>3. Len(graph[i]) \in 1 .. Len(graph[i]) /\ Len(graph[i]) - 1 = Len(seen[i]) BY <2>1, <2>2
  <2> QED BY <2>3 DEF IInv, GraphShows
<1>2. ASSUME NEW i \in IndexesOf("substreams")
      PROVE  StoresAt(stores[i][Len(stores[i])], seen[i], Len(seen[i]))
  <2>1. Len(seen[i]) \in Nat BY DEF IInv, Trails, IndexesOf
  <2>2. Len(stores[i]) = Len(seen[i]) + 1 BY DEF IInv, StoresShow
  <2>3. Len(stores[i]) \in 1 .. Len(stores[i]) /\ Len(stores[i]) - 1 = Len(seen[i]) BY <2>1, <2>2
  <2> QED BY <2>3 DEF IInv, StoresShow
<1> QED BY <1>1, <1>2

LEMMA StoresShowTheirTrail == IInv => IndexesShowTheirTrail
<1>1. ASSUME IInv, NEW i \in IndexesOf("graph")
      PROVE  Shown(i) = Cover(i, StateAt(seen[i], Len(seen[i])))
  <2> DEFINE now == StateAt(seen[i], Len(seen[i]))
             store == graph[i][Len(graph[i])]
  <2>1. i \in Indexes /\ i.view = "graph" BY DEF IndexesOf
  <2>2. seen[i] \in Seq(Entries) BY <1>1, <2>1 DEF IInv, Trails
  <2>3. Len(seen[i]) \in 0 .. Len(seen[i]) BY <2>2
  <2>4. now \in States BY <2>2, <2>3, StateIsState
  <2>5. GraphAt(store, seen[i], Len(seen[i])) BY <1>1, LastStores
  <2>6. Shown(i) = [k \in Keys |-> EntityValue(store, k)] BY <2>1 DEF Shown
  <2>7. Cover(i, now) = now BY <2>1 DEF Cover
  <2>8. \A k \in Keys : EntityValue(store, k) = now[k] BY <2>5 DEF GraphAt
  <2> HIDE DEF now, store
  <2>9. Shown(i) = Cover(i, now) BY <2>4, <2>6, <2>7, <2>8 DEF States
  <2> QED BY <2>9 DEF now
<1>2. ASSUME IInv, NEW i \in IndexesOf("substreams")
      PROVE  Shown(i) = Cover(i, StateAt(seen[i], Len(seen[i])))
  <2> DEFINE now == StateAt(seen[i], Len(seen[i]))
             kv == stores[i][Len(stores[i])]
  <2>1. i \in Indexes /\ i.view = "substreams" BY DEF IndexesOf
  <2>2. StoresAt(kv, seen[i], Len(seen[i])) BY <1>2, LastStores
  <2>3. Shown(i) = [k \in Keys \ Fills |-> StoredValue(kv, k)] BY <2>1 DEF Shown
  <2>4. Cover(i, now) = [k \in Keys \ Fills |-> now[k]] BY <2>1 DEF Cover
  <2>5. \A k \in Keys \ Fills : StoredValue(kv, k) = now[k] BY <2>2 DEF StoresAt
  <2> HIDE DEF now, kv
  <2>6. Shown(i) = Cover(i, now) BY <2>3, <2>4, <2>5
  <2> QED BY <2>6 DEF now
<1> QED BY <1>1, <1>2 DEF IndexesShowTheirTrail

\* IndexesShowTheirTrail for all chains, keys, logs, statuses and reorganizations.
THEOREM StoresShowTheContracts == Spec => []IndexesShowTheirTrail
BY Invariant, StoresShowTheirTrail, PTL

\* ChangesAreTheLog for all chains, keys, logs and reorganizations: the change rows of a
\* subgraph are the change events of the entries it has taken, one each.
THEOREM ChangeRowsAreTheLog == Spec => []ChangesAreTheLog
<1>1. ASSUME IInv, NEW i \in IndexesOf("graph")
      PROVE  LET changed == {n \in OwnAt(i) : seen[i][n].kind \notin {"Registered", "SourceFill"}}
             IN  graph[i][Len(graph[i])].changes =
                   {[id |-> n, key |-> seen[i][n].key, previous |-> seen[i][n].previous,
                     value |-> seen[i][n].value] : n \in changed}
  <2> DEFINE changed == {n \in OwnAt(i) : seen[i][n].kind \notin {"Registered", "SourceFill"}}
  <2>1. graph[i][Len(graph[i])].changes = {ChangeOf(seen[i], n) : n \in ChangedAt(seen[i], Len(seen[i]))}
    BY <1>1, LastStores DEF GraphAt, GraphRecords
  <2>2. changed = ChangedAt(seen[i], Len(seen[i])) BY DEF OwnAt, ChangedAt, Changed
  <2> HIDE DEF changed
  <2>3. graph[i][Len(graph[i])].changes =
          {[id |-> n, key |-> seen[i][n].key, previous |-> seen[i][n].previous,
            value |-> seen[i][n].value] : n \in changed}
    BY <2>1, <2>2 DEF ChangeOf
  <2> QED BY <2>3 DEF changed
<1>2. IInv => ChangesAreTheLog BY <1>1 DEF ChangesAreTheLog
<1> QED BY Invariant, <1>2, PTL

\* ProvenanceIsTheEvent for all chains, keys, logs and reorganizations: what an index says
\* an entity, a record or a deployment comes from is the event it does come from.
THEOREM RecordsNameTheirEvents == Spec => []ProvenanceIsTheEvent
<1>a. ASSUME NEW i, NEW k, NEW kinds
      PROVE  LastAbout(i, k, kinds) = Latest(About(seen[i], Len(seen[i]), k, kinds))
  <2> DEFINE about == {n \in OwnAt(i) : seen[i][n].key = k /\ seen[i][n].kind \in kinds}
  <2>1. about = About(seen[i], Len(seen[i]), k, kinds) BY DEF OwnAt, About
  <2>2. LastAbout(i, k, kinds) = Latest(about) BY DEF LastAbout, Latest
  <2> HIDE DEF about
  <2> QED BY <2>1, <2>2
<1>1. ASSUME IInv, NEW i \in IndexesOf("graph"), NEW k \in Keys
      PROVE  graph[i][Len(graph[i])].entity[k].at = LastAbout(i, k, Kinds)
  BY <1>1, <1>a, LastStores DEF GraphAt, GraphRecords
<1>2. ASSUME IInv, NEW i \in IndexesOf("substreams"), NEW k \in Items
      PROVE  LET now == stores[i][Len(stores[i])]
             IN  /\ now[key(k, "identity")].at = LastAbout(i, k, {"Registered"})
                 /\ now[key(k, "status")].at = LastAbout(i, k, {"StatusChanged"})
  BY <1>2, <1>a, LastStores DEF StoresAt, StoreRecords
<1>3. ASSUME IInv, NEW i \in IndexesOf("graph"), NEW contract \in Contracts
      PROVE  LET events == {n \in OwnAt(i) : ContractOf(seen[i][n].kind) = contract}
                 at == graph[i][Len(graph[i])].deployment[contract]
             IN  IF events = {} THEN at = 0 ELSE at \in events /\ \A n \in events : at <= n
  <2> DEFINE events == {n \in OwnAt(i) : ContractOf(seen[i][n].kind) = contract}
             at == graph[i][Len(graph[i])].deployment[contract]
  <2>1. events = EventsOf(seen[i], Len(seen[i]), contract) BY DEF OwnAt, EventsOf
  <2>2. IsFirst(at, EventsOf(seen[i], Len(seen[i]), contract))
    BY <1>3, LastStores DEF GraphAt, GraphRecords
  <2> HIDE DEF events, at
  <2>3. IF events = {} THEN at = 0 ELSE at \in events /\ \A n \in events : at <= n
    BY <2>1, <2>2 DEF IsFirst
  <2> QED BY <2>3 DEF events, at
<1>4. IInv => ProvenanceIsTheEvent BY <1>1, <1>2, <1>3 DEF ProvenanceIsTheEvent
<1> QED BY Invariant, <1>4, PTL
=============================================================================
