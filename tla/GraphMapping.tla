---------------------------- MODULE GraphMapping ----------------------------
(***************************************************************************)
(* The subgraph's event handlers (indexing/graph/src/mapping.ts) as        *)
(* functions of the entity store, the event and its position in the chain. *)
(* An entity is its value and the position its provenance names; the       *)
(* fields copied from the event's parameters are one value.  Identifiers   *)
(* are prefixed with the chain, and a deployment indexes one chain, so the *)
(* chain is left out of them.                                              *)
(***************************************************************************)
EXTENDS RegistryLog

Contracts == {"registry", "router", "modules"}
ContractOf(kind) ==
  CASE kind \in {"Registered", "StatusChanged"} -> "registry"
    [] kind = "StandardModuleConfigured" -> "modules"
    [] OTHER -> "router"

Entities == [val : Nat, gen : Nat, at : Nat]
NoEntity == [val |-> 0, gen |-> 0, at |-> 0]
Changes == [id : Nat, key : Keys, previous : Nat, value : Values]
GraphStores == [entity : [Keys -> Entities], changes : SUBSET Changes,
                deployment : [Contracts -> Nat]]
EmptyGraph == [entity |-> [k \in Keys |-> NoEntity], changes |-> {},
               deployment |-> [c \in Contracts |-> 0]]

changeId(at) == at
putProvenance(value, at) == [val |-> value.val, gen |-> value.gen, at |-> at]

\* A ProtocolDeployment is written at its contract's first event and immutable.
touchDeployment(store, contract, at) ==
  IF store.deployment[contract] # 0 THEN store
  ELSE [store EXCEPT !.deployment[contract] = at]

save(store, k, value, at) == [store EXCEPT !.entity[k] = putProvenance(value, at)]
saveChange(store, e, at) ==
  [store EXCEPT !.changes = @ \cup
     {[id |-> changeId(at), key |-> e.key, previous |-> e.previous, value |-> e.value]}]

handleRegistered(store, e, at) ==
  save(touchDeployment(store, "registry", at), e.key, [val |-> REGISTERED, gen |-> 1], at)
handleNetworkRegisteredV6(store, e, at) == handleRegistered(store, e, at)
handleAssetRegisteredV6(store, e, at) == handleRegistered(store, e, at)
handleRouteRegisteredV6(store, e, at) == handleRegistered(store, e, at)

\* Mutant: a status the entity has already is no change.
handleStatusNews(store, e, at) ==
  LET touched == touchDeployment(store, "registry", at)
  IN  IF touched.entity[e.key].val = e.value.val THEN touched
      ELSE saveChange(save(touched, e.key, e.value, at), e, at)
\* Mutant: the entity keeps the provenance of its registration.
handleStatusOnly(store, e, at) ==
  LET touched == touchDeployment(store, "registry", at)
  IN  saveChange(save(touched, e.key, e.value, touched.entity[e.key].at), e, at)
\* The entity follows only if it was loaded; the change is written regardless.
handleStatusChanged(store, e, at) ==
  LET touched == touchDeployment(store, "registry", at)
      current == IF touched.entity[e.key] # NoEntity
                 THEN save(touched, e.key, e.value, at) ELSE touched
  IN  saveChange(current, e, at)
handleNetworkStatusChangedV6(store, e, at) == handleStatusChanged(store, e, at)
handleAssetStatusChangedV6(store, e, at) == handleStatusChanged(store, e, at)
handleRouteStatusChangedV6(store, e, at) == handleStatusChanged(store, e, at)

handleSourceIntakeConfigured(store, e, at) ==
  saveChange(save(touchDeployment(store, "router", at), e.key, e.value, at), e, at)

handleSourceFillV6(store, e, at) ==
  save(touchDeployment(store, "router", at), e.key, e.value, at)

handleStandardModuleConfiguredV6(store, e, at) ==
  saveChange(save(touchDeployment(store, "modules", at), e.key, e.value, at), e, at)

\* The manifests' dispatch: the data source's address, then the event.
handleGraph(store, e, at) ==
  IF e.address = "foreign" THEN store ELSE
  CASE e.kind = "Registered" /\ e.key \in Networks -> handleNetworkRegisteredV6(store, e, at)
    [] e.kind = "Registered" /\ e.key \in Assets -> handleAssetRegisteredV6(store, e, at)
    [] e.kind = "Registered" /\ e.key \in Routes -> handleRouteRegisteredV6(store, e, at)
    [] e.kind = "StatusChanged" /\ e.key \in Networks -> handleNetworkStatusChangedV6(store, e, at)
    [] e.kind = "StatusChanged" /\ e.key \in Assets -> handleAssetStatusChangedV6(store, e, at)
    [] e.kind = "StatusChanged" /\ e.key \in Routes -> handleRouteStatusChangedV6(store, e, at)
    [] e.kind = "SourceIntakeConfigured" -> handleSourceIntakeConfigured(store, e, at)
    [] e.kind = "SourceFill" -> handleSourceFillV6(store, e, at)
    [] e.kind = "StandardModuleConfigured" -> handleStandardModuleConfiguredV6(store, e, at)
    [] OTHER -> store

\* What a reader of the entity sees of it.
EntityValue(store, k) == [val |-> store.entity[k].val, gen |-> store.entity[k].gen]
=============================================================================
