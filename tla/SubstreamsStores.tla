-------------------------- MODULE SubstreamsStores --------------------------
(***************************************************************************)
(* The Substreams package (indexing/substreams/src/lib.rs): the decoder,   *)
(* which sees every log of a block, and the five stores.  All stores have  *)
(* the update policy `set': a handler may write a key and never read one,  *)
(* which is why a key's registration and its status are kept apart.        *)
(* The stores' keys are disjoint, so they are one function here.           *)
(***************************************************************************)
EXTENDS RegistryLog

StoreKeys ==
  (Items \X {"identity", "status"}) \cup ({Router} \X {"intake"}) \cup (Standards \X {"module"})
Records == [val : Nat, gen : Nat, at : Nat]
NoRecord == [val |-> 0, gen |-> 0, at |-> 0]
SubstreamsStates == [StoreKeys -> Records]
EmptyStores == [k \in StoreKeys |-> NoRecord]

\* Mutant: the topic decides alone.
decode_topic(e) == {e}
\* None unless the deployment's own contracts emitted it.
decode_log(e) == IF e.address = "foreign" THEN {} ELSE {e}

key(k, suffix) == <<k, suffix>>
set(stores, storeKey, value, at) ==
  [stores EXCEPT ![storeKey] = [val |-> value.val, gen |-> value.gen, at |-> at]]

\* A registration sets the identity as status 1, generation 1; a change the status.
storeItems(items, stores, e, at) ==
  IF e.key \notin items THEN stores
  ELSE IF e.kind = "Registered"
       THEN set(stores, key(e.key, "identity"), [val |-> 1, gen |-> 1], at)
       ELSE IF e.kind = "StatusChanged"
            THEN set(stores, key(e.key, "status"), e.value, at) ELSE stores
store_networks(stores, e, at) == storeItems(Networks, stores, e, at)
store_assets(stores, e, at) == storeItems(Assets, stores, e, at)
store_routes(stores, e, at) == storeItems(Routes, stores, e, at)

store_router_state(stores, e, at) ==
  IF e.kind = "SourceIntakeConfigured"
  THEN set(stores, key(e.key, "intake"), e.value, at) ELSE stores

store_standard_modules(stores, e, at) ==
  IF e.kind = "StandardModuleConfigured"
  THEN set(stores, key(e.key, "module"), e.value, at) ELSE stores

\* map_nexa_v6_events followed by every store.
runStores(stores, e, at) ==
  IF decode_log(e) = {} THEN stores
  ELSE LET items == store_routes(store_assets(store_networks(stores, e, at), e, at), e, at)
       IN  store_standard_modules(store_router_state(items, e, at), e, at)

\* What a consumer reads: the status record if there is one, else the identity.
StoredValue(stores, k) ==
  LET record ==
        IF k = Router THEN stores[key(k, "intake")]
        ELSE IF k \in Standards THEN stores[key(k, "module")]
        ELSE IF stores[key(k, "status")] # NoRecord THEN stores[key(k, "status")]
        ELSE stores[key(k, "identity")]
  IN  [val |-> record.val, gen |-> record.gen]
=============================================================================
