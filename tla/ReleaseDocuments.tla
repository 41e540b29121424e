------------------------- MODULE ReleaseDocuments -------------------------
(***************************************************************************)
(* The documents of a release and the facts they state.                    *)
(*                                                                         *)
(* A fact is a thing several documents repeat: the release identifier, the *)
(* address of the resolver, the code hash of the contracts.  A generator   *)
(* copies every fact it publishes from one document, so facts do not mix   *)
(* and a document's content, for one fact, is the value it states.         *)
(* Authored gives the documents people edit (a script's constants are one  *)
(* of them), with the facts each states; the generated ones are in         *)
(* ReleaseGenerators.                                                      *)
(*                                                                         *)
(* "router" stands for the addresses of the Router and the Registry,       *)
(* "codeHash" for the runtime hashes of the three public contracts,        *)
(* "deployment" for the transactions, blocks and explorer references of    *)
(* the facade, "level" for the compatibility levels of the two standards.  *)
(* "discovery" is the section of nexa-mainnet-v6.json that the solver      *)
(* manifest spreads: it repeats facts of the rest of the same file.        *)
(***************************************************************************)
Authored ==
    [manifest |-> {"release", "status", "profile", "facade", "discoveryURI"},
     integration |->
        {"release", "status", "profile", "facade", "router", "codeHash", "discoveryURI",
         "networkId", "routeCount", "deployment", "resolver", "resolverHash", "resolverId",
         "oif", "oifHash", "oifId", "level"},
     discovery |->
        {"release", "profile", "feedSigner", "discoveryURI", "feedEndpoints", "permitEndpoints"},
     standardIds |->
        {"resolver", "resolverHash", "resolverId", "oif", "oifHash", "oifId", "level"},
     networkIds |-> {"networkId"},
     facadeEvidence |->
        {"facade", "router", "codeHash", "discoveryURI", "routeCount", "deployment", "initCode",
         "compiler"},
     inputEvidence |-> {"compiler"},
     ownership |-> {"factory"},
     identity |->
        {"release", "facade", "router", "codeHash", "resolver", "resolverHash", "oif", "oifHash"},
     vetting |-> {"release", "router", "resolver", "resolverHash", "resolverId"},
     indexingEvidence |->
        {"release", "router", "facade", "codeHash", "deployment", "startBlock"},
     external |-> {"externalStatus"},
     package |-> {"version"},
     publicEndpoints |-> {"discoveryURI", "feedEndpoints", "permitEndpoints"},
     runtimeOpenApi |-> {"feedEndpoints", "permitEndpoints"},
     eventDefinitions |-> {"events"},
     sdkVectorScript |-> {"sdkVectors", "release"},
     scripts |-> {"status", "level"}]

Facts == UNION {Authored[d] : d \in DOMAIN Authored}

\* What the contracts themselves answer, on every chain.
OnChain ==
    {"release", "status", "facade", "router", "codeHash", "discoveryURI", "resolver",
     "resolverHash", "resolverId", "oif", "oifHash", "oifId"}

\* One release changes one fact.  Of the status, "old" is AWAITING_POST_DEPLOY_EXPORT
\* or DEPLOYED_AWAITING_CUTOVER and "new" is ACTIVE.
Values == {"old", "new"}
=============================================================================
