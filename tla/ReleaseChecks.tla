-------------------------- MODULE ReleaseChecks ---------------------------
(***************************************************************************)
(* What validate.mjs, validate-indexing.mjs, verify-onboarding.mjs and     *)
(* verify-onchain.mjs compare.  A comparison is a fact and two documents   *)
(* that must state it alike; "chain" is the answer of the contracts.       *)
(* Checks of a single document's form, and the scans of the sources, are   *)
(* left out.                                                               *)
(***************************************************************************)
EXTENDS ReleaseGenerators, FiniteSets

Compare(facts, d, e) == facts \X {{d, e}}

\* validate.mjs, the release and the profile; the ACTIVE status is in the pipeline.
releaseIdentity ==
    Compare({"release"}, "manifest", "integration")
        \cup Compare({"release"}, "manifest", "identity")
        \cup Compare({"profile"}, "integration", "manifest")

\* The public contracts against the ABI bundle.
contractAbis == Compare({"codeHash"}, "abi", "integration")

\* The facade's bindings and its discovery URI.
facadeBindings ==
    Compare({"discoveryURI"}, "integration", "publicEndpoints")
        \cup Compare({"facade", "discoveryURI"}, "manifest", "integration")

\* The networks of the bundle against their identities and their evidence.
networkIdentities ==
    Compare({"networkId"}, "integration", "networkIds")
        \cup Compare({"routeCount"}, "integration", "facadeEvidence")

\* The standards against the ABI bundle.
standardAbis == Compare({"resolver", "resolverHash", "oif", "oifHash"}, "abi", "standardIds")

\* The stored on-chain discovery, its scanner hints and its chain evidence.
onchainIdentity ==
    Compare({"release", "facade", "codeHash", "router", "discoveryURI"},
            "onchainDiscovery", "integration")
        \cup Compare({"feedEndpoints"}, "onchainDiscovery", "publicEndpoints")
        \cup Compare({"events"}, "onchainDiscovery", "events")
        \cup Compare({"resolver", "resolverId"}, "onchainDiscovery", "standardIds")
        \cup Compare({"initCode", "deployment"}, "onchainDiscovery", "facadeEvidence")

scannerHints ==
    Compare({"events"}, "onchainDiscovery", "events")
        \cup Compare({"codeHash"}, "onchainDiscovery", "integration")
        \cup Compare({"resolver", "oif"}, "onchainDiscovery", "standardIds")

\* The evidence of the facade's source and the pinned identities.
facadeVerification ==
    Compare({"facade", "codeHash", "router", "discoveryURI"}, "facadeEvidence", "integration")
        \cup Compare({"compiler"}, "inputEvidence", "facadeEvidence")

\* Mutant: only the addresses are pinned.
pinnedAddresses == Compare({"facade", "router", "resolver", "oif"}, "identity", "abi")

pinnedIdentities ==
    Compare({"facade", "router", "codeHash", "resolver", "resolverHash", "oif", "oifHash"},
            "identity", "abi")

\* The machine semantics of the standards, the onboarding package and the vetting.
standardsSemantics ==
    Compare({"router"}, "standardsManifest", "integration")
        \cup Compare({"router"}, "standardVectors", "integration")

onboardingIdentity ==
    Compare({"release", "facade"}, "onboarding", "integration")
        \cup Compare({"resolver"}, "onboarding", "standardIds")
        \cup Compare({"feedEndpoints"}, "onboarding", "publicEndpoints")

resolverVetting ==
    Compare({"resolver", "resolverHash"}, "vetting", "standardIds")
        \cup Compare({"router"}, "vetting", "integration")

\* The path catalogue and the solver manifest's endpoints.
endpointCatalogs ==
    Compare({"feedEndpoints", "permitEndpoints"}, "openapi", "publicEndpoints")
        \cup Compare({"feedEndpoints", "permitEndpoints"}, "solverManifest", "publicEndpoints")

validateComparisons ==
    releaseIdentity \cup contractAbis \cup facadeBindings \cup networkIdentities
        \cup standardAbis \cup onchainIdentity \cup scannerHints \cup facadeVerification
        \cup pinnedIdentities \cup standardsSemantics \cup onboardingIdentity
        \cup resolverVetting \cup endpointCatalogs

\* Mutant: the standards manifest is read from one of its two places.
validateOneStandards ==
    {"onchainDiscovery", "abi", "openapi", "standardsManifest", "standardVectors", "onboarding",
     "solverManifest"}

\* The documents validate.mjs rebuilds and compares with their files.
validateRebuilds ==
    {"onchainDiscovery", "abi", "openapi", "standardsManifest", "publicStandards",
     "standardVectors", "onboarding", "solverManifest"}

\* buildCanonicalIndexingConfig throws when these differ.
indexingPreconditions ==
    Compare({"release"}, "integration", "indexingEvidence")
        \cup Compare({"release"}, "integration", "standardsManifest")
        \cup Compare({"router", "facade"}, "indexingEvidence", "integration")

descriptorMatch == Compare({"externalStatus"}, "indexingManifest", "external")

\* validate-indexing.mjs: it rebuilds the whole package, so it throws as the builder does.
validateIndexingPackage ==
    indexingPreconditions
        \cup Compare({"release"}, "indexingConfig", "integration")
        \cup Compare({"release"}, "integration", "indexingEvidence")
        \cup Compare({"events"}, "indexingConfig", "events")
        \cup Compare({"startBlock", "router", "facade", "deployment"},
                     "indexingConfig", "indexingEvidence")
        \cup Compare({"router", "startBlock"}, "graphManifests", "indexingConfig")
        \cup descriptorMatch

\* Mutant: the files for the networks are not rebuilt.
validateIndexingFew == {"events", "indexingConfig", "indexingManifest", "fixtures"}

validateIndexingRebuilds == {buildIndexingArtifacts[i] : i \in DOMAIN buildIndexingArtifacts}

\* verify-onboarding.mjs: the onboarding package against every chain's facade.
verifyOnboarding ==
    Compare({"facade", "codeHash", "discoveryURI", "router"}, "onboarding", "chain")

\* verify-onchain.mjs: the fingerprint against the bundle, then the bundle and the
\* standards against every chain.
fingerprintMatch ==
    Compare({"facade", "codeHash", "router"}, "onchainDiscovery", "integration")
        \cup Compare({"discoveryURI"}, "onchainDiscovery", "discovery")
        \cup Compare({"networkId"}, "integration", "networkIds")
        \cup Compare({"deployment"}, "onchainDiscovery", "integration")
        \cup Compare({"resolver", "resolverId"}, "onchainDiscovery", "standardIds")

contractsMatch ==
    Compare({"facade", "router", "codeHash", "release"}, "integration", "chain")
        \cup Compare({"discoveryURI"}, "discovery", "chain")

\* Mutant: the modules' addresses are called, their code is not hashed.
modulesAnswer == Compare({"resolver", "resolverId", "oif", "oifId"}, "standardIds", "chain")

modulesMatch ==
    Compare({"resolver", "resolverHash", "resolverId", "oif", "oifHash", "oifId"},
            "standardIds", "chain")

verifyOnchain == fingerprintMatch \cup contractsMatch \cup modulesMatch
=============================================================================
