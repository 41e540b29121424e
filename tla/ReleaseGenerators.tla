------------------------ MODULE ReleaseGenerators -------------------------
(***************************************************************************)
(* The generators under scripts/.  build... gives, for each fact a         *)
(* generated document states, the document the fact is copied from;        *)
(* generate... gives the files a command writes, in the order it writes    *)
(* them.  Builders that call another builder in memory copy from what that *)
(* one copies from; only the indexing package, the standard vectors and    *)
(* the on-chain discovery read a file that a generator writes.             *)
(***************************************************************************)
EXTENDS ReleaseDocuments, Functions

From(facts, d) == [f \in facts |-> d]

\* A document assembled from two parts; a fact of both is taken from the first.
g ++ h == [f \in DOMAIN g \cup DOMAIN h |-> IF f \in DOMAIN g THEN g[f] ELSE h[f]]

\* generate-abi.mjs: the public contracts from the bundle, the two modules from
\* standard-ids.json.
buildAbiBundle ==
    From({"facade", "router", "codeHash"}, "integration")
        ++ From({"resolver", "resolverHash", "resolverId", "oif", "oifHash", "oifId"},
                "standardIds")

\* generate-nexa-solver-manifest.mjs: the discovery section, with the status, the
\* endpoints, the standards and the facade put over it.
buildNexaSolverManifest ==
    From({"release", "profile", "feedSigner"}, "discovery")
        ++ From({"status", "facade"}, "integration")
        ++ From({"feedEndpoints", "permitEndpoints", "discoveryURI"}, "publicEndpoints")
        ++ From({"resolver", "resolverId", "oif", "oifId", "level"}, "standardIds")

\* generate-onchain-discovery.mjs: the fingerprint, and the scanner hints, which
\* restate facts of the fingerprint they are built from.
buildFingerprint ==
    From({"release", "facade", "router", "codeHash", "deployment", "resolver", "resolverHash",
          "resolverId", "oif", "oifHash", "oifId"}, "integration")
        ++ From({"discoveryURI", "feedEndpoints"}, "publicEndpoints")
        ++ From({"status", "level"}, "scripts")
        ++ From({"initCode"}, "facadeEvidence") ++ From({"compiler"}, "inputEvidence")
        ++ From({"factory"}, "ownership") ++ From({"events"}, "events")

buildScannerHints ==
    Restrict(buildFingerprint,
        {"release", "status", "facade", "router", "codeHash", "discoveryURI", "deployment",
         "initCode", "factory", "events", "resolver", "resolverHash", "resolverId", "oif",
         "oifHash", "oifId", "level"})

buildOnchainDiscovery == buildFingerprint ++ buildScannerHints

\* generate-standards-manifest.mjs: a projection of the fingerprint, built in memory
\* and not read from its file.
buildStandardsManifest ==
    Restrict(buildOnchainDiscovery,
        {"release", "status", "router", "codeHash", "resolver", "resolverHash", "resolverId",
         "oif", "oifHash", "oifId", "level"})

\* generate-standard-vectors.mjs: the SDK vectors' file, addressed by the standards.
buildStandardVectors ==
    Restrict(buildStandardsManifest, {"router", "resolver", "resolverId", "oif", "oifId"})
        ++ From({"sdkVectors", "release"}, "sdkVectors")

\* generate-onboarding-package.mjs.  Of its two discovery URIs, the endpoint: it is the
\* one verify-onboarding.mjs compares.
buildOnboardingPackage ==
    From({"release", "networkId", "facade", "router", "codeHash", "routeCount", "deployment",
          "resolver", "resolverHash", "oif", "oifHash", "level"}, "integration")
        ++ From({"discoveryURI", "feedEndpoints", "permitEndpoints", "feedSigner"}, "discovery")
        ++ From({"version"}, "package") ++ From({"status"}, "scripts")

\* generate-openapi.mjs: the checked-in runtime document.
buildOpenApi == From({"feedEndpoints", "permitEndpoints"}, "runtimeOpenApi")

\* generate-sdk-vectors.mjs: constants of the script, the release identifier one of them.
sdkVectors == From({"sdkVectors", "release"}, "sdkVectorScript")

\* generate-indexing.mjs.  The standards come from the standards manifest's file.
buildCanonicalIndexingConfig ==
    From({"release"}, "integration")
        ++ From({"router", "facade", "codeHash", "deployment", "startBlock"}, "indexingEvidence")
        ++ From({"resolver", "resolverId", "oif", "oifId", "level"}, "standardsManifest")
        ++ From({"externalStatus"}, "external") ++ From({"events"}, "eventDefinitions")

indexingDescriptor == From({"externalStatus"}, "external")

fixtureSet ==
    Restrict(buildCanonicalIndexingConfig,
        {"router", "events", "resolver", "resolverId", "oif", "oifId"})

graphManifest ==
    Restrict(buildCanonicalIndexingConfig,
        {"release", "router", "codeHash", "startBlock", "resolverId", "oifId", "events"})

substreamsManifest ==
    Restrict(buildCanonicalIndexingConfig, {"router", "startBlock", "resolverId", "oifId"})

eventFiles == From({"events"}, "eventDefinitions")

Built ==
    [abi |-> buildAbiBundle,
     solverManifest |-> buildNexaSolverManifest,
     onchainDiscovery |-> buildOnchainDiscovery,
     standardsManifest |-> buildStandardsManifest,
     publicStandards |-> buildStandardsManifest,
     standardVectors |-> buildStandardVectors,
     onboarding |-> buildOnboardingPackage,
     openapi |-> buildOpenApi,
     sdkVectors |-> sdkVectors,
     events |-> eventFiles,
     indexingConfig |-> buildCanonicalIndexingConfig,
     indexingManifest |-> indexingDescriptor,
     fixtures |-> fixtureSet,
     rustTopics |-> eventFiles,
     graphAbis |-> eventFiles,
     graphManifests |-> graphManifest,
     substreamsManifests |-> substreamsManifest]

\* The files of buildIndexingArtifacts, in the order generateIndexing writes them.
\* The manifests of the three networks are one file each here.
buildIndexingArtifacts ==
    <<"events", "indexingConfig", "indexingManifest", "fixtures", "rustTopics", "graphAbis",
      "graphManifests", "substreamsManifests">>

generateStandardsManifest == <<"standardsManifest", "publicStandards">>

Outputs ==
    [abi |-> <<"abi">>,
     solverManifest |-> <<"solverManifest">>,
     onchain |-> <<"onchainDiscovery">>,
     standards |-> generateStandardsManifest,
     standardVectors |-> <<"standardVectors">>,
     onboarding |-> <<"onboarding">>,
     openapi |-> <<"openapi">>,
     sdkVectors |-> <<"sdkVectors">>,
     indexing |-> buildIndexingArtifacts,
     checksums |-> <<"checksums">>]

\* generate-checksums.mjs: every document but the scripts that are not listed.
CHECKSUM_FILES ==
    (DOMAIN Authored \cup DOMAIN Built) \ {"publicEndpoints", "sdkVectorScript", "scripts"}
=============================================================================
