---------------------- MODULE ReleasePipeline_proofs ----------------------
(***************************************************************************)
(* What a pass of validate.mjs says, whichever generator was stopped, or   *)
(* ran, before or since, in four parts:                                    *)
(*   - a document rebuilt by the checks is the one its sources give, and   *)
(*     generators leave it alone (ValidatedIsCurrent, ValidatedStays);     *)
(*   - the statements of a fact a pass compares agree (ValidatedAgree);    *)
(*   - so the documents of a release state the contracts on the chain      *)
(*     (ReleasedStateTheChain);                                            *)
(*   - two rounds of the README's commands without an edit between bring   *)
(*     hand-written documents that agree to a release that passes          *)
(*     (RoundsOfTheReadmeSettle).                                          *)
(***************************************************************************)
EXTENDS ReleasePipeline, TLAPS

\* Between validate.mjs and validate-indexing.mjs, which it calls, every generated
\* document but the SDK vectors is rebuilt.
LEMMA EverythingIsRebuilt == Rebuilt \subseteq validateRebuilds \cup validateIndexingRebuilds
<1>1. SUFFICES ASSUME NEW d \in Rebuilt PROVE d \in validateRebuilds \cup validateIndexingRebuilds
  OBVIOUS
<1>2. d \in {"abi", "solverManifest", "onchainDiscovery", "standardsManifest", "publicStandards",
             "standardVectors", "onboarding", "openapi", "sdkVectors", "events",
             "indexingConfig", "indexingManifest", "fixtures", "rustTopics", "graphAbis",
             "graphManifests", "substreamsManifests"}
  BY DEF Rebuilt, Generated, Built
<1>3. d # "sdkVectors"
  BY DEF Rebuilt
<1>4. DOMAIN buildIndexingArtifacts = 1 .. 8
  BY DEF buildIndexingArtifacts
<1>5. {"events", "indexingConfig", "indexingManifest", "fixtures", "rustTopics", "graphAbis",
       "graphManifests", "substreamsManifests"} \subseteq validateIndexingRebuilds
  BY <1>4 DEF validateIndexingRebuilds, buildIndexingArtifacts
<1>6. QED
  BY <1>2, <1>3, <1>5 DEF validateRebuilds

Current == \A d \in Rebuilt \cap DOMAIN files : files[d] = files[Origin(d, subject)]

\* The two records and functions the actions update have the fields they update.
Shape ==
    /\ files = [d \in DOMAIN files |-> files[d]]
    /\ job = [writes |-> job.writes, content |-> job.content, intact |-> job.intact]

\* While a pass of validate.mjs stands, the documents are as it left them, and no
\* generation of the digests under way has missed an edit.
Standing == "validate" \in passed => Current /\ digests /\ job.intact

IInv == Shape /\ Standing

LEMMA ShapeKept == Shape /\ [Next]_vars => Shape'
<1> SUFFICES ASSUME Shape, [Next]_vars PROVE Shape'
  OBVIOUS
<1>r. Resting = [writes |-> Resting.writes, content |-> Resting.content,
    intact |-> Resting.intact]
  BY DEF Resting
<1>1. ASSUME NEW d \in DOMAIN Authored, Edit(d) PROVE Shape'
  <2>1. files' = [files EXCEPT ![d] = "new"] /\ DOMAIN files' = DOMAIN files
    BY <1>1 DEF Edit, Rewrite, Shape
  <2>2. job' = job \/ job' = [job EXCEPT !.intact = @ /\ d \notin CHECKSUM_FILES]
    BY <1>1 DEF Edit
  <2>3. QED
    BY <2>1, <2>2 DEF Shape
<1>2. ASSUME NEW g \in DOMAIN Outputs, Generate(g) PROVE Shape'
  <2>1. files' = files
    BY <1>2 DEF Generate
  <2>2. job' = job \/ \E w, c : job' = [writes |-> w, content |-> c, intact |-> TRUE]
    BY <1>2 DEF Generate
  <2>3. QED
    BY <2>1, <2>2 DEF Shape
<1>3. CASE Write
  <2>1. files' = files \/ files' = [files EXCEPT ![Head(job.writes)] = job.content[Head(job.writes)]]
    BY <1>3 DEF Write, Rewrite
  <2>2. \/ job' = Resting
        \/ \E w, c : job' = [job EXCEPT !.writes = w, !.content = c]
    BY <1>3 DEF Write
  <2>3. QED
    BY <2>1, <2>2, <1>r DEF Shape
<1>4. CASE Kill
  BY <1>4, <1>r DEF Kill, Shape
<1>5. CASE ChainMoves
  BY <1>5 DEF ChainMoves, Shape
<1>6. ASSUME NEW p, Begin(p) PROVE Shape'
  BY <1>6 DEF Begin, Shape
<1>7. ASSUME NEW c, Check(c) PROVE Shape'
  BY <1>7 DEF Check, Shape
<1>8. CASE UNCHANGED vars
  BY <1>8 DEF vars, Shape
<1>9. QED
  BY <1>1, <1>2, <1>3, <1>4, <1>5, <1>6, <1>7, <1>8 DEF Next

\* Only validate.mjs adds itself to the checks that stand.
LEMMA PassIsValidates ==
    ASSUME NEW c, Check(c), "validate" \in passed'
    PROVE  "validate" \in passed \/ Passes("validate")
BY DEF Check

\* What validate.mjs demands of the documents it rebuilds.
LEMMA PassIsCurrent == Passes("validate") => Current /\ digests
<1> SUFFICES ASSUME Passes("validate") PROVE Current /\ digests
  OBVIOUS
<1>1. \A d \in validateRebuilds \cup validateIndexingRebuilds : Fresh(d)
  BY DEF Passes
<1>2. digests
  BY DEF Passes, buildChecksums
<1>3. Current
  BY <1>1, EverythingIsRebuilt DEF Current, Fresh
<1>4. QED
  BY <1>2, <1>3

LEMMA StandingKept == Shape /\ Standing /\ [Next]_vars => Standing'
<1> SUFFICES ASSUME Shape, Standing, [Next]_vars, "validate" \in passed'
             PROVE  Current' /\ digests' /\ job.intact'
  BY DEF Standing
<1>s. files' = files /\ subject' = subject => Current' = Current
  BY DEF Current
\* An edit changes a document: nothing stands after it.
<1>1. ASSUME NEW d \in DOMAIN Authored, Edit(d) PROVE FALSE
  <2>1. d \in DOMAIN files /\ files[d] = "old"
    BY <1>1 DEF Edit
  <2>2. [files EXCEPT ![d] = "new"][d] = "new"
    BY <2>1
  <2>3. [files EXCEPT ![d] = "new"] # files
    BY <2>1, <2>2
  <2>4. passed' = {}
    BY <1>1, <2>3 DEF Edit, Rewrite
  <2>5. QED
    BY <2>4
<1>2. ASSUME NEW g \in DOMAIN Outputs, Generate(g) PROVE Current' /\ digests' /\ job.intact'
  <2>1. files' = files /\ subject' = subject /\ digests' = digests /\ passed' = passed
    BY <1>2 DEF Generate
  <2>2. job' = job \/ \E w, c : job' = [writes |-> w, content |-> c, intact |-> TRUE]
    BY <1>2 DEF Generate
  <2>3. QED
    BY <2>1, <2>2, <1>s DEF Standing
<1>3. CASE Write
  <2>1. subject' = subject
    BY <1>3 DEF Write
  <2>2. job' = Resting \/ \E w, c : job' = [job EXCEPT !.writes = w, !.content = c]
    BY <1>3 DEF Write
  <2>3. job.intact => job'.intact
    <3>1. CASE job' = Resting
      BY <3>1 DEF Resting
    <3>2. ASSUME NEW w, NEW c, job' = [job EXCEPT !.writes = w, !.content = c]
          PROVE  job'.intact = job.intact
      <4>1. job = [writes |-> job.writes, content |-> job.content, intact |-> job.intact]
        BY DEF Shape
      <4>2. job' = [writes |-> w, content |-> c, intact |-> job.intact]
        BY <3>2, <4>1
      <4>3. QED
        BY <4>2
    <3>3. QED
      BY <2>2, <3>1, <3>2
  <2>4. CASE Head(job.writes) \in DOMAIN job.content
    <3>1. Rewrite([files EXCEPT ![Head(job.writes)] = job.content[Head(job.writes)]],
                  Head(job.writes) \in CHECKSUM_FILES)
      BY <1>3, <2>4 DEF Write
    <3>2. files' = files /\ passed' = passed /\ digests' = digests
      BY <3>1 DEF Rewrite, Standing
    <3>3. QED
      BY <3>2, <2>1, <2>3, <1>s DEF Standing
  <2>5. CASE Head(job.writes) \notin DOMAIN job.content
    <3>1. (digests' = job.intact \/ digests' = digests) /\ files' = files /\ passed' = passed
      BY <1>3, <2>5 DEF Write
    <3>2. QED
      BY <3>1, <2>1, <2>3, <1>s DEF Standing
  <2>6. QED
    BY <2>4, <2>5
<1>4. CASE Kill
  BY <1>4, <1>s DEF Kill, Resting, Standing
<1>5. CASE ChainMoves
  BY <1>5, <1>s DEF ChainMoves, Standing
<1>6. ASSUME NEW p, Begin(p) PROVE Current' /\ digests' /\ job.intact'
  BY <1>6, <1>s DEF Begin, Standing
<1>7. ASSUME NEW c, Check(c) PROVE Current' /\ digests' /\ job.intact'
  <2>1. files' = files /\ subject' = subject /\ digests' = digests /\ job' = job
    BY <1>7 DEF Check
  <2>2. job = Resting
    BY <1>7 DEF Check
  <2>3. Current /\ digests
    BY <1>7, PassIsValidates, PassIsCurrent DEF Standing
  <2>4. QED
    BY <2>1, <2>2, <2>3, <1>s DEF Resting
<1>8. CASE UNCHANGED vars
  BY <1>8, <1>s DEF vars, Standing
<1>9. QED
  BY <1>1, <1>2, <1>3, <1>4, <1>5, <1>6, <1>7, <1>8 DEF Next

LEMMA Starts == Init => IInv
<1> SUFFICES ASSUME Init PROVE IInv
  OBVIOUS
<1>1. Shape
  BY DEF Init, Shape, Resting
<1>2. Standing
  BY DEF Init, Standing
<1>3. QED
  BY <1>1, <1>2 DEF IInv

LEMMA Invariant == Spec => []IInv
<1>1. IInv /\ [Next]_vars => IInv'
  BY ShapeKept, StandingKept DEF IInv
<1>2. QED
  BY Starts, <1>1, PTL DEF Spec

\* ValidatedArtifactsAreCurrent for every set of facts a release may change: after a
\* pass of validate.mjs, and until a document changes, the generated documents are what
\* the generators would write and the digests are of the present files.
THEOREM ValidatedIsCurrent == Spec => []ValidatedArtifactsAreCurrent
<1>1. IInv => ValidatedArtifactsAreCurrent
  BY DEF IInv, Standing, Current, ValidatedArtifactsAreCurrent
<1>2. QED
  BY Invariant, <1>1, PTL

\* What a generator has yet to write is, while a pass of validate.mjs stands, what is
\* there already: it read documents that were current.
Idempotent ==
    "validate" \in passed =>
        \A d \in Rebuilt \cap DOMAIN job.content : job.content[d] = files[d]

LEMMA RestingWritesNothing == DOMAIN Resting.content = {}
BY DEF Resting

LEMMA IdempotentKept == Shape /\ Standing /\ Idempotent /\ [Next]_vars => Idempotent'
<1> SUFFICES ASSUME Shape, Standing, Idempotent, [Next]_vars, "validate" \in passed',
                    NEW d \in Rebuilt, d \in DOMAIN job'.content
             PROVE  job'.content[d] = files'[d]
  BY DEF Idempotent
<1>r. ASSUME job' = Resting PROVE FALSE
  BY <1>r, RestingWritesNothing
\* An edit changes a document: nothing stands after it.
<1>1. ASSUME NEW e \in DOMAIN Authored, Edit(e) PROVE FALSE
  <2>1. e \in DOMAIN files /\ files[e] = "old"
    BY <1>1 DEF Edit
  <2>2. [files EXCEPT ![e] = "new"][e] = "new"
    BY <2>1
  <2>3. [files EXCEPT ![e] = "new"] # files
    BY <2>1, <2>2
  <2>4. passed' = {}
    BY <1>1, <2>3 DEF Edit, Rewrite
  <2>5. QED
    BY <2>4
<1>2. ASSUME NEW g \in DOMAIN Outputs, Generate(g) PROVE job'.content[d] = files'[d]
  <2>1. files' = files /\ passed' = passed
    BY <1>2 DEF Generate
  <2>2. CASE job' = job
    BY <2>1, <2>2 DEF Idempotent
  <2>3. CASE job' # job
    <3>1. job'.content = [e \in Range(Outputs[g]) \cap DOMAIN files |->
                            files[Origin(e, subject)]]
      BY <1>2, <2>3 DEF Generate
    <3>2. d \in Rebuilt \cap DOMAIN files
      BY <3>1
    <3>3. files[d] = files[Origin(d, subject)]
      BY <2>1, <3>2 DEF Standing, Current
    <3>4. job'.content[d] = files[Origin(d, subject)]
      BY <3>1
    <3>5. QED
      BY <2>1, <3>3, <3>4
  <2>4. QED
    BY <2>2, <2>3
<1>3. CASE Write
  <2>1. job' = [job EXCEPT !.writes = Tail(@),
                           !.content = Restrict(@, DOMAIN @ \ {Head(job.writes)})]
    BY <1>3, <1>r DEF Write
  <2>2. job'.content = Restrict(job.content, DOMAIN job.content \ {Head(job.writes)})
    <3>1. job = [writes |-> job.writes, content |-> job.content, intact |-> job.intact]
      BY DEF Shape
    <3>2. QED
      BY <2>1, <3>1
  <2>3. d \in DOMAIN job.content /\ job'.content[d] = job.content[d]
    BY <2>2 DEF Restrict
  <2>4. files' = files /\ passed' = passed
    <3>1. CASE Head(job.writes) \in DOMAIN job.content
      <4>1. Rewrite([files EXCEPT ![Head(job.writes)] = job.content[Head(job.writes)]],
                    Head(job.writes) \in CHECKSUM_FILES)
        BY <1>3, <3>1 DEF Write
      <4>2. QED
        BY <4>1 DEF Rewrite
    <3>2. CASE Head(job.writes) \notin DOMAIN job.content
      BY <1>3, <3>2 DEF Write
    <3>3. QED
      BY <3>1, <3>2
  <2>5. QED
    BY <2>3, <2>4 DEF Idempotent
<1>4. CASE Kill
  BY <1>4, <1>r DEF Kill
<1>5. CASE ChainMoves
  BY <1>5 DEF ChainMoves, Idempotent
<1>6. ASSUME NEW p, Begin(p) PROVE job'.content[d] = files'[d]
  BY <1>6 DEF Begin, Idempotent
<1>7. ASSUME NEW c, Check(c) PROVE job'.content[d] = files'[d]
  BY <1>7, <1>r DEF Check
<1>8. CASE UNCHANGED vars
  BY <1>8 DEF vars, Idempotent
<1>9. QED
  BY <1>1, <1>2, <1>3, <1>4, <1>5, <1>6, <1>7, <1>8 DEF Next

\* A generated document is written by a generator only, with what it has read.
LEMMA ValidatedIsKept ==
    Idempotent /\ [Next]_vars =>
        ("validate" \in passed => \A d \in Rebuilt \cap DOMAIN files : files'[d] = files[d])
<1> SUFFICES ASSUME Idempotent, [Next]_vars, "validate" \in passed,
                    NEW d \in Rebuilt \cap DOMAIN files
             PROVE  files'[d] = files[d]
  OBVIOUS
<1>1. ASSUME NEW e \in DOMAIN Authored, Edit(e) PROVE files'[d] = files[d]
  <2>1. files' = [files EXCEPT ![e] = "new"] /\ e \notin Generated
    BY <1>1 DEF Edit, Rewrite
  <2>2. d # e
    BY <2>1 DEF Rebuilt
  <2>3. QED
    BY <2>1, <2>2
<1>2. CASE Write
  <2>1. CASE Head(job.writes) \in DOMAIN job.content
    <3>1. files' = [files EXCEPT ![Head(job.writes)] = job.content[Head(job.writes)]]
      BY <1>2, <2>1 DEF Write, Rewrite
    <3>2. Head(job.writes) = d => job.content[d] = files[d]
      BY <2>1 DEF Idempotent
    <3>3. QED
      BY <3>1, <3>2
  <2>2. CASE Head(job.writes) \notin DOMAIN job.content
    BY <1>2, <2>2 DEF Write
  <2>3. QED
    BY <2>1, <2>2
<1>3. CASE \E g \in DOMAIN Outputs : Generate(g)
  BY <1>3 DEF Generate
<1>4. CASE Kill \/ ChainMoves \/ UNCHANGED vars
  BY <1>4 DEF Kill, ChainMoves, vars
<1>5. ASSUME NEW p, Begin(p) PROVE files'[d] = files[d]
  BY <1>5 DEF Begin
<1>6. ASSUME NEW c, Check(c) PROVE files'[d] = files[d]
  BY <1>6 DEF Check
<1>7. QED
  BY <1>1, <1>2, <1>3, <1>4, <1>5, <1>6 DEF Next

\* GeneratorsKeepWhatIsValidated for every set of facts: what the release check generates
\* after validate.mjs has passed changes none of the documents that were compared.
THEOREM ValidatedStays == Spec => GeneratorsKeepWhatIsValidated
<1>1. Init => Idempotent
  BY DEF Init, Idempotent
<1>2. Idempotent /\ IInv /\ [Next]_vars => Idempotent'
  BY IdempotentKept DEF IInv
<1>3. Idempotent /\ [Next]_vars =>
        [ "validate" \in passed =>
            \A d \in Rebuilt \cap DOMAIN files : files'[d] = files[d] ]_vars
  BY ValidatedIsKept
<1>4. QED
  BY Invariant, <1>1, <1>2, <1>3, PTL DEF Spec, GeneratorsKeepWhatIsValidated

(***************************************************************************)
(* Where a statement comes from.                                           *)
(***************************************************************************)
\* Every fact of a document is copied from a hand-written document that states it, or is
\* one of a few pairs that are looked at on their own.
Copies(b, loose) ==
    \A f \in DOMAIN b :
        (b[f] \in DOMAIN Authored /\ f \in Authored[b[f]]) \/ <<b[f], f>> \in loose

LEMMA CopiesAuthored ==
    ASSUME NEW loose, NEW d \in DOMAIN Authored, NEW S \in SUBSET Authored[d]
    PROVE  Copies(From(S, d), loose)
BY DEF Copies, From

LEMMA CopiesGenerated ==
    ASSUME NEW loose, NEW S, NEW d, \A f \in S : <<d, f>> \in loose
    PROVE  Copies(From(S, d), loose)
BY DEF Copies, From

LEMMA CopiesBoth ==
    ASSUME NEW loose, NEW g, NEW h, Copies(g, loose), Copies(h, loose)
    PROVE  Copies(g ++ h, loose)
BY DEF Copies, ++

LEMMA CopiesSome ==
    ASSUME NEW loose, NEW g, NEW S \in SUBSET DOMAIN g, Copies(g, loose)
    PROVE  Copies(Restrict(g, S), loose)
BY DEF Copies, Restrict

\* The facts a document states.
States(b, S) == DOMAIN b = S

LEMMA StatesFrom == ASSUME NEW S, NEW d PROVE States(From(S, d), S)
BY DEF States, From

LEMMA StatesBoth ==
    ASSUME NEW g, NEW h, NEW S, NEW T, States(g, S), States(h, T)
    PROVE  States(g ++ h, S \cup T)
BY DEF States, ++

LEMMA StatesSome == ASSUME NEW g, NEW S PROVE States(Restrict(g, S), S)
BY DEF States, Restrict


LEMMA CopiesAbi == Copies(buildAbiBundle, {})
<1>1. Copies(From({"facade", "router", "codeHash"}, "integration"), {})
  BY CopiesAuthored DEF Authored
<1>2. Copies(From({"resolver", "resolverHash", "resolverId", "oif", "oifHash", "oifId"},
    "standardIds"), {})
  BY CopiesAuthored DEF Authored
<1>3. QED
  BY <1>1, <1>2, CopiesBoth DEF buildAbiBundle

LEMMA CopiesSolverManifest == Copies(buildNexaSolverManifest, {})
<1>1. Copies(From({"release", "profile", "feedSigner"}, "discovery"), {})
  BY CopiesAuthored DEF Authored
<1>2. Copies(From({"status", "facade"}, "integration"), {})
  BY CopiesAuthored DEF Authored
<1>3. Copies(From({"feedEndpoints", "permitEndpoints", "discoveryURI"}, "publicEndpoints"), {})
  BY CopiesAuthored DEF Authored
<1>4. Copies(From({"resolver", "resolverId", "oif", "oifId", "level"}, "standardIds"), {})
  BY CopiesAuthored DEF Authored
<1>5. QED
  BY <1>1, <1>2, <1>3, <1>4, CopiesBoth DEF buildNexaSolverManifest

LEMMA CopiesOnboarding == Copies(buildOnboardingPackage, {})
<1>1. Copies(From({"release", "networkId", "facade", "router", "codeHash", "routeCount",
    "deployment", "resolver", "resolverHash", "oif", "oifHash", "level"}, "integration"), {})
  BY CopiesAuthored DEF Authored
<1>2. Copies(From({"discoveryURI", "feedEndpoints", "permitEndpoints", "feedSigner"},
    "discovery"), {})
  BY CopiesAuthored DEF Authored
<1>3. Copies(From({"version"}, "package"), {})
  BY CopiesAuthored DEF Authored
<1>4. Copies(From({"status"}, "scripts"), {})
  BY CopiesAuthored DEF Authored
<1>5. QED
  BY <1>1, <1>2, <1>3, <1>4, CopiesBoth DEF buildOnboardingPackage

\* The on-chain discovery reads the event files the indexing generator writes.
ReadsEvents == {<<"events", "events">>}

LEMMA CopiesFingerprint == Copies(buildFingerprint, ReadsEvents)
<1>1. Copies(From({"release", "facade", "router", "codeHash", "deployment", "resolver",
    "resolverHash", "resolverId", "oif", "oifHash", "oifId"}, "integration"), ReadsEvents)
  BY CopiesAuthored DEF Authored
<1>2. Copies(From({"discoveryURI", "feedEndpoints"}, "publicEndpoints"), ReadsEvents)
  BY CopiesAuthored DEF Authored
<1>3. Copies(From({"status", "level"}, "scripts"), ReadsEvents)
  BY CopiesAuthored DEF Authored
<1>4. Copies(From({"initCode"}, "facadeEvidence"), ReadsEvents)
  BY CopiesAuthored DEF Authored
<1>5. Copies(From({"compiler"}, "inputEvidence"), ReadsEvents)
  BY CopiesAuthored DEF Authored
<1>6. Copies(From({"factory"}, "ownership"), ReadsEvents)
  BY CopiesAuthored DEF Authored
<1>7. Copies(From({"events"}, "events"), ReadsEvents)
  BY CopiesGenerated DEF ReadsEvents
<1>8. QED
  BY <1>1, <1>2, <1>3, <1>4, <1>5, <1>6, <1>7, CopiesBoth DEF buildFingerprint

LEMMA FingerprintStates == DOMAIN buildFingerprint =
    {"release", "facade", "router", "codeHash", "deployment", "resolver", "resolverHash",
     "resolverId", "oif", "oifHash", "oifId", "discoveryURI", "feedEndpoints", "status",
     "level", "initCode", "compiler", "factory", "events"}
<1> DEFINE
      PartA == From({"release", "facade", "router", "codeHash", "deployment", "resolver",
          "resolverHash", "resolverId", "oif", "oifHash", "oifId"}, "integration")
      PartB == From({"discoveryURI", "feedEndpoints"}, "publicEndpoints")
      PartC == From({"status", "level"}, "scripts")
      PartD == From({"initCode"}, "facadeEvidence")
      PartE == From({"compiler"}, "inputEvidence")
      PartF == From({"factory"}, "ownership")
      PartG == From({"events"}, "events")
      FactsA == {"release", "facade", "router", "codeHash", "deployment", "resolver",
          "resolverHash", "resolverId", "oif", "oifHash", "oifId"}
      FactsB == {"discoveryURI", "feedEndpoints"}
      FactsC == {"status", "level"}
      FactsD == {"initCode"}
      FactsE == {"compiler"}
      FactsF == {"factory"}
      FactsG == {"events"}
<1>1. States(PartA, FactsA)
  BY StatesFrom
<1>2. States(PartB, FactsB)
  BY StatesFrom
<1>3. States(PartC, FactsC)
  BY StatesFrom
<1>4. States(PartD, FactsD)
  BY StatesFrom
<1>5. States(PartE, FactsE)
  BY StatesFrom
<1>6. States(PartF, FactsF)
  BY StatesFrom
<1>7. States(PartG, FactsG)
  BY StatesFrom
<1>8. buildFingerprint = PartA ++ PartB ++ PartC ++ PartD ++ PartE ++ PartF ++ PartG
  BY DEF buildFingerprint
<1> HIDE DEF PartA, PartB, PartC, PartD, PartE, PartF, PartG, FactsA, FactsB, FactsC, FactsD,
    FactsE, FactsF, FactsG
<1>9. States(PartA ++ PartB, FactsA \cup FactsB)
  BY <1>1, <1>2, StatesBoth
<1>10. States(PartA ++ PartB ++ PartC, FactsA \cup FactsB \cup FactsC)
  BY <1>9, <1>3, StatesBoth
<1>11. States(PartA ++ PartB ++ PartC ++ PartD, FactsA \cup FactsB \cup FactsC \cup FactsD)
  BY <1>10, <1>4, StatesBoth
<1>12. States(PartA ++ PartB ++ PartC ++ PartD ++ PartE, FactsA \cup FactsB \cup FactsC \cup
    FactsD \cup FactsE)
  BY <1>11, <1>5, StatesBoth
<1>13. States(PartA ++ PartB ++ PartC ++ PartD ++ PartE ++ PartF, FactsA \cup FactsB \cup
    FactsC \cup FactsD \cup FactsE \cup FactsF)
  BY <1>12, <1>6, StatesBoth
<1>14. States(PartA ++ PartB ++ PartC ++ PartD ++ PartE ++ PartF ++ PartG, FactsA \cup
    FactsB \cup FactsC \cup FactsD \cup FactsE \cup FactsF \cup FactsG)
  BY <1>13, <1>7, StatesBoth
<1>15. QED
  BY <1>8, <1>14 DEF States, FactsA, FactsB, FactsC, FactsD, FactsE, FactsF, FactsG

LEMMA DiscoveryStates ==
    /\ DOMAIN buildScannerHints \subseteq DOMAIN buildFingerprint
    /\ DOMAIN buildOnchainDiscovery = DOMAIN buildFingerprint
<1>1. DOMAIN buildScannerHints \subseteq DOMAIN buildFingerprint
  BY FingerprintStates, StatesSome DEF States, buildScannerHints
<1>2. DOMAIN (buildFingerprint ++ buildScannerHints)
        = DOMAIN buildFingerprint \cup DOMAIN buildScannerHints
  BY DEF ++
<1>3. QED
  BY <1>1, <1>2 DEF buildOnchainDiscovery

LEMMA CopiesDiscovery == Copies(buildOnchainDiscovery, ReadsEvents)
<1>1. {"release", "status", "facade", "router", "codeHash", "discoveryURI", "deployment",
       "initCode", "factory", "events", "resolver", "resolverHash", "resolverId", "oif",
       "oifHash", "oifId", "level"} \subseteq DOMAIN buildFingerprint
  BY FingerprintStates
<1>2. Copies(buildScannerHints, ReadsEvents)
  BY <1>1, CopiesFingerprint, CopiesSome DEF buildScannerHints
<1>3. QED
  BY <1>2, CopiesFingerprint, CopiesBoth DEF buildOnchainDiscovery

LEMMA StandardsStates == DOMAIN buildStandardsManifest =
    {"release", "status", "router", "codeHash", "resolver", "resolverHash", "resolverId",
     "oif", "oifHash", "oifId", "level"}
BY StatesSome DEF States, buildStandardsManifest

\* A projection of the on-chain discovery without the events.
LEMMA CopiesStandards == Copies(buildStandardsManifest, {})
<1>1. {"release", "status", "router", "codeHash", "resolver", "resolverHash", "resolverId",
       "oif", "oifHash", "oifId", "level"} \subseteq DOMAIN buildOnchainDiscovery
  BY FingerprintStates, DiscoveryStates
<1>2. Copies(buildStandardsManifest, ReadsEvents)
  BY <1>1, CopiesDiscovery, CopiesSome DEF buildStandardsManifest
<1>3. "events" \notin DOMAIN buildStandardsManifest
  BY StandardsStates
<1>4. QED
  BY <1>2, <1>3 DEF Copies, ReadsEvents

\* The standard vectors read the SDK vectors' file.
ReadsVectors == {<<"sdkVectors", "sdkVectors">>, <<"sdkVectors", "release">>}

LEMMA CopiesVectors == Copies(buildStandardVectors, ReadsVectors)
<1>1. Copies(buildStandardsManifest, ReadsVectors)
  BY CopiesStandards DEF Copies
<1>2. {"router", "resolver", "resolverId", "oif", "oifId"} \subseteq DOMAIN buildStandardsManifest
  BY StandardsStates
<1>3. Copies(Restrict(buildStandardsManifest, {"router", "resolver", "resolverId", "oif",
    "oifId"}),
             ReadsVectors)
  BY <1>1, <1>2, CopiesSome
<1>4. Copies(From({"sdkVectors", "release"}, "sdkVectors"), ReadsVectors)
  BY CopiesGenerated DEF ReadsVectors
<1>5. QED
  BY <1>3, <1>4, CopiesBoth DEF buildStandardVectors

\* The indexing package reads the standards manifest's file.
ReadsStandards ==
    {<<"standardsManifest", f>> : f \in {"resolver", "resolverId", "oif", "oifId", "level"}}

LEMMA CopiesConfig == Copies(buildCanonicalIndexingConfig, ReadsStandards)
<1>1. Copies(From({"release"}, "integration"), ReadsStandards)
  BY CopiesAuthored DEF Authored
<1>2. Copies(From({"router", "facade", "codeHash", "deployment", "startBlock"},
    "indexingEvidence"), ReadsStandards)
  BY CopiesAuthored DEF Authored
<1>3. Copies(From({"resolver", "resolverId", "oif", "oifId", "level"}, "standardsManifest"),
    ReadsStandards)
  BY CopiesGenerated DEF ReadsStandards
<1>4. Copies(From({"externalStatus"}, "external"), ReadsStandards)
  BY CopiesAuthored DEF Authored
<1>5. Copies(From({"events"}, "eventDefinitions"), ReadsStandards)
  BY CopiesAuthored DEF Authored
<1>6. QED
  BY <1>1, <1>2, <1>3, <1>4, <1>5, CopiesBoth DEF buildCanonicalIndexingConfig

LEMMA ConfigStates == DOMAIN buildCanonicalIndexingConfig =
    {"release", "router", "facade", "codeHash", "deployment", "startBlock", "resolver",
     "resolverId", "oif", "oifId", "level", "externalStatus", "events"}
<1> DEFINE
      PartA == From({"release"}, "integration")
      PartB == From({"router", "facade", "codeHash", "deployment", "startBlock"},
          "indexingEvidence")
      PartC == From({"resolver", "resolverId", "oif", "oifId", "level"}, "standardsManifest")
      PartD == From({"externalStatus"}, "external")
      PartE == From({"events"}, "eventDefinitions")
      FactsA == {"release"}
      FactsB == {"router", "facade", "codeHash", "deployment", "startBlock"}
      FactsC == {"resolver", "resolverId", "oif", "oifId", "level"}
      FactsD == {"externalStatus"}
      FactsE == {"events"}
<1>1. States(PartA, FactsA)
  BY StatesFrom
<1>2. States(PartB, FactsB)
  BY StatesFrom
<1>3. States(PartC, FactsC)
  BY StatesFrom
<1>4. States(PartD, FactsD)
  BY StatesFrom
<1>5. States(PartE, FactsE)
  BY StatesFrom
<1>6. buildCanonicalIndexingConfig = PartA ++ PartB ++ PartC ++ PartD ++ PartE
  BY DEF buildCanonicalIndexingConfig
<1> HIDE DEF PartA, PartB, PartC, PartD, PartE, FactsA, FactsB, FactsC, FactsD, FactsE
<1>7. States(PartA ++ PartB, FactsA \cup FactsB)
  BY <1>1, <1>2, StatesBoth
<1>8. States(PartA ++ PartB ++ PartC, FactsA \cup FactsB \cup FactsC)
  BY <1>7, <1>3, StatesBoth
<1>9. States(PartA ++ PartB ++ PartC ++ PartD, FactsA \cup FactsB \cup FactsC \cup FactsD)
  BY <1>8, <1>4, StatesBoth
<1>10. States(PartA ++ PartB ++ PartC ++ PartD ++ PartE, FactsA \cup FactsB \cup FactsC \cup
    FactsD \cup FactsE)
  BY <1>9, <1>5, StatesBoth
<1>11. QED
  BY <1>6, <1>10 DEF States, FactsA, FactsB, FactsC, FactsD, FactsE

LEMMA CopiesOthers ==
    /\ Copies(buildOpenApi, {}) /\ Copies(sdkVectors, {}) /\ Copies(eventFiles, {})
    /\ Copies(indexingDescriptor, {})
    /\ Copies(fixtureSet, ReadsStandards) /\ Copies(graphManifest, ReadsStandards)
    /\ Copies(substreamsManifest, ReadsStandards)
<1>1. Copies(buildOpenApi, {})
  BY CopiesAuthored DEF Authored, buildOpenApi
<1>2. Copies(sdkVectors, {})
  BY CopiesAuthored DEF Authored, sdkVectors
<1>3. Copies(eventFiles, {})
  BY CopiesAuthored DEF Authored, eventFiles
<1>4. Copies(indexingDescriptor, {})
  BY CopiesAuthored DEF Authored, indexingDescriptor
<1>5. Copies(fixtureSet, ReadsStandards)
  <2>1. {"router", "events", "resolver", "resolverId", "oif", "oifId"}
          \subseteq DOMAIN buildCanonicalIndexingConfig
    BY ConfigStates
  <2>2. QED
    BY <2>1, CopiesConfig, CopiesSome DEF fixtureSet
<1>6. Copies(graphManifest, ReadsStandards)
  <2>1. {"release", "router", "codeHash", "startBlock", "resolverId", "oifId", "events"}
          \subseteq DOMAIN buildCanonicalIndexingConfig
    BY ConfigStates
  <2>2. QED
    BY <2>1, CopiesConfig, CopiesSome DEF graphManifest
<1>7. Copies(substreamsManifest, ReadsStandards)
  <2>1. {"router", "startBlock", "resolverId", "oifId"}
          \subseteq DOMAIN buildCanonicalIndexingConfig
    BY ConfigStates
  <2>2. QED
    BY <2>1, CopiesConfig, CopiesSome DEF substreamsManifest
<1>8. QED
  BY <1>1, <1>2, <1>3, <1>4, <1>5, <1>6, <1>7

LEMMA Names ==
    /\ Generated = {"abi", "solverManifest", "onchainDiscovery", "standardsManifest",
                    "publicStandards", "standardVectors", "onboarding", "openapi", "sdkVectors",
                    "events", "indexingConfig", "indexingManifest", "fixtures", "rustTopics",
                    "graphAbis", "graphManifests", "substreamsManifests"}
    /\ DOMAIN Authored = {"manifest", "integration", "discovery", "standardIds", "networkIds",
                          "facadeEvidence", "inputEvidence", "ownership", "identity", "vetting",
                          "indexingEvidence", "external", "package", "publicEndpoints",
                          "runtimeOpenApi", "eventDefinitions", "sdkVectorScript", "scripts"}
<1>1. Generated = {"abi", "solverManifest", "onchainDiscovery", "standardsManifest",
                    "publicStandards", "standardVectors", "onboarding", "openapi", "sdkVectors",
                    "events", "indexingConfig", "indexingManifest", "fixtures", "rustTopics",
                    "graphAbis", "graphManifests", "substreamsManifests"}
  BY DEF Generated, Built
<1>2. DOMAIN Authored = {"manifest", "integration", "discovery", "standardIds", "networkIds",
                          "facadeEvidence", "inputEvidence", "ownership", "identity", "vetting",
                          "indexingEvidence", "external", "package", "publicEndpoints",
                          "runtimeOpenApi", "eventDefinitions", "sdkVectorScript", "scripts"}
  BY DEF Authored
<1>3. QED
  BY <1>1, <1>2

LEMMA GeneratedIsNotAuthored == Generated \cap DOMAIN Authored = {}
BY Names

\* The four places a generated document takes a fact from.
FromPeople(d, f) == Origin(d, f) \in DOMAIN Authored /\ f \in Authored[Origin(d, f)]
FromEvents(d, f) == d = "onchainDiscovery" /\ f = "events" /\ Origin(d, f) = "events"
FromVectors(d, f) ==
    d = "standardVectors" /\ f \in {"sdkVectors", "release"} /\ Origin(d, f) = "sdkVectors"
FromStandards(d, f) ==
    /\ d \in {"indexingConfig", "fixtures", "graphManifests", "substreamsManifests"}
    /\ f \in {"resolver", "resolverId", "oif", "oifId", "level"}
    /\ Origin(d, f) = "standardsManifest"

LEMMA Origins ==
    ASSUME NEW d \in Generated, NEW f \in DOMAIN Built[d]
    PROVE  FromPeople(d, f) \/ FromEvents(d, f) \/ FromVectors(d, f) \/ FromStandards(d, f)
<1> DEFINE b == Built[d]
<1>p. ASSUME Copies(b, {}) PROVE FromPeople(d, f)
  BY <1>p DEF Copies, FromPeople, Origin
<1>1. CASE d \in {"abi", "solverManifest", "onboarding", "standardsManifest", "publicStandards",
                  "openapi", "sdkVectors", "events", "rustTopics", "graphAbis",
                        "indexingManifest"}
  <2>1. \/ b = buildAbiBundle \/ b = buildNexaSolverManifest \/ b = buildOnboardingPackage
        \/ b = buildStandardsManifest \/ b = buildOpenApi \/ b = sdkVectors \/ b = eventFiles
        \/ b = indexingDescriptor
    BY <1>1 DEF Built
  <2>2. Copies(b, {})
    BY <2>1, CopiesAbi, CopiesSolverManifest, CopiesOnboarding, CopiesStandards, CopiesOthers
  <2>3. QED
    BY <2>2, <1>p
<1>2. CASE d = "onchainDiscovery"
  <2>1. b = buildOnchainDiscovery
    BY <1>2 DEF Built
  <2>2. Copies(b, ReadsEvents)
    BY <2>1, CopiesDiscovery
  <2>3. QED
    BY <1>2, <2>2 DEF Copies, ReadsEvents, FromPeople, FromEvents, Origin
<1>3. CASE d = "standardVectors"
  <2>1. b = buildStandardVectors
    BY <1>3 DEF Built
  <2>2. Copies(b, ReadsVectors)
    BY <2>1, CopiesVectors
  <2>3. QED
    BY <1>3, <2>2 DEF Copies, ReadsVectors, FromPeople, FromVectors, Origin
<1>4. CASE d \in {"indexingConfig", "fixtures", "graphManifests", "substreamsManifests"}
  <2>1. \/ b = buildCanonicalIndexingConfig \/ b = fixtureSet \/ b = graphManifest
        \/ b = substreamsManifest
    BY <1>4 DEF Built
  <2>2. Copies(b, ReadsStandards)
    BY <2>1, CopiesConfig, CopiesOthers
  <2>3. QED
    BY <1>4, <2>2 DEF Copies, ReadsStandards, FromPeople, FromStandards, Origin
<1>5. QED
  BY <1>1, <1>2, <1>3, <1>4, Names

\* The file a document is taken from states the fact.
LEMMA ReadIsStated ==
    /\ "events" \in DOMAIN Built["events"]
    /\ {"sdkVectors", "release"} \subseteq DOMAIN Built["sdkVectors"]
    /\ {"resolver", "resolverId", "oif", "oifId", "level"}
          \subseteq DOMAIN Built["standardsManifest"]
<1>1. Built["events"] = From({"events"}, "eventDefinitions")
  BY DEF Built, eventFiles
<1>2. Built["sdkVectors"] = From({"sdkVectors", "release"}, "sdkVectorScript")
  BY DEF Built, sdkVectors
<1>3. Built["standardsManifest"] = buildStandardsManifest
  BY DEF Built
<1>4. QED
  BY <1>1, <1>2, <1>3, StandardsStates DEF From

LEMMA OriginStates ==
    ASSUME NEW f, NEW d \in Stating(f), d \in Generated
    PROVE  Origin(d, f) \in Stating(f)
<1>1. f \in DOMAIN Built[d]
  BY GeneratedIsNotAuthored DEF Stating
<1>2. CASE FromPeople(d, f)
  BY <1>2 DEF FromPeople, Stating
<1>3. CASE FromEvents(d, f) \/ FromVectors(d, f) \/ FromStandards(d, f)
  <2>1. Origin(d, f) \in Generated
    BY <1>3, Names DEF FromEvents, FromVectors, FromStandards
  <2>2. f \in DOMAIN Built[Origin(d, f)]
    BY <1>3, ReadIsStated DEF FromEvents, FromVectors, FromStandards
  <2>3. QED
    BY <2>1, <2>2 DEF Stating
<1>4. QED
  BY <1>1, <1>2, <1>3, Origins

\* No chain of rebuilt documents is longer than two.
LEMMA OriginsEnd ==
    ASSUME NEW f, NEW d \in Stating(f), d \in Rebuilt, Origin(d, f) \in Rebuilt
    PROVE  Origin(Origin(d, f), f) \notin Rebuilt
<1>1. f \in DOMAIN Built[d] /\ d \in Generated
  BY GeneratedIsNotAuthored DEF Stating, Rebuilt
<1>2. ~FromPeople(d, f) /\ ~FromVectors(d, f)
  BY GeneratedIsNotAuthored DEF FromPeople, FromVectors, Rebuilt
<1>3. CASE FromEvents(d, f)
  <2>1. Origin("events", "events") = "eventDefinitions"
    BY DEF Origin, Built, eventFiles, From
  <2>2. QED
    BY <1>3, <2>1, Names DEF FromEvents, Rebuilt
<1>4. CASE FromStandards(d, f)
  <2>1. Built["standardsManifest"] = buildStandardsManifest /\ f \in DOMAIN buildStandardsManifest
    BY <1>4, StandardsStates DEF Built, FromStandards
  <2>2. Origin("standardsManifest", f) \in DOMAIN Authored
    BY <2>1, CopiesStandards DEF Copies, Origin
  <2>3. QED
    BY <1>4, <2>2, GeneratedIsNotAuthored DEF FromStandards, Rebuilt
<1>5. QED
  BY <1>1, <1>2, <1>3, <1>4, Origins

\* The files are those that state the fact.
Stated == DOMAIN files = Stating(subject)

\* While the rebuilt documents are current, each says what its root says.
LEMMA Rooted ==
    ASSUME Stated, Current, NEW d \in DOMAIN files
    PROVE  /\ Root(d, subject) \in DOMAIN files \ Rebuilt
           /\ files[d] = files[Root(d, subject)]
<1> DEFINE up(e) == IF e \in Rebuilt THEN Origin(e, subject) ELSE e
<1>1. Root(d, subject) = up(up(d))
  BY DEF Root
<1>2. ASSUME NEW e \in DOMAIN files PROVE up(e) \in DOMAIN files /\ files[e] = files[up(e)]
  BY <1>2, OriginStates DEF Stated, Current, Rebuilt
<1>3. up(up(d)) \notin Rebuilt
  BY OriginsEnd DEF Stated
<1> HIDE DEF up
<1>4. QED
  BY <1>1, <1>2, <1>3

(***************************************************************************)
(* What the comparisons say.                                               *)
(***************************************************************************)
LEMMA ComparedAgree ==
    ASSUME NEW S, NEW d, NEW e, d # "chain", e # "chain", Agree(Compare(S, d, e)), subject \in S
    PROVE  files[d] = files[e]
<1> DEFINE c == <<subject, {d, e}>>
<1>1. c \in Compare(S, d, e)
  BY DEF Compare
<1>2. c[1] = subject /\ c[2] = {d, e}
  OBVIOUS
<1>3. Statement(d) = Statement(e)
  BY <1>1, <1>2 DEF Agree
<1>4. QED
  BY <1>3 DEF Statement

LEMMA AgreeWithin ==
    ASSUME NEW C, NEW D \in SUBSET C, Agree(C)
    PROVE  Agree(D)
BY DEF Agree

LEMMA TakenFrom ==
    ASSUME Stated, Current, NEW d \in Rebuilt, subject \in DOMAIN Built[d]
    PROVE  files[d] = files[Built[d][subject]]
BY DEF Stated, Current, Stating, Rebuilt, Origin

LEMMA AbiTakes ==
    ASSUME Stated, Current
    PROVE  /\ subject \in {"facade", "router", "codeHash"} => files["abi"] = files["integration"]
           /\ subject \in {"resolver", "resolverHash", "resolverId", "oif", "oifHash", "oifId"} =>
                files["abi"] = files["standardIds"]
<1>1. Built["abi"] = buildAbiBundle /\ "abi" \in Rebuilt
  BY Names DEF Built, Rebuilt
<1>2. ASSUME subject \in {"facade", "router", "codeHash"}
      PROVE  subject \in DOMAIN buildAbiBundle /\ buildAbiBundle[subject] = "integration"
  BY <1>2 DEF buildAbiBundle, From, ++
<1>3. ASSUME subject \in {"resolver", "resolverHash", "resolverId", "oif", "oifHash", "oifId"}
      PROVE  subject \in DOMAIN buildAbiBundle /\ buildAbiBundle[subject] = "standardIds"
  BY <1>3 DEF buildAbiBundle, From, ++
<1>4. QED
  BY <1>1, <1>2, <1>3, TakenFrom

LEMMA DiscoveryTakes ==
    ASSUME Stated, Current
    PROVE  /\ subject \in {"deployment", "resolver", "resolverId", "oif"} =>
                files["onchainDiscovery"] = files["integration"]
           /\ subject = "discoveryURI" => files["onchainDiscovery"] = files["publicEndpoints"]
<1>1. Built["onchainDiscovery"] = buildOnchainDiscovery /\ "onchainDiscovery" \in Rebuilt
  BY Names DEF Built, Rebuilt
<1>2. ASSUME subject \in DOMAIN buildFingerprint
      PROVE  /\ subject \in DOMAIN buildOnchainDiscovery
             /\ buildOnchainDiscovery[subject] = buildFingerprint[subject]
  BY <1>2 DEF buildOnchainDiscovery, ++
<1>3. subject \in {"deployment", "resolver", "resolverId", "oif"} =>
        buildFingerprint[subject] = "integration"
  BY DEF buildFingerprint, From, ++
<1>4. subject = "discoveryURI" => buildFingerprint[subject] = "publicEndpoints"
  BY DEF buildFingerprint, From, ++
<1>5. subject \in {"deployment", "resolver", "resolverId", "oif", "discoveryURI"} =>
        subject \in DOMAIN buildFingerprint
  BY FingerprintStates
<1>6. QED
  BY <1>1, <1>2, <1>3, <1>4, <1>5, TakenFrom

LEMMA EndpointsTake ==
    ASSUME Stated, Current
    PROVE  /\ subject = "feedEndpoints" => files["onboarding"] = files["discovery"]
           /\ subject \in {"feedEndpoints", "permitEndpoints"} =>
                files["openapi"] = files["runtimeOpenApi"]
<1>1. /\ Built["onboarding"] = buildOnboardingPackage /\ "onboarding" \in Rebuilt
      /\ Built["openapi"] = buildOpenApi /\ "openapi" \in Rebuilt
  BY Names DEF Built, Rebuilt
<1>2. ASSUME subject = "feedEndpoints"
      PROVE  /\ subject \in DOMAIN buildOnboardingPackage
             /\ buildOnboardingPackage[subject] = "discovery"
  BY <1>2 DEF buildOnboardingPackage, From, ++
<1>3. ASSUME subject \in {"feedEndpoints", "permitEndpoints"}
      PROVE  subject \in DOMAIN buildOpenApi /\ buildOpenApi[subject] = "runtimeOpenApi"
  BY <1>3 DEF buildOpenApi, From
<1>4. QED
  BY <1>1, <1>2, <1>3, TakenFrom

\* The comparisons of validate.mjs and of the package builder between documents the
\* argument needs.
LEMMA ComparisonsSay ==
    ASSUME Agree(validateComparisons), Agree(validateIndexingPackage)
    PROVE
      /\ subject \in {"release"} => files["manifest"] = files["integration"]
      /\ subject \in {"release"} => files["manifest"] = files["identity"]
      /\ subject \in {"profile"} => files["integration"] = files["manifest"]
      /\ subject \in {"discoveryURI"} => files["integration"] = files["publicEndpoints"]
      /\ subject \in {"facade", "discoveryURI"} => files["manifest"] = files["integration"]
      /\ subject \in {"networkId"} => files["integration"] = files["networkIds"]
      /\ subject \in {"routeCount"} => files["integration"] = files["facadeEvidence"]
      /\ subject \in {"resolver", "resolverId"} =>
            files["onchainDiscovery"] = files["standardIds"]
      /\ subject \in {"initCode", "deployment"} =>
            files["onchainDiscovery"] = files["facadeEvidence"]
      /\ subject \in {"resolver", "oif"} => files["onchainDiscovery"] = files["standardIds"]
      /\ subject \in {"facade", "codeHash", "router", "discoveryURI"} =>
            files["facadeEvidence"] = files["integration"]
      /\ subject \in {"compiler"} => files["inputEvidence"] = files["facadeEvidence"]
      /\ subject \in {"facade", "router", "codeHash", "resolver", "resolverHash", "oif",
            "oifHash"} =>
            files["identity"] = files["abi"]
      /\ subject \in {"feedEndpoints"} => files["onboarding"] = files["publicEndpoints"]
      /\ subject \in {"resolver", "resolverHash"} =>
            files["vetting"] = files["standardIds"]
      /\ subject \in {"router"} => files["vetting"] = files["integration"]
      /\ subject \in {"feedEndpoints", "permitEndpoints"} =>
            files["openapi"] = files["publicEndpoints"]
      /\ subject \in {"release"} => files["integration"] = files["indexingEvidence"]
      /\ subject \in {"router", "facade"} => files["indexingEvidence"] = files["integration"]
<1>1. subject \in {"release"} => files["manifest"] = files["integration"]
  <2>1. Compare({"release"}, "manifest", "integration") \subseteq validateComparisons
    BY DEF validateComparisons, releaseIdentity
  <2>2. QED
    BY <2>1, AgreeWithin, ComparedAgree
<1>2. subject \in {"release"} => files["manifest"] = files["identity"]
  <2>1. Compare({"release"}, "manifest", "identity") \subseteq validateComparisons
    BY DEF validateComparisons, releaseIdentity
  <2>2. QED
    BY <2>1, AgreeWithin, ComparedAgree
<1>3. subject \in {"profile"} => files["integration"] = files["manifest"]
  <2>1. Compare({"profile"}, "integration", "manifest") \subseteq validateComparisons
    BY DEF validateComparisons, releaseIdentity
  <2>2. QED
    BY <2>1, AgreeWithin, ComparedAgree
<1>4. subject \in {"discoveryURI"} => files["integration"] = files["publicEndpoints"]
  <2>1. Compare({"discoveryURI"}, "integration", "publicEndpoints") \subseteq validateComparisons
    BY DEF validateComparisons, facadeBindings
  <2>2. QED
    BY <2>1, AgreeWithin, ComparedAgree
<1>5. subject \in {"facade", "discoveryURI"} => files["manifest"] = files["integration"]
  <2>1. Compare({"facade", "discoveryURI"}, "manifest", "integration")
      \subseteq validateComparisons
    BY DEF validateComparisons, facadeBindings
  <2>2. QED
    BY <2>1, AgreeWithin, ComparedAgree
<1>6. subject \in {"networkId"} => files["integration"] = files["networkIds"]
  <2>1. Compare({"networkId"}, "integration", "networkIds") \subseteq validateComparisons
    BY DEF validateComparisons, networkIdentities
  <2>2. QED
    BY <2>1, AgreeWithin, ComparedAgree
<1>7. subject \in {"routeCount"} => files["integration"] = files["facadeEvidence"]
  <2>1. Compare({"routeCount"}, "integration", "facadeEvidence") \subseteq validateComparisons
    BY DEF validateComparisons, networkIdentities
  <2>2. QED
    BY <2>1, AgreeWithin, ComparedAgree
<1>8. subject \in {"resolver", "resolverId"} => files["onchainDiscovery"] = files["standardIds"]
  <2>1. Compare({"resolver", "resolverId"}, "onchainDiscovery", "standardIds")
      \subseteq validateComparisons
    BY DEF validateComparisons, onchainIdentity
  <2>2. QED
    BY <2>1, AgreeWithin, ComparedAgree
<1>9. subject \in {"initCode", "deployment"} =>
    files["onchainDiscovery"] = files["facadeEvidence"]
  <2>1. Compare({"initCode", "deployment"}, "onchainDiscovery", "facadeEvidence")
      \subseteq validateComparisons
    BY DEF validateComparisons, onchainIdentity
  <2>2. QED
    BY <2>1, AgreeWithin, ComparedAgree
<1>10. subject \in {"resolver", "oif"} => files["onchainDiscovery"] = files["standardIds"]
  <2>1. Compare({"resolver", "oif"}, "onchainDiscovery", "standardIds")
      \subseteq validateComparisons
    BY DEF validateComparisons, scannerHints
  <2>2. QED
    BY <2>1, AgreeWithin, ComparedAgree
<1>11. subject \in {"facade", "codeHash", "router", "discoveryURI"} =>
    files["facadeEvidence"] = files["integration"]
  <2>1. Compare({"facade", "codeHash", "router", "discoveryURI"}, "facadeEvidence",
      "integration") \subseteq validateComparisons
    BY DEF validateComparisons, facadeVerification
  <2>2. QED
    BY <2>1, AgreeWithin, ComparedAgree
<1>12. subject \in {"compiler"} => files["inputEvidence"] = files["facadeEvidence"]
  <2>1. Compare({"compiler"}, "inputEvidence", "facadeEvidence") \subseteq validateComparisons
    BY DEF validateComparisons, facadeVerification
  <2>2. QED
    BY <2>1, AgreeWithin, ComparedAgree
<1>13. subject \in {"facade", "router", "codeHash", "resolver", "resolverHash", "oif",
    "oifHash"} => files["identity"] = files["abi"]
  <2>1. Compare({"facade", "router", "codeHash", "resolver", "resolverHash", "oif", "oifHash"},
      "identity", "abi") \subseteq validateComparisons
    BY DEF validateComparisons, pinnedIdentities
  <2>2. QED
    BY <2>1, AgreeWithin, ComparedAgree
<1>14. subject \in {"feedEndpoints"} => files["onboarding"] = files["publicEndpoints"]
  <2>1. Compare({"feedEndpoints"}, "onboarding", "publicEndpoints") \subseteq validateComparisons
    BY DEF validateComparisons, onboardingIdentity
  <2>2. QED
    BY <2>1, AgreeWithin, ComparedAgree
<1>15. subject \in {"resolver", "resolverHash"} => files["vetting"] = files["standardIds"]
  <2>1. Compare({"resolver", "resolverHash"}, "vetting", "standardIds")
      \subseteq validateComparisons
    BY DEF validateComparisons, resolverVetting
  <2>2. QED
    BY <2>1, AgreeWithin, ComparedAgree
<1>16. subject \in {"router"} => files["vetting"] = files["integration"]
  <2>1. Compare({"router"}, "vetting", "integration") \subseteq validateComparisons
    BY DEF validateComparisons, resolverVetting
  <2>2. QED
    BY <2>1, AgreeWithin, ComparedAgree
<1>17. subject \in {"feedEndpoints", "permitEndpoints"} =>
    files["openapi"] = files["publicEndpoints"]
  <2>1. Compare({"feedEndpoints", "permitEndpoints"}, "openapi", "publicEndpoints")
      \subseteq validateComparisons
    BY DEF validateComparisons, endpointCatalogs
  <2>2. QED
    BY <2>1, AgreeWithin, ComparedAgree
<1>18. subject \in {"release"} => files["integration"] = files["indexingEvidence"]
  <2>1. Compare({"release"}, "integration", "indexingEvidence") \subseteq validateIndexingPackage
    BY DEF validateIndexingPackage, indexingPreconditions
  <2>2. QED
    BY <2>1, AgreeWithin, ComparedAgree
<1>19. subject \in {"router", "facade"} => files["indexingEvidence"] = files["integration"]
  <2>1. Compare({"router", "facade"}, "indexingEvidence", "integration")
      \subseteq validateIndexingPackage
    BY DEF validateIndexingPackage, indexingPreconditions
  <2>2. QED
    BY <2>1, AgreeWithin, ComparedAgree
<1>20. QED
  BY <1>1, <1>2, <1>3, <1>4, <1>5, <1>6, <1>7, <1>8, <1>9, <1>10,
     <1>11, <1>12, <1>13, <1>14, <1>15, <1>16, <1>17, <1>18, <1>19

LEMMA UncomparedOne ==
    ASSUME NEW S, NEW d, subject \in S
    PROVE  <<subject, {d}>> \in Compare(S, d, d)
BY DEF Compare

LEMMA UncomparedAre ==
    /\ subject \in {"release", "profile", "discoveryURI", "permitEndpoints"} =>
            <<subject, {"discovery"}>> \in Uncompared
    /\ subject \in {"release", "resolverId"} => <<subject, {"vetting"}>> \in Uncompared
    /\ subject \in {"codeHash", "deployment"} => <<subject, {"indexingEvidence"}>> \in Uncompared
    /\ subject \in {"resolverHash", "oifHash", "oifId", "level"} =>
            <<subject, {"integration"}>> \in Uncompared
    /\ subject \in {"level"} => <<subject, {"standardIds"}>> \in Uncompared
    /\ subject \in {"sdkVectors", "release"} => <<subject, {"sdkVectorScript"}>> \in Uncompared
    /\ subject \in {"release"} => <<subject, {"sdkVectors"}>> \in Uncompared
<1>1. subject \in {"release", "profile", "discoveryURI", "permitEndpoints"} =>
    <<subject, {"discovery"}>> \in Uncompared
  BY UncomparedOne DEF Uncompared
<1>2. subject \in {"release", "resolverId"} => <<subject, {"vetting"}>> \in Uncompared
  BY UncomparedOne DEF Uncompared
<1>3. subject \in {"codeHash", "deployment"} => <<subject, {"indexingEvidence"}>> \in Uncompared
  BY UncomparedOne DEF Uncompared
<1>4. subject \in {"resolverHash", "oifHash", "oifId", "level"} =>
    <<subject, {"integration"}>> \in Uncompared
  BY UncomparedOne DEF Uncompared
<1>5. subject \in {"level"} => <<subject, {"standardIds"}>> \in Uncompared
  BY UncomparedOne DEF Uncompared
<1>6. subject \in {"sdkVectors", "release"} => <<subject, {"sdkVectorScript"}>> \in Uncompared
  BY UncomparedOne DEF Uncompared
<1>7. subject \in {"release"} => <<subject, {"sdkVectors"}>> \in Uncompared
  BY UncomparedOne DEF Uncompared
<1>8. QED
  BY <1>1, <1>2, <1>3, <1>4, <1>5, <1>6, <1>7

\* For each fact, a document the compared ones are connected to.
Hub(f) ==
    CASE f \in {"release", "status", "profile", "facade", "router", "codeHash", "discoveryURI",
                "networkId", "routeCount", "deployment"} -> "integration"
      [] f \in {"resolver", "resolverHash", "resolverId", "oif", "oifHash", "oifId"} ->
            "standardIds"
      [] f = "level" -> "scripts"
      [] f = "feedSigner" -> "discovery"
      [] f \in {"feedEndpoints", "permitEndpoints"} -> "publicEndpoints"
      [] f \in {"initCode", "compiler"} -> "facadeEvidence"
      [] f = "factory" -> "ownership"
      [] f = "startBlock" -> "indexingEvidence"
      [] f = "externalStatus" -> "external"
      [] f = "version" -> "package"
      [] f = "events" -> "eventDefinitions"
      [] f = "sdkVectors" -> "sdkVectors"

\* Every statement nothing rebuilds is connected to the hub of its fact by comparisons,
\* or is one of the uncompared ones.
LEMMA RootsConnect ==
    ASSUME Stated, Current, subject = "status" => files["scripts"] = "new", Active,
           Agree(validateComparisons), Agree(validateIndexingPackage),
           NEW r \in DOMAIN files \ Rebuilt
    PROVE  files[r] = files[Hub(subject)] \/ <<subject, {r}>> \in Uncompared
<1>s. r \in DOMAIN Authored => subject \in Authored[r]
  BY GeneratedIsNotAuthored DEF Stated, Stating
<1>1. CASE r = "manifest"
  <2>1. subject \in {"release", "status", "profile", "facade", "discoveryURI"}
    BY <1>1, <1>s DEF Authored
  <2>2. QED
    BY <1>1, <2>1, ComparisonsSay, UncomparedAre, AbiTakes, DiscoveryTakes, EndpointsTake
       DEF Hub, Active
<1>2. CASE r = "integration"
  <2>1. subject \in {"release", "status", "profile", "facade", "router", "codeHash",
         "discoveryURI", "networkId", "routeCount", "deployment", "resolver", "resolverHash",
         "resolverId", "oif", "oifHash", "oifId", "level"}
    BY <1>2, <1>s DEF Authored
  <2>2. QED
    BY <1>2, <2>1, ComparisonsSay, UncomparedAre, AbiTakes, DiscoveryTakes, EndpointsTake
       DEF Hub, Active
<1>3. CASE r = "discovery"
  <2>1. subject \in {"release", "profile", "feedSigner", "discoveryURI", "feedEndpoints",
         "permitEndpoints"}
    BY <1>3, <1>s DEF Authored
  <2>2. QED
    BY <1>3, <2>1, ComparisonsSay, UncomparedAre, AbiTakes, DiscoveryTakes, EndpointsTake
       DEF Hub, Active
<1>4. CASE r = "standardIds"
  <2>1. subject \in {"resolver", "resolverHash", "resolverId", "oif", "oifHash", "oifId",
         "level"}
    BY <1>4, <1>s DEF Authored
  <2>2. QED
    BY <1>4, <2>1, ComparisonsSay, UncomparedAre, AbiTakes, DiscoveryTakes, EndpointsTake
       DEF Hub, Active
<1>5. CASE r = "networkIds"
  <2>1. subject \in {"networkId"}
    BY <1>5, <1>s DEF Authored
  <2>2. QED
    BY <1>5, <2>1, ComparisonsSay, UncomparedAre, AbiTakes, DiscoveryTakes, EndpointsTake
       DEF Hub, Active
<1>6. CASE r = "facadeEvidence"
  <2>1. subject \in {"facade", "router", "codeHash", "discoveryURI", "routeCount", "deployment",
         "initCode", "compiler"}
    BY <1>6, <1>s DEF Authored
  <2>2. QED
    BY <1>6, <2>1, ComparisonsSay, UncomparedAre, AbiTakes, DiscoveryTakes, EndpointsTake
       DEF Hub, Active
<1>7. CASE r = "inputEvidence"
  <2>1. subject \in {"compiler"}
    BY <1>7, <1>s DEF Authored
  <2>2. QED
    BY <1>7, <2>1, ComparisonsSay, UncomparedAre, AbiTakes, DiscoveryTakes, EndpointsTake
       DEF Hub, Active
<1>8. CASE r = "ownership"
  <2>1. subject \in {"factory"}
    BY <1>8, <1>s DEF Authored
  <2>2. QED
    BY <1>8, <2>1, ComparisonsSay, UncomparedAre, AbiTakes, DiscoveryTakes, EndpointsTake
       DEF Hub, Active
<1>9. CASE r = "identity"
  <2>1. subject \in {"release", "facade", "router", "codeHash", "resolver", "resolverHash",
         "oif", "oifHash"}
    BY <1>9, <1>s DEF Authored
  <2>2. QED
    BY <1>9, <2>1, ComparisonsSay, UncomparedAre, AbiTakes, DiscoveryTakes, EndpointsTake
       DEF Hub, Active
<1>10. CASE r = "vetting"
  <2>1. subject \in {"release", "router", "resolver", "resolverHash", "resolverId"}
    BY <1>10, <1>s DEF Authored
  <2>2. QED
    BY <1>10, <2>1, ComparisonsSay, UncomparedAre, AbiTakes, DiscoveryTakes, EndpointsTake
       DEF Hub, Active
<1>11. CASE r = "indexingEvidence"
  <2>1. subject \in {"release", "router", "facade", "codeHash", "deployment", "startBlock"}
    BY <1>11, <1>s DEF Authored
  <2>2. QED
    BY <1>11, <2>1, ComparisonsSay, UncomparedAre, AbiTakes, DiscoveryTakes, EndpointsTake
       DEF Hub, Active
<1>12. CASE r = "external"
  <2>1. subject \in {"externalStatus"}
    BY <1>12, <1>s DEF Authored
  <2>2. QED
    BY <1>12, <2>1, ComparisonsSay, UncomparedAre, AbiTakes, DiscoveryTakes, EndpointsTake
       DEF Hub, Active
<1>13. CASE r = "package"
  <2>1. subject \in {"version"}
    BY <1>13, <1>s DEF Authored
  <2>2. QED
    BY <1>13, <2>1, ComparisonsSay, UncomparedAre, AbiTakes, DiscoveryTakes, EndpointsTake
       DEF Hub, Active
<1>14. CASE r = "publicEndpoints"
  <2>1. subject \in {"discoveryURI", "feedEndpoints", "permitEndpoints"}
    BY <1>14, <1>s DEF Authored
  <2>2. QED
    BY <1>14, <2>1, ComparisonsSay, UncomparedAre, AbiTakes, DiscoveryTakes, EndpointsTake
       DEF Hub, Active
<1>15. CASE r = "runtimeOpenApi"
  <2>1. subject \in {"feedEndpoints", "permitEndpoints"}
    BY <1>15, <1>s DEF Authored
  <2>2. QED
    BY <1>15, <2>1, ComparisonsSay, UncomparedAre, AbiTakes, DiscoveryTakes, EndpointsTake
       DEF Hub, Active
<1>16. CASE r = "eventDefinitions"
  <2>1. subject \in {"events"}
    BY <1>16, <1>s DEF Authored
  <2>2. QED
    BY <1>16, <2>1, ComparisonsSay, UncomparedAre, AbiTakes, DiscoveryTakes, EndpointsTake
       DEF Hub, Active
<1>17. CASE r = "sdkVectorScript"
  <2>1. subject \in {"sdkVectors", "release"}
    BY <1>17, <1>s DEF Authored
  <2>2. QED
    BY <1>17, <2>1, ComparisonsSay, UncomparedAre, AbiTakes, DiscoveryTakes, EndpointsTake
       DEF Hub, Active
<1>18. CASE r = "scripts"
  <2>1. subject \in {"status", "level"}
    BY <1>18, <1>s DEF Authored
  <2>2. QED
    BY <1>18, <2>1, ComparisonsSay, UncomparedAre, AbiTakes, DiscoveryTakes, EndpointsTake
       DEF Hub, Active
<1>19. CASE r = "sdkVectors"
  <2>1. subject \in {"sdkVectors", "release"}
    <3>1. subject \in DOMAIN Built["sdkVectors"]
      BY <1>19, Names DEF Stated, Stating
    <3>2. Built["sdkVectors"] = From({"sdkVectors", "release"}, "sdkVectorScript")
      BY DEF Built, sdkVectors
    <3>3. QED
      BY <3>1, <3>2 DEF From
  <2>2. QED
    BY <1>19, <2>1, UncomparedAre DEF Hub
<1>20. QED
  BY <1>1, <1>2, <1>3, <1>4, <1>5, <1>6, <1>7, <1>8, <1>9, <1>10,
     <1>11, <1>12, <1>13, <1>14, <1>15, <1>16, <1>17, <1>18, <1>19, Names
     DEF Stated, Stating, Rebuilt

(***************************************************************************)
(* What the passes say, for as long as they stand.                         *)
(***************************************************************************)
\* The files are those that state the fact; the scripts always state ACTIVE; a generator
\* writes generated documents.
Known ==
    /\ Stated
    /\ subject = "status" => files["scripts"] = "new"
    /\ DOMAIN job.content \subseteq Generated

LEMMA KnownAtFirst == Init => Known
<1> SUFFICES ASSUME Init PROVE Known
  OBVIOUS
<1>1. Stated
  BY DEF Init, Stated
<1>2. ASSUME subject = "status" PROVE files["scripts"] = "new"
  <2>1. "scripts" \in Stating(subject)
    BY <1>2, Names DEF Stating, Authored
  <2>2. "scripts" \notin Rebuilt
    BY Names DEF Rebuilt
  <2>3. Root("scripts", subject) = "scripts"
    BY <2>2 DEF Root
  <2>4. QED
    BY <1>2, <2>1, <2>3 DEF Init, Said
<1>3. DOMAIN job.content = {}
  BY DEF Init, Resting
<1>4. QED
  BY <1>1, <1>2, <1>3 DEF Known

LEMMA OutputsAreGenerated ==
    ASSUME NEW g \in DOMAIN Outputs
    PROVE  Range(Outputs[g]) \subseteq Generated \cup {"checksums"}
<1>1. Range(buildIndexingArtifacts) \subseteq Generated
  BY Names DEF Range, buildIndexingArtifacts
<1>2. Range(generateStandardsManifest) \subseteq Generated
  BY Names DEF Range, generateStandardsManifest
<1>3. \A d \in Generated \cup {"checksums"} : Range(<<d>>) \subseteq Generated \cup {"checksums"}
  BY DEF Range
<1>4. \/ Outputs[g] = buildIndexingArtifacts \/ Outputs[g] = generateStandardsManifest
      \/ Outputs[g] = <<"abi">> \/ Outputs[g] = <<"solverManifest">>
      \/ Outputs[g] = <<"onchainDiscovery">> \/ Outputs[g] = <<"standardVectors">>
      \/ Outputs[g] = <<"onboarding">> \/ Outputs[g] = <<"openapi">>
      \/ Outputs[g] = <<"sdkVectors">> \/ Outputs[g] = <<"checksums">>
  BY DEF Outputs
<1>5. QED
  BY <1>1, <1>2, <1>3, <1>4, Names

LEMMA KnownKept == Shape /\ Known /\ [Next]_vars => Known'
<1> SUFFICES ASSUME Shape, Known, [Next]_vars PROVE Known'
  OBVIOUS
<1>c. "checksums" \notin DOMAIN files
  BY Names DEF Known, Stated, Stating
<1>q. ASSUME subject' = subject, DOMAIN files' = DOMAIN files,
             files' = files \/ files'["scripts"] = files["scripts"] \/ files'["scripts"] = "new",
             DOMAIN job'.content \subseteq Generated
      PROVE  Known'
  BY <1>q DEF Known, Stated
<1>1. ASSUME NEW d \in DOMAIN Authored, Edit(d) PROVE Known'
  <2>1. files' = [files EXCEPT ![d] = "new"] /\ d \in DOMAIN files /\ subject' = subject
    BY <1>1 DEF Edit, Rewrite
  <2>2. job' = job \/ job' = [job EXCEPT !.intact = @ /\ d \notin CHECKSUM_FILES]
    BY <1>1 DEF Edit
  <2>3. job'.content = job.content
    BY <2>2 DEF Shape
  <2>4. DOMAIN files' = DOMAIN files
        /\ (files'["scripts"] = files["scripts"] \/ files'["scripts"] = "new")
    BY <2>1
  <2>5. QED
    BY <1>q, <2>1, <2>3, <2>4 DEF Known
<1>2. ASSUME NEW g \in DOMAIN Outputs, Generate(g) PROVE Known'
  <2>1. files' = files /\ subject' = subject
    BY <1>2 DEF Generate
  <2>2. CASE job' = job
    BY <2>1, <2>2, <1>q DEF Known
  <2>3. CASE job' # job
    <3>1. job' = [writes |-> Outputs[g],
                  content |-> [d \in Range(Outputs[g]) \cap DOMAIN files |->
                                 files[Origin(d, subject)]],
                  intact |-> TRUE]
      BY <1>2, <2>3 DEF Generate
    <3>2. DOMAIN job'.content = Range(Outputs[g]) \cap DOMAIN files
      BY <3>1
    <3>3. DOMAIN job'.content \subseteq Generated
      BY <3>2, <1>c, OutputsAreGenerated
    <3>4. QED
      BY <2>1, <3>3, <1>q
  <2>4. QED
    BY <2>2, <2>3
<1>3. CASE Write
  <2>1. subject' = subject
    BY <1>3 DEF Write
  <2>2. DOMAIN job'.content \subseteq Generated
    <3>1. CASE job' = Resting
      BY <3>1 DEF Resting
    <3>2. CASE job' # Resting
      <4>1. job' = [job EXCEPT !.writes = Tail(@),
                               !.content = Restrict(@, DOMAIN @ \ {Head(job.writes)})]
        BY <1>3, <3>2 DEF Write
      <4>2. job'.content = Restrict(job.content, DOMAIN job.content \ {Head(job.writes)})
        BY <4>1 DEF Shape
      <4>3. DOMAIN job'.content = DOMAIN job.content \ {Head(job.writes)}
        BY <4>2 DEF Restrict
      <4>4. QED
        BY <4>3 DEF Known
    <3>3. QED
      BY <3>1, <3>2
  <2>3. CASE Head(job.writes) \in DOMAIN job.content
    <3>1. files' = [files EXCEPT ![Head(job.writes)] = job.content[Head(job.writes)]]
      BY <1>3, <2>3 DEF Write, Rewrite
    <3>2. Head(job.writes) # "scripts"
      BY <2>3, Names DEF Known
    <3>3. DOMAIN files' = DOMAIN files /\ files'["scripts"] = files["scripts"]
      BY <3>1, <3>2
    <3>4. QED
      BY <2>1, <2>2, <3>3, <1>q
  <2>4. CASE Head(job.writes) \notin DOMAIN job.content
    <3>1. files' = files
      BY <1>3, <2>4 DEF Write
    <3>2. QED
      BY <2>1, <2>2, <3>1, <1>q
  <2>5. QED
    BY <2>3, <2>4
<1>4. CASE Kill
  <2>1. files' = files /\ subject' = subject /\ DOMAIN job'.content = {}
    BY <1>4 DEF Kill, Resting
  <2>2. QED
    BY <2>1, <1>q
<1>5. CASE ChainMoves
  BY <1>5, <1>q DEF ChainMoves, Known
<1>6. ASSUME NEW p, Begin(p) PROVE Known'
  BY <1>6, <1>q DEF Begin, Known
<1>7. ASSUME NEW c, Check(c) PROVE Known'
  BY <1>7, <1>q DEF Check, Known
<1>8. CASE UNCHANGED vars
  BY <1>8, <1>q DEF vars, Known
<1>9. QED
  BY <1>1, <1>2, <1>3, <1>4, <1>5, <1>6, <1>7, <1>8 DEF Next

\* A check that stands after a step stood before it, or is the step, and nothing it read
\* has changed.
LEMMA StandsByTheStep ==
    ASSUME [Next]_vars, NEW c \in passed'
    PROVE  /\ subject' = subject /\ files' = files
           /\ c \in {"verifyOnboarding", "verifyOnchain"} => chain' = chain
           /\ c \in passed \/ Passes(c)
<1> DEFINE Same == /\ subject' = subject /\ files' = files
                   /\ c \in {"verifyOnboarding", "verifyOnchain"} => chain' = chain
                   /\ c \in passed \/ Passes(c)
<1>r. ASSUME NEW new, NEW listed, Rewrite(new, listed) PROVE files' = files /\ passed' = passed
  BY <1>r DEF Rewrite
<1>1. ASSUME NEW d \in DOMAIN Authored, Edit(d) PROVE Same
  <2>1. Rewrite([files EXCEPT ![d] = "new"], d \in CHECKSUM_FILES)
    BY <1>1 DEF Edit
  <2>2. files' = files /\ passed' = passed
    BY <2>1, <1>r
  <2>3. QED
    BY <2>2, <1>1 DEF Edit
<1>2. ASSUME NEW g \in DOMAIN Outputs, Generate(g) PROVE Same
  BY <1>2 DEF Generate
<1>3. CASE Write
  <2>1. files' = files /\ passed' = passed
    <3>1. CASE Head(job.writes) \in DOMAIN job.content
      <4>1. Rewrite([files EXCEPT ![Head(job.writes)] = job.content[Head(job.writes)]],
                    Head(job.writes) \in CHECKSUM_FILES)
        BY <1>3, <3>1 DEF Write
      <4>2. QED
        BY <4>1, <1>r
    <3>2. CASE Head(job.writes) \notin DOMAIN job.content
      BY <1>3, <3>2 DEF Write
    <3>3. QED
      BY <3>1, <3>2
  <2>2. QED
    BY <2>1, <1>3 DEF Write
<1>4. CASE Kill
  BY <1>4 DEF Kill
<1>5. CASE ChainMoves
  BY <1>5 DEF ChainMoves
<1>6. ASSUME NEW p, Begin(p) PROVE Same
  BY <1>6 DEF Begin
<1>7. ASSUME NEW k, Check(k) PROVE Same
  BY <1>7 DEF Check
<1>8. CASE UNCHANGED vars
  BY <1>8 DEF vars
<1>9. QED
  BY <1>1, <1>2, <1>3, <1>4, <1>5, <1>6, <1>7, <1>8 DEF Next

\* Each statement that nothing rebuilds is the hub's, or is uncompared.
Connected ==
    \A r \in DOMAIN files \ Rebuilt :
        files[r] = files[Hub(subject)] \/ <<subject, {r}>> \in Uncompared

\* What verify-onboarding.mjs and verify-onchain.mjs found of the contracts.
OnboardingAnswers == Agree(verifyOnboarding) /\ (subject = "status" => chain = "new")
OnchainAnswers ==
    /\ subject = "status" => files["integration"] = "new" /\ chain = "new"
    /\ Agree(verifyOnchain)

Answers ==
    /\ "validate" \in passed => Connected
    /\ "verifyOnboarding" \in passed => OnboardingAnswers
    /\ "verifyOnchain" \in passed => OnchainAnswers

LEMMA PassesSay ==
    ASSUME Known
    PROVE  /\ Passes("validate") => Connected
           /\ Passes("verifyOnboarding") => OnboardingAnswers
           /\ Passes("verifyOnchain") => OnchainAnswers
<1>1. ASSUME Passes("validate") PROVE Connected
  <2>1. Current
    BY <1>1, PassIsCurrent
  <2>2. Active /\ Agree(validateComparisons) /\ Agree(validateIndexingPackage)
    BY <1>1 DEF Passes
  <2>3. QED
    BY <2>1, <2>2, RootsConnect DEF Connected, Known
<1>2. Passes("verifyOnboarding") => OnboardingAnswers
  BY DEF Passes, OnboardingAnswers
<1>3. Passes("verifyOnchain") => OnchainAnswers
  BY DEF Passes, OnchainAnswers
<1>4. QED
  BY <1>1, <1>2, <1>3

LEMMA AnswersKept == Known /\ Answers /\ [Next]_vars => Answers'
<1> SUFFICES ASSUME Known, Answers, [Next]_vars PROVE Answers'
  OBVIOUS
<1>1. ASSUME "validate" \in passed' PROVE Connected'
  <2>1. subject' = subject /\ files' = files /\ ("validate" \in passed \/ Passes("validate"))
    BY <1>1, StandsByTheStep
  <2>2. Connected
    BY <2>1, PassesSay DEF Answers
  <2>3. QED
    BY <2>1, <2>2 DEF Connected
<1>2. ASSUME "verifyOnboarding" \in passed' PROVE OnboardingAnswers'
  <2>1. /\ subject' = subject /\ files' = files /\ chain' = chain
        /\ "verifyOnboarding" \in passed \/ Passes("verifyOnboarding")
    BY <1>2, StandsByTheStep
  <2>2. OnboardingAnswers
    BY <2>1, PassesSay DEF Answers
  <2>3. QED
    BY <2>1, <2>2 DEF OnboardingAnswers, Agree, Statement
<1>3. ASSUME "verifyOnchain" \in passed' PROVE OnchainAnswers'
  <2>1. /\ subject' = subject /\ files' = files /\ chain' = chain
        /\ "verifyOnchain" \in passed \/ Passes("verifyOnchain")
    BY <1>3, StandsByTheStep
  <2>2. OnchainAnswers
    BY <2>1, PassesSay DEF Answers
  <2>3. QED
    BY <2>1, <2>2 DEF OnchainAnswers, Agree, Statement
<1>4. QED
  BY <1>1, <1>2, <1>3 DEF Answers

LEMMA AnswersInvariant == Spec => [](IInv /\ Known /\ Answers)
<1>1. Init => Answers
  BY DEF Init, Answers
<1>2. IInv /\ Known /\ [Next]_vars => Known'
  BY KnownKept DEF IInv
<1>3. QED
  BY Invariant, KnownAtFirst, AnswersKept, <1>1, <1>2, PTL DEF Spec

\* ValidatedDocumentsAgree for every set of facts a release may change: two documents
\* that state the fact say the same after a pass of validate.mjs, but for those taken from
\* a statement no comparison reaches.
THEOREM ValidatedAgree == Spec => []ValidatedDocumentsAgree
<1>1. IInv /\ Known /\ Answers => ValidatedDocumentsAgree
  <2> SUFFICES ASSUME IInv, Known, Answers, "validate" \in passed,
                      NEW d \in DOMAIN files, NEW e \in DOMAIN files,
                      \A u \in {d, e} : <<subject, {Root(u, subject)}>> \notin Uncompared
               PROVE  files[d] = files[e]
    BY DEF ValidatedDocumentsAgree
  <2>1. Current /\ Connected /\ Stated
    BY DEF IInv, Standing, Answers, Known
  <2>2. ASSUME NEW u \in {d, e} PROVE files[u] = files[Hub(subject)]
    <3>1. u \in DOMAIN files
      OBVIOUS
    <3>2. Root(u, subject) \in DOMAIN files \ Rebuilt /\ files[u] = files[Root(u, subject)]
      BY <2>1, <3>1, Rooted
    <3>3. QED
      BY <2>1, <3>2 DEF Connected
  <2>3. QED
    BY <2>2
<1>2. QED
  BY AnswersInvariant, <1>1, PTL

LEMMA UncomparedOnly ==
    ASSUME NEW S, NEW d, NEW r, <<subject, {r}>> \in Compare(S, d, d)
    PROVE  subject \in S /\ r = d
BY DEF Compare

\* Of the facts the contracts answer, what is uncompared and yet verified.
LEMMA UncomparedOnChain ==
    ASSUME NEW r, <<subject, {r}>> \in Uncompared, subject \in OnChain
    PROVE  <<subject, {r}>> \in Unverified \/ (subject = "discoveryURI" /\ r = "discovery")
<1>v. \A S, d : subject \in S => <<subject, {d}>> \in Compare(S, d, d)
  BY UncomparedOne
<1>1. subject \notin {"profile", "permitEndpoints", "deployment", "level", "sdkVectors"}
  BY DEF OnChain
<1>2. CASE <<subject, {r}>> \in
             Compare({"release", "profile", "discoveryURI", "permitEndpoints"},
                     "discovery", "discovery")
  <2>1. r = "discovery" /\ subject \in {"release", "discoveryURI"}
    BY <1>1, <1>2, UncomparedOnly
  <2>2. subject = "release" => <<subject, {"discovery"}>> \in Unverified
    BY UncomparedOne DEF Unverified
  <2>3. QED
    BY <2>1, <2>2
<1>3. CASE <<subject, {r}>> \in Compare({"release", "resolverId"}, "vetting", "vetting")
  BY <1>3 DEF Unverified
<1>4. CASE <<subject, {r}>> \in
             Compare({"codeHash", "deployment"}, "indexingEvidence", "indexingEvidence")
  <2>1. r = "indexingEvidence" /\ subject \in {"codeHash"}
    BY <1>1, <1>4, UncomparedOnly
  <2>2. QED
    BY <2>1, UncomparedOne DEF Unverified
<1>5. CASE <<subject, {r}>> \in
             Compare({"resolverHash", "oifHash", "oifId", "level"}, "integration", "integration")
  <2>1. r = "integration" /\ subject \in {"resolverHash", "oifHash", "oifId"}
    BY <1>1, <1>5, UncomparedOnly
  <2>2. QED
    BY <2>1, UncomparedOne DEF Unverified
<1>6. CASE <<subject, {r}>> \in Compare({"level"}, "standardIds", "standardIds")
  BY <1>1, <1>6, UncomparedOnly
<1>7. CASE <<subject, {r}>> \in
             Compare({"sdkVectors", "release"}, "sdkVectorScript", "sdkVectorScript")
  <2>1. r = "sdkVectorScript" /\ subject \in {"release"}
    BY <1>1, <1>7, UncomparedOnly
  <2>2. QED
    BY <2>1, UncomparedOne DEF Unverified
<1>8. CASE <<subject, {r}>> \in Compare({"release"}, "sdkVectors", "sdkVectors")
  BY <1>8 DEF Unverified
<1>9. QED
  BY <1>2, <1>3, <1>4, <1>5, <1>6, <1>7, <1>8 DEF Uncompared

LEMMA ChainCompared ==
    ASSUME NEW S, NEW d, d # "chain", Agree(Compare(S, d, "chain")), subject \in S
    PROVE  files[d] = chain
<1>1. <<subject, {d, "chain"}>> \in Compare(S, d, "chain")
  BY DEF Compare
<1>2. Statement(d) = Statement("chain")
  BY <1>1 DEF Agree
<1>3. QED
  BY <1>2 DEF Statement

\* The hub of a fact the contracts answer says what they answer.
LEMMA HubIsTheChains ==
    ASSUME Known, Current, Connected, OnboardingAnswers, OnchainAnswers, subject \in OnChain
    PROVE  /\ files[Hub(subject)] = chain
           /\ subject = "discoveryURI" => files["discovery"] = chain
<1>1. Agree(contractsMatch) /\ Agree(modulesMatch) /\ Agree(fingerprintMatch)
  <2>1. /\ contractsMatch \subseteq verifyOnchain
        /\ modulesMatch \subseteq verifyOnchain
        /\ fingerprintMatch \subseteq verifyOnchain
    BY DEF verifyOnchain
  <2>2. QED
    BY <2>1, AgreeWithin DEF OnchainAnswers
<1>2. subject \in {"facade", "router", "codeHash", "release"} => files["integration"] = chain
  <2>1. Compare({"facade", "router", "codeHash", "release"}, "integration", "chain")
          \subseteq contractsMatch
    BY DEF contractsMatch
  <2>2. QED
    BY <1>1, <2>1, AgreeWithin, ChainCompared
<1>3. subject \in {"resolver", "resolverHash", "resolverId", "oif", "oifHash", "oifId"} =>
        files["standardIds"] = chain
  BY <1>1, ChainCompared DEF modulesMatch
<1>4. subject = "discoveryURI" => files["discovery"] = chain
  <2>1. Compare({"discoveryURI"}, "discovery", "chain") \subseteq contractsMatch
    BY DEF contractsMatch
  <2>2. QED
    BY <1>1, <2>1, AgreeWithin, ChainCompared
<1>5. subject = "status" => files["integration"] = chain
  BY DEF OnchainAnswers
\* The discovery URI: the chain's is the discovery section's, which the fingerprint
\* repeats from the endpoints.
<1>6. subject = "discoveryURI" => files["integration"] = chain
  <2> SUFFICES ASSUME subject = "discoveryURI" PROVE files["integration"] = chain
    OBVIOUS
  <2>1. Compare({"discoveryURI"}, "onchainDiscovery", "discovery") \subseteq fingerprintMatch
    BY DEF fingerprintMatch
  <2>2. files["onchainDiscovery"] = files["discovery"]
    BY <1>1, <2>1, AgreeWithin, ComparedAgree
  <2>3. files["onchainDiscovery"] = files["publicEndpoints"]
    BY DiscoveryTakes DEF Known
  <2>4. "publicEndpoints" \in DOMAIN files \ Rebuilt
    BY Names DEF Known, Stated, Stating, Authored, Rebuilt
  <2>5. <<subject, {"publicEndpoints"}>> \notin Uncompared
    BY DEF Uncompared, Compare
  <2>6. files["publicEndpoints"] = files["integration"]
    BY <2>4, <2>5 DEF Connected, Hub
  <2>7. QED
    BY <1>4, <2>2, <2>3, <2>6
<1>7. subject \in {"release", "status", "facade", "router", "codeHash", "discoveryURI",
                   "resolver", "resolverHash", "resolverId", "oif", "oifHash", "oifId"}
  BY DEF OnChain
<1>8. QED
  BY <1>2, <1>3, <1>4, <1>5, <1>6, <1>7 DEF Hub

\* ReleasedDocumentsStateTheChain for every set of facts: when the release check has
\* passed, every document says what the contracts answer, but for those taken from a
\* statement the check holds against nothing.
THEOREM ReleasedStateTheChain == Spec => []ReleasedDocumentsStateTheChain
<1>1. IInv /\ Known /\ Answers => ReleasedDocumentsStateTheChain
  <2> SUFFICES ASSUME IInv, Known, Answers,
                      {"validate", "verifyOnboarding", "verifyOnchain"} \subseteq passed,
                      subject \in OnChain, NEW d \in DOMAIN files,
                      <<subject, {Root(d, subject)}>> \notin Unverified
               PROVE  files[d] = chain
    BY DEF ReleasedDocumentsStateTheChain
  <2>1. Current /\ Connected /\ OnboardingAnswers /\ OnchainAnswers
    BY DEF IInv, Standing, Answers
  <2>2. Root(d, subject) \in DOMAIN files \ Rebuilt /\ files[d] = files[Root(d, subject)]
    BY <2>1, Rooted DEF Known
  <2>3. /\ files[Hub(subject)] = chain
        /\ subject = "discoveryURI" => files["discovery"] = chain
    BY <2>1, HubIsTheChains
  <2>4. CASE <<subject, {Root(d, subject)}>> \in Uncompared
    BY <2>2, <2>3, <2>4, UncomparedOnChain
  <2>5. CASE <<subject, {Root(d, subject)}>> \notin Uncompared
    BY <2>1, <2>2, <2>3, <2>5 DEF Connected
  <2>6. QED
    BY <2>4, <2>5
<1>2. QED
  BY AnswersInvariant, <1>1, PTL

(***************************************************************************)
(* The rounds of the README: which command is at the head of the plan, and *)
(* which documents the running one has yet to write.                       *)
(***************************************************************************)
Cmds == ReadmeBlock.commands

Commands ==
    {"solverManifest", "onchain", "standards", "standardVectors", "abi", "openapi", "onboarding",
     "sdkVectors", "indexing", "checksums", "validate", "validateIndexing", "verifyOnchain"}

Docs == Generated \cup {"checksums"}

\* How many commands of the block are left once a generator has run.
Due ==
    [solverManifest |-> 13, onchain |-> 12, standards |-> 11, standardVectors |-> 10, abi |-> 9,
     openapi |-> 8, onboarding |-> 7, sdkVectors |-> 6, indexing |-> 5, checksums |-> 4]

LEMMA OutputNames ==
    DOMAIN Outputs = {"abi", "solverManifest", "onchain", "standards", "standardVectors",
                      "onboarding", "openapi", "sdkVectors", "indexing", "checksums"}
BY DEF Outputs

LEMMA CommandOrder ==
    /\ Len(Cmds) = 14 /\ Cmds \in Seq(Commands)
    /\ \A g \in DOMAIN Outputs :
          /\ Due[g] \in 4 .. 13 /\ Cmds[14 - Due[g]] = g
          /\ g # "checksums" => Due[g] >= 5
    /\ \A i \in 1 .. 14 : Cmds[i] = "indexing" => i \in {9, 12}
    /\ \A i \in 1 .. 14 : Cmds[i] = "checksums" => i = 10
<1>1. Cmds = <<"solverManifest", "onchain", "standards", "standardVectors", "abi", "openapi",
               "onboarding", "sdkVectors", "indexing", "checksums", "validate", "indexing",
               "validateIndexing", "verifyOnchain">>
  BY DEF Cmds, ReadmeBlock
<1>2. Len(Cmds) = 14
  BY <1>1
<1>3. Cmds \in Seq(Commands)
  BY <1>1 DEF Commands
<1>4. ASSUME NEW g \in DOMAIN Outputs
      PROVE  /\ Due[g] \in 4 .. 13 /\ Cmds[14 - Due[g]] = g
             /\ g # "checksums" => Due[g] >= 5
  BY <1>1, <1>4, OutputNames DEF Due
<1>5. \A i \in 1 .. 14 : Cmds[i] = "indexing" => i \in {9, 12}
  BY <1>1
<1>6. \A i \in 1 .. 14 : Cmds[i] = "checksums" => i = 10
  BY <1>1
<1>7. QED
  BY <1>2, <1>3, <1>4, <1>5, <1>6

\* What the generators write: the digests are written alone.
LEMMA OutputSequences ==
    ASSUME NEW g \in DOMAIN Outputs
    PROVE  /\ Outputs[g] \in Seq(Docs) /\ Outputs[g] # <<>>
           /\ Range(Outputs[g]) \subseteq Docs
           /\ "checksums" \in Range(Outputs[g]) => g = "checksums" /\ Outputs[g] = <<"checksums">>
<1>1. /\ buildIndexingArtifacts \in Seq(Docs) /\ buildIndexingArtifacts # <<>>
      /\ "checksums" \notin Range(buildIndexingArtifacts)
  <2>1. buildIndexingArtifacts \in Seq(Docs)
    BY Names DEF buildIndexingArtifacts, Docs
  <2>2. buildIndexingArtifacts # <<>>
    BY DEF buildIndexingArtifacts
  <2>3. "checksums" \notin Range(buildIndexingArtifacts)
    BY DEF buildIndexingArtifacts, Range
  <2>4. QED
    BY <2>1, <2>2, <2>3
<1>2. /\ generateStandardsManifest \in Seq(Docs) /\ generateStandardsManifest # <<>>
      /\ "checksums" \notin Range(generateStandardsManifest)
  BY Names DEF generateStandardsManifest, Docs, Range
<1>3. ASSUME NEW d \in Docs
      PROVE  <<d>> \in Seq(Docs) /\ <<d>> # <<>> /\ Range(<<d>>) = {d}
  BY DEF Range
<1>4. CASE g = "indexing"
  <2>1. Outputs[g] = buildIndexingArtifacts
    BY <1>4 DEF Outputs
  <2>2. QED
    BY <1>1, <2>1, OutputsAreGenerated DEF Docs
<1>5. CASE g = "standards"
  <2>1. Outputs[g] = generateStandardsManifest
    BY <1>5 DEF Outputs
  <2>2. QED
    BY <1>2, <2>1, OutputsAreGenerated DEF Docs
<1>6. CASE g = "checksums"
  <2>1. Outputs[g] = <<"checksums">>
    BY <1>6 DEF Outputs
  <2>2. QED
    BY <1>3, <1>6, <2>1 DEF Docs
<1>7. CASE g \notin {"indexing", "standards", "checksums"}
  <2>1. \/ Outputs[g] = <<"abi">> \/ Outputs[g] = <<"solverManifest">>
        \/ Outputs[g] = <<"onchainDiscovery">> \/ Outputs[g] = <<"standardVectors">>
        \/ Outputs[g] = <<"onboarding">> \/ Outputs[g] = <<"openapi">>
        \/ Outputs[g] = <<"sdkVectors">>
    BY <1>7 DEF Outputs
  <2>2. PICK d \in Generated : Outputs[g] = <<d>>
    BY <2>1, Names
  <2>3. d \in Docs /\ d # "checksums"
    BY Names DEF Docs
  <2>4. Outputs[g] \in Seq(Docs) /\ Outputs[g] # <<>> /\ Range(Outputs[g]) = {d}
    BY <1>3, <2>2, <2>3
  <2>5. QED
    BY <2>3, <2>4
<1>8. QED
  BY <1>4, <1>5, <1>6, <1>7

LEMMA OneElement == ASSUME NEW d PROVE Range(<<d>>) = {d}
BY DEF Range

\* Every generated document has a generator.
LEMMA SomeoneWrites ==
    ASSUME NEW d \in Generated
    PROVE  \E g \in DOMAIN Outputs \ {"checksums"} : d \in Range(Outputs[g])
<1>1. \A e \in {"events", "indexingConfig", "indexingManifest", "fixtures", "rustTopics",
                "graphAbis", "graphManifests", "substreamsManifests"} :
         e \in Range(buildIndexingArtifacts)
  BY DEF Range, buildIndexingArtifacts
<1>2. \A e \in {"standardsManifest", "publicStandards"} : e \in Range(generateStandardsManifest)
  BY DEF Range, generateStandardsManifest
<1>3. /\ Outputs["indexing"] = buildIndexingArtifacts
      /\ Outputs["standards"] = generateStandardsManifest
      /\ Outputs["onchain"] = <<"onchainDiscovery">>
      /\ \A e \in {"abi", "solverManifest", "standardVectors", "onboarding", "openapi",
                   "sdkVectors"} : Outputs[e] = <<e>>
  BY DEF Outputs
<1>4. CASE d \in {"abi", "solverManifest", "standardVectors", "onboarding", "openapi",
    "sdkVectors"}
  BY <1>3, <1>4, OneElement, OutputNames
<1>5. CASE d = "onchainDiscovery"
  BY <1>3, <1>5, OneElement, OutputNames
<1>6. CASE d \in {"standardsManifest", "publicStandards"}
  BY <1>2, <1>3, <1>6, OutputNames
<1>7. CASE d \in {"events", "indexingConfig", "indexingManifest", "fixtures", "rustTopics",
                  "graphAbis", "graphManifests", "substreamsManifests"}
  BY <1>1, <1>3, <1>7, OutputNames
<1>8. QED
  BY <1>4, <1>5, <1>6, <1>7, Names

\* The documents that read the standards manifest's file are the indexing generator's.
LEMMA OneWritesThePackage ==
    ASSUME NEW g \in DOMAIN Outputs, NEW d \in Range(Outputs[g]),
           d \in {"indexingConfig", "fixtures", "graphManifests", "substreamsManifests"}
    PROVE  g = "indexing"
<1>1. Range(generateStandardsManifest) \subseteq {"standardsManifest", "publicStandards"}
  BY DEF Range, generateStandardsManifest
<1>2. /\ Outputs["standards"] = generateStandardsManifest
      /\ Outputs["onchain"] = <<"onchainDiscovery">>
      /\ \A e \in {"abi", "solverManifest", "standardVectors", "onboarding", "openapi",
                   "sdkVectors", "checksums"} : Outputs[e] = <<e>>
  BY DEF Outputs
<1>3. CASE g = "standards"
  BY <1>1, <1>2, <1>3
<1>4. CASE g = "onchain"
  BY <1>2, <1>4, OneElement
<1>5. CASE g \in {"abi", "solverManifest", "standardVectors", "onboarding", "openapi",
                  "sdkVectors", "checksums"}
  BY <1>2, <1>5, OneElement
<1>6. QED
  BY <1>3, <1>4, <1>5, OutputNames

LEMMA NotEmpty == ASSUME NEW S, NEW s \in Seq(S), s # <<>> PROVE Len(s) >= 1
OBVIOUS

LEMMA HeadAndTail ==
    ASSUME NEW S, NEW s \in Seq(S), s # <<>>
    PROVE  /\ Head(s) \in Range(s) /\ Tail(s) \in Seq(S)
           /\ Range(Tail(s)) \subseteq Range(s)
           /\ Range(s) \subseteq Range(Tail(s)) \cup {Head(s)}
           /\ Len(s) = 1 => Range(s) = {Head(s)}
           /\ Len(s) # 1 => Tail(s) # <<>>
<1>1. Len(s) \in Nat /\ Len(s) >= 1 /\ DOMAIN s = 1 .. Len(s) /\ Head(s) = s[1]
  BY NotEmpty
<1>2. Tail(s) \in Seq(S) /\ Len(Tail(s)) = Len(s) - 1 /\ DOMAIN Tail(s) = 1 .. Len(s) - 1
  BY <1>1
<1>3. \A i \in 1 .. Len(s) - 1 : Tail(s)[i] = s[i + 1]
  BY <1>1
<1>4. Head(s) \in Range(s)
  BY <1>1 DEF Range
<1>5. Range(Tail(s)) \subseteq Range(s)
  BY <1>1, <1>2, <1>3 DEF Range
<1>6. ASSUME NEW x \in Range(s) PROVE x \in Range(Tail(s)) \cup {Head(s)}
  <2>1. PICK i \in 1 .. Len(s) : x = s[i]
    BY <1>1 DEF Range
  <2>2. CASE i = 1
    BY <1>1, <2>1, <2>2
  <2>3. CASE i # 1
    <3>1. i - 1 \in 1 .. Len(s) - 1 /\ Tail(s)[i - 1] = s[i]
      BY <1>1, <1>3, <2>1, <2>3
    <3>2. QED
      BY <1>2, <2>1, <3>1 DEF Range
  <2>4. QED
    BY <2>2, <2>3
<1>7. ASSUME Len(s) = 1 PROVE Range(s) = {Head(s)}
  <2>1. DOMAIN s = {1}
    BY <1>1, <1>7
  <2>2. QED
    BY <1>1, <2>1 DEF Range
<1>8. ASSUME Len(s) # 1 PROVE Tail(s) # <<>>
  <2>1. Len(<<>>) = 0
    OBVIOUS
  <2>2. Len(Tail(s)) # 0
    BY <1>1, <1>2, <1>8
  <2>3. QED
    BY <2>1, <2>2
<1>9. QED
  BY <1>2, <1>4, <1>5, <1>6, <1>7, <1>8

\* A plan without an edit is what is left of the README's block.
FollowsReadme(p) ==
    /\ ~p.stops /\ p.commands \in Seq(Commands) /\ Len(p.commands) <= 14
    /\ \A i \in 1 .. Len(p.commands) : p.commands[i] = Cmds[14 - Len(p.commands) + i]

PlanShape == plan = [commands |-> plan.commands, stops |-> plan.stops, clean |-> plan.clean]
Planned == PlanShape /\ (plan.clean => FollowsReadme(plan))

LEMMA HeadOfReadme ==
    ASSUME NEW p, FollowsReadme(p), p.commands # <<>>
    PROVE  Len(p.commands) \in 1 .. 14 /\ Head(p.commands) = Cmds[15 - Len(p.commands)]
<1> DEFINE s == p.commands
           n == Len(s)
<1>1. s \in Seq(Commands) /\ s # <<>> /\ n <= 14 /\ \A i \in 1 .. n : s[i] = Cmds[14 - n + i]
  BY DEF FollowsReadme
<1>2. n \in Nat /\ n >= 1 /\ Head(s) = s[1]
  BY <1>1, NotEmpty
<1> HIDE DEF s, n
<1>3. s[1] = Cmds[14 - n + 1]
  BY <1>1, <1>2
<1>4. 14 - n + 1 = 15 - n
  BY <1>2
<1>5. n \in 1 .. 14 /\ Head(s) = Cmds[15 - n]
  BY <1>1, <1>2, <1>3, <1>4
<1>6. QED
  BY <1>5 DEF s, n

LEMMA IdleIs == Idle = [commands |-> <<>>, stops |-> TRUE, clean |-> FALSE]
BY DEF Idle

LEMMA ProceedsInReadme ==
    ASSUME Planned, plan.commands # <<>>, NEW ok, plan' = Proceed(ok)
    PROVE  /\ Planned'
           /\ plan'.clean => plan.clean /\ Len(plan'.commands) = Len(plan.commands) - 1
<1>1. CASE plan' = Idle
  BY <1>1, IdleIs DEF Planned, PlanShape
<1>2. CASE plan' # Idle
  <2>1. plan' = [plan EXCEPT !.commands = Tail(@)]
    BY <1>2 DEF Proceed
  <2>2. plan' = [commands |-> Tail(plan.commands), stops |-> plan.stops, clean |-> plan.clean]
    BY <2>1 DEF Planned, PlanShape
  <2>3. PlanShape'
    BY <2>2 DEF PlanShape
  <2>4. ASSUME plan'.clean
        PROVE  /\ plan.clean /\ Len(plan'.commands) = Len(plan.commands) - 1
               /\ FollowsReadme(plan')
    <3>1. plan.clean /\ plan'.commands = Tail(plan.commands) /\ plan'.stops = plan.stops
      BY <2>2, <2>4
    <3> DEFINE s == plan.commands
               t == plan'.commands
    <3>2. s \in Seq(Commands) /\ s # <<>> /\ Len(s) <= 14 /\ ~plan.stops
      BY <3>1 DEF Planned, FollowsReadme
    <3>3. \A i \in 1 .. Len(s) : s[i] = Cmds[14 - Len(s) + i]
      BY <3>1 DEF Planned, FollowsReadme
    <3>4. t = Tail(s)
      BY <3>1
    <3> HIDE DEF s, t
    <3>5. Len(s) \in Nat /\ Len(s) >= 1
      BY <3>2, NotEmpty
    <3>6. t \in Seq(Commands) /\ Len(t) = Len(s) - 1 /\ \A i \in 1 .. Len(t) : t[i] = s[i + 1]
      BY <3>2, <3>4, <3>5
    <3>7. ASSUME NEW i \in 1 .. Len(t) PROVE t[i] = Cmds[14 - Len(t) + i]
      <4>1. i + 1 \in 1 .. Len(s) /\ 14 - Len(s) + (i + 1) = 14 - Len(t) + i
        BY <3>5, <3>6
      <4>2. t[i] = s[i + 1] /\ s[i + 1] = Cmds[14 - Len(s) + (i + 1)]
        BY <3>3, <3>6, <4>1
      <4>3. QED
        BY <4>1, <4>2
    <3>8. Len(t) <= 14
      BY <3>2, <3>5, <3>6
    <3>9. Len(t) = Len(s) - 1 /\ t \in Seq(Commands)
      BY <3>6
    <3>10. QED
      BY <3>1, <3>2, <3>7, <3>8, <3>9 DEF s, t, FollowsReadme
  <2>5. QED
    BY <2>3, <2>4 DEF Planned
<1>3. QED
  BY <1>1, <1>2

LEMMA ReadmeFollows ==
    /\ FollowsReadme(ReadmeBlock)
    /\ ReadmeBlock = [commands |-> Cmds, stops |-> FALSE, clean |-> TRUE]
<1>1. ReadmeBlock = [commands |-> Cmds, stops |-> FALSE, clean |-> TRUE]
  BY DEF ReadmeBlock, Cmds
<1>2. ReadmeBlock.commands = Cmds /\ ~ReadmeBlock.stops
  BY <1>1
<1>3. \A i \in 1 .. Len(Cmds) : Cmds[i] = Cmds[14 - Len(Cmds) + i]
  BY CommandOrder
<1>4. FollowsReadme(ReadmeBlock)
  BY <1>2, <1>3, CommandOrder DEF FollowsReadme
<1>5. QED
  BY <1>1, <1>4

\* What the running generator has yet to write is the rest of its output.
Working ==
    /\ subject \in Facts /\ Planned
    /\ job.writes \in Seq(Docs) /\ DOMAIN job.content \subseteq Range(job.writes)
    /\ "checksums" \in Range(job.writes) => job.writes = <<"checksums">>
    /\ job # Resting =>
          /\ job.writes # <<>> /\ plan.commands # <<>> /\ Head(plan.commands) \in DOMAIN Outputs
          /\ Range(job.writes) \subseteq Range(Outputs[Head(plan.commands)])

LEMMA RestingWorks ==
    /\ Resting.writes \in Seq(Docs) /\ DOMAIN Resting.content \subseteq Range(Resting.writes)
    /\ "checksums" \notin Range(Resting.writes)
    /\ Resting.writes = <<>> /\ Resting.intact
<1>1. Resting.writes = <<>> /\ DOMAIN Resting.content = {} /\ Resting.intact
  BY DEF Resting
<1>2. Range(<<>>) = {}
  BY DEF Range
<1>3. QED
  BY <1>1, <1>2

LEMMA AtRest ==
    ASSUME job = Resting, subject \in Facts, Planned
    PROVE  Working
BY RestingWorks DEF Working

LEMMA WorksAtFirst == Init => Working
<1> SUFFICES ASSUME Init PROVE Working
  OBVIOUS
<1>1. job = Resting /\ plan = Idle /\ subject \in Facts
  BY SubjectsAssumption DEF Init
<1>2. Planned
  BY <1>1, IdleIs DEF Planned, PlanShape
<1>3. QED
  BY <1>1, <1>2, AtRest

LEMMA AtRestNext ==
    ASSUME job' = Resting, subject' \in Facts, Planned'
    PROVE  Working'
BY RestingWorks DEF Working

LEMMA EditKeepsJob ==
    ASSUME Shape, Working, NEW d \in DOMAIN Authored, Edit(d)
    PROVE  /\ subject' = subject /\ job'.writes = job.writes /\ job'.content = job.content
           /\ plan'.commands = plan.commands /\ ~plan'.clean /\ PlanShape'
           /\ job = Resting => job' = Resting
<1>1. job' = job \/ job' = [job EXCEPT !.intact = @ /\ d \notin CHECKSUM_FILES]
  BY DEF Edit
<1>2. job'.writes = job.writes /\ job'.content = job.content
  BY <1>1 DEF Shape
<1>3. plan' = [plan EXCEPT !.clean = FALSE] /\ subject' = subject
  BY DEF Edit
<1>4. plan' = [commands |-> plan.commands, stops |-> plan.stops, clean |-> FALSE]
  BY <1>3 DEF Working, Planned, PlanShape
<1>5. ASSUME job = Resting PROVE job' = Resting
  <2>1. <<>> # <<"checksums">>
    OBVIOUS
  <2>2. job.writes # <<"checksums">>
    BY <1>5, <2>1, RestingWorks
  <2>3. QED
    BY <1>5, <2>2 DEF Edit
<1>6. PlanShape'
  BY <1>4 DEF PlanShape
<1>7. QED
  BY <1>2, <1>3, <1>4, <1>5, <1>6

LEMMA BegunIsPlanned ==
    ASSUME plan' = ReadmeBlock \/ plan' = ReleaseCheck \/ \E g : plan' = Alone(g)
    PROVE  Planned' /\ (plan'.clean => plan' = ReadmeBlock)
<1>1. CASE plan' = ReadmeBlock
  BY <1>1, ReadmeFollows DEF Planned, PlanShape
<1>2. CASE plan' = ReleaseCheck
  <2>1. PlanShape' /\ ~plan'.clean
    BY <1>2 DEF ReleaseCheck, PlanShape
  <2>2. QED
    BY <2>1 DEF Planned
<1>3. ASSUME NEW g, plan' = Alone(g) PROVE Planned' /\ ~plan'.clean
  BY <1>3 DEF Alone, Planned, PlanShape
<1>4. QED
  BY <1>1, <1>2, <1>3

\* The steps, the three beginnings as one.
BeginSome ==
    \/ \E g \in DOMAIN Outputs : Begin(Alone(g))
    \/ Begin(ReadmeBlock)
    \/ Begin(ReleaseCheck)

LEMMA Begins ==
    ASSUME BeginSome
    PROVE  /\ Planned' /\ (plan'.clean => plan' = ReadmeBlock)
           /\ job = Resting /\ UNCHANGED <<subject, files, digests, chain, job, passed, rounds>>
<1>1. plan' = ReadmeBlock \/ plan' = ReleaseCheck \/ \E g : plan' = Alone(g)
  BY DEF BeginSome, Begin
<1>2. job = Resting /\ UNCHANGED <<subject, files, digests, chain, job, passed, rounds>>
  BY DEF BeginSome, Begin
<1>3. QED
  BY <1>1, <1>2, BegunIsPlanned

checking == {"validate", "validateIndexing", "verifyOnboarding", "verifyOnchain"}

LEMMA Actions ==
    [Next]_vars =>
        \/ \E d \in DOMAIN Authored : Edit(d)
        \/ ChainMoves \/ UNCHANGED vars
        \/ BeginSome
        \/ \E g \in DOMAIN Outputs : Generate(g)
        \/ Write
        \/ Kill
        \/ \E c \in checking : Check(c)
BY DEF Next, BeginSome, checking

\* A generator either has nothing to do, or cannot, or has read its documents.
PassesOver(g) ==
    \/ Range(Outputs[g]) \cap DOMAIN files = {} /\ g # "checksums"
    \/ g = "indexing" /\ ~Agree(indexingPreconditions)

Reads(g) ==
    job' = [writes |-> Outputs[g],
            content |-> [d \in Range(Outputs[g]) \cap DOMAIN files |-> files[Origin(d, subject)]],
            intact |-> TRUE]

LEMMA GenerateEither ==
    ASSUME NEW g, Generate(g)
    PROVE  /\ job = Resting /\ plan.commands # <<>> /\ Head(plan.commands) = g
           /\ UNCHANGED <<subject, files, digests, chain, passed, rounds>>
           /\ \/ PassesOver(g) /\ job' = job /\ \E ok : plan' = Proceed(ok)
              \/ Reads(g) /\ plan' = plan
<1>1. /\ job = Resting /\ plan.commands # <<>> /\ Head(plan.commands) = g
      /\ UNCHANGED <<subject, files, digests, chain, passed, rounds>>
  BY DEF Generate
<1>2. CASE PassesOver(g)
  <2>1. \E ok : plan' = Proceed(ok)
    BY <1>2 DEF Generate, PassesOver
  <2>2. job' = job
    BY <1>2 DEF Generate, PassesOver
  <2>3. QED
    BY <1>1, <1>2, <2>1, <2>2
<1>3. CASE ~PassesOver(g)
  <2>1. Reads(g) /\ plan' = plan
    BY <1>3 DEF Generate, PassesOver, Reads
  <2>2. QED
    BY <1>1, <2>1
<1>4. QED
  BY <1>2, <1>3

\* A write is the last one or leaves the rest of the output.
LEMMA WriteJob ==
    ASSUME Shape, Working, Write
    PROVE  /\ job # Resting /\ subject' = subject /\ job.writes # <<>>
           /\ Head(job.writes) \in Range(job.writes)
           /\ \/ /\ Range(job.writes) = {Head(job.writes)}
                 /\ job' = Resting /\ plan' = Proceed(TRUE)
              \/ /\ job'.writes = Tail(job.writes) /\ Tail(job.writes) # <<>> /\ plan' = plan
                 /\ job'.content = Restrict(job.content, DOMAIN job.content \ {Head(job.writes)})
                 /\ job'.intact = job.intact
<1>1. job # Resting /\ subject' = subject
  BY DEF Write
<1>2. job.writes \in Seq(Docs) /\ job.writes # <<>>
  BY <1>1 DEF Working
<1>3. CASE Len(job.writes) = 1
  <2>1. job' = Resting /\ plan' = Proceed(TRUE)
    BY <1>3 DEF Write
  <2>2. QED
    BY <1>1, <1>2, <1>3, <2>1, HeadAndTail
<1>4. CASE Len(job.writes) # 1
  <2>1. plan' = plan
    BY <1>4 DEF Write
  <2>2. job' = [job EXCEPT !.writes = Tail(@),
                           !.content = Restrict(@, DOMAIN @ \ {Head(job.writes)})]
    BY <1>4 DEF Write
  <2>3. /\ job'.writes = Tail(job.writes)
        /\ job'.content = Restrict(job.content, DOMAIN job.content \ {Head(job.writes)})
        /\ job'.intact = job.intact
    BY <2>2 DEF Shape
  <2>4. QED
    BY <1>1, <1>2, <1>4, <2>1, <2>3, HeadAndTail
<1>5. QED
  BY <1>3, <1>4

LEMMA WorkingKept == Shape /\ Working /\ [Next]_vars => Working'
<1> SUFFICES ASSUME Shape, Working, [Next]_vars PROVE Working'
  OBVIOUS
<1>p. Planned /\ subject \in Facts
  BY DEF Working
<1>q. ASSUME job' = job, plan' = plan, subject' = subject PROVE Working'
  BY <1>q DEF Working, Planned, PlanShape, FollowsReadme
<1>1. ASSUME NEW d \in DOMAIN Authored, Edit(d) PROVE Working'
  <2>1. /\ subject' = subject /\ job'.writes = job.writes /\ job'.content = job.content
        /\ plan'.commands = plan.commands /\ ~plan'.clean /\ PlanShape'
        /\ job = Resting => job' = Resting
    BY <1>1, EditKeepsJob
  <2>2. Planned'
    BY <2>1 DEF Planned
  <2>3. QED
    BY <2>1, <2>2 DEF Working
<1>2. CASE ChainMoves \/ UNCHANGED vars
  BY <1>2, <1>q DEF ChainMoves, vars
<1>3. CASE BeginSome
  <2>1. Planned' /\ job' = Resting /\ subject' = subject
    BY <1>3, Begins
  <2>2. QED
    BY <2>1, <1>p, AtRestNext
<1>4. ASSUME NEW g \in DOMAIN Outputs, Generate(g) PROVE Working'
  <2>1. job = Resting /\ plan.commands # <<>> /\ Head(plan.commands) = g /\ subject' = subject
    BY <1>4, GenerateEither
  <2>2. CASE job' = job /\ \E ok : plan' = Proceed(ok)
    <3>1. PICK ok : plan' = Proceed(ok)
      BY <2>2
    <3>2. Planned'
      BY <1>p, <2>1, <3>1, ProceedsInReadme
    <3>3. QED
      BY <1>p, <2>1, <2>2, <3>2, AtRestNext
  <2>3. CASE Reads(g) /\ plan' = plan
    <3>1. job'.writes = Outputs[g] /\ DOMAIN job'.content = Range(Outputs[g]) \cap DOMAIN files
      BY <2>3 DEF Reads
    <3>2. Planned'
      BY <1>p, <2>3 DEF Planned, PlanShape, FollowsReadme
    <3>3. QED
      BY <1>p, <2>1, <2>3, <3>1, <3>2, OutputSequences DEF Working
  <2>4. QED
    BY <1>4, <2>2, <2>3, GenerateEither
<1>5. CASE Write
  <2>1. job # Resting /\ subject' = subject /\ job.writes # <<>>
    BY <1>5, WriteJob
  <2>2. CASE job' = Resting /\ plan' = Proceed(TRUE)
    <3>1. plan.commands # <<>>
      BY <2>1 DEF Working
    <3>2. Planned'
      BY <1>p, <2>2, <3>1, ProceedsInReadme
    <3>3. QED
      BY <1>p, <2>1, <2>2, <3>2, AtRestNext
  <2>3. CASE /\ job'.writes = Tail(job.writes) /\ Tail(job.writes) # <<>> /\ plan' = plan
             /\ job'.content = Restrict(job.content, DOMAIN job.content \ {Head(job.writes)})
    <3>1. Planned'
      BY <1>p, <2>3 DEF Planned, PlanShape, FollowsReadme
    <3>2. DOMAIN job'.content = DOMAIN job.content \ {Head(job.writes)}
      BY <2>3 DEF Restrict
    <3>3. /\ Tail(job.writes) \in Seq(Docs) /\ Range(Tail(job.writes)) \subseteq Range(job.writes)
          /\ Range(job.writes) \subseteq Range(Tail(job.writes)) \cup {Head(job.writes)}
      BY <2>1, HeadAndTail DEF Working
    <3>4. "checksums" \notin Range(Tail(job.writes))
      <4>1. SUFFICES ASSUME job.writes = <<"checksums">> PROVE FALSE
        BY <3>3 DEF Working
      <4>2. Tail(<<"checksums">>) = <<>>
        OBVIOUS
      <4>3. QED
        BY <2>3, <4>1, <4>2
    <3>5. QED
      BY <1>p, <2>1, <2>3, <3>1, <3>2, <3>3, <3>4 DEF Working
  <2>4. QED
    BY <1>5, <2>2, <2>3, WriteJob
<1>6. CASE Kill
  <2>1. job' = Resting /\ plan' = Idle /\ subject' = subject
    BY <1>6 DEF Kill
  <2>2. Planned'
    BY <2>1, IdleIs DEF Planned, PlanShape
  <2>3. QED
    BY <1>p, <2>1, <2>2, AtRestNext
<1>7. ASSUME NEW c \in checking, Check(c) PROVE Working'
  <2>1. job = Resting /\ job' = job /\ subject' = subject /\ plan.commands # <<>>
    BY <1>7 DEF Check
  <2>2. plan' = Proceed(Passes(c))
    BY <1>7 DEF Check
  <2>3. Planned'
    BY <1>p, <2>1, <2>2, ProceedsInReadme
  <2>4. QED
    BY <1>p, <2>1, <2>3, AtRestNext
<1>8. QED
  BY <1>1, <1>2, <1>3, <1>4, <1>5, <1>6, <1>7, Actions

(***************************************************************************)
(* The rounds of the README: what they have brought about so far.          *)
(***************************************************************************)
\* The hand-written statements agree; a generated one, or one yet to be written, is theirs.
Alike == \A d, e \in DOMAIN files \ Generated : files[d] = files[e]
Right(d) == \A e \in DOMAIN files \ Generated : files[d] = files[e]
RightContent(d) == \A e \in DOMAIN files \ Generated : job.content[d] = files[e]

\* The documents that read a file generated after them, for the facts they read there.
Lagging(d) ==
    \/ d = "onchainDiscovery" /\ subject = "events"
    \/ d = "standardVectors" /\ subject \in {"sdkVectors", "release"}
Prompt == subject \notin {"events", "sdkVectors", "release"}

\* They may be one round late.
Owed(d) == Lagging(d) /\ (rounds = 0 \/ Len(plan.commands) < 5)
Ready(g) == \A d \in Range(Outputs[g]) \cap DOMAIN files : Right(d) \/ Owed(d)

ContentRight == \A d \in DOMAIN job.content : ~Lagging(d) \/ rounds >= 1 => RightContent(d)
RoundRight ==
    rounds >= 1 => \A d \in Generated \cap DOMAIN files : ~Lagging(d) \/ rounds = 2 => Right(d)
DigestsRight == job.intact /\ (rounds = 2 \/ (rounds = 1 /\ Prompt) => digests)
PlanRight == plan.clean => \A g \in DOMAIN Outputs : Len(plan.commands) <= Due[g] => Ready(g)
JobRight ==
    plan.clean /\ job # Resting =>
        \A d \in Range(Outputs[Head(plan.commands)]) \cap DOMAIN files :
            d \in DOMAIN job.content \/ Right(d) \/ Owed(d)

Settling == (plan.clean \/ rounds > 0) /\ Alike

Progress ==
    /\ rounds \in 0 .. 2
    /\ Settling => ContentRight /\ RoundRight /\ DigestsRight /\ PlanRight /\ JobRight

LEMMA HandWritten ==
    ASSUME Stated, NEW e
    PROVE  e \in DOMAIN files \ Generated <=> e \in DOMAIN Authored /\ subject \in Authored[e]
BY GeneratedIsNotAuthored DEF Stated, Stating

LEMMA SomeoneStates ==
    ASSUME Stated, subject \in Facts
    PROVE  \E e : e \in DOMAIN files \ Generated
<1>1. PICK e \in DOMAIN Authored : subject \in Authored[e]
  BY DEF Facts
<1>2. QED
  BY <1>1, HandWritten

LEMMA AllRightAlike ==
    ASSUME Stated, subject \in Facts, NEW d \in DOMAIN files, NEW e \in DOMAIN files,
           Right(d), Right(e)
    PROVE  files[d] = files[e]
<1>1. PICK a : a \in DOMAIN files \ Generated
  BY SomeoneStates
<1>2. files[d] = files[a] /\ files[e] = files[a]
  BY <1>1 DEF Right
<1>3. QED
  BY <1>2

LEMMA FilesAreGenerated ==
    ASSUME Stated, NEW g \in DOMAIN Outputs, NEW d \in Range(Outputs[g]) \cap DOMAIN files
    PROVE  d \in Generated /\ subject \in DOMAIN Built[d] /\ d \in Stating(subject)
<1>1. "checksums" \notin DOMAIN files
  BY Names DEF Stated, Stating
<1>2. d \in Generated
  BY <1>1, OutputsAreGenerated
<1>3. QED
  BY <1>2, GeneratedIsNotAuthored DEF Stated, Stating

LEMMA StandardsNeverLag == ~Lagging("standardsManifest") /\ ~Lagging("events") /\ ~Lagging("sdkVectors")
BY DEF Lagging

\* The head of a clean plan.
LEMMA HeadIsDue ==
    ASSUME Planned, plan.clean, plan.commands # <<>>
    PROVE  /\ Len(plan.commands) \in 1 .. 14
           /\ Head(plan.commands) = Cmds[15 - Len(plan.commands)]
           /\ Head(plan.commands) = "indexing" => Len(plan.commands) <= 6
           /\ Head(plan.commands) = "checksums" => Len(plan.commands) = 5
<1> DEFINE n == Len(plan.commands)
           h == Head(plan.commands)
<1>1. n \in 1 .. 14 /\ h = Cmds[15 - n]
  BY HeadOfReadme DEF Planned
<1> HIDE DEF n, h
<1>2. 15 - n \in 1 .. 14
  BY <1>1
<1>3. h = "indexing" => 15 - n \in {9, 12}
  BY <1>1, <1>2, CommandOrder
<1>4. h = "checksums" => 15 - n = 10
  BY <1>1, <1>2, CommandOrder
<1>5. (h = "indexing" => n <= 6) /\ (h = "checksums" => n = 5)
  BY <1>1, <1>3, <1>4
<1>6. QED
  BY <1>1, <1>5 DEF n, h

\* The generator at the head of a clean plan is the one that becomes due.
LEMMA DueNext ==
    ASSUME Planned, plan.clean, plan.commands # <<>>, NEW g \in DOMAIN Outputs,
           Len(plan.commands) - 1 <= Due[g]
    PROVE  Len(plan.commands) <= Due[g] \/ Head(plan.commands) = g
<1> DEFINE n == Len(plan.commands)
           h == Head(plan.commands)
<1>1. n \in 1 .. 14 /\ h = Cmds[15 - n]
  BY HeadIsDue
<1>2. Due[g] \in 4 .. 13 /\ Cmds[14 - Due[g]] = g /\ n - 1 <= Due[g]
  BY CommandOrder
<1> HIDE DEF n, h
<1>3. n <= Due[g] \/ 15 - n = 14 - Due[g]
  BY <1>1, <1>2
<1>4. n <= Due[g] \/ h = g
  BY <1>1, <1>2, <1>3
<1>5. QED
  BY <1>4 DEF n, h

\* The plan proceeds: what is ready stays so, and the command at its head is.
LEMMA PlanAdvances ==
    ASSUME Planned, plan.commands # <<>>, plan.clean => PlanRight, NEW ok, plan' = Proceed(ok),
           \A g \in DOMAIN Outputs : plan'.clean /\ Ready(g) => Ready(g)',
           \A g \in DOMAIN Outputs : plan'.clean /\ g = Head(plan.commands) => Ready(g)'
    PROVE  PlanRight'
<1> SUFFICES ASSUME plan'.clean, NEW g \in DOMAIN Outputs, Len(plan'.commands) <= Due[g]
             PROVE  Ready(g)'
  BY DEF PlanRight
<1>1. plan.clean /\ Len(plan'.commands) = Len(plan.commands) - 1
  BY ProceedsInReadme
<1>2. Len(plan.commands) <= Due[g] \/ Head(plan.commands) = g
  BY <1>1, DueNext
<1>3. QED
  BY <1>1, <1>2 DEF PlanRight

\* What is owed stays owed while the plan proceeds within a round.
LEMMA OwedStays ==
    ASSUME Planned, plan.commands # <<>>, plan.clean, NEW ok, plan' = Proceed(ok), plan'.clean,
           subject' = subject, rounds' = rounds, NEW d, Owed(d)
    PROVE  Owed(d)'
<1>1. Len(plan'.commands) = Len(plan.commands) - 1 /\ Len(plan.commands) \in 1 .. 14
  BY ProceedsInReadme, HeadIsDue
<1>2. QED
  BY <1>1 DEF Owed, Lagging

LEMMA ReadyStays ==
    ASSUME Planned, plan.commands # <<>>, NEW ok, plan' = Proceed(ok), plan'.clean,
           UNCHANGED <<subject, files, rounds>>, NEW g, Ready(g)
    PROVE  Ready(g)'
<1>1. plan.clean
  BY ProceedsInReadme
<1>2. \A d : Right(d) => Right(d)'
  BY DEF Right
<1>3. \A d : Owed(d) => Owed(d)'
  BY <1>1, OwedStays
<1>4. QED
  BY <1>2, <1>3 DEF Ready

\* Nothing is left to write: what the rounds brought about is there.
LEMMA RestingIsRight ==
    ASSUME Progress, job' = Resting, UNCHANGED <<subject, files, digests, rounds>>,
           Settling \/ rounds = 0
    PROVE  rounds' \in 0 .. 2 /\ ContentRight' /\ RoundRight' /\ DigestsRight' /\ JobRight'
<1>1. rounds' \in 0 .. 2
  BY DEF Progress
<1>2. DOMAIN job'.content = {} /\ job'.intact
  BY DEF Resting
<1>3. ContentRight'
  BY <1>2 DEF ContentRight
<1>4. JobRight'
  BY DEF JobRight
<1>5. CASE rounds = 0
  BY <1>1, <1>2, <1>3, <1>4, <1>5 DEF RoundRight, DigestsRight
<1>6. CASE Settling
  <2>1. RoundRight /\ DigestsRight
    BY <1>6 DEF Progress
  <2>2. RoundRight'
    BY <2>1 DEF RoundRight, Lagging, Right
  <2>3. DigestsRight'
    BY <2>1, <1>2 DEF DigestsRight, Prompt
  <2>4. QED
    BY <1>1, <1>3, <1>4, <2>2, <2>3
<1>7. QED
  BY <1>5, <1>6

LEMMA QuietProgress ==
    ASSUME Progress, UNCHANGED <<subject, files, digests, job, plan, rounds>>
    PROVE  Progress'
<1>1. /\ \A d : Right(d)' = Right(d) /\ RightContent(d)' = RightContent(d)
      /\ \A d : Lagging(d)' = Lagging(d) /\ Owed(d)' = Owed(d)
  BY DEF Right, RightContent, Lagging, Owed
<1>2. \A g : Ready(g)' = Ready(g)
  BY <1>1 DEF Ready
<1>3. Settling' = Settling
  BY DEF Settling, Alike
<1>4. ContentRight => ContentRight'
  BY <1>1 DEF ContentRight
<1>5. RoundRight => RoundRight'
  BY <1>1 DEF RoundRight
<1>6. DigestsRight => DigestsRight'
  BY DEF DigestsRight, Prompt
<1>7. PlanRight => PlanRight'
  BY <1>2 DEF PlanRight
<1>8. JobRight => JobRight'
  BY <1>1 DEF JobRight
<1>9. QED
  BY <1>3, <1>4, <1>5, <1>6, <1>7, <1>8 DEF Progress

LEMMA SettlingAgain ==
    ASSUME Planned, plan.commands # <<>>, NEW ok, plan' = Proceed(ok),
           UNCHANGED <<subject, files, rounds>>, Settling'
    PROVE  Settling
<1>1. plan'.clean => plan.clean
  BY ProceedsInReadme
<1>2. QED
  BY <1>1 DEF Settling, Alike

LEMMA ProgressAtFirst == Init => Progress
<1> SUFFICES ASSUME Init PROVE Progress
  OBVIOUS
<1>1. rounds = 0 /\ plan = Idle
  BY DEF Init
<1>2. ~Settling
  BY <1>1, IdleIs DEF Settling
<1>3. QED
  BY <1>1, <1>2 DEF Progress

LEMMA EditProgress ==
    ASSUME Shape, Working, NEW d \in DOMAIN Authored, Edit(d)
    PROVE  Progress'
<1>1. rounds' = 0
  BY DEF Edit
<1>2. ~plan'.clean
  BY EditKeepsJob
<1>3. ~Settling'
  BY <1>1, <1>2 DEF Settling
<1>4. QED
  BY <1>1, <1>3 DEF Progress

LEMMA KillProgress ==
    ASSUME Progress, Kill
    PROVE  Progress'
<1>1. job' = Resting /\ plan' = Idle /\ UNCHANGED <<subject, files, digests, rounds>>
  BY DEF Kill
<1>2. ~plan'.clean
  BY <1>1, IdleIs
<1>3. PlanRight'
  BY <1>2 DEF PlanRight
<1>4. Settling' => Settling
  BY <1>1, <1>2 DEF Settling, Alike
<1>5. ASSUME Settling'
      PROVE  ContentRight' /\ RoundRight' /\ DigestsRight' /\ JobRight'
  BY <1>1, <1>4, <1>5, RestingIsRight
<1>6. rounds' \in 0 .. 2
  BY <1>1 DEF Progress
<1>7. QED
  BY <1>3, <1>5, <1>6 DEF Progress

LEMMA BeginProgress ==
    ASSUME Progress, BeginSome
    PROVE  Progress'
<1>1. /\ plan'.clean => plan' = ReadmeBlock
      /\ job' = Resting /\ UNCHANGED <<subject, files, digests, rounds>>
  BY Begins
<1>2. PlanRight'
  <2> SUFFICES ASSUME plan'.clean, NEW g \in DOMAIN Outputs, Len(plan'.commands) <= Due[g]
               PROVE  FALSE
    BY DEF PlanRight
  <2>1. plan'.commands = Cmds
    BY <1>1, ReadmeFollows
  <2>2. Len(plan'.commands) = 14 /\ Due[g] \in 4 .. 13
    BY <2>1, CommandOrder
  <2>3. QED
    BY <2>2
<1>3. rounds \in 0 .. 2
  BY DEF Progress
<1>4. ASSUME Settling'
      PROVE  ContentRight' /\ RoundRight' /\ DigestsRight' /\ JobRight'
  <2>1. Settling \/ rounds = 0
    BY <1>1, <1>3, <1>4 DEF Settling, Alike
  <2>2. QED
    BY <1>1, <2>1, RestingIsRight
<1>5. QED
  BY <1>1, <1>2, <1>3, <1>4 DEF Progress

\* A command that leaves every document as it is: a check, or a generator passed over.
LEMMA PassingProgress ==
    ASSUME Planned, Progress, plan.commands # <<>>, NEW ok, plan' = Proceed(ok),
           job' = Resting, UNCHANGED <<subject, files, digests, rounds>>,
           \A g \in DOMAIN Outputs : Settling /\ plan.clean /\ g = Head(plan.commands) => Ready(g)
    PROVE  Progress'
<1>1. rounds' \in 0 .. 2
  BY DEF Progress
<1>2. ASSUME Settling'
      PROVE  ContentRight' /\ RoundRight' /\ DigestsRight' /\ PlanRight' /\ JobRight'
  <2>1. Settling
    BY <1>2, SettlingAgain
  <2>2. ContentRight' /\ RoundRight' /\ DigestsRight' /\ JobRight'
    BY <2>1, RestingIsRight
  <2>3. PlanRight
    BY <2>1 DEF Progress
  <2>4. \A g : plan'.clean /\ Ready(g) => Ready(g)'
    BY ReadyStays
  <2>5. plan'.clean => plan.clean
    BY ProceedsInReadme
  <2>6. \A g \in DOMAIN Outputs : plan'.clean /\ g = Head(plan.commands) => Ready(g)'
    BY <2>1, <2>4, <2>5
  <2>7. PlanRight'
    BY <2>3, <2>4, <2>6, PlanAdvances
  <2>8. QED
    BY <2>2, <2>7
<1>3. QED
  BY <1>1, <1>2 DEF Progress

LEMMA CheckProgress ==
    ASSUME Working, Progress, NEW c \in checking, Check(c)
    PROVE  Progress'
<1>1. job' = Resting /\ UNCHANGED <<subject, files, digests, rounds>>
  BY DEF Check
<1>2. plan.commands # <<>> /\ Head(plan.commands) = c /\ plan' = Proceed(Passes(c))
  BY DEF Check
<1>3. c \notin DOMAIN Outputs
  BY OutputNames DEF checking
<1>4. Planned
  BY DEF Working
<1>5. \A g \in DOMAIN Outputs : g # Head(plan.commands)
  BY <1>2, <1>3
<1>6. QED
  BY <1>1, <1>2, <1>4, <1>5, PassingProgress

\* The facts of a document, and the comparisons of documents that all state the fact.
StatesAll(d, S) == d # "chain" /\ \A f \in S : d \in Stating(f)

LEMMA AuthoredStatesAll ==
    ASSUME NEW d \in DOMAIN Authored, NEW S \in SUBSET Authored[d]
    PROVE  StatesAll(d, S)
<1>1. d # "chain"
  BY Names
<1>2. QED
  BY <1>1 DEF StatesAll, Stating

LEMMA GeneratedStatesAll ==
    ASSUME NEW d \in Generated, NEW S \in SUBSET DOMAIN Built[d]
    PROVE  StatesAll(d, S)
<1>1. d # "chain"
  BY Names
<1>2. QED
  BY <1>1 DEF StatesAll, Stating

EveryRight == \A d \in DOMAIN files : Right(d)

LEMMA RightAgree ==
    ASSUME Stated, subject \in Facts, NEW S, NEW d, NEW e, StatesAll(d, S), StatesAll(e, S),
           subject \in S => Right(d) /\ Right(e)
    PROVE  Agree(Compare(S, d, e))
<1> SUFFICES ASSUME NEW c \in Compare(S, d, e), c[1] = subject, NEW a \in c[2], NEW b \in c[2]
             PROVE  Statement(a) = Statement(b)
  BY DEF Agree
<1>1. subject \in S /\ c[2] = {d, e}
  BY DEF Compare
<1>2. d \in DOMAIN files /\ e \in DOMAIN files
  BY <1>1 DEF StatesAll, Stated
<1>3. files[d] = files[e]
  BY <1>1, <1>2, AllRightAlike
<1>4. Statement(d) = Statement(e)
  BY <1>3 DEF Statement, StatesAll
<1>5. QED
  BY <1>1, <1>4

LEMMA AgreeBoth ==
    ASSUME NEW C, NEW D, Agree(C), Agree(D)
    PROVE  Agree(C \cup D)
BY DEF Agree

LEMMA HandWrittenRight ==
    ASSUME Stated, Alike, NEW d \in DOMAIN Authored, subject \in Authored[d]
    PROVE  Right(d)
<1>1. d \in DOMAIN files \ Generated
  BY HandWritten
<1>2. QED
  BY <1>1 DEF Alike, Right

\* The indexing generator does not refuse documents that agree.
LEMMA PreconditionsHold ==
    ASSUME Stated, subject \in Facts, Alike,
           "standardsManifest" \in DOMAIN files => Right("standardsManifest")
    PROVE  Agree(indexingPreconditions)
<1>1. Agree(Compare({"release"}, "integration", "indexingEvidence"))
  <2>1. /\ {"release"} \subseteq Authored["integration"]
         /\ {"release"} \subseteq Authored["indexingEvidence"]
    BY DEF Authored
  <2>2. QED
    BY <2>1, Names, AuthoredStatesAll, HandWrittenRight, RightAgree
<1>2. Agree(Compare({"release"}, "integration", "standardsManifest"))
  <2>1. /\ {"release"} \subseteq Authored["integration"]
    BY DEF Authored
  <2>2. {"release"} \subseteq DOMAIN Built["standardsManifest"]
    BY StandardsStates DEF Built
  <2>3. StatesAll("integration", {"release"}) /\ StatesAll("standardsManifest", {"release"})
    BY <2>1, <2>2, Names, AuthoredStatesAll, GeneratedStatesAll
  <2>4. ASSUME subject \in {"release"} PROVE Right("integration") /\ Right("standardsManifest")
    <3>1. "standardsManifest" \in DOMAIN files
      BY <2>3, <2>4 DEF StatesAll, Stated
    <3>2. QED
      BY <2>1, <2>4, <3>1, Names, HandWrittenRight
  <2>5. QED
    BY <2>3, <2>4, RightAgree
<1>3. Agree(Compare({"router", "facade"}, "indexingEvidence", "integration"))
  <2>1. /\ {"router", "facade"} \subseteq Authored["integration"]
        /\ {"router", "facade"} \subseteq Authored["indexingEvidence"]
    BY DEF Authored
  <2>2. QED
    BY <2>1, Names, AuthoredStatesAll, HandWrittenRight, RightAgree
<1>4. QED
  BY <1>1, <1>2, <1>3, AgreeBoth DEF indexingPreconditions

\* When the indexing generator is at the head of the plan, the standards manifest it reads
\* is right.
LEMMA StandardsInTime ==
    ASSUME Stated, Planned, plan.commands # <<>>, Settling, Progress,
          Head(plan.commands) = "indexing",
           "standardsManifest" \in DOMAIN files
    PROVE  Right("standardsManifest")
<1>1. "standardsManifest" \in Generated
  BY Names
<1>2. RoundRight /\ PlanRight /\ rounds \in 0 .. 2
  BY DEF Progress
<1>3. CASE rounds >= 1
  BY <1>1, <1>2, <1>3, StandardsNeverLag DEF RoundRight
<1>4. CASE ~(rounds >= 1)
  <2>1. plan.clean
    BY <1>2, <1>4 DEF Settling
  <2>2. Len(plan.commands) <= 6 /\ Len(plan.commands) \in 1 .. 14
    BY <2>1, HeadIsDue
  <2>3. Due["standards"] = 11 /\ "standards" \in DOMAIN Outputs
    BY OutputNames DEF Due
  <2>4. Ready("standards")
    BY <1>2, <2>1, <2>2, <2>3 DEF PlanRight
  <2>5. "standardsManifest" \in Range(Outputs["standards"])
    BY DEF Outputs, generateStandardsManifest, Range
  <2>6. Right("standardsManifest") \/ Owed("standardsManifest")
    BY <2>4, <2>5 DEF Ready
  <2>7. QED
    BY <2>6, StandardsNeverLag DEF Owed
<1>5. QED
  BY <1>3, <1>4

\* What a generator reads in a settling round is right, but for the late documents in the
\* first one.
LEMMA OriginsRight ==
    ASSUME Stated, Planned, plan.commands # <<>>, Settling, Progress,
           NEW g \in DOMAIN Outputs, Head(plan.commands) = g,
           NEW d \in Range(Outputs[g]) \cap DOMAIN files, ~Lagging(d) \/ rounds >= 1
    PROVE  Right(Origin(d, subject))
<1> DEFINE o == Origin(d, subject)
<1>1. d \in Generated /\ subject \in DOMAIN Built[d] /\ d \in Stating(subject)
  BY FilesAreGenerated
<1>2. o \in DOMAIN files
  BY <1>1, OriginStates DEF Stated
<1>3. RoundRight /\ Alike
  BY DEF Progress, Settling
<1>4. CASE FromPeople(d, subject)
  BY <1>3, <1>4, HandWrittenRight DEF FromPeople
<1>5. CASE FromEvents(d, subject) \/ FromVectors(d, subject)
  <2>1. Lagging(d) /\ (o = "events" \/ o = "sdkVectors")
    BY <1>5 DEF FromEvents, FromVectors, Lagging
  <2>2. rounds >= 1 /\ o \in Generated /\ ~Lagging(o)
    BY <2>1, Names, StandardsNeverLag
  <2>3. QED
    BY <1>2, <1>3, <2>2 DEF RoundRight
<1>6. CASE FromStandards(d, subject)
  <2>1. g = "indexing"
    BY <1>6, OneWritesThePackage DEF FromStandards
  <2>2. o = "standardsManifest"
    BY <1>6 DEF FromStandards
  <2>3. QED
    BY <1>2, <2>1, <2>2, StandardsInTime
<1>7. QED
  BY <1>1, <1>4, <1>5, <1>6, Origins

LEMMA GenerateProgress ==
    ASSUME Known, Working, Progress, NEW g \in DOMAIN Outputs, Generate(g)
    PROVE  Progress'
<1>1. /\ job = Resting /\ plan.commands # <<>> /\ Head(plan.commands) = g
      /\ UNCHANGED <<subject, files, digests, chain, passed, rounds>>
  BY GenerateEither
<1>2. Planned /\ Stated /\ subject \in Facts
  BY DEF Working, Known
<1>3. CASE PassesOver(g) /\ job' = job /\ \E ok : plan' = Proceed(ok)
  <2>1. PICK ok : plan' = Proceed(ok)
    BY <1>3
  <2>2. ASSUME Settling, plan.clean PROVE Ready(g)
    <3>1. CASE Range(Outputs[g]) \cap DOMAIN files = {}
      BY <3>1 DEF Ready
    <3>2. CASE g = "indexing" /\ ~Agree(indexingPreconditions)
      <4>1. "standardsManifest" \in DOMAIN files => Right("standardsManifest")
        BY <1>1, <1>2, <2>2, <3>2, StandardsInTime
      <4>2. Agree(indexingPreconditions)
        BY <1>2, <2>2, <4>1, PreconditionsHold DEF Settling
      <4>3. QED
        BY <3>2, <4>2
    <3>3. QED
      BY <1>3, <3>1, <3>2 DEF PassesOver
  <2>3. job' = Resting
    BY <1>1, <1>3
  <2>4. \A h \in DOMAIN Outputs : Settling /\ plan.clean /\ h = Head(plan.commands) => Ready(h)
    BY <1>1, <2>2
  <2>5. QED
    BY <1>1, <1>2, <2>1, <2>3, <2>4, PassingProgress
<1>4. CASE Reads(g) /\ plan' = plan
  <2>1. /\ \A d : Right(d)' = Right(d) /\ Lagging(d)' = Lagging(d) /\ Owed(d)' = Owed(d)
        /\ Settling' = Settling
    BY <1>1, <1>4 DEF Right, Lagging, Owed, Settling, Alike
  <2>2. /\ DOMAIN job'.content = Range(Outputs[g]) \cap DOMAIN files
        /\ \A d \in DOMAIN job'.content : job'.content[d] = files[Origin(d, subject)]
        /\ job'.intact
    BY <1>4 DEF Reads
  <2>3. ASSUME Settling PROVE ContentRight'
    <3> SUFFICES ASSUME NEW d \in DOMAIN job'.content, ~Lagging(d) \/ rounds >= 1
                 PROVE  RightContent(d)'
      BY <1>1, <2>1 DEF ContentRight
    <3>1. d \in Range(Outputs[g]) \cap DOMAIN files
      BY <2>2
    <3>2. Right(Origin(d, subject))
      BY <1>1, <1>2, <2>3, <3>1, OriginsRight
    <3>3. job'.content[d] = files[Origin(d, subject)]
      BY <2>2
    <3>4. QED
      BY <1>1, <3>2, <3>3 DEF Right, RightContent
  <2>4. RoundRight => RoundRight'
    BY <1>1, <2>1 DEF RoundRight
  <2>5. DigestsRight => DigestsRight'
    BY <1>1, <2>2 DEF DigestsRight, Prompt
  <2>6. PlanRight => PlanRight'
    <3>1. \A h : Ready(h)' = Ready(h)
      BY <1>1, <2>1 DEF Ready
    <3>2. QED
      BY <1>4, <3>1 DEF PlanRight
  <2>7. JobRight'
    <3>1. Head(plan'.commands) = g
      BY <1>1, <1>4
    <3>2. DOMAIN job'.content = Range(Outputs[Head(plan'.commands)]) \cap DOMAIN files'
      BY <1>1, <2>2, <3>1
    <3>3. QED
      BY <3>2 DEF JobRight
  <2>8. QED
    BY <1>1, <2>1, <2>3, <2>4, <2>5, <2>6, <2>7 DEF Progress
<1>5. QED
  BY <1>3, <1>4, GenerateEither

\* A write of a document puts what was read where it belongs, and nothing else.
LEMMA WriteFiles ==
    ASSUME Shape, Known, Working, Write, Head(job.writes) # "checksums"
    PROVE  /\ UNCHANGED <<subject, rounds>> /\ DOMAIN files' = DOMAIN files
           /\ \A e : e # Head(job.writes) \/ e \notin DOMAIN job.content => files'[e] = files[e]
           /\ \A e \in DOMAIN files \ Generated : files'[e] = files[e]
           /\ \A e \in DOMAIN job.content \cap DOMAIN files :
                 e = Head(job.writes) => files'[e] = job.content[e]
           /\ digests => digests' \/ files' # files
           /\ files' # files => Head(job.writes) \in DOMAIN job.content \cap DOMAIN files
<1> DEFINE d == Head(job.writes)
<1>1. UNCHANGED <<subject, rounds>>
  BY DEF Write
<1>2. CASE d \in DOMAIN job.content
  <2>1. Rewrite([files EXCEPT ![d] = job.content[d]], d \in CHECKSUM_FILES)
    BY <1>2 DEF Write
  <2>2. d \in Generated
    BY <1>2 DEF Known
  <2>3. files' = [files EXCEPT ![d] = job.content[d]]
    BY <2>1 DEF Rewrite
  <2>4. digests => digests' \/ files' # files
    BY <2>1 DEF Rewrite
  <2>5. d \notin DOMAIN files => files' = files
    BY <2>3 DEF Shape
  <2> HIDE DEF d
  <2>6. /\ DOMAIN files' = DOMAIN files /\ \A e : e # d => files'[e] = files[e]
        /\ d \in DOMAIN files => files'[d] = job.content[d]
    <3>1. DOMAIN files' = DOMAIN files
      BY <2>3
    <3>2. d \in DOMAIN files => files'[d] = job.content[d]
      BY <2>3
    <3>3. ASSUME NEW e, e # d PROVE files'[e] = files[e]
      <4>1. CASE e \in DOMAIN files
        BY <2>3, <3>3, <4>1
      <4>2. CASE e \notin DOMAIN files
        BY <2>3, <3>3, <4>2
      <4>3. QED
        BY <4>1, <4>2
    <3>4. QED
      BY <3>1, <3>2, <3>3
  <2>7. QED
    BY <1>1, <1>2, <2>2, <2>4, <2>5, <2>6 DEF d
<1>3. CASE d \notin DOMAIN job.content
  <2>1. files' = files /\ digests' = digests
    BY <1>3 DEF Write
  <2>2. QED
    BY <1>1, <1>3, <2>1
<1>4. QED
  BY <1>2, <1>3

\* A write of a document in a settling round.
LEMMA DocumentWritten ==
    ASSUME Shape, Known, Working, Progress, Write, Head(job.writes) # "checksums", Settling
    PROVE  /\ Alike' /\ RoundRight'
           /\ \A d \in DOMAIN files : Right(d) => Right(d)' \/ (Lagging(d)' /\ rounds' = 0)
           /\ \A d \in DOMAIN files : Lagging(d)' <=> Lagging(d)
           /\ \A d \in DOMAIN files \cap DOMAIN job.content :
                 d = Head(job.writes) => Right(d)' \/ (Lagging(d)' /\ rounds' = 0)
           /\ rounds = 2 \/ (rounds = 1 /\ Prompt) => digests'
<1> DEFINE h == Head(job.writes)
<1>1. /\ UNCHANGED <<subject, rounds>> /\ DOMAIN files' = DOMAIN files
      /\ \A e : e # h \/ e \notin DOMAIN job.content => files'[e] = files[e]
      /\ \A e \in DOMAIN files \ Generated : files'[e] = files[e]
      /\ \A e \in DOMAIN job.content \cap DOMAIN files : e = h => files'[e] = job.content[e]
      /\ digests => digests' \/ files' # files
      /\ files' # files => h \in DOMAIN job.content \cap DOMAIN files
  BY WriteFiles
<1> HIDE DEF h
<1>2. ContentRight /\ RoundRight /\ DigestsRight /\ Alike /\ rounds \in 0 .. 2
  BY DEF Progress, Settling
<1>3. DOMAIN files' \ Generated = DOMAIN files \ Generated
  BY <1>1
<1>4. Alike'
  BY <1>1, <1>2, <1>3 DEF Alike
<1>5. \A d : Lagging(d)' <=> Lagging(d)
  BY <1>1 DEF Lagging
<1>6. ASSUME NEW d \in DOMAIN files, Right(d), d # h \/ d \notin DOMAIN job.content
      PROVE  Right(d)'
  BY <1>1, <1>3, <1>6 DEF Right
<1>7. ASSUME NEW d \in DOMAIN files \cap DOMAIN job.content, d = h, ~Lagging(d) \/ rounds >= 1
      PROVE  RightContent(d) /\ Right(d)'
  <2>1. RightContent(d)
    BY <1>2, <1>7 DEF ContentRight
  <2>2. QED
    BY <1>1, <1>3, <1>7, <2>1 DEF Right, RightContent
<1>8. \A d \in DOMAIN files \cap DOMAIN job.content :
         d = h => Right(d)' \/ (Lagging(d)' /\ rounds' = 0)
  BY <1>1, <1>2, <1>5, <1>7
<1>9. \A d \in DOMAIN files : Right(d) => Right(d)' \/ (Lagging(d)' /\ rounds' = 0)
  BY <1>6, <1>8
<1>10. RoundRight'
  <2> SUFFICES ASSUME rounds >= 1, NEW d \in Generated \cap DOMAIN files,
      ~Lagging(d) \/ rounds = 2
               PROVE  Right(d)'
    BY <1>1, <1>5 DEF RoundRight
  <2>1. Right(d)
    BY <1>2 DEF RoundRight
  <2>2. rounds # 0
    BY <1>2
  <2>3. QED
    BY <1>1, <1>9, <2>1, <2>2
<1>11. ASSUME rounds = 2 \/ (rounds = 1 /\ Prompt) PROVE digests'
  <2>1. digests
    BY <1>2, <1>11 DEF DigestsRight
  <2> SUFFICES ASSUME files' # files PROVE FALSE
    BY <1>1, <2>1
  <2>2. h \in DOMAIN job.content \cap DOMAIN files
    BY <1>1
  <2>3. h \in Generated
    BY <2>2 DEF Known
  <2>4. rounds >= 1 /\ (~Lagging(h) \/ rounds = 2)
    BY <1>11 DEF Lagging, Prompt
  <2>5. Right(h) /\ RightContent(h)
    BY <1>2, <1>7, <2>2, <2>3, <2>4 DEF RoundRight
  <2>6. PICK a : a \in DOMAIN files \ Generated
    BY SomeoneStates DEF Known, Working
  <2>7. files'[h] = files[h]
    <3>1. files'[h] = job.content[h]
      BY <1>1, <2>2
    <3>2. job.content[h] = files[a] /\ files[h] = files[a]
      BY <2>5, <2>6 DEF Right, RightContent
    <3>3. QED
      BY <3>1, <3>2
  <2>8. \A e : files'[e] = files[e]
    BY <1>1, <2>7
  <2>9. files' = [e \in DOMAIN files' |-> files'[e]]
    BY ShapeKept DEF Shape, Next
  <2>10. files = [e \in DOMAIN files |-> files[e]]
    BY DEF Shape
  <2>11. QED
    BY <1>1, <2>8, <2>9, <2>10
<1>12. QED
  BY <1>4, <1>5, <1>8, <1>9, <1>10, <1>11 DEF h

LEMMA WriteDocumentProgress ==
    ASSUME Shape, Known, Working, Progress, Write, Head(job.writes) # "checksums"
    PROVE  Progress'
<1> DEFINE h == Head(job.writes)
<1>1. UNCHANGED <<subject, rounds>> /\ DOMAIN files' = DOMAIN files
  BY WriteFiles
<1>2. /\ job # Resting /\ job.writes # <<>> /\ h \in Range(job.writes)
      /\ \/ Range(job.writes) = {h} /\ job' = Resting /\ plan' = Proceed(TRUE)
         \/ /\ plan' = plan /\ job'.intact = job.intact
            /\ job'.content = Restrict(job.content, DOMAIN job.content \ {h})
  BY WriteJob
<1>3. /\ plan.commands # <<>> /\ Head(plan.commands) \in DOMAIN Outputs /\ Planned
      /\ DOMAIN job.content \subseteq Range(job.writes)
  BY <1>2 DEF Working
<1>4. plan'.clean => plan.clean
  BY <1>2, <1>3, ProceedsInReadme
<1>5. rounds' \in 0 .. 2
  BY <1>1 DEF Progress
<1> SUFFICES ASSUME Settling'
             PROVE  ContentRight' /\ RoundRight' /\ DigestsRight' /\ PlanRight' /\ JobRight'
  BY <1>5 DEF Progress
<1>6. Settling
  <2>1. Alike
    <3>1. DOMAIN files' \ Generated = DOMAIN files \ Generated
      BY <1>1
    <3>2. \A e \in DOMAIN files \ Generated : files'[e] = files[e]
      BY WriteFiles
    <3>3. QED
      BY <3>1, <3>2 DEF Settling, Alike
  <2>2. QED
    BY <1>1, <1>4, <2>1 DEF Settling
<1>7. /\ RoundRight'
      /\ \A d \in DOMAIN files : Right(d) => Right(d)' \/ (Lagging(d)' /\ rounds' = 0)
      /\ \A d \in DOMAIN files : Lagging(d)' <=> Lagging(d)
      /\ \A d \in DOMAIN files \cap DOMAIN job.content :
            d = h => Right(d)' \/ (Lagging(d)' /\ rounds' = 0)
      /\ rounds = 2 \/ (rounds = 1 /\ Prompt) => digests'
  BY <1>6, DocumentWritten
<1>8. ContentRight /\ DigestsRight /\ PlanRight /\ JobRight
  BY <1>6 DEF Progress
<1>9. DigestsRight'
  <2>1. job'.intact
    BY <1>2, <1>8, RestingWorks DEF DigestsRight
  <2>2. QED
    BY <1>1, <1>7, <2>1 DEF DigestsRight, Prompt
<1>10. ContentRight'
  <2>1. CASE job' = Resting
    <3>1. DOMAIN job'.content = {}
      BY <2>1, RestingWritesNothing
    <3>2. QED
      BY <3>1 DEF ContentRight
  <2>2. CASE job'.content = Restrict(job.content, DOMAIN job.content \ {h})
    <3> HIDE DEF h
    <3>1. /\ DOMAIN job'.content \subseteq DOMAIN job.content
          /\ \A d \in DOMAIN job'.content : job'.content[d] = job.content[d]
      BY <2>2 DEF Restrict
    <3>2. DOMAIN files' \ Generated = DOMAIN files \ Generated
      BY <1>1
    <3>3. \A e \in DOMAIN files \ Generated : files'[e] = files[e]
      BY WriteFiles
    <3>4. \A d \in DOMAIN job'.content : RightContent(d) => RightContent(d)'
      BY <3>1, <3>2, <3>3 DEF RightContent
    <3>5. \A d : Lagging(d)' => Lagging(d)
      BY <1>1 DEF Lagging
    <3>6. ASSUME NEW d \in DOMAIN job'.content, ~Lagging(d)' \/ rounds' >= 1
          PROVE  RightContent(d)'
      <4>1. ~Lagging(d) \/ rounds >= 1
        BY <1>1, <3>6 DEF Lagging
      <4>2. RightContent(d)
        BY <1>8, <3>1, <4>1 DEF ContentRight
      <4>3. QED
        BY <3>4, <4>2
    <3>7. QED
      BY <3>6 DEF ContentRight
  <2>3. QED
    BY <1>2, <2>1, <2>2
\* A document that was right stays so; one that was owed stays so within the round.
<1>11. ASSUME NEW d \in DOMAIN files, plan'.clean, Right(d) \/ Owed(d)
       PROVE  Right(d)' \/ Owed(d)'
  <2>1. CASE Right(d)
    BY <1>7, <2>1 DEF Owed
  <2>2. CASE Owed(d)
    <3>1. CASE plan' = plan
      BY <1>1, <2>2, <3>1 DEF Owed, Lagging
    <3>2. CASE plan' = Proceed(TRUE)
      BY <1>1, <1>3, <1>4, <1>11, <2>2, <3>2, OwedStays
    <3>3. QED
      BY <1>2, <3>1, <3>2
  <2>3. QED
    BY <1>11, <2>1, <2>2
<1>12. ASSUME NEW d \in DOMAIN files, plan'.clean, d \in DOMAIN job.content, d = h
       PROVE  Right(d)' \/ Owed(d)'
  BY <1>7, <1>12 DEF Owed
<1>13. \A g : plan'.clean /\ Ready(g) => Ready(g)'
  BY <1>1, <1>11 DEF Ready
<1>14. CASE Range(job.writes) = {h} /\ job' = Resting /\ plan' = Proceed(TRUE)
  <2>1. JobRight'
    BY <1>14 DEF JobRight
  <2>2. ASSUME plan'.clean, NEW g \in DOMAIN Outputs, g = Head(plan.commands)
        PROVE  Ready(g)'
    <3> SUFFICES ASSUME NEW d \in Range(Outputs[g]) \cap DOMAIN files
                 PROVE  Right(d)' \/ Owed(d)'
      BY <1>1 DEF Ready
    <3>1. d \in DOMAIN job.content \/ Right(d) \/ Owed(d)
      BY <1>2, <1>4, <1>8, <2>2 DEF JobRight
    <3>2. d \in DOMAIN job.content => d = h
      BY <1>3, <1>14
    <3>3. QED
      BY <1>11, <1>12, <2>2, <3>1, <3>2
  <2>3. PlanRight'
    BY <1>3, <1>8, <1>13, <1>14, <2>2, PlanAdvances
  <2>4. QED
    BY <1>7, <1>9, <1>10, <2>1, <2>3
<1>15. CASE plan' = plan /\ job'.content = Restrict(job.content, DOMAIN job.content \ {h})
  <2>1. PlanRight'
    BY <1>8, <1>13, <1>15 DEF PlanRight
  <2>2. ASSUME plan'.clean, NEW d \in Range(Outputs[Head(plan.commands)]) \cap DOMAIN files
        PROVE  d \in DOMAIN job'.content \/ Right(d)' \/ Owed(d)'
    <3>1. d \in DOMAIN job.content \/ Right(d) \/ Owed(d)
      BY <1>2, <1>4, <1>8, <2>2 DEF JobRight
    <3>2. d \in DOMAIN job.content /\ d # h => d \in DOMAIN job'.content
      <4> HIDE DEF h
      <4>1. QED
        BY <1>15 DEF Restrict
    <3>3. QED
      BY <1>11, <1>12, <2>2, <3>1, <3>2
  <2>3. JobRight'
    BY <1>1, <1>15, <2>2 DEF JobRight
  <2>4. QED
    BY <1>7, <1>9, <1>10, <2>1, <2>3
<1>16. QED
  BY <1>2, <1>14, <1>15

\* The digests are written: the round is over, and what is not late is right.
LEMMA WriteDigestsProgress ==
    ASSUME Shape, Known, Working, Progress, Write, Head(job.writes) = "checksums"
    PROVE  Progress'
<1>1. /\ job # Resting /\ subject' = subject /\ "checksums" \in Range(job.writes)
      /\ job' = Resting \/ Tail(job.writes) # <<>>
      /\ job' = Resting => plan' = Proceed(TRUE) \/ Tail(job.writes) # <<>>
  BY WriteJob
<1>2. job.writes = <<"checksums">>
  BY <1>1 DEF Working
<1>3. job' = Resting /\ plan' = Proceed(TRUE)
  <2>1. Len(job.writes) = 1
    BY <1>2
  <2>2. QED
    BY <2>1 DEF Write
<1>4. "checksums" \notin DOMAIN job.content
  BY Names DEF Known
<1>5. files' = files /\ digests' = job.intact
  BY <1>4 DEF Write
<1>6. rounds' = IF plan.clean /\ rounds < MaxRounds THEN rounds + 1 ELSE rounds
  BY DEF Write
<1>7. rounds \in 0 .. 2 /\ rounds' \in 0 .. 2 /\ (rounds' # rounds =>
    plan.clean /\ rounds' = rounds + 1)
  BY <1>6 DEF Progress, MaxRounds
<1>8. /\ plan.commands # <<>> /\ Head(plan.commands) \in DOMAIN Outputs /\ Planned
      /\ Head(plan.commands) = "checksums"
  <2>1. /\ plan.commands # <<>> /\ Head(plan.commands) \in DOMAIN Outputs /\ Planned
        /\ "checksums" \in Range(Outputs[Head(plan.commands)])
    BY <1>1 DEF Working
  <2>2. QED
    BY <2>1, OutputSequences
<1>9. /\ plan'.clean => plan.clean /\ Len(plan'.commands) = Len(plan.commands) - 1
      /\ plan.clean => Len(plan.commands) = 5
  BY <1>3, <1>8, ProceedsInReadme, HeadIsDue
<1> SUFFICES ASSUME Settling'
             PROVE  ContentRight' /\ RoundRight' /\ DigestsRight' /\ PlanRight' /\ JobRight'
  BY <1>7 DEF Progress
<1>10. Settling
  BY <1>1, <1>5, <1>7, <1>9 DEF Settling, Alike
<1>11. RoundRight /\ DigestsRight /\ PlanRight
  BY <1>10 DEF Progress
<1>12. \A d : (Right(d)' <=> Right(d)) /\ (Lagging(d)' <=> Lagging(d))
  BY <1>1, <1>5 DEF Right, Lagging
<1>13. ContentRight' /\ JobRight'
  <2>1. DOMAIN job'.content = {}
    BY <1>3, RestingWritesNothing
  <2>2. QED
    BY <1>3, <2>1 DEF ContentRight, JobRight
<1>14. DigestsRight'
  BY <1>3, <1>5, <1>11, RestingWorks DEF DigestsRight
\* By now every generator has run.
<1>15. ASSUME plan.clean, NEW g \in DOMAIN Outputs \ {"checksums"} PROVE Ready(g)
  <2>1. Due[g] \in 4 .. 13 /\ Due[g] >= 5
    BY CommandOrder
  <2>2. Len(plan.commands) = 5
    BY <1>9, <1>15
  <2>3. Len(plan.commands) <= Due[g]
    BY <2>1, <2>2
  <2>4. QED
    BY <1>11, <1>15, <2>3 DEF PlanRight
<1>16. ASSUME plan.clean, NEW d \in Generated \cap DOMAIN files
       PROVE  Right(d) \/ (Lagging(d) /\ rounds = 0)
  <2>1. PICK g \in DOMAIN Outputs \ {"checksums"} : d \in Range(Outputs[g])
    BY SomeoneWrites
  <2>2. Right(d) \/ Owed(d)
    BY <1>15, <1>16, <2>1 DEF Ready
  <2>3. Len(plan.commands) = 5
    BY <1>9, <1>16
  <2>4. QED
    BY <2>2, <2>3 DEF Owed
<1>17. RoundRight'
  <2> SUFFICES ASSUME rounds' >= 1, NEW d \in Generated \cap DOMAIN files,
      ~Lagging(d) \/ rounds' = 2
               PROVE  Right(d)
    BY <1>5, <1>12 DEF RoundRight
  <2>1. CASE rounds' = rounds
    BY <1>11, <2>1 DEF RoundRight
  <2>2. CASE rounds' # rounds
    <3>1. plan.clean /\ rounds' = rounds + 1
      BY <1>7, <2>2
    <3>2. ~Lagging(d) \/ rounds # 0
      BY <1>7, <3>1
    <3>3. QED
      BY <1>16, <3>1, <3>2
  <2>3. QED
    BY <2>1, <2>2
<1>18. PlanRight'
  <2> SUFFICES ASSUME plan'.clean, NEW g \in DOMAIN Outputs PROVE Ready(g)'
    BY DEF PlanRight
  <2> SUFFICES ASSUME NEW d \in Range(Outputs[g]) \cap DOMAIN files
               PROVE  Right(d)' \/ Owed(d)'
    BY <1>5 DEF Ready
  <2>1. d \in Generated
    BY FilesAreGenerated DEF Known
  <2>2. Right(d) \/ Lagging(d)
    BY <1>9, <1>16, <2>1
  <2>3. Len(plan'.commands) < 5
    <3>1. Len(plan'.commands) = 5 - 1
      BY <1>9
    <3>2. QED
      BY <3>1
  <2>4. QED
    BY <1>12, <2>2, <2>3 DEF Owed
<1>19. QED
  BY <1>13, <1>14, <1>17, <1>18

LEMMA ProgressKept == Shape /\ Known /\ Working /\ Progress /\ [Next]_vars => Progress'
<1> SUFFICES ASSUME Shape, Known, Working, Progress, [Next]_vars PROVE Progress'
  OBVIOUS
<1>1. CASE \E d \in DOMAIN Authored : Edit(d)
  BY <1>1, EditProgress
<1>2. CASE ChainMoves \/ UNCHANGED vars
  <2>1. UNCHANGED <<subject, files, digests, job, plan, rounds>>
    BY <1>2 DEF ChainMoves, vars
  <2>2. QED
    BY <2>1, QuietProgress
<1>3. CASE BeginSome
  BY <1>3, BeginProgress
<1>4. CASE \E g \in DOMAIN Outputs : Generate(g)
  BY <1>4, GenerateProgress
<1>5. CASE Write
  BY <1>5, WriteDocumentProgress, WriteDigestsProgress
<1>6. CASE Kill
  BY <1>6, KillProgress
<1>7. CASE \E c \in checking : Check(c)
  BY <1>7, CheckProgress
<1>8. QED
  BY <1>1, <1>2, <1>3, <1>4, <1>5, <1>6, <1>7, Actions

LEMMA ProgressInvariant == Spec => [](Known /\ Working /\ Progress)
<1>1. IInv /\ Known /\ Working /\ Progress /\ [Next]_vars => (Known /\ Working /\ Progress)'
  BY KnownKept, WorkingKept, ProgressKept DEF IInv
<1>2. QED
  BY Invariant, KnownAtFirst, WorksAtFirst, ProgressAtFirst, <1>1, PTL DEF Spec

(***************************************************************************)
(* Documents that are all right pass validate.mjs: each comparison is of   *)
(* documents that state the fact.                                          *)
(***************************************************************************)
LEMMA BuiltStates ==
    /\ {"facade", "router", "codeHash", "resolver", "resolverHash", "resolverId", "oif",
          "oifHash",
        "oifId"} \subseteq DOMAIN Built["abi"]
    /\ {"release", "facade", "router", "codeHash", "deployment", "resolver", "resolverHash",
        "resolverId", "oif", "oifHash", "oifId", "discoveryURI", "feedEndpoints", "status",
        "level", "initCode", "compiler", "factory", "events"}
              \subseteq DOMAIN Built["onchainDiscovery"]
    /\ {"router", "release"} \subseteq DOMAIN Built["standardsManifest"]
    /\ {"router"} \subseteq DOMAIN Built["standardVectors"]
    /\ {"release", "facade", "resolver", "feedEndpoints"} \subseteq DOMAIN Built["onboarding"]
    /\ {"feedEndpoints", "permitEndpoints"} \subseteq DOMAIN Built["openapi"]
    /\ {"feedEndpoints", "permitEndpoints"} \subseteq DOMAIN Built["solverManifest"]
    /\ {"events"} \subseteq DOMAIN Built["events"]
    /\ {"release", "events", "startBlock", "router", "facade", "deployment"}
          \subseteq DOMAIN Built["indexingConfig"]
    /\ {"router", "startBlock"} \subseteq DOMAIN Built["graphManifests"]
    /\ {"externalStatus"} \subseteq DOMAIN Built["indexingManifest"]
<1>1. {"facade", "router", "codeHash", "resolver", "resolverHash", "resolverId", "oif", "oifHash",
       "oifId"} \subseteq DOMAIN Built["abi"]
  BY DEF Built, buildAbiBundle, From, ++
<1>2. {"release", "facade", "router", "codeHash", "deployment", "resolver", "resolverHash",
        "resolverId", "oif", "oifHash", "oifId", "discoveryURI", "feedEndpoints", "status",
        "level", "initCode", "compiler", "factory", "events"}
              \subseteq DOMAIN Built["onchainDiscovery"]
  BY FingerprintStates, DiscoveryStates DEF Built
<1>3. {"router", "release"} \subseteq DOMAIN Built["standardsManifest"]
  BY StandardsStates DEF Built
<1>4. {"router"} \subseteq DOMAIN Built["standardVectors"]
  BY DEF Built, buildStandardVectors, Restrict, From, ++
<1>5. {"release", "facade", "resolver", "feedEndpoints"} \subseteq DOMAIN Built["onboarding"]
  BY DEF Built, buildOnboardingPackage, From, ++
<1>6. {"feedEndpoints", "permitEndpoints"} \subseteq DOMAIN Built["openapi"]
  BY DEF Built, buildOpenApi, From
<1>7. {"feedEndpoints", "permitEndpoints"} \subseteq DOMAIN Built["solverManifest"]
  BY DEF Built, buildNexaSolverManifest, From, ++
<1>8. {"events"} \subseteq DOMAIN Built["events"]
  BY DEF Built, eventFiles, From
<1>9. {"release", "events", "startBlock", "router", "facade", "deployment"}
         \subseteq DOMAIN Built["indexingConfig"]
  BY ConfigStates DEF Built
<1>10. {"router", "startBlock"} \subseteq DOMAIN Built["graphManifests"]
  BY DEF Built, graphManifest, Restrict
<1>11. {"externalStatus"} \subseteq DOMAIN Built["indexingManifest"]
  BY DEF Built, indexingDescriptor, From
<1>12. QED
  BY <1>1, <1>2, <1>3, <1>4, <1>5, <1>6, <1>7, <1>8, <1>9, <1>10, <1>11

LEMMA EveryRightAgrees ==
    ASSUME Stated, subject \in Facts, EveryRight, NEW S, NEW d, NEW e, StatesAll(d, S),
          StatesAll(e, S)
    PROVE  Agree(Compare(S, d, e))
<1>1. subject \in S => d \in DOMAIN files /\ e \in DOMAIN files
  BY DEF StatesAll, Stated
<1>2. subject \in S => Right(d) /\ Right(e)
  BY <1>1 DEF EveryRight
<1>3. QED
  BY <1>2, RightAgree

\* The documents compared state the facts they are compared for.
LEMMA ComparedState ==
    /\ StatesAll("manifest", {"release"})
    /\ StatesAll("integration", {"release"})
    /\ StatesAll("identity", {"release"})
    /\ StatesAll("integration", {"profile"})
    /\ StatesAll("manifest", {"profile"})
    /\ StatesAll("abi", {"codeHash"})
    /\ StatesAll("integration", {"codeHash"})
    /\ StatesAll("integration", {"discoveryURI"})
    /\ StatesAll("publicEndpoints", {"discoveryURI"})
    /\ StatesAll("manifest", {"facade", "discoveryURI"})
    /\ StatesAll("integration", {"facade", "discoveryURI"})
    /\ StatesAll("integration", {"networkId"})
    /\ StatesAll("networkIds", {"networkId"})
    /\ StatesAll("integration", {"routeCount"})
    /\ StatesAll("facadeEvidence", {"routeCount"})
    /\ StatesAll("abi", {"resolver", "resolverHash", "oif", "oifHash"})
    /\ StatesAll("standardIds", {"resolver", "resolverHash", "oif", "oifHash"})
    /\ StatesAll("onchainDiscovery", {"release", "facade", "codeHash", "router", "discoveryURI"})
    /\ StatesAll("integration", {"release", "facade", "codeHash", "router", "discoveryURI"})
    /\ StatesAll("onchainDiscovery", {"feedEndpoints"})
    /\ StatesAll("publicEndpoints", {"feedEndpoints"})
    /\ StatesAll("onchainDiscovery", {"events"})
    /\ StatesAll("events", {"events"})
    /\ StatesAll("onchainDiscovery", {"resolver", "resolverId"})
    /\ StatesAll("standardIds", {"resolver", "resolverId"})
    /\ StatesAll("onchainDiscovery", {"initCode", "deployment"})
    /\ StatesAll("facadeEvidence", {"initCode", "deployment"})
    /\ StatesAll("onchainDiscovery", {"codeHash"})
    /\ StatesAll("onchainDiscovery", {"resolver", "oif"})
    /\ StatesAll("standardIds", {"resolver", "oif"})
    /\ StatesAll("facadeEvidence", {"facade", "codeHash", "router", "discoveryURI"})
    /\ StatesAll("integration", {"facade", "codeHash", "router", "discoveryURI"})
    /\ StatesAll("inputEvidence", {"compiler"})
    /\ StatesAll("facadeEvidence", {"compiler"})
    /\ StatesAll("identity", {"facade", "router", "codeHash", "resolver", "resolverHash",
          "oif", "oifHash"})
    /\ StatesAll("abi", {"facade", "router", "codeHash", "resolver", "resolverHash", "oif",
          "oifHash"})
    /\ StatesAll("standardsManifest", {"router"})
    /\ StatesAll("integration", {"router"})
    /\ StatesAll("standardVectors", {"router"})
    /\ StatesAll("onboarding", {"release", "facade"})
    /\ StatesAll("integration", {"release", "facade"})
    /\ StatesAll("onboarding", {"resolver"})
    /\ StatesAll("standardIds", {"resolver"})
    /\ StatesAll("onboarding", {"feedEndpoints"})
    /\ StatesAll("vetting", {"resolver", "resolverHash"})
    /\ StatesAll("standardIds", {"resolver", "resolverHash"})
    /\ StatesAll("vetting", {"router"})
    /\ StatesAll("openapi", {"feedEndpoints", "permitEndpoints"})
    /\ StatesAll("publicEndpoints", {"feedEndpoints", "permitEndpoints"})
    /\ StatesAll("solverManifest", {"feedEndpoints", "permitEndpoints"})
    /\ StatesAll("indexingEvidence", {"release"})
    /\ StatesAll("standardsManifest", {"release"})
    /\ StatesAll("indexingEvidence", {"router", "facade"})
    /\ StatesAll("integration", {"router", "facade"})
    /\ StatesAll("indexingManifest", {"externalStatus"})
    /\ StatesAll("external", {"externalStatus"})
    /\ StatesAll("indexingConfig", {"release"})
    /\ StatesAll("indexingConfig", {"events"})
    /\ StatesAll("indexingConfig", {"startBlock", "router", "facade", "deployment"})
    /\ StatesAll("indexingEvidence", {"startBlock", "router", "facade", "deployment"})
    /\ StatesAll("graphManifests", {"router", "startBlock"})
    /\ StatesAll("indexingConfig", {"router", "startBlock"})
<1>1. /\ StatesAll("manifest", {"release"})
      /\ StatesAll("manifest", {"profile"})
      /\ StatesAll("manifest", {"facade", "discoveryURI"})
  <2>1. "manifest" \in DOMAIN Authored /\ {"release", "profile", "facade",
      "discoveryURI"} \subseteq Authored["manifest"]
    BY Names DEF Authored
  <2>2. QED
    BY <2>1, AuthoredStatesAll
<1>2. /\ StatesAll("integration", {"release"})
      /\ StatesAll("integration", {"profile"})
      /\ StatesAll("integration", {"codeHash"})
      /\ StatesAll("integration", {"discoveryURI"})
      /\ StatesAll("integration", {"facade", "discoveryURI"})
      /\ StatesAll("integration", {"networkId"})
      /\ StatesAll("integration", {"routeCount"})
      /\ StatesAll("integration", {"release", "facade", "codeHash", "router", "discoveryURI"})
      /\ StatesAll("integration", {"facade", "codeHash", "router", "discoveryURI"})
      /\ StatesAll("integration", {"router"})
      /\ StatesAll("integration", {"release", "facade"})
      /\ StatesAll("integration", {"router", "facade"})
  <2>1. "integration" \in DOMAIN Authored /\ {"release", "profile", "codeHash", "discoveryURI",
      "facade", "networkId", "routeCount", "router"} \subseteq Authored["integration"]
    BY Names DEF Authored
  <2>2. QED
    BY <2>1, AuthoredStatesAll
<1>3. /\ StatesAll("identity", {"release"})
      /\ StatesAll("identity", {"facade", "router", "codeHash", "resolver", "resolverHash",
            "oif", "oifHash"})
  <2>1. "identity" \in DOMAIN Authored /\ {"release", "facade", "router", "codeHash",
      "resolver", "resolverHash", "oif", "oifHash"} \subseteq Authored["identity"]
    BY Names DEF Authored
  <2>2. QED
    BY <2>1, AuthoredStatesAll
<1>4. /\ StatesAll("publicEndpoints", {"discoveryURI"})
      /\ StatesAll("publicEndpoints", {"feedEndpoints"})
      /\ StatesAll("publicEndpoints", {"feedEndpoints", "permitEndpoints"})
  <2>1. "publicEndpoints" \in DOMAIN Authored /\ {"discoveryURI", "feedEndpoints",
      "permitEndpoints"} \subseteq Authored["publicEndpoints"]
    BY Names DEF Authored
  <2>2. QED
    BY <2>1, AuthoredStatesAll
<1>5. StatesAll("networkIds", {"networkId"})
  <2>1. "networkIds" \in DOMAIN Authored /\ {"networkId"} \subseteq Authored["networkIds"]
    BY Names DEF Authored
  <2>2. QED
    BY <2>1, AuthoredStatesAll
<1>6. /\ StatesAll("facadeEvidence", {"routeCount"})
      /\ StatesAll("facadeEvidence", {"initCode", "deployment"})
      /\ StatesAll("facadeEvidence", {"facade", "codeHash", "router", "discoveryURI"})
      /\ StatesAll("facadeEvidence", {"compiler"})
  <2>1. "facadeEvidence" \in DOMAIN Authored /\ {"routeCount", "initCode", "deployment",
      "facade", "codeHash", "router", "discoveryURI", "compiler"}
      \subseteq Authored["facadeEvidence"]
    BY Names DEF Authored
  <2>2. QED
    BY <2>1, AuthoredStatesAll
<1>7. /\ StatesAll("standardIds", {"resolver", "resolverHash", "oif", "oifHash"})
      /\ StatesAll("standardIds", {"resolver", "resolverId"})
      /\ StatesAll("standardIds", {"resolver", "oif"})
      /\ StatesAll("standardIds", {"resolver"})
      /\ StatesAll("standardIds", {"resolver", "resolverHash"})
  <2>1. "standardIds" \in DOMAIN Authored /\ {"resolver", "resolverHash", "oif", "oifHash",
      "resolverId"} \subseteq Authored["standardIds"]
    BY Names DEF Authored
  <2>2. QED
    BY <2>1, AuthoredStatesAll
<1>8. StatesAll("inputEvidence", {"compiler"})
  <2>1. "inputEvidence" \in DOMAIN Authored /\ {"compiler"} \subseteq Authored["inputEvidence"]
    BY Names DEF Authored
  <2>2. QED
    BY <2>1, AuthoredStatesAll
<1>9. /\ StatesAll("vetting", {"resolver", "resolverHash"})
      /\ StatesAll("vetting", {"router"})
  <2>1. "vetting" \in DOMAIN Authored /\ {"resolver", "resolverHash", "router"}
      \subseteq Authored["vetting"]
    BY Names DEF Authored
  <2>2. QED
    BY <2>1, AuthoredStatesAll
<1>10. /\ StatesAll("indexingEvidence", {"release"})
       /\ StatesAll("indexingEvidence", {"router", "facade"})
       /\ StatesAll("indexingEvidence", {"startBlock", "router", "facade", "deployment"})
  <2>1. "indexingEvidence" \in DOMAIN Authored /\ {"release", "router", "facade", "startBlock",
      "deployment"} \subseteq Authored["indexingEvidence"]
    BY Names DEF Authored
  <2>2. QED
    BY <2>1, AuthoredStatesAll
<1>11. StatesAll("external", {"externalStatus"})
  <2>1. "external" \in DOMAIN Authored /\ {"externalStatus"} \subseteq Authored["external"]
    BY Names DEF Authored
  <2>2. QED
    BY <2>1, AuthoredStatesAll
<1>12. /\ StatesAll("abi", {"codeHash"})
       /\ StatesAll("abi", {"resolver", "resolverHash", "oif", "oifHash"})
       /\ StatesAll("abi", {"facade", "router", "codeHash", "resolver", "resolverHash", "oif",
             "oifHash"})
  BY Names, BuiltStates, GeneratedStatesAll
<1>13. /\ StatesAll("onchainDiscovery", {"release", "facade", "codeHash", "router",
           "discoveryURI"})
       /\ StatesAll("onchainDiscovery", {"feedEndpoints"})
       /\ StatesAll("onchainDiscovery", {"events"})
       /\ StatesAll("onchainDiscovery", {"resolver", "resolverId"})
       /\ StatesAll("onchainDiscovery", {"initCode", "deployment"})
       /\ StatesAll("onchainDiscovery", {"codeHash"})
       /\ StatesAll("onchainDiscovery", {"resolver", "oif"})
  BY Names, BuiltStates, GeneratedStatesAll
<1>14. StatesAll("events", {"events"})
  BY Names, BuiltStates, GeneratedStatesAll
<1>15. /\ StatesAll("standardsManifest", {"router"})
       /\ StatesAll("standardsManifest", {"release"})
  BY Names, BuiltStates, GeneratedStatesAll
<1>16. StatesAll("standardVectors", {"router"})
  BY Names, BuiltStates, GeneratedStatesAll
<1>17. /\ StatesAll("onboarding", {"release", "facade"})
       /\ StatesAll("onboarding", {"resolver"})
       /\ StatesAll("onboarding", {"feedEndpoints"})
  BY Names, BuiltStates, GeneratedStatesAll
<1>18. StatesAll("openapi", {"feedEndpoints", "permitEndpoints"})
  BY Names, BuiltStates, GeneratedStatesAll
<1>19. StatesAll("solverManifest", {"feedEndpoints", "permitEndpoints"})
  BY Names, BuiltStates, GeneratedStatesAll
<1>20. StatesAll("indexingManifest", {"externalStatus"})
  BY Names, BuiltStates, GeneratedStatesAll
<1>21. /\ StatesAll("indexingConfig", {"release"})
       /\ StatesAll("indexingConfig", {"events"})
       /\ StatesAll("indexingConfig", {"startBlock", "router", "facade", "deployment"})
       /\ StatesAll("indexingConfig", {"router", "startBlock"})
  BY Names, BuiltStates, GeneratedStatesAll
<1>22. StatesAll("graphManifests", {"router", "startBlock"})
  BY Names, BuiltStates, GeneratedStatesAll
<1>23. QED
  BY <1>1, <1>2, <1>3, <1>4, <1>5, <1>6, <1>7, <1>8, <1>9, <1>10, <1>11, <1>12, <1>13, <1>14,
     <1>15, <1>16, <1>17, <1>18, <1>19, <1>20, <1>21, <1>22

\* Every comparison of validate.mjs holds of documents that are all right.
LEMMA RightPassComparisons ==
    ASSUME Stated, subject \in Facts, EveryRight
    PROVE  Agree(validateComparisons)
<1>1. Agree(releaseIdentity)
  <2>1. Agree(Compare({"release"}, "manifest", "integration"))
    BY ComparedState, EveryRightAgrees
  <2>2. Agree(Compare({"release"}, "manifest", "identity"))
    BY ComparedState, EveryRightAgrees
  <2>3. Agree(Compare({"profile"}, "integration", "manifest"))
    BY ComparedState, EveryRightAgrees
  <2>4. QED
    BY <2>1, <2>2, <2>3, AgreeBoth DEF releaseIdentity
<1>2. Agree(contractAbis)
  <2>1. Agree(Compare({"codeHash"}, "abi", "integration"))
    BY ComparedState, EveryRightAgrees
  <2>2. QED
    BY <2>1 DEF contractAbis
<1>3. Agree(facadeBindings)
  <2>1. Agree(Compare({"discoveryURI"}, "integration", "publicEndpoints"))
    BY ComparedState, EveryRightAgrees
  <2>2. Agree(Compare({"facade", "discoveryURI"}, "manifest", "integration"))
    BY ComparedState, EveryRightAgrees
  <2>3. QED
    BY <2>1, <2>2, AgreeBoth DEF facadeBindings
<1>4. Agree(networkIdentities)
  <2>1. Agree(Compare({"networkId"}, "integration", "networkIds"))
    BY ComparedState, EveryRightAgrees
  <2>2. Agree(Compare({"routeCount"}, "integration", "facadeEvidence"))
    BY ComparedState, EveryRightAgrees
  <2>3. QED
    BY <2>1, <2>2, AgreeBoth DEF networkIdentities
<1>5. Agree(standardAbis)
  <2>1. Agree(Compare({"resolver", "resolverHash", "oif", "oifHash"}, "abi", "standardIds"))
    BY ComparedState, EveryRightAgrees
  <2>2. QED
    BY <2>1 DEF standardAbis
<1>6. Agree(onchainIdentity)
  <2>1. Agree(Compare({"release", "facade", "codeHash", "router", "discoveryURI"},
      "onchainDiscovery", "integration"))
    BY ComparedState, EveryRightAgrees
  <2>2. Agree(Compare({"feedEndpoints"}, "onchainDiscovery", "publicEndpoints"))
    BY ComparedState, EveryRightAgrees
  <2>3. Agree(Compare({"events"}, "onchainDiscovery", "events"))
    BY ComparedState, EveryRightAgrees
  <2>4. Agree(Compare({"resolver", "resolverId"}, "onchainDiscovery", "standardIds"))
    BY ComparedState, EveryRightAgrees
  <2>5. Agree(Compare({"initCode", "deployment"}, "onchainDiscovery", "facadeEvidence"))
    BY ComparedState, EveryRightAgrees
  <2>6. QED
    BY <2>1, <2>2, <2>3, <2>4, <2>5, AgreeBoth DEF onchainIdentity
<1>7. Agree(scannerHints)
  <2>1. Agree(Compare({"events"}, "onchainDiscovery", "events"))
    BY ComparedState, EveryRightAgrees
  <2>2. Agree(Compare({"codeHash"}, "onchainDiscovery", "integration"))
    BY ComparedState, EveryRightAgrees
  <2>3. Agree(Compare({"resolver", "oif"}, "onchainDiscovery", "standardIds"))
    BY ComparedState, EveryRightAgrees
  <2>4. QED
    BY <2>1, <2>2, <2>3, AgreeBoth DEF scannerHints
<1>8. Agree(facadeVerification)
  <2>1. Agree(Compare({"facade", "codeHash", "router", "discoveryURI"}, "facadeEvidence",
      "integration"))
    BY ComparedState, EveryRightAgrees
  <2>2. Agree(Compare({"compiler"}, "inputEvidence", "facadeEvidence"))
    BY ComparedState, EveryRightAgrees
  <2>3. QED
    BY <2>1, <2>2, AgreeBoth DEF facadeVerification
<1>9. Agree(pinnedIdentities)
  <2>1. Agree(Compare({"facade", "router", "codeHash", "resolver", "resolverHash", "oif",
      "oifHash"}, "identity", "abi"))
    BY ComparedState, EveryRightAgrees
  <2>2. QED
    BY <2>1 DEF pinnedIdentities
<1>10. Agree(standardsSemantics)
  <2>1. Agree(Compare({"router"}, "standardsManifest", "integration"))
    BY ComparedState, EveryRightAgrees
  <2>2. Agree(Compare({"router"}, "standardVectors", "integration"))
    BY ComparedState, EveryRightAgrees
  <2>3. QED
    BY <2>1, <2>2, AgreeBoth DEF standardsSemantics
<1>11. Agree(onboardingIdentity)
  <2>1. Agree(Compare({"release", "facade"}, "onboarding", "integration"))
    BY ComparedState, EveryRightAgrees
  <2>2. Agree(Compare({"resolver"}, "onboarding", "standardIds"))
    BY ComparedState, EveryRightAgrees
  <2>3. Agree(Compare({"feedEndpoints"}, "onboarding", "publicEndpoints"))
    BY ComparedState, EveryRightAgrees
  <2>4. QED
    BY <2>1, <2>2, <2>3, AgreeBoth DEF onboardingIdentity
<1>12. Agree(resolverVetting)
  <2>1. Agree(Compare({"resolver", "resolverHash"}, "vetting", "standardIds"))
    BY ComparedState, EveryRightAgrees
  <2>2. Agree(Compare({"router"}, "vetting", "integration"))
    BY ComparedState, EveryRightAgrees
  <2>3. QED
    BY <2>1, <2>2, AgreeBoth DEF resolverVetting
<1>13. Agree(endpointCatalogs)
  <2>1. Agree(Compare({"feedEndpoints", "permitEndpoints"}, "openapi", "publicEndpoints"))
    BY ComparedState, EveryRightAgrees
  <2>2. Agree(Compare({"feedEndpoints", "permitEndpoints"}, "solverManifest", "publicEndpoints"))
    BY ComparedState, EveryRightAgrees
  <2>3. QED
    BY <2>1, <2>2, AgreeBoth DEF endpointCatalogs
<1>14. QED
  BY <1>1, <1>2, <1>3, <1>4, <1>5, <1>6, <1>7, <1>8, <1>9, <1>10, <1>11, <1>12, <1>13, AgreeBoth
     DEF validateComparisons

LEMMA RightPassPackage ==
    ASSUME Stated, subject \in Facts, EveryRight
    PROVE  Agree(validateIndexingPackage)
<1>1. Agree(indexingPreconditions)
  <2>1. Agree(Compare({"release"}, "integration", "indexingEvidence"))
    BY ComparedState, EveryRightAgrees
  <2>2. Agree(Compare({"release"}, "integration", "standardsManifest"))
    BY ComparedState, EveryRightAgrees
  <2>3. Agree(Compare({"router", "facade"}, "indexingEvidence", "integration"))
    BY ComparedState, EveryRightAgrees
  <2>4. QED
    BY <2>1, <2>2, <2>3, AgreeBoth DEF indexingPreconditions
<1>2. Agree(descriptorMatch)
  <2>1. Agree(Compare({"externalStatus"}, "indexingManifest", "external"))
    BY ComparedState, EveryRightAgrees
  <2>2. QED
    BY <2>1 DEF descriptorMatch
<1>3. Agree(Compare({"release"}, "indexingConfig", "integration"))
  BY ComparedState, EveryRightAgrees
<1>4. Agree(Compare({"release"}, "integration", "indexingEvidence"))
  BY ComparedState, EveryRightAgrees
<1>5. Agree(Compare({"events"}, "indexingConfig", "events"))
  BY ComparedState, EveryRightAgrees
<1>6. Agree(Compare({"startBlock", "router", "facade", "deployment"}, "indexingConfig",
    "indexingEvidence"))
  BY ComparedState, EveryRightAgrees
<1>7. Agree(Compare({"router", "startBlock"}, "graphManifests", "indexingConfig"))
  BY ComparedState, EveryRightAgrees
<1>8. QED
  BY <1>1, <1>2, <1>3, <1>4, <1>5, <1>6, <1>7, AgreeBoth DEF validateIndexingPackage

LEMMA RebuildsAreGenerated == validateRebuilds \cup validateIndexingRebuilds \subseteq Generated
<1>1. validateRebuilds \subseteq Generated
  BY Names DEF validateRebuilds
<1>2. validateIndexingRebuilds = Range(Outputs["indexing"])
  BY DEF validateIndexingRebuilds, Range, Outputs
<1>3. "checksums" \notin Range(buildIndexingArtifacts)
  BY DEF buildIndexingArtifacts, Range
<1>4. Outputs["indexing"] = buildIndexingArtifacts
  BY DEF Outputs
<1>5. validateIndexingRebuilds \subseteq Generated
  BY <1>2, <1>3, <1>4, OutputNames, OutputsAreGenerated
<1>6. QED
  BY <1>1, <1>5

LEMMA RightPasses ==
    ASSUME Known, subject \in Facts, Alike, EveryRight, digests
    PROVE  Passes("validate")
<1>s. Stated
  BY DEF Known
<1>1. Active
  <2> SUFFICES ASSUME subject = "status"
               PROVE  files["manifest"] = "new" /\ files["integration"] = "new"
    BY DEF Active
  <2>1. /\ "status" \in Authored["scripts"] /\ "status" \in Authored["manifest"]
        /\ "status" \in Authored["integration"]
    BY DEF Authored
  <2>2. {"scripts", "manifest", "integration"} \subseteq DOMAIN files \ Generated
    BY <1>s, <2>1, Names, HandWritten
  <2>3. files["scripts"] = "new"
    BY DEF Known
  <2>4. QED
    BY <2>2, <2>3 DEF Alike
<1>2. ASSUME NEW d \in Generated PROVE Fresh(d)
  <2> SUFFICES ASSUME d \in DOMAIN files PROVE files[d] = files[Origin(d, subject)]
    BY DEF Fresh
  <2>1. Origin(d, subject) \in DOMAIN files
    BY <1>s, <1>2, OriginStates DEF Stated
  <2>2. QED
    BY <1>s, <2>1, AllRightAlike DEF EveryRight
<1>3. Agree(validateComparisons) /\ Agree(validateIndexingPackage)
  BY <1>s, RightPassComparisons, RightPassPackage
<1>4. QED
  BY <1>1, <1>2, <1>3, RebuildsAreGenerated DEF Passes, buildChecksums

\* RoundsSettle for every set of facts a release may change: after two rounds of the
\* README's commands without an edit, or one for a fact no document reads late, documents
\* whose hand-written statements agree pass validate.mjs, whatever was generated or killed
\* in between.
THEOREM RoundsOfTheReadmeSettle == Spec => []RoundsSettle
<1>1. Known /\ Working /\ Progress => RoundsSettle
  <2> SUFFICES ASSUME Known, Working, Progress,
                      rounds = 2 \/ (rounds = 1 /\ Prompt), Alike
               PROVE  Passes("validate")
    BY DEF RoundsSettle, Prompt, Alike, MaxRounds
  <2>1. Settling
    BY DEF Settling
  <2>2. RoundRight /\ DigestsRight
    BY <2>1 DEF Progress
  <2>3. digests
    BY <2>2 DEF DigestsRight
  <2>4. EveryRight
    <3> SUFFICES ASSUME NEW d \in DOMAIN files PROVE Right(d)
      BY DEF EveryRight
    <3>1. CASE d \in Generated
      <4>1. rounds >= 1 /\ (~Lagging(d) \/ rounds = 2)
        BY DEF Lagging, Prompt
      <4>2. QED
        BY <2>2, <3>1, <4>1 DEF RoundRight
    <3>2. CASE d \notin Generated
      BY <3>2 DEF Alike, Right
    <3>3. QED
      BY <3>1, <3>2
  <2>5. QED
    BY <2>3, <2>4, RightPasses DEF Working
<1>2. QED
  BY ProgressInvariant, <1>1, PTL
=============================================================================
