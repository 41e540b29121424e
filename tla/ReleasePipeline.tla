------------------------- MODULE ReleasePipeline --------------------------
(***************************************************************************)
(* A maintainer changes one fact in the documents that state it, runs the  *)
(* generators, and checks the release.  Nothing locks the documents: an    *)
(* edit may come between any two steps, in any order over the documents;   *)
(* a generator may be stopped between two of its writes.  The commands     *)
(* themselves run one after another, in one terminal.                      *)
(***************************************************************************)
EXTENDS ReleaseChecks, Sequences

CONSTANT Subjects    \* the facts a release may change
ASSUME SubjectsAssumption == Subjects \subseteq Facts

VARIABLES
    subject,   \* the fact this release changes
    files,     \* what each document that states it says of it
    digests,   \* whether verification/checksums.sha256 digests every file as it is
    chain,     \* what the contracts answer
    job,       \* the generator that is running: what it has read, and yet to write
    plan,      \* the commands yet to be run
    passed,    \* the checks passed by the files as they are
    rounds     \* rounds of the README's generators since the last edit

vars == <<subject, files, digests, chain, job, plan, passed, rounds>>

Generated == DOMAIN Built
Resting == [writes |-> <<>>, content |-> <<>>, intact |-> TRUE]

\* Nothing rebuilds the SDK vectors to compare them: a check takes them as they are.
Rebuilt == Generated \ {"sdkVectors"}

\* The documents that state a fact, and the one a statement is taken from at last.
Stating(f) ==
    {d \in DOMAIN Authored : f \in Authored[d]} \cup {d \in Generated : f \in DOMAIN Built[d]}
Origin(d, f) == Built[d][f]
Root(d, f) ==
    LET up(e) == IF e \in Rebuilt THEN Origin(e, f) ELSE e
    IN  up(up(d))

\* Of the status, the scripts always state ACTIVE.
Said(d, f) == IF Root(d, f) = "scripts" /\ f = "status" THEN "new" ELSE "old"

MaxRounds == 2

\* Mutant: the digests are taken before the indexing package is written.
ReadmeDigestsEarly ==
    [commands |->
        <<"solverManifest", "onchain", "standards", "standardVectors", "abi", "openapi",
          "onboarding", "sdkVectors", "checksums", "indexing", "validate", "indexing",
          "validateIndexing", "verifyOnchain">>,
     stops |-> FALSE, clean |-> TRUE]

\* README.md, "Release verification": lines pasted into a shell, each run whatever
\* becomes of the one before; indexing:check is generating, then validating.
ReadmeBlock ==
    [commands |->
        <<"solverManifest", "onchain", "standards", "standardVectors", "abi", "openapi",
          "onboarding", "sdkVectors", "indexing", "checksums", "validate", "indexing",
          "validateIndexing", "verifyOnchain">>,
     stops |-> FALSE, clean |-> TRUE]

\* package.json, release:check: it stops at the first command that fails.  The tests
\* and the builds of the packages change no document and are left out.
ReleaseCheck ==
    [commands |->
        <<"validate", "indexing", "validateIndexing", "verifyOnboarding", "verifyOnchain">>,
     stops |-> TRUE, clean |-> FALSE]

Alone(command) == [commands |-> <<command>>, stops |-> TRUE, clean |-> FALSE]
Idle == [commands |-> <<>>, stops |-> TRUE, clean |-> FALSE]

Init ==
    /\ subject \in Subjects
    /\ files = [d \in Stating(subject) |-> Said(d, subject)]
    /\ digests = TRUE
    /\ chain = "old"
    /\ job = Resting
    /\ plan = Idle
    /\ passed = {}
    /\ rounds = 0

(***************************************************************************)
(* The checks.                                                             *)
(***************************************************************************)
Statement(d) == IF d = "chain" THEN chain ELSE files[d]

Agree(comparisons) ==
    \A c \in comparisons :
        c[1] = subject => \A d, e \in c[2] : Statement(d) = Statement(e)

\* A rebuilt document equals its file.
Fresh(d) == d \in DOMAIN files => files[d] = files[Origin(d, subject)]

\* Validate, and the loaders of verify-onchain, demand the ACTIVE status.
Active == subject = "status" => files["manifest"] = "new" /\ files["integration"] = "new"

buildChecksums == digests

Passes(command) ==
    CASE command = "validate" ->
            /\ Active
            /\ Agree(validateComparisons)
            /\ \A d \in validateRebuilds : Fresh(d)
            /\ Agree(validateIndexingPackage)
            /\ \A d \in validateIndexingRebuilds : Fresh(d)
            /\ buildChecksums
      [] command = "validateIndexing" ->
            /\ Agree(validateIndexingPackage)
            /\ \A d \in validateIndexingRebuilds : Fresh(d)
      [] command = "verifyOnboarding" ->
            /\ Agree(verifyOnboarding)
            /\ subject = "status" => chain = "new"
      [] command = "verifyOnchain" ->
            /\ subject = "status" => files["integration"] = "new" /\ chain = "new"
            /\ Agree(verifyOnchain)

(***************************************************************************)
(* Edits, and the chain's own change.                                      *)
(***************************************************************************)
\* files' = new: what is known of the documents as they were is void.
Rewrite(new, listed) ==
    /\ files' = new
    /\ passed' = IF new = files THEN passed ELSE {}
    /\ digests' = (digests /\ (new = files \/ ~listed))

Edit(d) ==
    /\ d \in DOMAIN files \ Generated
    /\ files[d] = "old"
    /\ Rewrite([files EXCEPT ![d] = "new"], d \in CHECKSUM_FILES)
    /\ job' = IF job.writes = <<"checksums">>
                THEN [job EXCEPT !.intact = @ /\ d \notin CHECKSUM_FILES] ELSE job
    /\ plan' = [plan EXCEPT !.clean = FALSE]
    /\ rounds' = 0
    /\ UNCHANGED <<subject, chain>>

\* A deployment, or an activation, of the contracts.
ChainMoves ==
    /\ subject \in OnChain /\ chain = "old"
    /\ chain' = "new"
    /\ passed' = passed \ {"verifyOnboarding", "verifyOnchain"}
    /\ UNCHANGED <<subject, files, digests, job, plan, rounds>>

(***************************************************************************)
(* The commands.                                                           *)
(***************************************************************************)
Begin(p) ==
    /\ job = Resting /\ plan.commands = <<>>
    /\ plan' = p
    /\ UNCHANGED <<subject, files, digests, chain, job, passed, rounds>>

Proceed(ok) == IF ok \/ ~plan.stops THEN [plan EXCEPT !.commands = Tail(@)] ELSE Idle

\* The command at the head of the plan, if it is a generator, reads its documents; one
\* that states nothing of the fact is passed over.
Generate(g) ==
    /\ job = Resting /\ plan.commands # <<>> /\ Head(plan.commands) = g
    /\ LET stating == Range(Outputs[g]) \cap DOMAIN files
           idle == stating = {} /\ g # "checksums"
       IN  IF idle \/ (g = "indexing" /\ ~Agree(indexingPreconditions))
             THEN plan' = Proceed(idle) /\ UNCHANGED job
             ELSE /\ job' = [writes |-> Outputs[g],
                             content |-> [d \in stating |-> files[Origin(d, subject)]],
                             intact |-> TRUE]
                  /\ UNCHANGED plan
    /\ UNCHANGED <<subject, files, digests, chain, passed, rounds>>

\* It writes its files one by one.  A file that states nothing of the fact stays as it
\* is, and the digests are one.
Write ==
    /\ job # Resting
    /\ LET d == Head(job.writes)
           last == Len(job.writes) = 1
       IN  /\ IF d \in DOMAIN job.content
                THEN Rewrite([files EXCEPT ![d] = job.content[d]], d \in CHECKSUM_FILES)
                ELSE /\ digests' = IF d = "checksums" THEN job.intact ELSE digests
                     /\ UNCHANGED <<files, passed>>
           /\ rounds' = IF d = "checksums" /\ plan.clean /\ rounds < MaxRounds
                          THEN rounds + 1 ELSE rounds
           /\ job' = IF last THEN Resting ELSE [job EXCEPT !.writes = Tail(@),
                                                       !.content = Restrict(@, DOMAIN @ \ {d})]
           /\ plan' = IF last THEN Proceed(TRUE) ELSE plan
    /\ UNCHANGED <<subject, chain>>

\* Interrupted: what it wrote stays.
Kill ==
    /\ job # Resting
    /\ job' = Resting /\ plan' = Idle
    /\ UNCHANGED <<subject, files, digests, chain, passed, rounds>>

Check(command) ==
    /\ job = Resting /\ plan.commands # <<>> /\ Head(plan.commands) = command
    /\ plan' = Proceed(Passes(command))
    /\ passed' = IF Passes(command) THEN passed \cup {command} ELSE passed
    /\ UNCHANGED <<subject, files, digests, chain, job, rounds>>

Next ==
    \/ \E d \in DOMAIN Authored : Edit(d)
    \/ ChainMoves
    \/ \E g \in DOMAIN Outputs : Begin(Alone(g))
    \/ Begin(ReadmeBlock)
    \/ Begin(ReleaseCheck)
    \/ \E g \in DOMAIN Outputs : Generate(g)
    \/ Write
    \/ Kill
    \/ \E c \in {"validate", "validateIndexing", "verifyOnboarding", "verifyOnchain"} : Check(c)

Spec == Init /\ [][Next]_vars

(***************************************************************************)
(* Properties.                                                             *)
(***************************************************************************)
\* The statements no comparison of validate.mjs reaches, by fact and document.
Uncompared ==
    Compare({"release", "profile", "discoveryURI", "permitEndpoints"}, "discovery", "discovery")
        \cup Compare({"release", "resolverId"}, "vetting", "vetting")
        \cup Compare({"codeHash", "deployment"}, "indexingEvidence", "indexingEvidence")
        \cup Compare({"resolverHash", "oifHash", "oifId", "level"}, "integration", "integration")
        \cup Compare({"level"}, "standardIds", "standardIds")
        \cup Compare({"sdkVectors", "release"}, "sdkVectorScript", "sdkVectorScript")
        \cup Compare({"release"}, "sdkVectors", "sdkVectors")

\* Once validate.mjs has passed, and until a document changes, every two documents that
\* state the fact state it alike, but those that take it from an uncompared statement:
\* the rebuilt documents and the comparisons together connect all others.
ValidatedDocumentsAgree ==
    "validate" \in passed =>
        \A d, e \in DOMAIN files :
            \/ files[d] = files[e]
            \/ \E u \in {d, e} : <<subject, {Root(u, subject)}>> \in Uncompared

\* Once validate.mjs has passed, and until a document changes, each generated document
\* says what a generator would write now, whatever was interrupted before, and every
\* digest is of the present file.  Only the SDK vectors are not rebuilt by the check.
ValidatedArtifactsAreCurrent ==
    "validate" \in passed =>
        /\ \A d \in Rebuilt \cap DOMAIN files :
              files[d] = files[Origin(d, subject)]
        /\ digests

\* What validate.mjs has passed is what the release check goes on with: the indexing
\* generator it runs next, or any other but the SDK vectors', changes no document.
GeneratorsKeepWhatIsValidated ==
    [][ "validate" \in passed =>
          \A d \in Rebuilt \cap DOMAIN files : files'[d] = files[d] ]_vars

\* Two rounds of the README's commands, with no edit in between, bring documents whose
\* hand-written statements agree to a release validate.mjs passes; one round does,
\* except for the event catalogue, which the indexing generator writes after the
\* on-chain discovery is built from it, and for the SDK vectors and the release they
\* carry, written after the standard vectors built from them.
RoundsSettle ==
    /\ rounds = MaxRounds \/ (rounds = 1 /\ subject \notin {"events", "sdkVectors", "release"})
    /\ \A d, e \in DOMAIN files \ Generated : files[d] = files[e]
    => Passes("validate")

\* The statements of a fact that the release check does not hold against the chain.
Unverified ==
    Compare({"release"}, "discovery", "discovery")
        \cup Compare({"release"}, "sdkVectorScript", "sdkVectorScript")
        \cup Compare({"release"}, "sdkVectors", "sdkVectors")
        \cup Compare({"release", "resolverId"}, "vetting", "vetting")
        \cup Compare({"codeHash"}, "indexingEvidence", "indexingEvidence")
        \cup Compare({"resolverHash", "oifHash", "oifId"}, "integration", "integration")

\* When the release check has passed, every document states what the chain answers.
ReleasedDocumentsStateTheChain ==
    {"validate", "verifyOnboarding", "verifyOnchain"} \subseteq passed /\ subject \in OnChain =>
        \A d \in DOMAIN files :
            <<subject, {Root(d, subject)}>> \in Unverified \/ files[d] = chain
=============================================================================
