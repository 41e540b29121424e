----------------------------- MODULE DuneSync -----------------------------
(***************************************************************************)
(* One maintainer's runs of scripts/sync-dune-v6.mjs against Dune: the     *)
(* preflight, the bounded state audit, the gates, the PATCH of the saved   *)
(* canonical query, the refresh of its materialized view, the downstream   *)
(* validation, and the local files written on the way.                     *)
(*                                                                         *)
(* Meanwhile Dune re-decodes tables, its hourly cron refreshes the view,   *)
(* and people may edit the saved query by hand.  A run may throw, or be    *)
(* killed, at every await; nothing it did is undone.                       *)
(***************************************************************************)
EXTENDS Naturals, Sequences

CONSTANTS
  ActiveSlugs,    \* activeSlugs: networks in every canonical query
  Bnb,            \* the network behind the activation gate
  MaxDataChanges, \* bound on changes of the decoded tables
  MaxEdits        \* bound on hand edits of the saved query

ASSUME SlugsAssumption == ActiveSlugs # {} /\ Bnb \notin ActiveSlugs
ASSUME BoundsAssumption == MaxDataChanges \in Nat /\ MaxEdits \in Nat

Networks == ActiveSlugs \cup {Bnb}
History == {"absent", "short", "complete"}
Saved == {"base", "all"}

VARIABLES
  data,      \* decoded tables of a network: missing, below its baseline, full
  foreign,   \* networks whose tables hold rows of another contract
  canonical, \* the saved canonical query: "base", "all", or hand-"edited"
  mv,        \* rows of each network in the materialized view
  changes,   \* changes of the decoded tables so far (bounded)
  edits,     \* hand edits so far (bounded)
  local,     \* the committed files: manifest, bindings, handoff, SQL
  pc,        \* where the run is
  mode,      \* its command-line mode
  wasFinal,  \* finalAlreadyActive
  bnbReady,  \* bnbDatasetsReady
  active,    \* networkStates: the networks judged ACTIVE
  mutations, \* remoteMutations
  outcome,   \* how the last run ended
  readySeen, \* history: all tables were full and clean at once in this run
  fullSeen,  \* history: the view held every full history at once in this run
  touched    \* history: a hand edit since the run began

external == <<data, foreign, changes>>
remote == <<canonical, mv>>
run == <<mode, wasFinal, bnbReady, active, mutations>>
history == <<readySeen, fullSeen, touched>>
vars == <<external, remote, edits, local, pc, run, outcome, history>>

Modes == {"audit", "apply", "activate"}
Steps == {"idle", "discover", "preflight", "states", "report", "sync", "refresh",
          "sql", "overview", "derived", "bindings", "manifest", "handoff"}

TypeOK ==
  /\ data \in [Networks -> History]
  /\ foreign \in SUBSET Networks
  /\ canonical \in Saved \cup {"edited"}
  /\ mv \in [Networks -> History]
  /\ changes \in 0 .. MaxDataChanges
  /\ edits \in 0 .. MaxEdits
  /\ local \in [status : {"backfilling", "baseReady", "final"},
                active : SUBSET Networks,
                bindings : SUBSET Networks,
                handoff : SUBSET Networks,
                sql : Saved,
                log : Seq({"patch", "refresh"})]
  /\ pc \in Steps
  /\ mode \in Modes
  /\ wasFinal \in BOOLEAN
  /\ bnbReady \in BOOLEAN
  /\ active \in SUBSET Networks
  /\ mutations \in Seq({"patch", "refresh"})
  /\ outcome \in {"none", "failed", "drift", "required", "clean", "done"}
  /\ readySeen \in BOOLEAN
  /\ fullSeen \in BOOLEAN
  /\ touched \in BOOLEAN

---------------------------------------------------------------------------
(* What the code reads from its state                                      *)

\* All tables of every network are full and hold only canonical rows.
Ready(d, f) == f = {} /\ \A n \in Networks : d[n] = "complete"

Full(view) == \A n \in Networks : view[n] = "complete"

IsFinal(files) == files.status = "final" /\ files.active = Networks

\* currentCanonicalSql: what the saved query must be when a run starts.
Expected == IF wasFinal THEN "all" ELSE "base"

IncludeBnb == Bnb \in active /\ (mode = "activate" \/ wasFinal)

\* canonicalSql: what the run wants the saved query to be.
Target == IF IncludeBnb THEN "all" ELSE "base"

\* changed: the definition differs from the text cached by the preflight.
Changed == Target # Expected

Sources(sql) == IF sql = "all" THEN Networks ELSE ActiveSlugs

\* A refresh of the view executes the saved query as it is by then: it fails
\* on a missing table, and a hand-edited text may read any networks.
RefreshView ==
  \E S \in SUBSET Networks :
    /\ canonical # "edited" => S = Sources(canonical)
    /\ \A n \in S : data[n] # "absent"
    /\ mv' = [n \in Networks |-> IF n \in S THEN data[n] ELSE "absent"]

\* Mutant: rows of another contract are not held against a network.
VerdictIgnoresForeign == {n \in Networks : data[n] = "complete" /\ (n = Bnb => bnbReady)}

\* The state audit's verdict: every dataset bound, no baseline missed and no
\* row of another contract.
Verdict == {n \in Networks :
              /\ data[n] = "complete"
              /\ n \notin foreign
              /\ n = Bnb => bnbReady}

\* The committed state: every dataset discovered, none filled yet.
Init ==
  /\ data = [n \in Networks |-> "short"]
  /\ foreign = {}
  /\ canonical = "base"
  /\ mv = [n \in Networks |-> IF n = Bnb THEN "absent" ELSE "short"]
  /\ changes = 0
  /\ edits = 0
  /\ local = [status |-> "backfilling", active |-> {}, bindings |-> {},
              handoff |-> {}, sql |-> "base", log |-> <<>>]
  /\ pc = "idle"
  /\ mode = "audit"
  /\ wasFinal = FALSE
  /\ bnbReady = FALSE
  /\ active = {}
  /\ mutations = <<>>
  /\ outcome = "none"
  /\ readySeen = FALSE
  /\ fullSeen = FALSE
  /\ touched = FALSE

---------------------------------------------------------------------------
(* A run of the script                                                     *)

\* A run ends here, for better or worse.
End(how) == pc' = "idle" /\ outcome' = how

\* main() reads the local manifest before its first call to Dune.
Begin(m) ==
  /\ pc = "idle"
  /\ pc' = "discover"
  /\ mode' = m
  /\ wasFinal' = IsFinal(local)
  /\ bnbReady' = FALSE
  /\ active' = {}
  /\ mutations' = <<>>
  /\ outcome' = "none"
  /\ readySeen' = Ready(data, foreign)
  /\ fullSeen' = Full(mv)
  /\ touched' = FALSE
  /\ UNCHANGED <<external, remote, edits, local>>

\* discoverDatasets: base and HyperEVM must be complete in the catalogue, and
\* BNB too when the manifest is final.
Discover ==
  /\ pc = "discover"
  /\ \A n \in ActiveSlugs : data[n] # "absent"
  /\ wasFinal => data[Bnb] # "absent"
  /\ bnbReady' = (data[Bnb] # "absent")
  /\ pc' = "preflight"
  /\ UNCHANGED <<external, remote, edits, local, mode, wasFinal, active,
                 mutations, outcome, history>>

\* Mutant: the saved text is not compared.
PreflightTrusts ==
  /\ pc = "preflight"
  /\ pc' = "states"
  /\ UNCHANGED <<external, remote, edits, local, run, outcome, history>>

\* auditRemoteArchitecture and the preflight comparison.
Preflight ==
  /\ pc = "preflight"
  /\ canonical = Expected
  /\ pc' = "states"
  /\ UNCHANGED <<external, remote, edits, local, run, outcome, history>>

\* Another source count or another text: refused in every mode.
RefuseDrift ==
  /\ pc = "preflight"
  /\ canonical # Expected
  /\ End("drift")
  /\ UNCHANGED <<external, remote, edits, local, run, history>>

\* --audit of a final manifest takes the activation's evidence from it.
AuditCommitted ==
  /\ pc = "states"
  /\ mode = "audit" /\ wasFinal
  /\ active' = local.active
  /\ pc' = "report"
  /\ UNCHANGED <<external, remote, edits, local, mode, wasFinal, bnbReady,
                 mutations, outcome, history>>

\* Otherwise one statement counts the rows of every discovered table, and the
\* gates of the mode are applied to its verdict.
AuditLive ==
  /\ pc = "states"
  /\ ~(mode = "audit" /\ wasFinal)
  /\ \A n \in ActiveSlugs : data[n] # "absent"
  /\ bnbReady => data[Bnb] # "absent" /\ Bnb \notin foreign
  /\ mode = "activate" => Verdict = Networks
  /\ mode = "apply" => ActiveSlugs \subseteq Verdict
  /\ active' = Verdict
  /\ pc' = IF mode = "audit" THEN "report" ELSE "sync"
  /\ UNCHANGED <<external, remote, edits, local, mode, wasFinal, bnbReady,
                 mutations, outcome, history>>

\* Mutant: the local SQL files are left out of the comparison.
ReportSkipsSql ==
  /\ pc = "report"
  /\ End(IF local.bindings = active /\ local.active = active THEN "clean" ELSE "required")
  /\ UNCHANGED <<external, remote, edits, local, run, history>>

\* --audit compares and ends: nothing is written.
Report ==
  /\ pc = "report"
  /\ End(IF /\ local.sql = Target
            /\ local.bindings = active
            /\ local.active = active
         THEN "clean" ELSE "required")
  /\ UNCHANGED <<external, remote, edits, local, run, history>>

\* PATCH /query/<canonical>, over whatever is saved by now; its answer may be
\* lost, which ends the run.
Patch ==
  /\ pc = "sync"
  /\ Changed
  /\ canonical' = Target
  /\ mutations' = Append(mutations, "patch")
  /\ \/ pc' = "refresh" /\ UNCHANGED outcome
     \/ End("failed")
  /\ UNCHANGED <<external, mv, edits, local, mode, wasFinal, bnbReady, active, history>>

\* The view already has the wanted definition.  An activation that finds
\* nothing to change throws instead.
SkipPatch ==
  /\ pc = "sync"
  /\ ~Changed
  /\ mode # "activate"
  /\ pc' = "sql"
  /\ UNCHANGED <<external, remote, edits, local, run, outcome, history>>

\* Mutant: the refresh is requested and not awaited.
RefreshNotAwaited ==
  /\ pc = "refresh"
  /\ mutations' = Append(mutations, "refresh")
  /\ pc' = "sql"
  /\ UNCHANGED <<external, remote, edits, local, mode, wasFinal, bnbReady,
                 active, outcome, history>>

\* POST .../refresh, then bounded polling until it has completed.
Refresh ==
  /\ pc = "refresh"
  /\ RefreshView
  /\ mutations' = Append(mutations, "refresh")
  /\ fullSeen' = (fullSeen \/ Full(mv'))
  /\ pc' = "sql"
  /\ UNCHANGED <<external, canonical, edits, local, mode, wasFinal, bnbReady,
                 active, outcome, readySeen, touched>>

\* Mutant: the definition of the preflight is written.
WriteSqlOfPreflight ==
  /\ pc = "sql"
  /\ local' = [local EXCEPT !.sql = Expected]
  /\ pc' = "overview"
  /\ UNCHANGED <<external, remote, edits, run, outcome, history>>

\* writeSqlFiles: before anything is validated.
WriteSql ==
  /\ pc = "sql"
  /\ local' = [local EXCEPT !.sql = Target]
  /\ pc' = "overview"
  /\ UNCHANGED <<external, remote, edits, run, outcome, history>>

\* The overview query's own execution.  It does not count status changes, so
\* a short history may satisfy it; a network without rows never does.
ReadOverview ==
  /\ pc = "overview"
  /\ \A n \in Networks : mv[n] # "absent"
  /\ pc' = "derived"
  /\ UNCHANGED <<external, remote, edits, local, run, outcome, history>>

\* Mutant: the minimums of the derived queries are not asserted.
ValidateNothing ==
  /\ pc = "derived"
  /\ pc' = "bindings"
  /\ UNCHANGED <<external, remote, edits, local, run, outcome, history>>

\* The other eight executions, then validateDownstreamExecutions and, for an
\* activation, the check of the exact mutation set.
Validate ==
  /\ pc = "derived"
  /\ Full(mv)
  /\ mode = "activate" => mutations = <<"patch", "refresh">>
  /\ pc' = "bindings"
  /\ UNCHANGED <<external, remote, edits, local, run, outcome, history>>

WriteBindings ==
  /\ pc = "bindings"
  /\ local' = [local EXCEPT !.bindings = active]
  /\ pc' = "manifest"
  /\ UNCHANGED <<external, remote, edits, run, outcome, history>>

\* dune-manifest.json: the status follows from the networks read.
WriteManifest ==
  /\ pc = "manifest"
  /\ local' = [local EXCEPT !.status = IF IncludeBnb THEN "final" ELSE "baseReady",
                            !.active = active,
                            !.log = mutations]
  /\ pc' = "handoff"
  /\ UNCHANGED <<external, remote, edits, run, outcome, history>>

WriteHandoff ==
  /\ pc = "handoff"
  /\ local' = [local EXCEPT !.handoff = active]
  /\ End("done")
  /\ UNCHANGED <<external, remote, edits, run, history>>

\* Any other check that fails, an API error, a timeout of the polling, a kill.
Throw ==
  /\ pc # "idle"
  /\ End("failed")
  /\ UNCHANGED <<external, remote, edits, local, run, history>>

---------------------------------------------------------------------------
(* Dune and its other users                                                *)

\* Tables are decoded, dropped and backfilled again.
Redecode(n) ==
  /\ changes < MaxDataChanges
  /\ changes' = changes + 1
  /\ \E h \in History \ {data[n]} : data' = [data EXCEPT ![n] = h]
  /\ readySeen' = (readySeen \/ Ready(data', foreign))
  /\ UNCHANGED <<foreign, remote, edits, local, pc, run, outcome, fullSeen, touched>>

\* Rows of another contract appear in, or leave, a network's tables.
Collide(n) ==
  /\ changes < MaxDataChanges
  /\ changes' = changes + 1
  /\ foreign' = IF n \in foreign THEN foreign \ {n} ELSE foreign \cup {n}
  /\ readySeen' = (readySeen \/ Ready(data, foreign'))
  /\ UNCHANGED <<data, remote, edits, local, pc, run, outcome, fullSeen, touched>>

\* The hourly schedule, or a refresh that completes after its run gave up.
CronRefresh ==
  /\ RefreshView
  /\ fullSeen' = (fullSeen \/ Full(mv'))
  /\ UNCHANGED <<external, canonical, edits, local, pc, run, outcome, readySeen, touched>>

\* Someone saves another text, or puts a known one back.
HandEdit ==
  /\ edits < MaxEdits
  /\ edits' = edits + 1
  /\ canonical' \in (Saved \cup {"edited"}) \ {canonical}
  /\ touched' = TRUE
  /\ UNCHANGED <<external, mv, local, pc, run, outcome, readySeen, fullSeen>>

Run ==
  \/ Discover \/ Preflight \/ RefuseDrift \/ AuditCommitted \/ AuditLive
  \/ Report \/ Patch \/ SkipPatch \/ Refresh \/ WriteSql \/ ReadOverview
  \/ Validate \/ WriteBindings \/ WriteManifest \/ WriteHandoff \/ Throw

Next ==
  \/ \E m \in Modes : Begin(m)
  \/ Run
  \/ \E n \in Networks : Redecode(n) \/ Collide(n)
  \/ CronRefresh
  \/ HandEdit

Spec == Init /\ [][Next]_vars

---------------------------------------------------------------------------
(* Properties                                                              *)

\* "--activate-bnb fails closed" (analytics/dune/README.md): a run widens the
\* saved query to BNB only when, since that run began, there was a moment at
\* which every network's tables were full and free of foreign rows, and only
\* in that mode.
ActivationFailsClosed ==
  [][ (pc' # pc /\ canonical' # canonical /\ canonical' = "all") =>
        mode = "activate" /\ readySeen ]_vars

\* "--audit is read-only" (analytics/dune/README.md): from its first step to
\* its last an audit changes neither the saved query, the view nor a file.
AuditReadOnly ==
  [][ (pc # "idle" /\ pc' # pc /\ mode = "audit") => UNCHANGED <<remote, local>> ]_vars

\* The manifest turns final only in a run that, after it began, saw full and
\* clean tables at one moment and a view with every full history at another.
FinalIsEarned ==
  [][ (IsFinal(local') /\ ~IsFinal(local)) => readySeen /\ fullSeen ]_vars

\* A run that ended well, with no hand edit meanwhile, left the saved query,
\* the SQL file, the manifest, the bindings and the handoff in agreement.
CompletedRunAgrees ==
  (pc = "idle" /\ outcome = "done" /\ ~touched) =>
    /\ canonical = local.sql
    /\ local.sql = (IF IsFinal(local) THEN "all" ELSE "base")
    /\ local.bindings = local.active
    /\ local.handoff = local.active

\* An audit that reports no mutation required did find them in agreement.
CleanAuditAgrees ==
  (pc = "idle" /\ outcome = "clean" /\ ~touched) =>
    /\ canonical = local.sql
    /\ local.sql = (IF IsFinal(local) THEN "all" ELSE "base")
    /\ local.bindings = local.active

\* Without hand edits the manifest is either still backfilling or final, the
\* two states its test accepts (test/dune-analytics.test.mjs:74), however runs
\* are cut short: a view without BNB never validates, so the third status the
\* script can write is out of reach.
ManifestStatusKnown == local.status \in {"backfilling", "final"}

\* Without hand edits a final manifest keeps bindings that are final too,
\* whatever later runs do to the saved query.
FinalStaysWhole ==
  local.status = "final" => local.active = Networks /\ local.bindings = Networks

\* An interrupted activation, or a --apply that narrowed the saved query of a
\* final manifest, cannot be repaired by running the script again: once the
\* saved query and the manifest disagree while no run is active, only a hand
\* edit ends it.
Disagree == canonical # (IF IsFinal(local) THEN "all" ELSE "base")
DisagreementNeedsHand == []((pc = "idle" /\ Disagree) => []Disagree)

\* What test/dune-analytics.test.mjs:162-165 asserts of the committed files when
\* the manifest is not final: the SQL file does not read BNB.
PendingSqlOmitsBnb == (pc = "idle" /\ local.status # "final") => local.sql = "base"
===========================================================================
