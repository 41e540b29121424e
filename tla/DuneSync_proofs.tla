-------------------------- MODULE DuneSync_proofs --------------------------
(***************************************************************************)
(* Proofs about DuneSync for any set of active networks and any bounds:    *)
(* the inductive invariant, and from it the fail-closed activation, the    *)
(* read-only audit, the earned final manifest and the agreement a completed *)
(* run or a clean audit leaves behind.                                     *)
(***************************************************************************)
EXTENDS DuneSync, TLAPS

\* Steps of a run that got past the gates of its mode.
Acting == {"sync", "refresh", "sql", "overview", "derived", "bindings",
           "manifest", "handoff"}

\* Steps at which the saved query is what the run wants.
Patched == Acting \ {"sync"}

\* Steps at which the SQL file is what the run wants.
Written == Acting \ {"sync", "refresh", "sql"}

\* The history variables have noticed the present.
Noticed ==
  pc # "idle" =>
    /\ Ready(data, foreign) => readySeen
    /\ Full(mv) => fullSeen

\* Past the gates the verdict is what the mode asks for.
Gated ==
  pc \in Acting =>
    /\ mode # "audit"
    /\ ActiveSlugs \subseteq active
    /\ mode = "activate" => active = Networks /\ readySeen

\* wasFinal describes the manifest until the run rewrites it.
Started == pc \notin {"idle", "handoff"} => (wasFinal <=> IsFinal(local))

Reporting == pc = "report" => mode = "audit" /\ (wasFinal => active = Networks)

Validated == pc \in {"bindings", "manifest", "handoff"} => fullSeen

\* Without a hand edit the saved query is what the run believes it is.
Believed ==
  ~touched =>
    /\ pc \in {"states", "report", "sync"} => canonical = Expected
    /\ pc \in Patched => canonical = Target

\* What the run has written so far.
Progress ==
  /\ pc \in Written => local.sql = Target
  /\ pc \in {"manifest", "handoff"} => local.bindings = active
  /\ pc = "handoff" => local.active = active /\ (IsFinal(local) <=> IncludeBnb)

IInv ==
  /\ TypeOK
  /\ Noticed
  /\ Gated
  /\ Started
  /\ Reporting
  /\ Validated
  /\ Believed
  /\ Progress
  /\ CompletedRunAgrees
  /\ CleanAuditAgrees

---------------------------------------------------------------------------
\* A verdict of ACTIVE for every network means full and clean tables.
LEMMA FullVerdict ==
  ASSUME TypeOK, Verdict = Networks
  PROVE  Ready(data, foreign)
BY DEF TypeOK, Verdict, Ready

\* A refresh leaves a well-typed view.
LEMMA RefreshedView ==
  ASSUME TypeOK, RefreshView
  PROVE  mv' \in [Networks -> History]
BY DEF TypeOK, RefreshView, History

\* The invariant holds in the initial state.
LEMMA InitIInv == Init => IInv
<1> SUFFICES ASSUME Init PROVE IInv
  OBVIOUS
<1>1. local \in [status : {"backfilling", "baseReady", "final"},
                 active : SUBSET Networks,
                 bindings : SUBSET Networks,
                 handoff : SUBSET Networks,
                 sql : Saved,
                 log : Seq({"patch", "refresh"})]
  BY DEF Init, Saved
<1>2. mutations \in Seq({"patch", "refresh"})
  BY DEF Init
<1>3. data \in [Networks -> History] /\ mv \in [Networks -> History]
  BY DEF Init, History
<1>4. TypeOK
  <2>1. foreign \in SUBSET Networks /\ active \in SUBSET Networks
    BY DEF Init
  <2>2. changes \in 0 .. MaxDataChanges /\ edits \in 0 .. MaxEdits
    BY BoundsAssumption DEF Init
  <2>3. /\ canonical \in Saved \cup {"edited"}
        /\ pc \in Steps
        /\ mode \in Modes
        /\ outcome \in {"none", "failed", "drift", "required", "clean", "done"}
    BY DEF Init, Saved, Steps, Modes
  <2>4. /\ wasFinal \in BOOLEAN
        /\ bnbReady \in BOOLEAN
        /\ readySeen \in BOOLEAN
        /\ fullSeen \in BOOLEAN
        /\ touched \in BOOLEAN
    BY DEF Init
  <2> QED
    BY <1>1, <1>2, <1>3, <2>1, <2>2, <2>3, <2>4 DEF TypeOK
<1>5. pc = "idle" /\ outcome = "none"
  BY DEF Init
<1> QED
  BY <1>4, <1>5 DEF IInv, Noticed, Gated, Started, Reporting, Validated, Believed, Progress,
    CompletedRunAgrees, CleanAuditAgrees, Acting, Patched, Written

\* Every step keeps it.
LEMMA StepIInv == IInv /\ [Next]_vars => IInv'
<1> SUFFICES ASSUME IInv, [Next]_vars PROVE IInv'
  OBVIOUS
<1> USE DEF IInv
<1>1. ASSUME NEW m \in Modes, Begin(m) PROVE IInv'
  <2>0. /\ wasFinal' \in BOOLEAN
        /\ readySeen' \in BOOLEAN
        /\ fullSeen' \in BOOLEAN
        /\ mutations' \in Seq({"patch", "refresh"})
    BY <1>1 DEF Begin, IsFinal, Ready, Full
  <2>1. TypeOK'
    BY <1>1, <2>0 DEF Begin, TypeOK, Steps, external, remote
  <2>2. Noticed'
    BY <1>1 DEF Begin, Noticed, Full, Ready, external, remote
  <2>3. Gated' /\ Started' /\ Reporting' /\ Validated'
    BY <1>1 DEF Begin, Gated, Started, Reporting, Validated, Acting, IsFinal, external,
         remote
  <2>4. Believed' /\ Progress'
    BY <1>1 DEF Begin, Believed, Progress, Acting, Patched, Written, IsFinal, Expected,
         Target, IncludeBnb, external, remote
  <2>5. CompletedRunAgrees' /\ CleanAuditAgrees'
    BY <1>1 DEF Begin, CompletedRunAgrees, CleanAuditAgrees, IsFinal, external, remote
  <2> QED
    BY <2>1, <2>2, <2>3, <2>4, <2>5
<1>2. CASE Discover
  BY <1>2 DEF Discover, TypeOK, Noticed, Gated, Started, Reporting, Validated, Believed,
       Progress, CompletedRunAgrees, CleanAuditAgrees, Acting, Patched, Written, Steps,
       external, remote, history, Full, Ready, IsFinal
<1>3. CASE Preflight
  BY <1>3 DEF Preflight, TypeOK, Noticed, Gated, Started, Reporting, Validated, Believed,
       Progress, CompletedRunAgrees, CleanAuditAgrees, Acting, Patched, Written, Steps,
       external, remote, run, history, Full, Ready, IsFinal, Expected
<1>4. CASE RefuseDrift
  BY <1>4 DEF RefuseDrift, TypeOK, Noticed, Gated, Started, Reporting, Validated, Believed,
       Progress, CompletedRunAgrees, CleanAuditAgrees, Acting, Patched, Written, Steps,
       external, remote, run, history, End
<1>5. CASE AuditCommitted
  BY <1>5 DEF AuditCommitted, TypeOK, Noticed, Gated, Started, Reporting, Validated,
       Believed, Progress, CompletedRunAgrees, CleanAuditAgrees, Acting, Patched, Written,
       Steps, external, remote, history, Full, Ready, IsFinal, Expected
<1>6. CASE AuditLive
  <2>0. mode = "activate" => readySeen
    BY <1>6, FullVerdict DEF AuditLive, Noticed
  <2>1. TypeOK'
    BY <1>6 DEF AuditLive, TypeOK, Steps, Verdict, Networks, external, remote, history
  <2>2. Noticed'
    BY <1>6 DEF AuditLive, Noticed, Full, Ready, external, remote, history
  <2>3. Gated' /\ Started' /\ Reporting' /\ Validated'
    BY <1>6, <2>0 DEF AuditLive, Gated, Started, Reporting, Validated, Acting, IsFinal,
         Modes, Networks, TypeOK, external, remote, history
  <2>4. Believed' /\ Progress'
    BY <1>6 DEF AuditLive, Believed, Progress, Acting, Patched, Written, IsFinal, Expected,
         Target, IncludeBnb, external, remote, history
  <2>5. CompletedRunAgrees' /\ CleanAuditAgrees'
    BY <1>6 DEF AuditLive, CompletedRunAgrees, CleanAuditAgrees, IsFinal, external, remote,
         history
  <2> QED
    BY <2>1, <2>2, <2>3, <2>4, <2>5
<1>7. CASE Report
  BY <1>7 DEF Report, TypeOK, Noticed, Gated, Started, Reporting, Validated, Believed,
       Progress, CompletedRunAgrees, CleanAuditAgrees, Acting, Patched, Written, Steps,
       external, remote, run, history, End, IsFinal, Expected, Target, IncludeBnb, Networks
<1>8. CASE Patch
  BY <1>8 DEF Patch, TypeOK, Noticed, Gated, Started, Reporting, Validated, Believed,
       Progress, CompletedRunAgrees, CleanAuditAgrees, Acting, Patched, Written, Steps,
       external, remote, history, End, Full, Ready, IsFinal, Expected, Target,
       IncludeBnb, Saved
<1>9. CASE SkipPatch
  BY <1>9 DEF SkipPatch, TypeOK, Noticed, Gated, Started, Reporting, Validated, Believed,
       Progress, CompletedRunAgrees, CleanAuditAgrees, Acting, Patched, Written, Steps,
       external, remote, run, history, Full, Ready, IsFinal, Expected, Target,
       IncludeBnb, Changed
<1>10. CASE Refresh
  <2>1. TypeOK'
    BY <1>10, RefreshedView DEF Refresh, TypeOK, Steps, external, remote
  <2>2. Noticed'
    BY <1>10 DEF Refresh, Noticed, Full, Ready, external, remote
  <2>3. Gated' /\ Started' /\ Reporting' /\ Validated'
    BY <1>10 DEF Refresh, Gated, Started, Reporting, Validated, Acting, IsFinal, external,
         remote
  <2>4. Believed' /\ Progress'
    BY <1>10 DEF Refresh, Believed, Progress, Acting, Patched, Written, IsFinal, Expected,
         Target, IncludeBnb, external, remote
  <2>5. CompletedRunAgrees' /\ CleanAuditAgrees'
    BY <1>10 DEF Refresh, CompletedRunAgrees, CleanAuditAgrees, IsFinal, external, remote
  <2> QED
    BY <2>1, <2>2, <2>3, <2>4, <2>5
<1>11. CASE WriteSql
  BY <1>11 DEF WriteSql, TypeOK, Noticed, Gated, Started, Reporting, Validated, Believed,
       Progress, CompletedRunAgrees, CleanAuditAgrees, Acting, Patched, Written, Steps,
       external, remote, run, history, Full, Ready, IsFinal, Expected, Target,
       IncludeBnb, Saved
<1>12. CASE ReadOverview
  BY <1>12 DEF ReadOverview, TypeOK, Noticed, Gated, Started, Reporting, Validated,
       Believed, Progress, CompletedRunAgrees, CleanAuditAgrees, Acting, Patched, Written,
       Steps, external, remote, run, history, Full, Ready, IsFinal, Expected, Target,
       IncludeBnb
<1>13. CASE Validate
  BY <1>13 DEF Validate, TypeOK, Noticed, Gated, Started, Reporting, Validated, Believed,
       Progress, CompletedRunAgrees, CleanAuditAgrees, Acting, Patched, Written, Steps,
       external, remote, run, history, Full, Ready, IsFinal, Expected, Target,
       IncludeBnb
<1>14. CASE WriteBindings
  BY <1>14 DEF WriteBindings, TypeOK, Noticed, Gated, Started, Reporting, Validated,
       Believed, Progress, CompletedRunAgrees, CleanAuditAgrees, Acting, Patched, Written,
       Steps, external, remote, run, history, Full, Ready, IsFinal, Expected, Target,
       IncludeBnb
<1>15. CASE WriteManifest
  <2>1. TypeOK'
    BY <1>15 DEF WriteManifest, TypeOK, Steps, external, remote, run, history
  <2>2. Noticed'
    BY <1>15 DEF WriteManifest, Noticed, Full, Ready, external, remote, run, history
  <2>3. Gated' /\ Started' /\ Reporting' /\ Validated'
    BY <1>15 DEF WriteManifest, Gated, Started, Reporting, Validated, Acting, IsFinal,
         external, remote, run, history
  <2>4. Believed' /\ Progress'
    BY <1>15 DEF WriteManifest, Believed, Progress, Acting, Patched, Written, IsFinal,
         Expected, Target, IncludeBnb, Gated, Networks, Modes, TypeOK, external, remote,
         run, history
  <2>5. CompletedRunAgrees' /\ CleanAuditAgrees'
    BY <1>15 DEF WriteManifest, CompletedRunAgrees, CleanAuditAgrees, IsFinal, external,
         remote, run, history
  <2> QED
    BY <2>1, <2>2, <2>3, <2>4, <2>5
<1>16. CASE WriteHandoff
  BY <1>16 DEF WriteHandoff, TypeOK, Noticed, Gated, Started, Reporting, Validated,
       Believed, Progress, CompletedRunAgrees, CleanAuditAgrees, Acting, Patched, Written,
       Steps, external, remote, run, history, End, Full, Ready, IsFinal, Expected, Target,
       IncludeBnb
<1>17. CASE Throw
  BY <1>17 DEF Throw, TypeOK, Noticed, Gated, Started, Reporting, Validated, Believed,
       Progress, CompletedRunAgrees, CleanAuditAgrees, Acting, Patched, Written, Steps,
       external, remote, run, history, End
<1>18. ASSUME NEW n \in Networks, Redecode(n) PROVE IInv'
  <2>0. data' \in [Networks -> History]
    BY <1>18 DEF Redecode, TypeOK
  <2>1. TypeOK'
    BY <1>18, <2>0, BoundsAssumption DEF Redecode, TypeOK, Steps, Ready, remote, run
  <2>2. Noticed'
    BY <1>18 DEF Redecode, Noticed, Full, Ready, remote, run
  <2>3. Gated' /\ Started' /\ Reporting' /\ Validated'
    BY <1>18 DEF Redecode, Gated, Started, Reporting, Validated, Acting, IsFinal, remote,
         run
  <2>4. Believed' /\ Progress'
    BY <1>18 DEF Redecode, Believed, Progress, Acting, Patched, Written, IsFinal, Expected,
         Target, IncludeBnb, remote, run
  <2>5. CompletedRunAgrees' /\ CleanAuditAgrees'
    BY <1>18 DEF Redecode, CompletedRunAgrees, CleanAuditAgrees, IsFinal, remote, run
  <2> QED
    BY <2>1, <2>2, <2>3, <2>4, <2>5
<1>19. ASSUME NEW n \in Networks, Collide(n) PROVE IInv'
  <2>1. TypeOK'
    BY <1>19, BoundsAssumption DEF Collide, TypeOK, Steps, Ready, remote, run
  <2>2. Noticed'
    BY <1>19 DEF Collide, Noticed, Full, Ready, remote, run
  <2>3. Gated' /\ Started' /\ Reporting' /\ Validated'
    BY <1>19 DEF Collide, Gated, Started, Reporting, Validated, Acting, IsFinal, remote, run
  <2>4. Believed' /\ Progress'
    BY <1>19 DEF Collide, Believed, Progress, Acting, Patched, Written, IsFinal, Expected,
         Target, IncludeBnb, remote, run
  <2>5. CompletedRunAgrees' /\ CleanAuditAgrees'
    BY <1>19 DEF Collide, CompletedRunAgrees, CleanAuditAgrees, IsFinal, remote, run
  <2> QED
    BY <2>1, <2>2, <2>3, <2>4, <2>5
<1>20. CASE CronRefresh
  <2>1. TypeOK'
    BY <1>20, RefreshedView DEF CronRefresh, TypeOK, Steps, external, run
  <2>2. Noticed'
    BY <1>20 DEF CronRefresh, Noticed, Full, Ready, external, run
  <2>3. Gated' /\ Started' /\ Reporting' /\ Validated'
    BY <1>20 DEF CronRefresh, Gated, Started, Reporting, Validated, Acting, IsFinal,
         external, run
  <2>4. Believed' /\ Progress'
    BY <1>20 DEF CronRefresh, Believed, Progress, Acting, Patched, Written, IsFinal,
         Expected, Target, IncludeBnb, external, run
  <2>5. CompletedRunAgrees' /\ CleanAuditAgrees'
    BY <1>20 DEF CronRefresh, CompletedRunAgrees, CleanAuditAgrees, IsFinal, external, run
  <2> QED
    BY <2>1, <2>2, <2>3, <2>4, <2>5
<1>21. CASE HandEdit
  <2>1. TypeOK'
    BY <1>21, BoundsAssumption DEF HandEdit, TypeOK, Steps, external, run
  <2>2. Noticed'
    BY <1>21 DEF HandEdit, Noticed, Full, Ready, external, run
  <2>3. Gated' /\ Started' /\ Reporting' /\ Validated'
    BY <1>21 DEF HandEdit, Gated, Started, Reporting, Validated, Acting, IsFinal, external,
         run
  <2>4. Believed' /\ Progress'
    BY <1>21 DEF HandEdit, Believed, Progress, Acting, Patched, Written, IsFinal, Expected,
         Target, IncludeBnb, external, run
  <2>5. CompletedRunAgrees' /\ CleanAuditAgrees'
    BY <1>21 DEF HandEdit, CompletedRunAgrees, CleanAuditAgrees, IsFinal, external, run
  <2> QED
    BY <2>1, <2>2, <2>3, <2>4, <2>5
<1>22. CASE UNCHANGED vars
  BY <1>22 DEF vars, TypeOK, Noticed, Gated, Started, Reporting, Validated, Believed,
       Progress, CompletedRunAgrees, CleanAuditAgrees, Acting, Patched, Written, external,
       remote, run, history, Full, Ready, IsFinal, Expected, Target, IncludeBnb
<1> QED
  BY <1>1, <1>2, <1>3, <1>4, <1>5, <1>6, <1>7, <1>8, <1>9, <1>10, <1>11, <1>12, <1>13,
       <1>14, <1>15, <1>16, <1>17, <1>18, <1>19, <1>20, <1>21, <1>22 DEF Next, Run

---------------------------------------------------------------------------
(* Theorems                                                                *)

\* The inductive invariant holds in every reachable state.
THEOREM Invariance == Spec => []IInv
BY InitIInv, StepIInv, PTL DEF Spec

\* The variables of every run keep their types.
THEOREM TypeCorrect == Spec => []TypeOK
<1>1. IInv => TypeOK
  BY DEF IInv
<1> QED
  BY <1>1, Invariance, PTL

\* A run that ended well left the remote and the local files in agreement.
THEOREM CompletedRunsAgree == Spec => []CompletedRunAgrees
<1>1. IInv => CompletedRunAgrees
  BY DEF IInv
<1> QED
  BY <1>1, Invariance, PTL

\* An audit that reports nothing to do found them in agreement.
THEOREM CleanAuditsAgree == Spec => []CleanAuditAgrees
<1>1. IInv => CleanAuditAgrees
  BY DEF IInv
<1> QED
  BY <1>1, Invariance, PTL

\* Only an activation whose run saw full and clean tables adds BNB to the
\* saved query: the PATCH of any other run does not widen it.
THEOREM ActivationIsFailClosed == Spec => ActivationFailsClosed
<1> DEFINE Widens == pc' # pc /\ canonical' # canonical /\ canonical' = "all"
<1>1. ASSUME IInv, [Next]_vars, Widens PROVE mode = "activate" /\ readySeen
  <2>1. Patch
    BY <1>1 DEF Next, Run, vars, Begin, Discover, Preflight, RefuseDrift, AuditCommitted,
      AuditLive, Report, SkipPatch, Refresh, WriteSql, ReadOverview, Validate,
      WriteBindings, WriteManifest, WriteHandoff, Throw, Redecode, Collide, CronRefresh,
      HandEdit, remote
  <2>2. mode = "activate"
    BY <1>1, <2>1 DEF Patch, Changed, Target, Expected, IncludeBnb
  <2> QED
    BY <1>1, <2>1, <2>2 DEF IInv, Gated, Acting, Patch
<1>2. IInv /\ [Next]_vars => [Widens => mode = "activate" /\ readySeen]_vars
  BY <1>1
<1> QED
  BY <1>2, Invariance, PTL DEF Spec, ActivationFailsClosed

\* No step of an audit changes the saved query, the view or a file.
THEOREM AuditsAreReadOnly == Spec => AuditReadOnly
<1> DEFINE Steps_ == pc # "idle" /\ pc' # pc /\ mode = "audit"
<1>1. ASSUME IInv, [Next]_vars, Steps_ PROVE UNCHANGED <<remote, local>>
  <2>1. pc \notin Acting
    BY <1>1 DEF IInv, Gated
  <2> QED
    BY <1>1, <2>1 DEF Acting, Next, Run, vars, Begin, Discover, Preflight, RefuseDrift,
      AuditCommitted, AuditLive, Report, Patch, SkipPatch, Refresh, WriteSql, ReadOverview,
      Validate, WriteBindings, WriteManifest, WriteHandoff, Throw, Redecode, Collide,
      CronRefresh, HandEdit, remote
<1>2. IInv /\ [Next]_vars => [Steps_ => UNCHANGED <<remote, local>>]_vars
  BY <1>1
<1> QED
  BY <1>2, Invariance, PTL DEF Spec, AuditReadOnly

\* The manifest becomes final only after full and clean tables and a full view
\* were seen in the same run.
THEOREM FinalManifestsAreEarned == Spec => FinalIsEarned
<1> DEFINE Finishes == IsFinal(local') /\ ~IsFinal(local)
<1>1. ASSUME IInv, [Next]_vars, Finishes PROVE readySeen /\ fullSeen
  <2>1. WriteManifest
    <3>1. CASE WriteSql
      BY <1>1, <3>1 DEF WriteSql, IsFinal, IInv, TypeOK
    <3>2. CASE WriteBindings
      BY <1>1, <3>2 DEF WriteBindings, IsFinal, IInv, TypeOK
    <3>3. CASE WriteHandoff
      BY <1>1, <3>3 DEF WriteHandoff, IsFinal, IInv, TypeOK
    <3> QED
      BY <1>1, <3>1, <3>2, <3>3 DEF Next, Run, vars, Begin, Discover, Preflight,
        RefuseDrift, AuditCommitted, AuditLive, Report, Patch, SkipPatch, Refresh,
        ReadOverview, Validate, Throw, Redecode, Collide, CronRefresh, HandEdit
  <2>2. pc = "manifest" /\ ~wasFinal
    BY <1>1, <2>1 DEF IInv, Started, WriteManifest
  <2>3. IncludeBnb
    BY <1>1, <2>1 DEF WriteManifest, IsFinal, IInv, TypeOK
  <2> QED
    BY <1>1, <2>2, <2>3 DEF IncludeBnb, IInv, Gated, Acting, Validated
<1>2. IInv /\ [Next]_vars => [Finishes => readySeen /\ fullSeen]_vars
  BY <1>1
<1> QED
  BY <1>2, Invariance, PTL DEF Spec, FinalIsEarned

---------------------------------------------------------------------------
(* Without hand edits                                                      *)

\* While the saved query leaves BNB out, so does the view: of a manifest that
\* is not final always, of a final one once its run has refreshed.
ViewFollows ==
  (canonical = "base" /\ (~IsFinal(local) \/ pc \in Acting \ {"sync", "refresh"})) =>
    mv[Bnb] = "absent"

AloneInv ==
  /\ edits = 0 /\ ~touched
  /\ ViewFollows
  /\ pc \in {"bindings", "manifest", "handoff"} => IncludeBnb
  /\ ManifestStatusKnown
  /\ FinalStaysWhole

\* Past the gates a run that includes BNB found every network active.
LEMMA IncludedIsWhole ==
  ASSUME IInv, pc \in Acting, IncludeBnb
  PROVE  active = Networks
BY DEF IInv, TypeOK, Gated, IncludeBnb, Networks

\* The initial manifest is not final and the initial view leaves BNB out.
LEMMA InitAlone == Init => AloneInv
BY DEF Init, AloneInv, ViewFollows, ManifestStatusKnown, FinalStaysWhole, IsFinal, Networks

\* A refresh of the query without BNB leaves BNB out of the view.
LEMMA RefreshedWithoutBnb ==
  ASSUME RefreshView, canonical = "base"
  PROVE  mv'[Bnb] = "absent"
BY SlugsAssumption DEF RefreshView, Sources, Networks

\* Every step keeps AloneInv when hand edits are ruled out.
LEMMA StepAlone ==
  ASSUME MaxEdits = 0, IInv, AloneInv, [Next]_vars
  PROVE  AloneInv'
<1>1. edits' = 0 /\ ~touched'
  <2>1. ~HandEdit
    BY DEF HandEdit, AloneInv
  <2> QED
    BY <2>1 DEF AloneInv, Next, Run, vars, Begin, Discover, Preflight, RefuseDrift,
      AuditCommitted, AuditLive, Report, Patch, SkipPatch, Refresh, WriteSql, ReadOverview,
      Validate, WriteBindings, WriteManifest, WriteHandoff, Throw, Redecode, Collide,
      CronRefresh, history
<1>2. \/ Validate \/ WriteSql \/ WriteBindings \/ WriteManifest \/ WriteHandoff
      \/ Patch \/ SkipPatch \/ Refresh \/ CronRefresh
      \/ UNCHANGED <<canonical, mv, local>> /\ pc' \notin Acting \ {"sync"}
      \/ UNCHANGED <<canonical, mv, local, pc>> /\ IncludeBnb' = IncludeBnb
      \/ ReadOverview
  BY <1>1 DEF AloneInv, Next, Run, vars, Begin, Discover, Preflight, RefuseDrift,
    AuditCommitted, AuditLive, Report, Throw, Redecode, Collide, HandEdit, remote, run,
    Acting, End, IncludeBnb
<1>3. pc' \in {"bindings", "manifest", "handoff"} => IncludeBnb'
  <2>1. CASE Validate
    <3>1. canonical = Target
      BY <2>1 DEF Validate, IInv, Believed, AloneInv, Patched, Acting
    <3>2. mv[Bnb] = "complete"
      BY <2>1 DEF Validate, Full, Networks
    <3>3. canonical # "base"
      BY <2>1, <3>2 DEF Validate, AloneInv, ViewFollows, Acting
    <3> QED
      BY <2>1, <3>1, <3>3 DEF Validate, Target, IncludeBnb, run
  <2>2. CASE ~Validate
    BY <1>2, <2>2 DEF AloneInv, WriteSql, WriteBindings, WriteManifest, WriteHandoff, Patch,
      SkipPatch, Refresh, CronRefresh, ReadOverview, End, IncludeBnb, run, Acting
  <2> QED
    BY <2>1, <2>2
<1>4. ManifestStatusKnown' /\ FinalStaysWhole'
  <2>1. CASE WriteBindings
    BY <2>1, IncludedIsWhole
    DEF WriteBindings, AloneInv, ManifestStatusKnown, FinalStaysWhole, Acting, IInv, TypeOK
  <2>2. CASE WriteManifest
    BY <2>2, IncludedIsWhole
    DEF WriteManifest, AloneInv, ManifestStatusKnown, FinalStaysWhole, Acting, IInv, TypeOK,
      Progress
  <2>3. CASE WriteSql \/ WriteHandoff
    BY <2>3 DEF WriteSql, WriteHandoff, AloneInv, ManifestStatusKnown, FinalStaysWhole,
      IInv, TypeOK
  <2> QED
    BY <1>2, <2>1, <2>2, <2>3 DEF AloneInv, ManifestStatusKnown, FinalStaysWhole, Validate,
      Patch, SkipPatch, Refresh, CronRefresh, ReadOverview
<1>5. ViewFollows'
  <2>1. CASE Patch
    BY <2>1 DEF Patch, ViewFollows, AloneInv, IInv, Started, Changed, Target, Expected, End, Acting, IsFinal
  <2>2. CASE SkipPatch
    BY <2>2 DEF SkipPatch, ViewFollows, AloneInv, IInv, Started, Believed, Expected,
      Acting, IsFinal, remote
  <2>3. CASE Refresh \/ CronRefresh
    BY <2>3, RefreshedWithoutBnb DEF Refresh, CronRefresh, ViewFollows
  <2>4. CASE WriteManifest
    BY <2>4 DEF WriteManifest, ViewFollows, AloneInv, IInv, Believed, Patched, Acting,
      Target, remote
  <2>5. CASE WriteSql \/ WriteBindings \/ WriteHandoff \/ Validate \/ ReadOverview
    <3>1. IsFinal(local') <=> IsFinal(local)
      BY <2>5 DEF WriteSql, WriteBindings, WriteHandoff, Validate, ReadOverview, IsFinal,
        IInv, TypeOK
    <3> QED
      BY <2>5, <3>1 DEF WriteSql, WriteBindings, WriteHandoff, Validate, ReadOverview,
        ViewFollows, AloneInv, Acting, remote, End
  <2>6. CASE UNCHANGED <<canonical, mv, local>> /\ (pc' \notin Acting \ {"sync"} \/ pc' = pc)
    BY <2>6 DEF ViewFollows, AloneInv, Acting, IsFinal
  <2> QED
    BY <1>2, <2>1, <2>2, <2>3, <2>4, <2>5, <2>6
<1> QED
  BY <1>1, <1>3, <1>4, <1>5 DEF AloneInv

\* Both invariants, in every reachable state of a system without hand edits.
THEOREM AloneInvariance == MaxEdits = 0 /\ Spec => [](IInv /\ AloneInv)
<1> SUFFICES ASSUME MaxEdits = 0 PROVE Spec => [](IInv /\ AloneInv)
  OBVIOUS
<1>1. IInv /\ AloneInv /\ [Next]_vars => IInv' /\ AloneInv'
  BY StepAlone, StepIInv
<1> QED
  BY <1>1, InitIInv, InitAlone, PTL DEF Spec

\* Without hand edits the script never writes the manifest status its test
\* rejects.
THEOREM ManifestStatusIsKnown == MaxEdits = 0 /\ Spec => []ManifestStatusKnown
<1>1. AloneInv => ManifestStatusKnown
  BY DEF AloneInv
<1> QED
  BY <1>1, AloneInvariance, PTL

\* Without hand edits a final manifest is never left half revoked.
THEOREM FinalManifestsStayWhole == MaxEdits = 0 /\ Spec => []FinalStaysWhole
<1>1. AloneInv => FinalStaysWhole
  BY DEF AloneInv
<1> QED
  BY <1>1, AloneInvariance, PTL

\* No run repairs a disagreement it finds: without hand edits it is for ever.
THEOREM DisagreementIsForGood == MaxEdits = 0 /\ Spec => DisagreementNeedsHand
<1> SUFFICES ASSUME MaxEdits = 0 PROVE Spec => DisagreementNeedsHand
  OBVIOUS
<1> DEFINE Stuck == Disagree /\ pc \in {"idle", "discover", "preflight"}
<1>1. IInv /\ AloneInv /\ Stuck /\ [Next]_vars => Stuck'
  <2> SUFFICES ASSUME IInv, AloneInv, Stuck, [Next]_vars PROVE Stuck'
    OBVIOUS
  <2>1. ~HandEdit
    BY DEF HandEdit, AloneInv
  <2>2. ~Preflight
    BY DEF Preflight, IInv, Started, Disagree, Expected
  <2> QED
    BY <2>1, <2>2 DEF Disagree, IsFinal, Next, Run, vars, Begin, Discover, RefuseDrift,
      AuditCommitted, AuditLive, Report, Patch, SkipPatch, Refresh, WriteSql, ReadOverview,
      Validate, WriteBindings, WriteManifest, WriteHandoff, Throw, Redecode, Collide,
      CronRefresh, remote, End
<1>2. pc = "idle" /\ Disagree => Stuck
  OBVIOUS
<1>3. Stuck => Disagree
  OBVIOUS
<1> QED
  BY <1>1, <1>2, <1>3, AloneInvariance, PTL DEF Spec, DisagreementNeedsHand
=============================================================================
