------------------------- MODULE AccessJwks_proofs -------------------------
(***************************************************************************)
(* Proofs about AccessJwks, for every set of requests and key ids, every   *)
(* TTL and every bound.                                                    *)
(***************************************************************************)
EXTENDS AccessJwks, TLAPS

\* Nothing carries a time in the future.
Times ==
  /\ \A f \in FetchId : fstart[f] <= clock
  /\ \A r \in Requests : startedAt[r] <= clock

\* A request has started no fetch before it asks, and no forced one before
\* it learns that its key id is unknown; the entry is a fetch in use.
FetchUse ==
  /\ \A r \in Requests :
       /\ pc[r] = "idle" => fstate[<<r, "first">>] = "none"
       /\ pc[r] \in {"idle", "first"} => fstate[<<r, "forced">>] = "none"
  /\ cache # NoFetch => fstate[cache] \notin {"none", "rejected"}

\* A suspended request awaits a started fetch younger than a TTL when it asked.
Waiting ==
  \A r \in Requests :
    /\ pc[r] \in {"first", "forced", "verify"} =>
         /\ awaits[r] \in FetchId
         /\ fstate[awaits[r]] # "none"
         /\ startedAt[r] < fstart[awaits[r]] + TTL
    /\ pc[r] = "forced" => awaits[r] = <<r, "forced">>
    /\ pc[r] = "verify" =>
         fstate[awaits[r]] = "resolved" /\ kid[r] \in fkeys[awaits[r]]
    /\ outcome[r] # "none" => pc[r] = "done"
    /\ (outcome[r] = "denied" /\ genuine[r]) => awaits[r] \in FetchId

\* An answer differs from what is published now only by later changes.
Answers ==
  \A f \in FetchId, k \in Kids :
    fstate[f] \in {"served", "resolved"} =>
      /\ k \in fkeys[f] => k \in published \/ fstart[f] <= retiredAt[k]
      /\ k \notin fkeys[f] => k \notin published \/ fstart[f] <= publishedAt[k]

\* A key that stayed published is in every answer written since.
Steady ==
  \A r \in Requests :
    steady[r] =>
      /\ kid[r] \in published
      /\ (pc[r] = "forced" /\ fstate[<<r, "forced">>] \in {"served", "resolved"}) =>
            kid[r] \in fkeys[<<r, "forced">>]

\* While a fetch is younger than a TTL the entry is at least as young, or a
\* fetch started since has failed.
FailedSince(t) == \E h \in FetchId : fstate[h] = "rejected" /\ fstart[h] >= t

Young(f) ==
  \/ fstart[f] + TTL <= clock
  \/ cache # NoFetch /\ fstart[cache] >= fstart[f]
  \/ FailedSince(fstart[f])

EntryYoung ==
  \A r \in Requests : fstate[<<r, "first">>] # "none" => Young(<<r, "first">>)

IInv ==
  /\ TypeOK
  /\ Times
  /\ FetchUse
  /\ Waiting
  /\ Answers
  /\ Steady
  /\ RevocationBound
  /\ RotationNeverDenies
  /\ BadSignatureNoRefetch

---------------------------------------------------------------------------

\* The pairs that name fetches.
LEMMA FetchIds ==
  /\ NoFetch \notin FetchId
  /\ \A r \in Requests : <<r, "first">> \in FetchId /\ <<r, "forced">> \in FetchId
  /\ \A r, s \in Requests :
       /\ <<r, "first">> # <<s, "forced">>
       /\ <<r, "first">> = <<s, "first">> => r = s
       /\ <<r, "forced">> = <<s, "forced">> => r = s
BY NoFetchAssumption DEF FetchId, Kinds

LEMMA InitInv == Init => IInv
BY FetchIds, TTLAssumption, BoundsAssumption
DEF Init, IInv, TypeOK, Times, FetchUse, Waiting, Answers, Steady,
    RevocationBound, RotationNeverDenies, BadSignatureNoRefetch

\* The issuer and the clock.
LEMMA EnvironmentInv ==
  ASSUME IInv, Tick \/ \E k \in Kids : Publish(k) \/ Retire(k)
  PROVE  IInv'
<1> USE FetchIds, TTLAssumption, BoundsAssumption
    DEF IInv, TypeOK, issuerVars, cacheVars, requestVars
<1>1. CASE Tick
  BY <1>1 DEF Tick, Times, FetchUse, Waiting, Answers, Steady,
    RevocationBound, RotationNeverDenies, BadSignatureNoRefetch
<1>2. ASSUME NEW k \in Kids, Publish(k) PROVE IInv'
  <2>1. TypeOK' /\ Times' /\ FetchUse' /\ Waiting'
    BY <1>2 DEF Publish, Times, FetchUse, Waiting
  <2>2. Answers'
    BY <1>2 DEF Publish, Answers, Times
  <2>3. Steady'
    BY <1>2 DEF Publish, Steady
  <2>4. RevocationBound' /\ RotationNeverDenies'
    BY <1>2 DEF Publish, RevocationBound, RotationNeverDenies
  <2>5. BadSignatureNoRefetch'
    BY <1>2 DEF Publish, BadSignatureNoRefetch, Times
  <2> QED BY <2>1, <2>2, <2>3, <2>4, <2>5
<1>3. ASSUME NEW k \in Kids, Retire(k) PROVE IInv'
  <2>1. TypeOK' /\ Times' /\ FetchUse' /\ Waiting'
    BY <1>3 DEF Retire, Times, FetchUse, Waiting
  <2>2. Answers'
    BY <1>3 DEF Retire, Answers, Times
  <2>3. Steady'
    BY <1>3 DEF Retire, Steady
  <2>4. RevocationBound'
    BY <1>3 DEF Retire, RevocationBound, Times
  <2>5. RotationNeverDenies' /\ BadSignatureNoRefetch'
    BY <1>3 DEF Retire, RotationNeverDenies, BadSignatureNoRefetch
  <2> QED BY <2>1, <2>2, <2>3, <2>4, <2>5
<1> QED BY <1>1, <1>2, <1>3

\* The progress of a fetch.
LEMMA SettleInv ==
  ASSUME IInv, NEW f \in FetchId, Settle(f)
  PROVE  IInv'
<1> USE FetchIds, TTLAssumption
    DEF IInv, TypeOK, Times, FetchUse, Waiting, Answers, Steady, issuerVars, requestVars,
        RevocationBound, RotationNeverDenies, BadSignatureNoRefetch
<1>1. CASE FetchServe(f)
  BY <1>1 DEF FetchServe
<1>2. CASE FetchResolve(f)
  BY <1>2 DEF FetchResolve
<1>3. CASE FetchReject(f)
  BY <1>3 DEF FetchReject, DropIfOwn
<1> QED BY <1>1, <1>2, <1>3 DEF Settle

\* A request joins the entry, or finds it missing or stale and starts a fetch.
LEMMA AskInv ==
  ASSUME IInv, NEW r \in Requests, AskKeys(r)
  PROVE  IInv'
<1> USE FetchIds, TTLAssumption DEF IInv, TypeOK, issuerVars, cacheVars
<1> DEFINE first == <<r, "first">>
<1>1. CASE CacheFresh /\ awaits' = [awaits EXCEPT ![r] = cache] /\ UNCHANGED cacheVars
  BY <1>1 DEF AskKeys, CacheFresh, Times, FetchUse, Waiting, Answers, Steady,
    RevocationBound, RotationNeverDenies, BadSignatureNoRefetch
<1>2. CASE /\ ~CacheFresh
           /\ awaits' = [awaits EXCEPT ![r] = first]
           /\ StartFetch(first)
  <2>1. /\ first \in FetchId
        /\ fstate[first] = "none"
        /\ outcome[r] = "none"
    BY DEF AskKeys, FetchUse, Waiting
  <2>2. TypeOK' /\ Times'
    BY <1>2, <2>1 DEF AskKeys, StartFetch, Times
  <2>3. FetchUse'
    BY <1>2, <2>1 DEF AskKeys, StartFetch, FetchUse
  <2>4. Waiting'
    <3> SUFFICES ASSUME NEW s \in Requests PROVE Waiting!(s)'
      BY DEF Waiting
    <3>1. CASE s = r
      BY <1>2, <2>1, <3>1 DEF AskKeys, StartFetch
    <3>2. CASE s # r
      <4>1. pc[s] \in {"first", "forced", "verify"} => awaits[s] # first
        BY <2>1 DEF Waiting
      <4> QED BY <1>2, <2>1, <3>2, <4>1 DEF AskKeys, StartFetch, Waiting
    <3> QED BY <3>1, <3>2
  <2>5. Answers'
    BY <1>2, <2>1 DEF AskKeys, StartFetch, Answers
  <2>6. Steady'
    BY <1>2, <2>1 DEF AskKeys, StartFetch, Steady
  <2>7. RevocationBound' /\ RotationNeverDenies' /\ BadSignatureNoRefetch'
    BY <1>2, <2>1 DEF AskKeys, StartFetch, FetchUse, Waiting, RevocationBound,
      RotationNeverDenies, BadSignatureNoRefetch
  <2> QED BY <2>2, <2>3, <2>4, <2>5, <2>6, <2>7
<1> QED BY <1>1, <1>2 DEF AskKeys

\* The key set it was given lacks the key id: the request starts a forced fetch.
LEMMA ForceInv ==
  ASSUME IInv, NEW r \in Requests, ForceRefresh(r)
  PROVE  IInv'
<1> USE FetchIds, TTLAssumption DEF IInv, TypeOK, issuerVars, ForceRefresh, StartFetch
<1> DEFINE forced == <<r, "forced">>
<1>1. /\ forced \in FetchId
      /\ fstate[forced] = "none"
      /\ outcome[r] = "none"
  BY DEF FetchUse, Waiting
<1>2. TypeOK' /\ Times'
  BY <1>1 DEF Times
<1>3. FetchUse'
  BY <1>1 DEF FetchUse
<1>4. Waiting'
  <2> SUFFICES ASSUME NEW s \in Requests PROVE Waiting!(s)'
    BY DEF Waiting
  <2>1. CASE s = r
    <3>1. /\ pc'[r] = "forced" /\ awaits'[r] = forced /\ outcome'[r] = "none"
          /\ fstate'[forced] = "inflight" /\ fstart'[forced] = clock
          /\ startedAt'[r] = startedAt[r]
      BY <1>1
    <3>2. startedAt[r] < clock + TTL
      BY DEF Times
    <3> QED BY <1>1, <2>1, <3>1, <3>2
  <2>2. CASE s # r
    <3>1. pc[s] \in {"first", "forced", "verify"} => awaits[s] # forced
      BY <1>1 DEF Waiting
    <3> QED BY <1>1, <2>2, <3>1 DEF Waiting
  <2> QED BY <2>1, <2>2
<1>5. Answers'
  BY <1>1 DEF Answers
<1>6. Steady'
  <2> SUFFICES ASSUME NEW s \in Requests PROVE Steady!(s)'
    BY DEF Steady
  <2>1. CASE s = r
    BY <1>1, <2>1 DEF Steady
  <2>2. CASE s # r
    BY <1>1, <2>2 DEF Steady
  <2> QED BY <2>1, <2>2
<1>7. RevocationBound'
  BY DEF RevocationBound
<1>8. RotationNeverDenies'
  BY <1>1 DEF RotationNeverDenies, Waiting
<1>9. BadSignatureNoRefetch'
  <2>1. steady[r] => startedAt[r] < publishedAt[kid[r]] + TTL
    BY DEF Waiting, Answers, Steady
  <2> QED BY <1>1, <2>1 DEF BadSignatureNoRefetch
<1> QED BY <1>2, <1>3, <1>4, <1>5, <1>6, <1>7, <1>8, <1>9

\* The steps of a request that touch neither the cache nor a fetch.
LEMMA AnswerInv ==
  ASSUME IInv, NEW r \in Requests,
         TrustPlatform(r) \/ RefuseClaims(r) \/ KeyFound(r) \/ Deny(r) \/ Verify(r)
  PROVE  IInv'
<1> USE FetchIds, TTLAssumption DEF IInv, TypeOK, issuerVars, cacheVars
<1>1. CASE TrustPlatform(r)
  BY <1>1 DEF TrustPlatform, Times, FetchUse, Waiting, Answers, Steady, RevocationBound, RotationNeverDenies,
    BadSignatureNoRefetch
<1>2. CASE RefuseClaims(r)
  BY <1>2 DEF RefuseClaims, Times, FetchUse, Waiting, Answers, Steady, RevocationBound, RotationNeverDenies,
    BadSignatureNoRefetch
<1>3. CASE KeyFound(r)
  BY <1>3 DEF KeyFound, Times, FetchUse, Waiting, Answers, Steady, RevocationBound, RotationNeverDenies,
    BadSignatureNoRefetch
<1>4. CASE Deny(r)
  <2>1. steady[r] => fstate[awaits[r]] = "rejected"
    <3>1. CASE pc[r] = "forced" /\ fstate[awaits[r]] = "resolved" /\ kid[r] \notin fkeys[awaits[r]]
      <4>1. awaits[r] = <<r, "forced">>
        BY <3>1 DEF Waiting
      <4> QED BY <3>1, <4>1 DEF Steady
    <3> QED BY <1>4, <3>1 DEF Deny
  <2>2. TypeOK' /\ Times' /\ FetchUse' /\ Answers' /\ Steady'
    BY <1>4 DEF Deny, Times, FetchUse, Answers, Steady
  <2>3. Waiting'
    BY <1>4 DEF Deny, Waiting
  <2>4. RevocationBound' /\ BadSignatureNoRefetch'
    BY <1>4 DEF Deny, RevocationBound, BadSignatureNoRefetch
  <2>5. RotationNeverDenies'
    BY <1>4, <2>1 DEF Deny, RotationNeverDenies
  <2> QED BY <2>2, <2>3, <2>4, <2>5
<1>5. CASE Verify(r)
  BY <1>5 DEF Verify, Times, FetchUse, Waiting, Answers, Steady, RevocationBound, RotationNeverDenies,
    BadSignatureNoRefetch
<1> QED BY <1>1, <1>2, <1>3, <1>4, <1>5

LEMMA StepInv == IInv /\ [Next]_vars => IInv'
<1> SUFFICES ASSUME IInv, [Next]_vars PROVE IInv'
  OBVIOUS
<1>1. CASE UNCHANGED vars
  BY <1>1 DEF vars, issuerVars, cacheVars, requestVars, IInv, TypeOK, Times, FetchUse,
    Waiting, Answers, Steady, RevocationBound, RotationNeverDenies, BadSignatureNoRefetch
<1>2. CASE Next
  BY <1>2, EnvironmentInv, SettleInv, AskInv, ForceInv, AnswerInv DEF Next, Continue
<1> QED BY <1>1, <1>2

---------------------------------------------------------------------------

\* Requests that find the entry missing or stale start fetches TTL apart,
\* unless one failed: what it rests on and the step that keeps it.
Economy == EntryYoung /\ FetchesCoalesce

LEMMA InitEconomy == Init => Economy
BY FetchIds DEF Init, Economy, EntryYoung, FetchesCoalesce

\* Starting a fetch g keeps the economy, if the entry was not younger than a
\* TTL or g is a forced one.
LEMMA StartEconomy ==
  ASSUME IInv, Economy, NEW g \in FetchId,
         fstate[g] = "none", StartFetch(g), clock' = clock,
         NEW r \in Requests,
         \/ g = <<r, "forced">>
         \/ g = <<r, "first">> /\ ~CacheFresh
  PROVE  Economy'
<1> USE FetchIds, TTLAssumption
<1>0. /\ clock \in Nat /\ cache \in FetchId \cup {NoFetch}
      /\ \A f \in FetchId : fstart[f] \in Nat /\ fstart[f] <= clock
  BY DEF IInv, TypeOK, Times
<1>1. /\ cache' = g /\ fstate'[g] = "inflight" /\ fstart'[g] = clock
      /\ \A f \in FetchId \ {g} : fstate'[f] = fstate[f] /\ fstart'[f] = fstart[f]
  BY DEF StartFetch, IInv, TypeOK
<1> DEFINE FailedAfter(t) == \E h \in FetchId : fstate'[h] = "rejected" /\ fstart'[h] >= t
<1>2. \A t \in Nat : FailedSince(t) => FailedAfter(t)
  BY <1>1 DEF FailedSince
<1>3. EntryYoung'
  <2>1. ASSUME NEW f \in FetchId PROVE Young(f)'
    <3>1. fstart'[f] <= clock
      BY <1>0, <1>1
    <3> QED BY <1>0, <1>1, <3>1 DEF Young
  <2> QED BY <2>1 DEF EntryYoung
\* Without a fresh entry every started fetch is old or followed by a failure.
<1>4. ASSUME NEW f \in FetchId, Young(f), ~CacheFresh
      PROVE  fstart[f] + TTL <= clock \/ FailedSince(fstart[f])
  <2>1. CASE cache # NoFetch /\ fstart[cache] >= fstart[f]
    <3>1. fstart[cache] + TTL <= clock
      BY <1>0, <1>4, <2>1 DEF CacheFresh
    <3> QED BY <1>0, <2>1, <3>1
  <2> QED BY <1>4, <2>1 DEF Young
<1>5. ASSUME NEW s \in Requests, NEW t \in Requests, s # t,
             fstate'[<<s, "first">>] # "none", fstate'[<<t, "first">>] # "none",
             fstart'[<<s, "first">>] <= fstart'[<<t, "first">>]
      PROVE  \/ fstart'[<<t, "first">>] >= fstart'[<<s, "first">>] + TTL
             \/ FailedAfter(fstart'[<<s, "first">>])
  <2> DEFINE fs == <<s, "first">>
             ft == <<t, "first">>
  <2>1. /\ fs \in FetchId /\ ft \in FetchId /\ fs # ft
        /\ fs = g \/ ft = g => ~CacheFresh
        /\ fs # g => fstate[fs] # "none" /\ Young(fs)
        /\ ft # g => fstate[ft] # "none" /\ Young(ft)
    BY <1>1, <1>5 DEF Economy, EntryYoung
  <2>2. fstart'[fs] <= fstart'[ft]
    BY <1>5
  <2>3. fs # g /\ ft # g =>
          fstart[ft] >= fstart[fs] + TTL \/ FailedSince(fstart[fs])
    BY <1>1, <1>5, <2>1 DEF Economy, FetchesCoalesce, FailedSince
  <2> HIDE DEF fs, ft, FailedAfter
  <2>4. CASE ft = g
    <3>1. fstart'[ft] = clock /\ fstart'[fs] = fstart[fs]
      BY <1>1, <2>1, <2>4
    <3>2. fstart[fs] + TTL <= clock \/ FailedSince(fstart[fs])
      BY <1>4, <2>1, <2>4
    <3> QED BY <1>0, <1>2, <2>1, <3>1, <3>2 DEF fs, ft
  <2>5. CASE fs = g
    <3>1. fstart'[fs] = clock /\ fstart'[ft] = fstart[ft]
      BY <1>1, <2>1, <2>5
    <3>2. fstart[ft] = clock
      BY <1>0, <2>1, <2>2, <3>1
    <3>3. FailedSince(clock)
      BY <1>0, <1>4, <2>1, <2>5, <3>2
    <3> QED BY <1>0, <1>2, <3>1, <3>3 DEF fs
  <2>6. CASE fs # g /\ ft # g
    <3>1. fstart'[fs] = fstart[fs] /\ fstart'[ft] = fstart[ft]
      BY <1>1, <2>1, <2>6
    <3> QED BY <1>0, <1>2, <2>1, <2>3, <2>6, <3>1 DEF fs, ft
  <2> QED BY <2>4, <2>5, <2>6
<1>6. FetchesCoalesce'
  BY <1>5 DEF FetchesCoalesce
<1> QED BY <1>3, <1>6 DEF Economy

LEMMA StepEconomy == IInv /\ Economy /\ [Next]_vars => Economy'
<1> SUFFICES ASSUME IInv, Economy, [Next]_vars PROVE Economy'
  OBVIOUS
<1> USE FetchIds, TTLAssumption DEF IInv, TypeOK, cacheVars
<1>1. CASE UNCHANGED <<clock, cacheVars>>
  BY <1>1 DEF Economy, EntryYoung, Young, FailedSince, FetchesCoalesce
<1>2. CASE Tick
  <2>1. UNCHANGED cacheVars /\ clock' = clock + 1 /\ clock \in Nat
    BY <1>2 DEF Tick
  <2>2. EntryYoung'
    <3> SUFFICES ASSUME NEW r \in Requests, fstate[<<r, "first">>] # "none"
                 PROVE Young(<<r, "first">>)'
      BY <2>1 DEF EntryYoung
    <3>1. Young(<<r, "first">>) /\ fstart[<<r, "first">>] \in Nat
      BY DEF Economy, EntryYoung
    <3> QED BY <2>1, <3>1 DEF Young, FailedSince
  <2>3. FetchesCoalesce'
    BY <2>1 DEF Economy, FetchesCoalesce
  <2> QED BY <2>2, <2>3 DEF Economy
<1>3. ASSUME NEW f \in FetchId, Settle(f) PROVE Economy'
  <2>1. CASE FetchServe(f)
    BY <2>1 DEF FetchServe, Economy, EntryYoung, Young, FailedSince, FetchesCoalesce
  <2>2. CASE FetchResolve(f)
    BY <2>2 DEF FetchResolve, Economy, EntryYoung, Young, FailedSince, FetchesCoalesce
  <2>3. CASE FetchReject(f)
    BY <2>3 DEF FetchReject, DropIfOwn, Economy, EntryYoung, Young, FailedSince, FetchesCoalesce
  <2> QED BY <1>3, <2>1, <2>2, <2>3 DEF Settle
<1>4. ASSUME NEW r \in Requests, ForceRefresh(r) PROVE Economy'
  <2>1. /\ fstate[<<r, "forced">>] = "none" /\ clock' = clock
        /\ StartFetch(<<r, "forced">>)
    BY <1>4 DEF ForceRefresh, FetchUse
  <2> QED BY <2>1, StartEconomy
<1>5. ASSUME NEW r \in Requests, AskKeys(r) PROVE Economy'
  <2>1. CASE UNCHANGED cacheVars
    BY <1>1, <1>5, <2>1 DEF AskKeys
  <2>2. CASE ~CacheFresh /\ StartFetch(<<r, "first">>)
    <3>1. fstate[<<r, "first">>] = "none" /\ clock' = clock
      BY <1>5 DEF AskKeys, FetchUse
    <3> QED BY <2>2, <3>1, StartEconomy
  <2> QED BY <1>5, <2>1, <2>2 DEF AskKeys
<1> QED
  BY <1>1, <1>2, <1>3, <1>4, <1>5
  DEF Next, Continue, vars, Publish, Retire, TrustPlatform, RefuseClaims, KeyFound, Deny, Verify

\* An entry is replaced only by a fetch started in that step and dropped only
\* when its own fetch fails.
LEMMA StepEntry ==
  IInv /\ [Next]_vars =>
    [ /\ (cache # NoFetch /\ cache' = NoFetch) => fstate'[cache] = "rejected"
      /\ (cache' # cache /\ cache' # NoFetch) => fstate[cache'] = "none" ]_vars
<1> SUFFICES ASSUME IInv, Next
             PROVE  /\ (cache # NoFetch /\ cache' = NoFetch) => fstate'[cache] = "rejected"
                    /\ (cache' # cache /\ cache' # NoFetch) => fstate[cache'] = "none"
  OBVIOUS
<1> USE FetchIds DEF IInv, TypeOK, cacheVars
<1>1. CASE cache' = cache
  BY <1>1
<1>2. ASSUME NEW f \in FetchId, Settle(f), cache' # cache
      PROVE  cache' = NoFetch /\ fstate'[cache] = "rejected"
  BY <1>2 DEF Settle, FetchServe, FetchResolve, FetchReject, DropIfOwn
<1>3. ASSUME NEW r \in Requests, AskKeys(r) \/ ForceRefresh(r), cache' # cache
      PROVE  cache' \in FetchId /\ fstate[cache'] = "none"
  BY <1>3 DEF AskKeys, ForceRefresh, StartFetch, FetchUse
<1> QED
  BY <1>1, <1>2, <1>3
  DEF Next, Continue, Tick, Publish, Retire, TrustPlatform, RefuseClaims, KeyFound, Deny, Verify

---------------------------------------------------------------------------

\* Every reachable state satisfies the inductive invariant.
THEOREM Invariance == Spec => []IInv
<1> QED BY InitInv, StepInv, PTL DEF Spec

\* Every variable keeps its type.
THEOREM TypeCorrect == Spec => []TypeOK
<1>1. IInv => TypeOK
  BY DEF IInv
<1> QED BY <1>1, Invariance, PTL

\* A failed key-set fetch is never the entry later requests join.
THEOREM FailureIsNeverCached == Spec => []FailureNotCached
<1>1. IInv => FailureNotCached
  BY DEF IInv, FetchUse, FailureNotCached
<1> QED BY <1>1, Invariance, PTL

\* A withdrawn key stops opening logins within a TTL.
THEOREM RevocationIsBounded == Spec => []RevocationBound
<1>1. IInv => RevocationBound
  BY DEF IInv
<1> QED BY <1>1, Invariance, PTL

\* A good login whose key stays published is refused only if a fetch failed.
THEOREM RotationIsTransparent == Spec => []RotationNeverDenies
<1>1. IInv => RotationNeverDenies
  BY DEF IInv
<1> QED BY <1>1, Invariance, PTL

\* A key published for a TTL never causes a forced refresh.
THEOREM KnownKeysCostNoRefetch == Spec => []BadSignatureNoRefetch
<1>1. IInv => BadSignatureNoRefetch
  BY DEF IInv
<1> QED BY <1>1, Invariance, PTL

\* Fetches for a missing or stale entry are TTL apart unless one failed.
THEOREM RequestsCoalesce == Spec => []FetchesCoalesce
<1>1. Economy => FetchesCoalesce
  BY DEF Economy
<1>2. Init => Economy
  BY InitEconomy
<1>3. IInv /\ Economy /\ [Next]_vars => Economy'
  BY StepEconomy
<1> QED BY <1>1, <1>2, <1>3, Invariance, PTL DEF Spec

\* Only its own failure drops an entry, and only a new fetch replaces it.
THEOREM EntriesChangeInOrder == Spec => EntryChanges
<1> QED BY StepEntry, Invariance, PTL DEF Spec, EntryChanges
===========================================================================
