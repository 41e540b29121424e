---------------------------- MODULE AccessJwks ----------------------------
(***************************************************************************)
(* The key-set cache behind the application login of the edge worker      *)
(* (src/src/worker.mjs): requests that carry a Cloudflare Access assertion *)
(* share one promise per issuer in accessJwksByIssuer, refetch once when   *)
(* the assertion names an unknown key id, and drop the entry when its      *)
(* fetch fails.                                                            *)
(*                                                                         *)
(* A step is what runs between two awaits.  The issuer is one value of the *)
(* worker's configuration, so one map entry is modelled.  A request is one *)
(* call of trustedAccessEmail; its key id and whether its assertion is     *)
(* genuine are fixed from the start.                                       *)
(***************************************************************************)
EXTENDS Naturals

CONSTANTS
  Requests,  \* calls of trustedAccessEmail
  Kids,      \* key ids the issuer may ever publish
  TTL,       \* ACCESS_JWKS_TTL_MS, in clock units
  MaxClock,  \* bound on the clock
  MaxKeyChanges, \* bound on the issuer's publications and withdrawals
  NoFetch    \* absence of a fetch

Kinds == {"first", "forced"}

\* A request starts at most one fetch of each kind, so the pair names it.
FetchId == Requests \X Kinds

ASSUME TTLAssumption == TTL \in Nat \ {0}
ASSUME BoundsAssumption == MaxClock \in Nat /\ MaxKeyChanges \in Nat
ASSUME NoFetchAssumption == NoFetch \notin FetchId

VARIABLES
  clock,      \* Date.now()
  keyChanges, \* publications and withdrawals so far (bounded)
  published,  \* the key ids the issuer serves (external)
  publishedAt, \* history: when a key id was last published
  retiredAt,  \* history: when a key id was last withdrawn
  cache,      \* accessJwksByIssuer: the fetch whose promise is the entry
  fstate,     \* progress of each fetch promise
  fstart,     \* nowMs of the call that started the fetch
  fkeys,      \* the key set in the issuer's answer
  pc,         \* where each request is suspended
  awaits,     \* the promise a request awaits, or whose keys it verifies with
  kid,        \* header.kid of the request's assertion
  genuine,    \* whether its claims hold and that key signed it
  startedAt,  \* when the request asked for the key set
  outcome,    \* the e-mail the request ends with, abstracted
  steady      \* history: the request's key stayed published since it started

cacheVars == <<cache, fstate, fstart>>
requestVars == <<pc, awaits, kid, genuine, startedAt, outcome>>
issuerVars == <<keyChanges, published, publishedAt, retiredAt>>
vars == <<clock, issuerVars, cacheVars, fkeys, requestVars, steady>>

TypeOK ==
  /\ clock \in Nat
  /\ keyChanges \in 0 .. MaxKeyChanges
  /\ published \in SUBSET Kids
  /\ publishedAt \in [Kids -> Nat]
  /\ retiredAt \in [Kids -> Nat]
  /\ cache \in FetchId \cup {NoFetch}
  /\ fstate \in [FetchId -> {"none", "inflight", "served", "resolved", "rejected"}]
  /\ fstart \in [FetchId -> Nat]
  /\ fkeys \in [FetchId -> SUBSET Kids]
  /\ pc \in [Requests -> {"idle", "first", "forced", "verify", "done"}]
  /\ awaits \in [Requests -> FetchId \cup {NoFetch}]
  /\ kid \in [Requests -> Kids]
  /\ genuine \in [Requests -> BOOLEAN]
  /\ startedAt \in [Requests -> Nat]
  /\ outcome \in [Requests -> {"none", "platform", "email", "denied"}]
  /\ steady \in [Requests -> BOOLEAN]

\* The worker starts with an empty map, a TTL after the publications and
\* withdrawals of time 0.
Init ==
  /\ clock = TTL
  /\ keyChanges = 0
  /\ published \in SUBSET Kids
  /\ publishedAt = [k \in Kids |-> 0]
  /\ retiredAt = [k \in Kids |-> 0]
  /\ cache = NoFetch
  /\ fstate = [f \in FetchId |-> "none"]
  /\ fstart = [f \in FetchId |-> 0]
  /\ fkeys = [f \in FetchId |-> {}]
  /\ pc = [r \in Requests |-> "idle"]
  /\ awaits = [r \in Requests |-> NoFetch]
  /\ kid \in [Requests -> Kids]
  /\ genuine \in [Requests -> BOOLEAN]
  /\ startedAt = [r \in Requests |-> 0]
  /\ outcome = [r \in Requests |-> "none"]
  /\ steady = [r \in Requests |-> FALSE]

---------------------------------------------------------------------------
(* accessJwks                                                              *)

\* Mutant: an entry never expires.
CacheForever == cache # NoFetch

\* Mutant: only an answer that has arrived is shared.
CacheArrived == cache # NoFetch /\ fstart[cache] + TTL > clock /\ fstate[cache] = "resolved"

\* cached && cached.expiresAtMs > nowMs
CacheFresh == cache # NoFetch /\ fstart[cache] + TTL > clock

\* Start a fetch and install its promise before anything is awaited.
StartFetch(f) ==
  /\ fstate' = [fstate EXCEPT ![f] = "inflight"]
  /\ fstart' = [fstart EXCEPT ![f] = clock]
  /\ cache' = f

\* Mutant: no catch block.
DropNever(f) == cache' = cache

\* Mutant: the entry is deleted without comparing it.
DropAny(f) == cache' = NoFetch

\* The awaited promise f threw: the entry goes only if it is still this one.
DropIfOwn(f) == cache' = IF cache = f THEN NoFetch ELSE cache

---------------------------------------------------------------------------
(* The fetch of the key set                                                *)

\* The issuer answers with the keys it publishes at that moment.
FetchServe(f) ==
  /\ fstate[f] = "inflight"
  /\ fstate' = [fstate EXCEPT ![f] = "served"]
  /\ fkeys' = [fkeys EXCEPT ![f] = published]
  /\ UNCHANGED <<clock, issuerVars, cache, fstart, requestVars, steady>>

\* A usable answer reaches the worker, possibly long after it was written.
FetchResolve(f) ==
  /\ fstate[f] = "served"
  /\ fkeys[f] # {}
  /\ fstate' = [fstate EXCEPT ![f] = "resolved"]
  /\ UNCHANGED <<clock, issuerVars, cache, fstart, fkeys, requestVars, steady>>

\* Network error, non-2xx status, or a body without keys.  The call that
\* started the fetch was the first to await it, so its catch block runs
\* before any other request sees the rejection: one step.
FetchReject(f) ==
  /\ \/ fstate[f] = "inflight"
     \/ fstate[f] = "served"
  /\ fstate' = [fstate EXCEPT ![f] = "rejected"]
  /\ DropIfOwn(f)
  /\ UNCHANGED <<clock, issuerVars, fstart, fkeys, requestVars, steady>>

---------------------------------------------------------------------------
(* One request                                                             *)

\* getIdentity() or the authenticated e-mail header answers; no key is needed.
TrustPlatform(r) ==
  /\ pc[r] = "idle"
  /\ pc' = [pc EXCEPT ![r] = "done"]
  /\ outcome' = [outcome EXCEPT ![r] = "platform"]
  /\ UNCHANGED <<clock, issuerVars, cacheVars, fkeys, awaits, kid, genuine, startedAt, steady>>

\* No issuer or audience configured, a malformed assertion, or a header or
\* claim that fails its check: refused before the key set is asked for.
RefuseClaims(r) ==
  /\ pc[r] = "idle"
  /\ genuine[r] = FALSE
  /\ pc' = [pc EXCEPT ![r] = "done"]
  /\ outcome' = [outcome EXCEPT ![r] = "denied"]
  /\ UNCHANGED <<clock, issuerVars, cacheVars, fkeys, awaits, kid, genuine, startedAt, steady>>

\* The claims hold: keys = await accessJwks(issuer, options).
AskKeys(r) ==
  /\ pc[r] = "idle"
  /\ pc' = [pc EXCEPT ![r] = "first"]
  /\ startedAt' = [startedAt EXCEPT ![r] = clock]
  /\ steady' = [steady EXCEPT ![r] = kid[r] \in published]
  /\ \/ /\ CacheFresh
        /\ awaits' = [awaits EXCEPT ![r] = cache]
        /\ UNCHANGED cacheVars
     \/ /\ ~CacheFresh
        /\ awaits' = [awaits EXCEPT ![r] = <<r, "first">>]
        /\ StartFetch(<<r, "first">>)
  /\ UNCHANGED <<clock, issuerVars, fkeys, kid, genuine, outcome>>

\* The key id is in the awaited key set: import the key and verify.
KeyFound(r) ==
  /\ pc[r] \in {"first", "forced"}
  /\ fstate[awaits[r]] = "resolved"
  /\ kid[r] \in fkeys[awaits[r]]
  /\ pc' = [pc EXCEPT ![r] = "verify"]
  /\ UNCHANGED <<clock, issuerVars, cacheVars, fkeys, awaits, kid, genuine, startedAt, outcome, steady>>

\* Mutant: the forced call joins a fresh entry too.
ForceJoins(r) ==
  /\ pc[r] = "first"
  /\ fstate[awaits[r]] = "resolved"
  /\ kid[r] \notin fkeys[awaits[r]]
  /\ pc' = [pc EXCEPT ![r] = "forced"]
  /\ \/ /\ CacheFresh
        /\ awaits' = [awaits EXCEPT ![r] = cache]
        /\ UNCHANGED cacheVars
     \/ /\ ~CacheFresh
        /\ awaits' = [awaits EXCEPT ![r] = <<r, "forced">>]
        /\ StartFetch(<<r, "forced">>)
  /\ UNCHANGED <<clock, issuerVars, fkeys, kid, genuine, startedAt, outcome, steady>>

\* An unknown key id is evidence of rotation: accessJwks(issuer, options, true).
ForceRefresh(r) ==
  /\ pc[r] = "first"
  /\ fstate[awaits[r]] = "resolved"
  /\ kid[r] \notin fkeys[awaits[r]]
  /\ pc' = [pc EXCEPT ![r] = "forced"]
  /\ awaits' = [awaits EXCEPT ![r] = <<r, "forced">>]
  /\ StartFetch(<<r, "forced">>)
  /\ UNCHANGED <<clock, issuerVars, fkeys, kid, genuine, startedAt, outcome, steady>>

\* Mutant: a rejected key-set promise is swallowed.
DenyUnknownOnly(r) ==
  /\ pc[r] = "forced"
  /\ fstate[awaits[r]] = "resolved"
  /\ kid[r] \notin fkeys[awaits[r]]
  /\ pc' = [pc EXCEPT ![r] = "done"]
  /\ outcome' = [outcome EXCEPT ![r] = "denied"]
  /\ UNCHANGED <<clock, issuerVars, cacheVars, fkeys, awaits, kid, genuine, startedAt, steady>>

\* Still unknown after the refresh, or the awaited promise rejected.
Deny(r) ==
  /\ \/ /\ pc[r] = "forced"
        /\ fstate[awaits[r]] = "resolved"
        /\ kid[r] \notin fkeys[awaits[r]]
     \/ /\ pc[r] \in {"first", "forced"}
        /\ fstate[awaits[r]] = "rejected"
  /\ pc' = [pc EXCEPT ![r] = "done"]
  /\ outcome' = [outcome EXCEPT ![r] = "denied"]
  /\ UNCHANGED <<clock, issuerVars, cacheVars, fkeys, awaits, kid, genuine, startedAt, steady>>

\* Mutant: a bad signature ends the request with another answer than "".
VerifyReturnsVerdict(r) ==
  /\ pc[r] = "verify"
  /\ pc' = [pc EXCEPT ![r] = "done"]
  /\ outcome' = [outcome EXCEPT ![r] = IF genuine[r] THEN "email" ELSE "false"]
  /\ UNCHANGED <<clock, issuerVars, cacheVars, fkeys, awaits, kid, genuine, startedAt, steady>>

\* crypto.subtle.verify decides.
Verify(r) ==
  /\ pc[r] = "verify"
  /\ pc' = [pc EXCEPT ![r] = "done"]
  /\ outcome' = [outcome EXCEPT ![r] = IF genuine[r] THEN "email" ELSE "denied"]
  /\ UNCHANGED <<clock, issuerVars, cacheVars, fkeys, awaits, kid, genuine, startedAt, steady>>

---------------------------------------------------------------------------
(* The environment                                                         *)

Tick ==
  /\ clock < MaxClock
  /\ clock' = clock + 1
  /\ UNCHANGED <<issuerVars, cacheVars, fkeys, requestVars, steady>>

Publish(k) ==
  /\ keyChanges < MaxKeyChanges
  /\ keyChanges' = keyChanges + 1
  /\ k \notin published
  /\ published' = published \cup {k}
  /\ publishedAt' = [publishedAt EXCEPT ![k] = clock]
  /\ UNCHANGED <<clock, retiredAt, cacheVars, fkeys, requestVars, steady>>

Retire(k) ==
  /\ keyChanges < MaxKeyChanges
  /\ keyChanges' = keyChanges + 1
  /\ k \in published
  /\ published' = published \ {k}
  /\ retiredAt' = [retiredAt EXCEPT ![k] = clock]
  /\ steady' = [r \in Requests |-> steady[r] /\ kid[r] # k]
  /\ UNCHANGED <<clock, publishedAt, cacheVars, fkeys, requestVars>>

Settle(f) == FetchServe(f) \/ FetchResolve(f) \/ FetchReject(f)

Continue(r) == KeyFound(r) \/ ForceRefresh(r) \/ Deny(r) \/ Verify(r)

Next ==
  \/ Tick
  \/ \E k \in Kids : Publish(k) \/ Retire(k)
  \/ \E f \in FetchId : Settle(f)
  \/ \E r \in Requests : TrustPlatform(r) \/ RefuseClaims(r) \/ AskKeys(r) \/ Continue(r)

Spec == Init /\ [][Next]_vars

\* Every subrequest ends (the platform aborts one that hangs: the code sets no
\* timeout of its own) and the event loop runs every ready continuation.
Fairness ==
  /\ \A f \in FetchId : WF_vars(Settle(f))
  /\ \A r \in Requests : WF_vars(Continue(r))

FairSpec == Spec /\ Fairness

---------------------------------------------------------------------------
(* Properties                                                              *)

\* A failed key-set fetch is never what later requests join (catch block of
\* accessJwks): otherwise one network error would refuse every login for an
\* hour.
FailureNotCached == cache # NoFetch => fstate[cache] # "rejected"

\* A key the issuer has withdrawn stops being accepted: a request that asked
\* for the key set TTL or more after the withdrawal is not let in with it,
\* whichever promise it joined and however late the answers arrive.
RevocationBound ==
  \A r \in Requests :
    outcome[r] = "email" =>
      \/ kid[r] \in published
      \/ startedAt[r] < retiredAt[kid[r]] + TTL

\* Rotation never refuses a good login: an assertion that is in order and whose key stayed
\* published while the request ran is refused only when a fetch it awaited
\* failed.
RotationNeverDenies ==
  \A r \in Requests :
    (outcome[r] = "denied" /\ genuine[r] /\ steady[r]) =>
      fstate[awaits[r]] = "rejected"

\* Requests coalesce: two fetches started because the entry was missing or
\* stale are TTL apart, unless a fetch in between failed.
FetchesCoalesce ==
  \A r, s \in Requests :
    LET f == <<r, "first">>
        g == <<s, "first">>
    IN  (r # s /\ fstate[f] # "none" /\ fstate[g] # "none" /\ fstart[f] <= fstart[g]) =>
          \/ fstart[g] >= fstart[f] + TTL
          \/ \E h \in FetchId : fstate[h] = "rejected" /\ fstart[h] >= fstart[f]

\* "A bad signature for an already known key is not [evidence of key rotation],
\* and must not create another network fetch" (the comment at worker.mjs:403):
\* a request whose key has been published for a TTL when it asks never forces a
\* refresh, whatever its signature.
BadSignatureNoRefetch ==
  \A r \in Requests :
    (fstate[<<r, "forced">>] # "none" /\ steady[r]) =>
      startedAt[r] < publishedAt[kid[r]] + TTL

\* A failed fetch evicts no entry but its own, and a late answer never
\* replaces the entry of a fetch started after it.
EntryChanges ==
  [][ /\ (cache # NoFetch /\ cache' = NoFetch) => fstate'[cache] = "rejected"
      /\ (cache' # cache /\ cache' # NoFetch) => fstate[cache'] = "none" ]_vars

\* Every request that asked for the key set gets an answer.
EveryRequestAnswered ==
  \A r \in Requests : (pc[r] # "idle") ~> (pc[r] = "done")
===========================================================================
