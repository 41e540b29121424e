------------------------ MODULE EdgeRouting_proofs ------------------------
(***************************************************************************)
(* What the origin is told, and by whom, for every number of solvers and   *)
(* requests, every length of a day and every run of the clock.             *)
(***************************************************************************)
EXTENDS EdgeRouting, TLAPS

\* A request is handled at a moment that has come.
Moments == clock \in Nat /\ now \in Nat /\ now <= clock

\* The e-mail is the one of the strongest source, and an assertion was judged at now.
Judged(assertion) ==
    assertion => /\ request.login.expires > now
                 /\ request.login.identity # "email" /\ ~request.login.header
Named ==
    /\ Judged(at = "keys")
    /\ Judged(email = "assertion")
    /\ email = "header" => request.login.identity # "email"

\* What the origin got is the edge's, of this request and its moment.
Word(h) ==
    /\ h.from = "edge" /\ env.secret /\ h.stamp = now
    /\ request.host = "solver" =>
          h.name = "edge" /\ h.who = <<now \div Day, request.solver>>
    /\ request.host # "solver" => h.name = "app" /\ h.who = email
Words ==
    /\ sent # {} => at \in {"origin", "answered"}
    /\ \A h \in sent : Word(h)

\* Every event is fingerprinted with its own day and solver.
Events == \A e \in work \cup log : e.fingerprint = <<e.occurredAt \div Day, e.solver>>

IInv == Moments /\ Named /\ Words /\ Events

\* The handlers end a request's first step alike.
FirstStep(q) ==
    /\ Arrive(q)
    /\ at' \in {"answered", "assets", "stamp", "identity"}
    /\ work' \subseteq work \cup recordEdgeDiscoveryTelemetry(q)

LEMMA Handled ==
    ASSUME NEW q,
           \/ NotFound(q) \/ MethodNotAllowed(q) \/ serveApplication(q)
           \/ ReadDiscovery(q) \/ Preflight(q) \/ proxyOriginRequest(q)
    PROVE  FirstStep(q)
<1>1. CASE NotFound(q)
  BY <1>1 DEF NotFound, FirstStep, Answer
<1>2. CASE MethodNotAllowed(q)
  BY <1>2 DEF MethodNotAllowed, FirstStep, Answer
<1>3. CASE serveApplication(q)
  BY <1>3 DEF serveApplication, FirstStep, Answer, Await
<1>4. CASE ReadDiscovery(q)
  BY <1>4 DEF ReadDiscovery, FirstStep, Answer
<1>5. CASE Preflight(q)
  BY <1>5 DEF Preflight, FirstStep, Answer
<1>6. CASE proxyOriginRequest(q)
  BY <1>6 DEF proxyOriginRequest, FirstStep, Answer, Await
<1>7. QED
  BY <1>1, <1>2, <1>3, <1>4, <1>5, <1>6

LEMMA MomentsKept == Moments /\ [Next]_vars => Moments'
<1> SUFFICES ASSUME Moments, [Next]_vars PROVE Moments'
  OBVIOUS
<1>1. ASSUME NEW q, FirstStep(q) PROVE Moments'
  BY <1>1 DEF FirstStep, Arrive, Moments
<1>2. CASE Awaits
  BY <1>2 DEF Awaits, trustedAccessEmail, VerifyAssertion, Forward, OriginAnswers, AssetsAnswer, Moments
<1>3. CASE Leave \/ Log \/ UNCHANGED vars
  BY <1>3 DEF Leave, Log, vars, Moments
<1>4. CASE Tick
  BY <1>4 DEF Tick, Moments
<1>5. QED
  BY <1>1, <1>2, <1>3, <1>4, Handled DEF Next

LEMMA NamedKept == Named /\ [Next]_vars => Named'
<1> SUFFICES ASSUME Named, [Next]_vars PROVE Named'
  OBVIOUS
<1>1. ASSUME NEW q, FirstStep(q) PROVE Named'
  BY <1>1 DEF FirstStep, Arrive, Named, Judged, Nobody
<1>2. CASE trustedAccessEmail
  BY <1>2 DEF trustedAccessEmail, Named, Judged, Nobody
<1>3. CASE VerifyAssertion
  BY <1>3 DEF VerifyAssertion, Named, Judged, Nobody
<1>4. CASE Forward \/ OriginAnswers \/ AssetsAnswer
  BY <1>4 DEF Forward, OriginAnswers, AssetsAnswer, Answer, Named, Judged
<1>5. CASE Leave
  BY <1>5 DEF Leave, Named, Judged, Nobody
<1>6. CASE Log \/ Tick \/ UNCHANGED vars
  BY <1>6 DEF Log, Tick, vars, Named, Judged
<1>7. QED
  BY <1>1, <1>2, <1>3, <1>4, <1>5, <1>6, Handled DEF Next, Awaits

\* Of the client's headers nothing others trust is left, and each host gets one of the
\* edge's two.
LEMMA ForwardedIsTheEdges == \A h \in forwarded : Word(h)
<1> SUFFICES ASSUME NEW h \in forwarded PROVE Word(h)
  OBVIOUS
<1>1. \A c \in stripped(Headers(request)) : c.name = "app"
  BY DEF stripped, Headers, Header, Private, Trusted
<1>2. CASE request.host = "solver"
  <2>1. h \in attachTrustedEdgeIdentity(stripped(Headers(request))) /\ h.name # "app"
    BY <1>2 DEF forwarded
  <2>2. env.secret /\ h = Header("edge", "edge", now, identityFingerprint(request.solver, now))
    BY <1>1, <2>1 DEF attachTrustedEdgeIdentity
  <2>3. QED
    BY <1>2, <2>2 DEF Word, Header, identityFingerprint
<1>3. CASE request.host # "solver"
  <2>1. h \in attachTrustedAppAccessIdentity(stripped(Headers(request)))
    BY <1>3 DEF forwarded
  <2>2. env.secret /\ h = Header("app", "edge", now, email)
    BY <1>1, <2>1 DEF attachTrustedAppAccessIdentity
  <2>3. QED
    BY <1>3, <2>2 DEF Word, Header
<1>4. QED
  BY <1>2, <1>3

LEMMA WordsKept == Words /\ [Next]_vars => Words'
<1> SUFFICES ASSUME Words, [Next]_vars PROVE Words'
  OBVIOUS
<1>1. ASSUME NEW q, FirstStep(q) PROVE Words'
  BY <1>1 DEF FirstStep, Arrive, Words
<1>2. CASE trustedAccessEmail \/ VerifyAssertion
  BY <1>2 DEF trustedAccessEmail, VerifyAssertion, Words
<1>3. CASE Forward
  <2>1. sent' = forwarded /\ at' = "origin"
    BY <1>3 DEF Forward
  <2>2. \A h : Word(h)' = Word(h)
    BY <1>3 DEF Forward, Word
  <2>3. QED
    BY <2>1, <2>2, ForwardedIsTheEdges DEF Words
<1>4. CASE OriginAnswers \/ AssetsAnswer
  <2>1. at' = "answered" /\ sent' = sent /\ (\A h : Word(h)' = Word(h))
    BY <1>4 DEF OriginAnswers, AssetsAnswer, Answer, Word
  <2>2. QED
    BY <2>1 DEF Words
<1>5. CASE Leave
  BY <1>5 DEF Leave, Words
<1>6. CASE Log \/ Tick \/ UNCHANGED vars
  <2>1. at' = at /\ sent' = sent /\ (\A h : Word(h)' = Word(h))
    BY <1>6 DEF Log, Tick, vars, Word
  <2>2. QED
    BY <2>1 DEF Words
<1>7. QED
  BY <1>1, <1>2, <1>3, <1>4, <1>5, <1>6, Handled DEF Next, Awaits

LEMMA EventsKept == Events /\ [Next]_vars => Events'
<1> SUFFICES ASSUME Events, [Next]_vars PROVE Events'
  OBVIOUS
<1>1. ASSUME NEW q, FirstStep(q) PROVE Events'
  <2>1. \A e \in recordEdgeDiscoveryTelemetry(q) :
          e.fingerprint = <<e.occurredAt \div Day, e.solver>>
    BY DEF recordEdgeDiscoveryTelemetry, eventFingerprint
  <2>2. log' = log
    BY <1>1 DEF FirstStep, Arrive
  <2>3. QED
    BY <1>1, <2>1, <2>2 DEF FirstStep, Events
<1>2. CASE Awaits
  BY <1>2 DEF Awaits, trustedAccessEmail, VerifyAssertion, Forward, OriginAnswers, AssetsAnswer, Events
<1>3. CASE Leave \/ Tick \/ UNCHANGED vars
  BY <1>3 DEF Leave, Tick, vars, Events
<1>4. CASE Log
  BY <1>4 DEF Log, Events
<1>5. QED
  BY <1>1, <1>2, <1>3, <1>4, Handled DEF Next

LEMMA Invariant == Spec => []IInv
<1>1. Init => IInv
  BY DEF Init, IInv, Moments, Named, Judged, Words, Events, Nobody
<1>2. IInv /\ [Next]_vars => IInv'
  BY MomentsKept, NamedKept, WordsKept, EventsKept DEF IInv
<1>3. QED
  BY <1>1, <1>2, PTL DEF Spec

\* OriginTrustsTheEdgesWord for every deployment and request: no header the origin
\* trusts is the client's.
THEOREM OriginIsTold == Spec => []OriginTrustsTheEdgesWord
<1>1. IInv => OriginTrustsTheEdgesWord
  BY DEF IInv, Words, Word, OriginTrustsTheEdgesWord
<1>2. QED
  BY Invariant, <1>1, PTL

\* StampedWhileValid however long the keys, the HMAC and the origin take.
THEOREM StampsAreOfTheJudgement == Spec => []StampedWhileValid
<1>1. IInv => StampedWhileValid
  BY DEF IInv, Moments, Named, Judged, Words, Word, StampedWhileValid
<1>2. QED
  BY Invariant, <1>1, PTL

\* FingerprintsAgree for every length of a day and every set of solvers.
THEOREM FingerprintsLink == Spec => []FingerprintsAgree
<1>1. IInv => FingerprintsAgree
  <2> SUFFICES ASSUME IInv, NEW h \in sent, NEW e \in log, h.name = "edge"
               PROVE  h.who = e.fingerprint
                        <=> e.solver = request.solver /\ e.occurredAt \div Day = h.stamp \div Day
    BY DEF FingerprintsAgree
  <2>1. h.who = <<h.stamp \div Day, request.solver>>
    BY DEF IInv, Words, Word
  <2>2. e.fingerprint = <<e.occurredAt \div Day, e.solver>>
    BY DEF IInv, Events
  <2>3. QED
    BY <2>1, <2>2
<1>2. QED
  BY Invariant, <1>1, PTL

(***************************************************************************)
(* The two tables.                                                         *)
(***************************************************************************)
Published(q) == q.method \in allowedMethodsForPath(q.path)

\* What is refused is neither published nor a read or a preflight of a document.
LEMMA RefusedIsUnpublished ==
    ASSUME NEW q \in Requests, q.host = "solver",
           ~isEdgeDiscovery(q.method, q.path), ~isPublicRoute(q.method, q.path)
    PROVE  ~Published(q) /\ ~(q.path \in Documents /\ q.method \in {"HEAD", "OPTIONS"})
<1>1. q.path \in SolverPaths /\ q.method \in Methods
  BY DEF Requests
<1>2. \A p : isDynamicApiPath(p) <=>
        p \in {"solverDiscovery", "solverFeed", "solverFeedEvents", "permitRequestMessage",
               "executionPermits", "routeDetail", "permitStatus"}
  BY DEF isDynamicApiPath, exactDynamicPaths
<1>3. CASE q.method = "OPTIONS"
  <2>1. \A route \in PUBLIC_ROUTES : route[2] # q.path
    BY <1>3 DEF isPublicRoute
  <2>2. \A p \in {"manifest", "onchainDiscovery", "standards", "openapi", "solverDiscovery",
                  "solverFeed", "solverFeedEvents", "routeDetail", "permitStatus"} :
          <<"GET", p>> \in PUBLIC_ROUTES
    BY DEF PUBLIC_ROUTES
  <2>3. \A p \in {"permitRequestMessage", "executionPermits"} : <<"POST", p>> \in PUBLIC_ROUTES
    BY DEF PUBLIC_ROUTES
  <2>4. q.path \notin {"manifest", "onchainDiscovery", "standards", "openapi", "solverDiscovery",
                      "solverFeed", "solverFeedEvents", "routeDetail", "permitStatus",
                      "permitRequestMessage", "executionPermits"}
    BY <2>1, <2>2, <2>3
  <2>5. QED
    BY <2>4, <1>2, <1>3 DEF Published, allowedMethodsForPath, Documents
<1>4. CASE q.method # "OPTIONS"
  <2>1. <<q.method, q.path>> \notin PUBLIC_ROUTES
    BY <1>4 DEF isPublicRoute
  <2>2. q.method = "GET" => q.path \notin {"manifest", "onchainDiscovery", "standards", "openapi",
                      "solverDiscovery", "solverFeed", "solverFeedEvents", "routeDetail",
                      "permitStatus"}
    BY <2>1 DEF PUBLIC_ROUTES
  <2>3. q.method = "POST" => q.path \notin {"permitRequestMessage", "executionPermits"}
    BY <2>1 DEF PUBLIC_ROUTES
  <2>4. q.method = "HEAD" => q.path \notin Documents
    BY DEF isEdgeDiscovery, EDGE_STABLE_DISCOVERY, Documents
  <2>5. QED
    BY <1>1, <1>2, <1>4, <2>2, <2>3, <2>4
    DEF Published, allowedMethodsForPath, Documents, Methods
<1>5. QED
  BY <1>3, <1>4

\* What is proxied is published, and no document.
LEMMA ProxiedIsPublished ==
    ASSUME NEW q \in Requests, q.host = "solver", q.method # "OPTIONS",
           isPublicRoute(q.method, q.path), ~isEdgeDiscovery(q.method, q.path)
    PROVE  Published(q) /\ q.path \notin Documents
<1>1. <<q.method, q.path>> \in PUBLIC_ROUTES
  BY DEF isPublicRoute
<1>2. \/ q.method = "GET" /\ q.path \in {"manifest", "onchainDiscovery", "standards", "openapi",
                      "solverDiscovery", "solverFeed", "solverFeedEvents", "routeDetail",
                      "permitStatus"}
      \/ q.method = "POST" /\ q.path \in {"permitRequestMessage", "executionPermits"}
  BY <1>1 DEF PUBLIC_ROUTES
<1>3. q.method = "GET" => q.path \notin {"manifest", "onchainDiscovery", "standards", "openapi",
                                        "solverDiscovery"}
  BY DEF isEdgeDiscovery, EDGE_STABLE_DISCOVERY
<1>4. QED
  BY <1>2, <1>3 DEF Published, allowedMethodsForPath, Documents, isDynamicApiPath, exactDynamicPaths

\* An answer fits the catalogue, and what is under way will.
Catalogued ==
    /\ at = "answered" => AnswersMatchTheCatalogue
    /\ at \in {"identity", "keys", "stamp", "origin"} /\ request.host = "solver" =>
          Published(request) /\ request.path \notin Documents
    /\ at = "assets" => request.host = "app"

LEMMA CataloguedKept == Catalogued /\ [Next]_vars => Catalogued'
<1> SUFFICES ASSUME Catalogued, [Next]_vars PROVE Catalogued'
  OBVIOUS
<1> USE DEF Arrive, Answer, Await, Published
<1>1. ASSUME NEW q \in Requests, NotFound(q) PROVE Catalogued'
  <2>1. request' = q /\ at' = "answered"
          /\ answer' = [by |-> "edge", status |-> 404, cors |-> q.host = "solver"]
    BY <1>1 DEF NotFound
  <2>2. q.host = "solver" => ~isEdgeDiscovery(q.method, q.path) /\ ~isPublicRoute(q.method, q.path)
    BY <1>1 DEF NotFound
  <2>3. q.host = "solver" => ~(q.method \in allowedMethodsForPath(q.path))
                             /\ ~(q.path \in Documents /\ q.method \in {"HEAD", "OPTIONS"})
    BY <2>2, RefusedIsUnpublished
  <2>4. QED
    BY <2>1, <2>3 DEF Catalogued, AnswersMatchTheCatalogue, Answered
<1>2. ASSUME NEW q \in Requests, MethodNotAllowed(q) \/ serveApplication(q) PROVE Catalogued'
  <2>1. request' = q /\ q.host = "app"
    BY <1>2 DEF MethodNotAllowed, serveApplication
  <2>2. \/ at' = "assets"
        \/ at' = "answered" /\ answer'.by = "edge" /\ answer'.cors = FALSE
    BY <1>2 DEF MethodNotAllowed, serveApplication
  <2>3. QED
    BY <2>1, <2>2 DEF Catalogued, AnswersMatchTheCatalogue, Answered
<1>3. ASSUME NEW q \in Requests, ReadDiscovery(q) PROVE Catalogued'
  <2>1. request' = q /\ q.host = "solver" /\ at' = "answered"
          /\ answer' = [by |-> "edge", status |-> 200, cors |-> TRUE]
    BY <1>3 DEF ReadDiscovery
  <2>2. q.path \in Documents \cup {"solverDiscovery"} \cup EDGE_STATIC_DISCOVERY
    BY <1>3 DEF ReadDiscovery, isEdgeDiscovery, EDGE_STABLE_DISCOVERY, Documents
  <2>3. answer'.cors = (request'.host = "solver") /\ answer'.by = "edge" /\ answer'.status = 200
    BY <2>1
  <2>4. answer'.status \notin {404, 405}
    BY <2>3
  <2>5. AnswersMatchTheCatalogue'
    <3> HIDE <2>1
    <3>1. request' = q /\ q.host = "solver"
      BY <2>1
    <3>2. QED
      BY <3>1, <2>2, <2>3, <2>4 DEF AnswersMatchTheCatalogue
  <2>6. QED
    BY <2>1, <2>5 DEF Catalogued
<1>4. ASSUME NEW q \in Requests, Preflight(q) PROVE Catalogued'
  <2>1. request' = q /\ q.host = "solver" /\ q.method = "OPTIONS" /\ at' = "answered"
          /\ answer' = [by |-> "edge", status |-> 204, cors |-> TRUE]
    BY <1>4 DEF Preflight
  <2>2. q.path \in Documents => ~(q.method \in allowedMethodsForPath(q.path))
    BY <2>1 DEF allowedMethodsForPath, Documents, isDynamicApiPath, exactDynamicPaths
  <2>3. answer'.cors = (request'.host = "solver") /\ answer'.by = "edge" /\ answer'.status = 204
    BY <2>1
  <2>4. answer'.status \notin {404, 405}
    BY <2>3
  <2>5. AnswersMatchTheCatalogue'
    <3> HIDE <2>1
    <3>1. request' = q /\ q.host = "solver"
      BY <2>1
    <3>2. QED
      BY <3>1, <2>2, <2>3, <2>4 DEF AnswersMatchTheCatalogue
  <2>6. QED
    BY <2>1, <2>5 DEF Catalogued
<1>5. ASSUME NEW q \in Requests, proxyOriginRequest(q) PROVE Catalogued'
  <2>1. request' = q /\ (q.host = "solver" \/ q.host = "app")
    BY <1>5 DEF proxyOriginRequest
  <2>2. \/ at' \in {"stamp", "identity"}
        \/ at' = "answered"
           /\ answer' = [by |-> "edge", status |-> 503, cors |-> q.host = "solver"]
    BY <1>5 DEF proxyOriginRequest
  <2>3. q.host = "solver" => q.method \in allowedMethodsForPath(q.path) /\ q.path \notin Documents
    BY <1>5, ProxiedIsPublished DEF proxyOriginRequest
  <2>4. QED
    BY <2>1, <2>2, <2>3 DEF Catalogued, AnswersMatchTheCatalogue, Answered
<1>6. CASE trustedAccessEmail \/ VerifyAssertion \/ Forward
  <2>1. /\ at \in {"identity", "keys", "stamp"} /\ at' \in {"keys", "stamp", "origin"}
        /\ request' = request
    BY <1>6 DEF trustedAccessEmail, VerifyAssertion, Forward
  <2>2. QED
    BY <2>1 DEF Catalogued
<1>7. CASE OriginAnswers
  <2>1. /\ at = "origin" /\ at' = "answered" /\ request' = request
        /\ answer'.cors = (request.host = "solver")
        /\ answer'.by = "origin" \/ (answer'.by = "edge" /\ answer'.status = 502)
    BY <1>7 DEF OriginAnswers
  <2>2. request.host = "solver" =>
          request.method \in allowedMethodsForPath(request.path) /\ request.path \notin Documents
    BY <2>1 DEF Catalogued
  <2>3. QED
    BY <2>1, <2>2 DEF Catalogued, AnswersMatchTheCatalogue, Answered
<1>8. CASE AssetsAnswer
  <2>1. /\ at = "assets" /\ at' = "answered" /\ request' = request
        /\ answer' = [by |-> "assets", status |-> 200, cors |-> FALSE]
    BY <1>8 DEF AssetsAnswer
  <2>2. request.host = "app"
    BY <2>1 DEF Catalogued
  <2>3. QED
    BY <2>1, <2>2 DEF Catalogued, AnswersMatchTheCatalogue, Answered
<1>9. CASE Leave
  BY <1>9 DEF Leave, Catalogued
<1>10. CASE Log \/ Tick \/ UNCHANGED vars
  <2>1. at' = at /\ request' = request /\ answer' = answer
    BY <1>10 DEF Log, Tick, vars
  <2>2. QED
    BY <2>1 DEF Catalogued, AnswersMatchTheCatalogue, Answered
<1>11. QED
  BY <1>1, <1>2, <1>3, <1>4, <1>5, <1>6, <1>7, <1>8, <1>9, <1>10 DEF Next, Awaits

\* AnswersMatchTheCatalogue for every deployment, number of requests and set of solvers.
THEOREM TablesAgree == Spec => []AnswersMatchTheCatalogue
<1>1. Init => Catalogued
  BY DEF Init, Catalogued
<1>2. Catalogued => AnswersMatchTheCatalogue
  BY DEF Catalogued, AnswersMatchTheCatalogue, Answered
<1>3. QED
  BY <1>1, <1>2, CataloguedKept, PTL DEF Spec
=============================================================================
