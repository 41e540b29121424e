---------------------------- MODULE EdgeRouting ----------------------------
(***************************************************************************)
(* handleRequest of src/worker.mjs: what the edge answers by itself, what  *)
(* it forwards to the origin and with whose word, and the event it logs    *)
(* for a discovery read while, or after, it answers.                       *)
(*                                                                         *)
(* Requests share the key cache, which AccessJwks models, and nothing      *)
(* else, so one is served at a time here; its awaits may take any time,    *)
(* and the work handed to waitUntil outlives the answer.  In production    *)
(* the execution context is always there.  A path is named after what it   *)
(* serves; a solver stands for an address and a user agent, normalized.    *)
(***************************************************************************)
EXTENDS Integers

CONSTANTS
    Solvers,     \* who sends the requests
    Day,         \* the length of an epoch
    MaxClock,    \* the last moment of a run
    MaxRequests  \* how many requests come

ASSUME DayAssumption == Day \in Nat \ {0} /\ MaxClock \in Nat /\ MaxRequests \in Nat

VARIABLES
    clock,     \* the time, in the unit of Day
    env,       \* the bindings of this deployment
    request,   \* the request being served, or NoRequest
    at,        \* what it awaits
    now,       \* nowSeconds, taken when the request was handled
    email,     \* the e-mail it was given by the login
    sent,      \* the headers forwarded to the origin that others would trust
    answer,    \* the response
    work,      \* events handed to waitUntil, not logged yet
    log,       \* events logged
    served     \* how many requests came

vars == <<clock, env, request, at, now, email, sent, answer, work, log, served>>

NoRequest == [host |-> "none"]
NoAnswer == [by |-> "none"]
Nobody == "nobody"

(***************************************************************************)
(* The catalogue of public-endpoints.mjs.                                  *)
(***************************************************************************)
Documents == {"manifest", "onchainDiscovery", "openapi", "standards"}

exactDynamicPaths ==
    {"solverDiscovery", "solverFeed", "solverFeedEvents", "permitRequestMessage",
     "executionPermits"}

isDynamicApiPath(path) == path \in exactDynamicPaths \cup {"routeDetail", "permitStatus"}

allowedMethodsForPath(path) ==
    CASE path \in Documents -> {"GET"}
      [] path \in {"permitRequestMessage", "executionPermits"} -> {"POST", "OPTIONS"}
      [] isDynamicApiPath(path) /\ path \notin {"permitRequestMessage", "executionPermits"} ->
            {"GET", "OPTIONS"}
      [] OTHER -> {}

(***************************************************************************)
(* The tables of worker.mjs.                                               *)
(***************************************************************************)
\* Mutant: the permits are listed with the wrong method.
PUBLIC_ROUTES_NoPost ==
    {"GET"} \X {"manifest", "onchainDiscovery", "standards", "openapi", "solverDiscovery",
                "solverFeed", "solverFeedEvents", "routeDetail", "permitRequestMessage",
                "executionPermits", "permitStatus"}

PUBLIC_ROUTES ==
    ({"GET"} \X {"manifest", "onchainDiscovery", "standards", "openapi", "solverDiscovery",
                 "solverFeed", "solverFeedEvents", "routeDetail", "permitStatus"})
        \cup ({"POST"} \X {"permitRequestMessage", "executionPermits"})

EDGE_STATIC_DISCOVERY == {"root", "robots", "sitemap", "llms", "indexNow"}
EDGE_STABLE_DISCOVERY ==
    {"manifest", "onchainDiscovery", "standards", "openapi", "solverDiscovery"}
EDGE_DISCOVERY_EVENT_TYPES == {"root"} \cup EDGE_STABLE_DISCOVERY

SolverPaths ==
    EDGE_STATIC_DISCOVERY \cup Documents \cup exactDynamicPaths
        \cup {"routeDetail", "permitStatus", "unknown"}
Methods == {"GET", "HEAD", "POST", "OPTIONS"}

isPublicRoute(method, path) ==
    IF method = "OPTIONS" THEN \E route \in PUBLIC_ROUTES : route[2] = path
    ELSE <<method, path>> \in PUBLIC_ROUTES

\* Answered by edgeStaticDiscoveryResponse or edgeStableDiscoveryResponse.
isEdgeDiscovery(method, path) ==
    method \in {"GET", "HEAD"} /\ path \in EDGE_STATIC_DISCOVERY \cup EDGE_STABLE_DISCOVERY

(***************************************************************************)
(* The inputs.  A client may send copies of the headers the edge sets.     *)
(***************************************************************************)
\* Of a login: what getIdentity gives, whether the platform names the user in a header,
\* and the moment the assertion expires (0: there is none).
NoLogin == [identity |-> "none", header |-> FALSE, expires |-> 0]
Logins ==
    [identity : {"none", "email", "fails"}, header : BOOLEAN, expires : 0 .. MaxClock + 1]

Requests ==
    [host : {"solver"}, path : SolverPaths, method : Methods, solver : Solvers,
     copies : BOOLEAN, login : {NoLogin}]
    \cup [host : {"app"}, path : {"/api/v6/"}, method : {"POST"}, solver : Solvers,
          copies : {TRUE}, login : Logins]
    \cup [host : {"app", "other"}, path : {"/api/", "page"}, method : {"GET", "POST"},
          solver : Solvers, copies : {TRUE}, login : {NoLogin}]

\* The secret is long enough or not; the assets are bound or not; the origin's binding is
\* missing, is no plain https origin, names one of the edge's own hosts, or the origin.
Bindings ==
    [secret : BOOLEAN, assets : BOOLEAN,
     origin : {"missing", "malformed", "solver", "app", "origin"}]

\* A header others trust, with who set it, when, and whom it names.
Header(name, from, stamp, who) == [name |-> name, from |-> from, stamp |-> stamp, who |-> who]
Private == {"cookie", "cf-access-jwt-assertion", "cf-connecting-ip"}
Trusted == {"edge", "app"}
Headers(q) ==
    IF q.copies THEN {Header(n, "client", 0, Nobody) : n \in Private \cup Trusted} ELSE {}

TypeOK ==
    /\ clock \in 0 .. MaxClock
    /\ env \in Bindings
    /\ request = NoRequest \/ request \in Requests
    /\ at \in {"idle", "assets", "identity", "keys", "stamp", "origin", "answered"}
    /\ now \in 0 .. MaxClock
    /\ email \in {Nobody, "platform", "header", "assertion"}
    /\ \A h \in sent : /\ h.name \in Trusted
                       /\ h.stamp \in 0 .. MaxClock
    /\ answer = NoAnswer \/ (answer.by \in {"edge", "assets", "origin"} /\ answer.cors \in BOOLEAN)
    /\ \A e \in work \cup log : e.solver \in Solvers /\ e.occurredAt \in 0 .. MaxClock
    /\ served \in 0 .. MaxRequests

Init ==
    /\ clock = 0
    /\ env \in Bindings
    /\ request = NoRequest /\ at = "idle" /\ now = 0
    /\ email = Nobody /\ sent = {} /\ answer = NoAnswer
    /\ work = {} /\ log = {}
    /\ served = 0

(***************************************************************************)
(* Identities.  Both functions compute the fingerprint of their own.       *)
(***************************************************************************)
\* Mutant: the day is left out of the event's fingerprint.
eventFingerprintForEver(solver, time) == <<0, solver>>

\* recordEdgeDiscoveryTelemetry and attachTrustedEdgeIdentity.
eventFingerprint(solver, time) == <<time \div Day, solver>>
identityFingerprint(solver, time) == <<time \div Day, solver>>

recordEdgeDiscoveryTelemetry(q) ==
    IF env.secret /\ q.path \in EDGE_DISCOVERY_EVENT_TYPES
      THEN {[fingerprint |-> eventFingerprint(q.solver, clock), solver |-> q.solver,
             occurredAt |-> clock]}
      ELSE {}

attachTrustedEdgeIdentity(headers) ==
    {h \in headers : h.name # "edge"}
        \cup IF env.secret
               THEN {Header("edge", "edge", now, identityFingerprint(request.solver, now))}
               ELSE {}

\* Mutant: the moment of signing, and not of the checks, is stamped.
attachAppIdentityNow(headers) ==
    {h \in headers : h.name # "app"}
        \cup IF env.secret /\ email # Nobody THEN {Header("app", "edge", clock, email)} ELSE {}

attachTrustedAppAccessIdentity(headers) ==
    {h \in headers : h.name # "app"}
        \cup IF env.secret /\ email # Nobody THEN {Header("app", "edge", now, email)} ELSE {}

\* What proxyOriginRequest deletes before anything is attached.
stripped(headers) == {h \in headers : h.name \notin Private \cup {"edge"}}

\* Mutant: a solver's copies of the login's headers go through.
forwardedAsSent ==
    IF request.host = "solver"
      THEN attachTrustedEdgeIdentity(stripped(Headers(request)))
      ELSE attachTrustedAppAccessIdentity(stripped(Headers(request)))

forwarded ==
    IF request.host = "solver"
      THEN {h \in attachTrustedEdgeIdentity(stripped(Headers(request))) : h.name # "app"}
      ELSE attachTrustedAppAccessIdentity(stripped(Headers(request)))

(***************************************************************************)
(* handleRequest, up to its answer or its first await.                     *)
(***************************************************************************)
Arrive(q) ==
    /\ at = "idle" /\ served < MaxRequests
    /\ request' = q /\ now' = clock
    /\ email' = Nobody /\ sent' = {}
    /\ served' = served + 1
    /\ UNCHANGED <<clock, env, log>>

Await(what) == at' = what /\ answer' = NoAnswer
Answer(by, status, cors) ==
    /\ at' = "answered"
    /\ answer' = [by |-> by, status |-> status, cors |-> cors]

NotFound(q) ==
    /\ \/ q.host = "other"
       \/ q.host = "app" /\ q.path = "/api/"
       \/ q.host = "solver" /\ ~isEdgeDiscovery(q.method, q.path)
                            /\ ~isPublicRoute(q.method, q.path)
    /\ Arrive(q)
    /\ Answer("edge", 404, q.host = "solver")
    /\ UNCHANGED work

\* Everything under /api/v6/ is forwarded; the rest of the application is read only.
MethodNotAllowed(q) ==
    /\ q.host = "app" /\ q.path = "page" /\ q.method \notin {"GET", "HEAD"}
    /\ Arrive(q)
    /\ Answer("edge", 405, FALSE)
    /\ UNCHANGED work

serveApplication(q) ==
    /\ q.host = "app" /\ q.path = "page" /\ q.method \in {"GET", "HEAD"}
    /\ Arrive(q)
    /\ IF env.assets THEN Await("assets") ELSE Answer("edge", 503, FALSE)
    /\ UNCHANGED work

\* The event's work starts here, and is handed to waitUntil.
ReadDiscovery(q) ==
    /\ q.host = "solver" /\ isEdgeDiscovery(q.method, q.path)
    /\ Arrive(q)
    /\ Answer("edge", 200, TRUE)
    /\ work' = work \cup recordEdgeDiscoveryTelemetry(q)

Preflight(q) ==
    /\ q.host = "solver" /\ q.method = "OPTIONS" /\ isPublicRoute(q.method, q.path)
    /\ Arrive(q)
    /\ Answer("edge", 204, TRUE)
    /\ UNCHANGED work

\* originUrl throws, for a host of this edge.
originInvalid(q) == env.origin \in {"malformed", q.host}

proxyOriginRequest(q) ==
    /\ \/ q.host = "app" /\ q.path = "/api/v6/"
       \/ q.host = "solver" /\ q.method # "OPTIONS" /\ isPublicRoute(q.method, q.path)
                            /\ ~isEdgeDiscovery(q.method, q.path)
    /\ Arrive(q)
    /\ IF env.origin = "missing" \/ originInvalid(q)
         THEN Answer("edge", 503, q.host = "solver")
         ELSE Await(IF q.host = "solver" THEN "stamp" ELSE "identity")
    /\ UNCHANGED work

(***************************************************************************)
(* The awaits.                                                             *)
(***************************************************************************)
\* trustedAccessEmail: the platform's identity, then its header, then the assertion,
\* whose claims must hold at now.  The clock may have passed on.
trustedAccessEmail ==
    /\ at = "identity"
    /\ LET login == request.login
       IN  IF login.identity = "email" THEN email' = "platform" /\ at' = "stamp"
           ELSE IF login.header THEN email' = "header" /\ at' = "stamp"
           ELSE email' = Nobody /\ at' = (IF login.expires > now THEN "keys" ELSE "stamp")
    /\ UNCHANGED <<clock, env, request, now, sent, answer, work, log, served>>

\* verifiedAccessEmailFromAssertion, from the keys on: AccessJwks has its detail.
VerifyAssertion ==
    /\ at = "keys"
    /\ email' \in {"assertion", Nobody}
    /\ at' = "stamp"
    /\ UNCHANGED <<clock, env, request, now, sent, answer, work, log, served>>

Forward ==
    /\ at = "stamp"
    /\ sent' = forwarded
    /\ at' = "origin"
    /\ UNCHANGED <<clock, env, request, now, email, answer, work, log, served>>

OriginAnswers ==
    /\ at = "origin"
    /\ \/ \E status \in {200, 429} : Answer("origin", status, request.host = "solver")
       \/ Answer("edge", 502, request.host = "solver")
    /\ UNCHANGED <<clock, env, request, now, email, sent, work, log, served>>

AssetsAnswer ==
    /\ at = "assets"
    /\ Answer("assets", 200, FALSE)
    /\ UNCHANGED <<clock, env, request, now, email, sent, work, log, served>>

\* The response is on its way: nothing of the request is kept.
Leave ==
    /\ at = "answered"
    /\ request' = NoRequest /\ at' = "idle" /\ now' = 0
    /\ email' = Nobody /\ sent' = {} /\ answer' = NoAnswer
    /\ UNCHANGED <<clock, env, work, log, served>>

\* The event's HMAC is computed, and the entry is logged.
Log ==
    /\ \E e \in work : work' = work \ {e} /\ log' = log \cup {e}
    /\ UNCHANGED <<clock, env, request, at, now, email, sent, answer, served>>

Tick ==
    /\ clock < MaxClock
    /\ clock' = clock + 1
    /\ UNCHANGED <<env, request, at, now, email, sent, answer, work, log, served>>

Awaits == trustedAccessEmail \/ VerifyAssertion \/ Forward \/ OriginAnswers \/ AssetsAnswer

Next ==
    \/ at = "idle" /\ \E q \in Requests :
          \/ NotFound(q) \/ MethodNotAllowed(q) \/ serveApplication(q) \/ ReadDiscovery(q)
          \/ Preflight(q) \/ proxyOriginRequest(q)
    \/ Awaits
    \/ Leave
    \/ Log
    \/ Tick

Spec == Init /\ [][Next]_vars

(***************************************************************************)
(* Properties.                                                             *)
(***************************************************************************)
Answered == at = "answered"

\* The worker's tables serve what the catalogue of public-endpoints.mjs publishes, under
\* every binding: no published path and method is refused, what is refused is neither
\* published nor a read or a preflight of a discovery document, discovery is answered
\* without the origin, and every answer of the solver host, errors too, may be read by a
\* browser of another origin.
AnswersMatchTheCatalogue ==
    Answered =>
        LET refused == answer.by = "edge" /\ answer.status \in {404, 405}
            published == request.method \in allowedMethodsForPath(request.path)
            document == request.path \in Documents /\ request.method \in {"HEAD", "OPTIONS"}
        IN  /\ answer.cors = (request.host = "solver")
            /\ request.host = "solver" /\ refused => ~published /\ ~document
            /\ request.host = "solver" /\ answer.status = 200 /\ answer.by = "edge" =>
                  request.path \in Documents \cup {"solverDiscovery"} \cup EDGE_STATIC_DISCOVERY
            /\ request.host = "solver" /\ published /\ request.path \in Documents =>
                  answer.status = 200
            /\ answer.by = "origin" /\ request.host = "solver" => published

\* The origin never sees a trusted header of the client's, nor its cookie, assertion or
\* address; it sees the edge's own on the host they are for only, and none without the
\* secret.
OriginTrustsTheEdgesWord ==
    \A h \in sent :
        /\ h.from = "edge" /\ env.secret
        /\ h.name = "edge" <=> request.host = "solver"

\* An e-mail is forwarded with the moment its assertion was found to hold, however long
\* the keys took, and is the one of the strongest source that names the user.
StampedWhileValid ==
    \A h \in sent :
        h.name = "app" =>
            /\ h.who = "assertion" =>
                  /\ request.login.expires > h.stamp
                  /\ request.login.identity # "email" /\ ~request.login.header
            /\ h.who = "header" => request.login.identity # "email"
            /\ h.stamp <= clock

\* The fingerprint of an event and the one forwarded with a request are the same if and
\* only if one solver made both on one day: the two functions link what they should.
FingerprintsAgree ==
    \A h \in sent, e \in log :
        h.name = "edge" =>
            (h.who = e.fingerprint
                <=> e.solver = request.solver /\ e.occurredAt \div Day = h.stamp \div Day)
=============================================================================
