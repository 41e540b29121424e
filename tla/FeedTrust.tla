---------------------------- MODULE FeedTrust ----------------------------
(***************************************************************************)
(* getRoutes of the six SDKs (sdks/) and of the reference verifier         *)
(* (src/feed-verification.mjs with examples/direct-feed-to-permit.mjs): a  *)
(* client reads the discovery document, then the signed feed, verifies the *)
(* feed and hands its routes to the solver.  Meanwhile the publisher       *)
(* republishes the feed and changes its signing key, time passes, and      *)
(* requests fail or bring a body that is not what was signed.              *)
(*                                                                         *)
(* A route stands for its source chain.  Hash and signature are abstracted *)
(* to who signed a body and whether it is still what was signed; a feed is *)
(* as old as the ticks since generatedAt, its validUntil is Validity ticks *)
(* after that, and a client's clock is off by its skew.  The publisher and *)
(* HTTP are external.                                                      *)
(***************************************************************************)
EXTENDS Integers

CONSTANTS
  Signers,       \* addresses that may sign feeds
  Chains,        \* source chains, each standing for its route
  Clients,       \* [sdk, pin, skew] of the clients looked at
  Validity,      \* ticks from generatedAt to validUntil
  MaxSkew,       \* bound on how far a client's clock is off
  Patience,      \* bound on the ticks one call takes
  PublishWithin, \* age at which the publisher has replaced a feed
  MaxRotations,  \* bound on key changes
  MaxFaults,     \* bound on failed requests and altered bodies
  None,          \* no address, no query
  Malformed      \* an expectedFeedSigner that is not an address

Sdks == {"typescript", "python", "rust", "go", "jvm", "dotnet", "reference"}

ASSUME BoundsAssumption ==
  /\ Validity \in Nat \ {0} /\ MaxSkew \in Nat /\ Patience \in Nat
  /\ PublishWithin \in Nat /\ MaxRotations \in Nat /\ MaxFaults \in Nat
ASSUME ValuesAssumption ==
  /\ None \notin Signers \cup Chains
  /\ Malformed \notin Signers \cup {None}
ASSUME ClientsAssumption ==
  /\ Clients \subseteq
       [sdk : Sdks, pin : Signers \cup {None, Malformed}, skew : -MaxSkew .. MaxSkew]
  /\ \A c \in Clients : c.sdk = "reference" => c.pin = None

\* Every age from Ancient on is expired for every clock.
Ancient == Validity + MaxSkew
Ages == 0 .. Ancient
Feeds == [by : Signers, age : Ages, routes : SUBSET Chains]

\* A response body: the declared signer, the signed routes and the filtered
\* top-level view of them, and whether it is what was signed; `signed' is
\* what that signer did sign.
Bodies == [by : Signers, age : Ages, routes : SUBSET Chains, view : SUBSET Chains,
           signed : SUBSET Chains, shape : {"whole", "altered", "foreign"}]

Codes == {"none", "OK", "HTTP_ERROR", "DISCOVERY_INVALID", "FEED_INVALID",
          "FEED_HASH_MISMATCH", "FEED_EXPIRED", "FEED_SIGNER_MISMATCH", "NOT_VALID"}

VARIABLES
  client,    \* the client and its configuration
  key,       \* the publisher's signing key (env)
  announced, \* feedSigner of the discovery document (env)
  feed,      \* the feed the solver API serves (env)
  pc,        \* progress of the call of getRoutes
  query,     \* sourceChainId of the call
  disco,     \* discovery.feedSigner as the call read it
  held,      \* the feed body the call received
  code,      \* outcome of the call
  routes,    \* routes the call returned
  named,     \* history: signers announced since the call began
  waited,    \* ticks since the call began
  rotations, \* key changes so far (bounded)
  faults     \* failures so far (bounded)

publisher == <<key, announced, feed, rotations>>
call == <<pc, query, disco, held, code, routes>>
vars == <<client, publisher, call, named, waited, faults>>

TypeOK ==
  /\ client \in Clients
  /\ key \in Signers
  /\ announced \in Signers
  /\ feed \in Feeds
  /\ pc \in {"idle", "discovering", "reading", "verifying"}
  /\ query \in Chains \cup {None}
  /\ disco \in Signers \cup {None}
  /\ held \in Bodies \cup {None}
  /\ code \in Codes
  /\ routes \in SUBSET Chains
  /\ named \in SUBSET Signers
  /\ waited \in 0 .. Patience
  /\ rotations \in 0 .. MaxRotations
  /\ faults \in 0 .. MaxFaults

Init ==
  /\ client \in Clients
  /\ key \in Signers
  /\ announced = key
  /\ feed = [by |-> key, age |-> 0, routes |-> Chains]
  /\ pc = "idle" /\ query = None /\ disco = None /\ held = None
  /\ code = "none" /\ routes = {}
  /\ named = {} /\ waited = 0 /\ rotations = 0 /\ faults = 0

-----------------------------------------------------------------------------
(* The publisher and time.                                                 *)

\* A new feed, signed with the current key.
Publish ==
  /\ \E r \in SUBSET Chains : feed' = [by |-> key, age |-> 0, routes |-> r]
  /\ UNCHANGED <<client, key, announced, rotations, call, named, waited, faults>>

\* The publisher changes its key; feed and discovery document still name the old one.
Rotate ==
  /\ rotations < MaxRotations
  /\ \E s \in Signers \ {key} : key' = s
  /\ rotations' = rotations + 1
  /\ UNCHANGED <<client, announced, feed, call, named, waited, faults>>

\* The discovery document is brought up to date.
Announce ==
  /\ announced # key
  /\ announced' = key
  /\ named' = IF pc = "idle" THEN named ELSE named \cup {key}
  /\ UNCHANGED <<client, key, feed, rotations, call, waited, faults>>

Older(age) == IF age < Ancient THEN age + 1 ELSE age

\* A second passes.  The body of a finished call keeps the age it was judged at.
Tick ==
  /\ feed.age < PublishWithin
  /\ pc # "idle" => waited < Patience
  /\ feed' = [feed EXCEPT !.age = Older(@)]
  /\ waited' = IF pc = "idle" THEN waited ELSE waited + 1
  /\ held' = IF pc = "verifying" THEN [held EXCEPT !.age = Older(@)] ELSE held
  /\ UNCHANGED <<client, key, announced, rotations, pc, query, disco, code, routes, named, faults>>

-----------------------------------------------------------------------------
(* What the clients make of a body.                                        *)

Recovered(b) == IF b.shape = "whole" THEN b.by ELSE None
\* Mutant: a feed is still accepted at validUntil.
ExpiredLate(b) == b.age + client.skew > Validity
Expired(b) == b.age + client.skew >= Validity
Early(b) == b.age + client.skew < 0

\* The signer asked for: the pinned one, or the one discovery names.
Asked == IF client.pin # None THEN client.pin ELSE disco

Valid(b, expected) ==
  /\ b.shape = "whole"
  /\ Recovered(b) = b.by
  /\ b.by = expected
  /\ ~Early(b)
  /\ ~Expired(b)

\* Mutant: the window hides an altered payload.
WindowThenHash(b) ==
  IF Expired(b) THEN "FEED_EXPIRED"
  ELSE IF b.shape # "whole" THEN "FEED_SIGNER_MISMATCH" ELSE "FEED_HASH_MISMATCH"

\* The refusal of most SDKs: the hash first, then the window.
HashThenWindow(b) ==
  IF b.shape # "whole" THEN "FEED_HASH_MISMATCH"
  ELSE IF Expired(b) THEN "FEED_EXPIRED" ELSE "FEED_SIGNER_MISMATCH"

Judge(b, expected, refusal) ==
  IF b.shape = "foreign" THEN "FEED_INVALID"
  ELSE IF Valid(b, expected) THEN "OK" ELSE refusal

TypeScriptVerify(b) == Judge(b, Asked, HashThenWindow(b))
PythonVerify(b) == Judge(b, Asked, HashThenWindow(b))
JvmVerify(b) == Judge(b, Asked, HashThenWindow(b))
DotnetVerify(b) == Judge(b, Asked, HashThenWindow(b))

\* Rust enforces the verification in getRoutes, with one code.
RustVerify(b) == Judge(b, Asked, "FEED_SIGNER_MISMATCH")

\* Go falls back to the declared signer and lets the window override the hash.
GoVerify(b) ==
  Judge(b, IF Asked \in Signers THEN Asked ELSE b.by,
        IF Expired(b) THEN "FEED_EXPIRED" ELSE HashThenWindow(b))

\* The reference verifier takes the signer from discovery and has one error.
ReferenceVerify(b) == Judge(b, disco, "NOT_VALID")

Verdict(b) ==
  CASE client.sdk = "typescript" -> TypeScriptVerify(b)
    [] client.sdk = "python" -> PythonVerify(b)
    [] client.sdk = "rust" -> RustVerify(b)
    [] client.sdk = "go" -> GoVerify(b)
    [] client.sdk = "jvm" -> JvmVerify(b)
    [] client.sdk = "dotnet" -> DotnetVerify(b)
    [] OTHER -> ReferenceVerify(b)

\* Which routes a verified body yields.
TypeScriptRoutes(b) == b.view
\* Mutant: the signed payload before the view.
PythonPayloadRoutes(b) == b.routes
PythonRoutes(b) == IF b.view # {} THEN b.view ELSE b.routes
RustRoutes(b) == b.view
GoRoutes(b) == b.routes
JvmRoutes(b) == b.routes
DotnetRoutes(b) == b.routes
ReferenceRoutes(b) == b.routes

Yield(b) ==
  CASE client.sdk = "typescript" -> TypeScriptRoutes(b)
    [] client.sdk = "python" -> PythonRoutes(b)
    [] client.sdk = "rust" -> RustRoutes(b)
    [] client.sdk = "go" -> GoRoutes(b)
    [] client.sdk = "jvm" -> JvmRoutes(b)
    [] client.sdk = "dotnet" -> DotnetRoutes(b)
    [] OTHER -> ReferenceRoutes(b)

-----------------------------------------------------------------------------
(* A call of getRoutes.                                                    *)

\* Mutant: the discovery document is kept from call to call.
CallCached ==
  /\ pc = "idle"
  /\ \E q \in Chains \cup {None} : (client.sdk = "reference" => q = None) /\ query' = q
  /\ pc' = IF disco = None THEN "discovering" ELSE "reading"
  /\ held' = None /\ code' = "none" /\ routes' = {}
  /\ named' = {announced}
  /\ UNCHANGED <<client, publisher, disco, waited, faults>>

\* The solver calls; nothing is kept from the call before.
Call ==
  /\ pc = "idle"
  /\ \E q \in Chains \cup {None} : (client.sdk = "reference" => q = None) /\ query' = q
  /\ pc' = "discovering"
  /\ disco' = None /\ held' = None /\ code' = "none" /\ routes' = {}
  /\ named' = {announced}
  /\ UNCHANGED <<client, publisher, waited, faults>>

\* Mutant: the pin, whatever it is, replaces the signer of discovery.
DiscoverPinned ==
  /\ pc = "discovering"
  /\ disco' = IF client.pin # None THEN client.pin ELSE announced
  /\ pc' = "reading"
  /\ UNCHANGED <<client, publisher, query, held, code, routes, named, waited, faults>>

\* discover() has its document.
Discover ==
  /\ pc = "discovering"
  /\ disco' = announced
  /\ pc' = "reading"
  /\ UNCHANGED <<client, publisher, query, held, code, routes, named, waited, faults>>

\* The API answers with the feed and the view of it the query asks for.
Answer(shape, r, signed) ==
  held' = [by |-> feed.by, age |-> feed.age, routes |-> r, signed |-> signed,
           view |-> IF query = None THEN r ELSE r \cap {query}, shape |-> shape]

\* The feed's body arrives as it was served.
ReadFeed ==
  /\ pc = "reading"
  /\ Answer("whole", feed.routes, feed.routes)
  /\ pc' = "verifying"
  /\ UNCHANGED <<client, publisher, query, disco, code, routes, named, waited, faults>>

\* Something between the publisher and the client changed the routes, or
\* answered with another document.
ReadAltered ==
  /\ pc = "reading"
  /\ faults < MaxFaults
  /\ \/ \E r \in SUBSET Chains \ {feed.routes} : Answer("altered", r, feed.routes)
     \/ Answer("foreign", {}, feed.routes)
  /\ pc' = "verifying"
  /\ faults' = faults + 1
  /\ UNCHANGED <<client, publisher, query, disco, code, routes, named, waited>>

\* A request fails, or the discovery document is not one to use.
Fail ==
  /\ pc \in {"discovering", "reading"}
  /\ faults < MaxFaults
  /\ \E c \in {"HTTP_ERROR", "DISCOVERY_INVALID"} :
       /\ c = "DISCOVERY_INVALID" => pc = "discovering"
       /\ code' = c
  /\ pc' = "idle" /\ waited' = 0
  /\ faults' = faults + 1
  /\ UNCHANGED <<client, publisher, query, disco, held, routes, named>>

\* Mutant: verifyFeed is called without `required', and its result not looked at.
VerifyUnrequired ==
  /\ pc = "verifying"
  /\ code' = IF held.shape = "foreign" THEN "FEED_INVALID" ELSE "OK"
  /\ routes' = IF held.shape = "foreign" THEN {} ELSE Yield(held)
  /\ pc' = "idle" /\ waited' = 0
  /\ UNCHANGED <<client, publisher, query, disco, held, named, faults>>

\* verifyFeed and what getRoutes makes of its result.
Verify ==
  /\ pc = "verifying"
  /\ code' = Verdict(held)
  /\ routes' = IF Verdict(held) = "OK" THEN Yield(held) ELSE {}
  /\ pc' = "idle" /\ waited' = 0
  /\ UNCHANGED <<client, publisher, query, disco, held, named, faults>>

Next ==
  \/ Publish \/ Rotate \/ Announce \/ Tick
  \/ Call \/ Discover \/ ReadFeed \/ ReadAltered \/ Fail \/ Verify

\* The publisher catches up with its key and keeps publishing, and a solver
\* keeps calling.  Faults and key changes are not fair: they may stop.
Fairness ==
  /\ WF_vars(Announce) /\ WF_vars(Publish)
  /\ WF_vars(Call) /\ WF_vars(Discover) /\ WF_vars(ReadFeed) /\ WF_vars(Verify)

Spec == Init /\ [][Next]_vars
FairSpec == Spec /\ Fairness

-----------------------------------------------------------------------------
(* Properties.                                                             *)

Accepted == pc = "idle" /\ code = "OK"

\* An accepted feed is signed by the pinned signer or, without a pin, by a
\* signer that discovery announced while the call was under way: a key that
\* was replaced before a call began buys nothing in it.  The exception is Go with
\* a pin that is no address: it expects whatever signer the feed declares.
TakesAnySigner(c) == c.sdk = "go" /\ c.pin = Malformed
SignerOfTheCall ==
  Accepted /\ ~TakesAnySigner(client) =>
    IF client.pin = None THEN held.by \in named ELSE held.by = client.pin

\* The routes a call returns were signed, whatever the query and whatever
\* happened to the body on its way.
RoutesWereSigned ==
  Accepted => routes \subseteq held.signed

\* Judged when the answer is in, not when the call began: an accepted feed
\* was generated less than Validity ticks ago on the client's clock.
AcceptedIsRecent ==
  Accepted => held.age < Validity - client.skew

\* The error of a refused feed names its cause as the contract's table of
\* errors does, with the exceptions the SDKs have: a feed from ahead of the
\* client's clock is refused as wrongly signed, Rust's getRoutes has that code
\* for every reason, and Go lets the window hide an altered payload.
ErrorNamesCause ==
  /\ code = "FEED_HASH_MISMATCH" => held.shape = "altered" /\ ~(client.sdk = "go" /\ Expired(held))
  /\ code = "FEED_EXPIRED" => Expired(held) /\ (held.shape = "whole" \/ client.sdk = "go")
  /\ code = "FEED_SIGNER_MISMATCH" =>
       \/ client.sdk = "rust"
       \/ held.shape = "whole" /\ ~Expired(held) /\ (held.by # Asked \/ Early(held))

\* A call that names a source chain gets the routes that start on it, none other,
\* with two exceptions: Go, the JVM, .NET and the reference verifier hand out the
\* signed payload unfiltered, and Python does when no signed route matches.
AnswerFollowsQuery ==
  Accepted /\ query # None =>
    \/ routes = held.signed \cap {query}
    \/ routes = held.signed /\ client.sdk \in {"go", "jvm", "dotnet", "reference"}
    \/ routes = held.signed /\ query \notin routes /\ client.sdk = "python"

\* Across a key change, a solver that keeps calling keeps getting routes.
KeepsGettingRoutes == []<>(code = "OK")
=============================================================================
