------------------------ MODULE FeedTrust_proofs ------------------------
(***************************************************************************)
(* Proofs about FeedTrust for any signers, routes, clocks and bounds.  The *)
(* invariant says what a call under way has in hand (InHand): the signer   *)
(* discovery named was announced during the call, no outcome is there yet, *)
(* and a body that is whole carries the routes that were signed, its view  *)
(* being a part of them.                                                   *)
(***************************************************************************)
EXTENDS FeedTrust, TLAPS

InHand ==
  /\ pc # "idle" => announced \in named /\ code = "none"
  /\ pc \in {"reading", "verifying"} => disco \in named
  /\ pc = "verifying" =>
       /\ held \in Bodies
       /\ held.view = IF query = None THEN held.routes ELSE held.routes \cap {query}
       /\ held.shape = "whole" => held.routes = held.signed

IInv ==
  /\ TypeOK
  /\ InHand
  /\ SignerOfTheCall
  /\ RoutesWereSigned
  /\ AnswerFollowsQuery
  /\ AcceptedIsRecent
  /\ ErrorNamesCause

-----------------------------------------------------------------------------
\* Ageing stays within the ages, and never makes younger.
LEMMA OlderIsAge ==
  ASSUME NEW a \in Ages
  PROVE  Older(a) \in Ages
BY BoundsAssumption DEF Ages, Ancient, Older

\* Every verdict is one of the codes.
LEMMA VerdictIsCode ==
  ASSUME NEW b
  PROVE  Verdict(b) \in Codes
<1>1. \A e, r : r \in Codes => Judge(b, e, r) \in Codes
  BY DEF Judge, Codes
<1>2. HashThenWindow(b) \in Codes
  BY DEF HashThenWindow, Codes
<1>3. {"FEED_SIGNER_MISMATCH", "FEED_EXPIRED", "NOT_VALID"} \subseteq Codes
  BY DEF Codes
<1>4. GoVerify(b) \in Codes
  BY <1>1, <1>2, <1>3 DEF GoVerify
<1>5. /\ TypeScriptVerify(b) \in Codes /\ PythonVerify(b) \in Codes
      /\ JvmVerify(b) \in Codes /\ DotnetVerify(b) \in Codes
      /\ RustVerify(b) \in Codes /\ ReferenceVerify(b) \in Codes
  BY <1>1, <1>2, <1>3
  DEF TypeScriptVerify, PythonVerify, JvmVerify, DotnetVerify, RustVerify, ReferenceVerify
<1>6. QED
  BY <1>4, <1>5 DEF Verdict

\* What acceptance means for every implementation: the body is whole and in
\* its window, and its signer is the one asked for, or, in Go with a pin that
\* is no address, whatever signer the body declares.
LEMMA AcceptanceMeans ==
  ASSUME NEW b, Verdict(b) = "OK", client \in Clients
  PROVE  /\ b.shape = "whole" /\ ~Expired(b) /\ ~Early(b)
         /\ b.by = Asked \/ (client.sdk = "go" /\ Asked \notin Signers)
<1>1. \A e, r : r # "OK" /\ Judge(b, e, r) = "OK" => Valid(b, e)
  BY DEF Judge
<1>2. HashThenWindow(b) # "OK"
  BY DEF HashThenWindow
<1>3. \A e : Valid(b, e) => b.shape = "whole" /\ ~Expired(b) /\ ~Early(b) /\ b.by = e
  BY DEF Valid
<1>4. CASE client.sdk = "go"
  <2>1. GoVerify(b) = "OK"
    BY <1>4 DEF Verdict
  <2>2. Valid(b, IF Asked \in Signers THEN Asked ELSE b.by)
    BY <2>1, <1>1, <1>2 DEF GoVerify
  <2>3. QED
    BY <2>2, <1>3, <1>4
<1>5. CASE client.sdk = "reference"
  <2>1. Asked = disco
    BY <1>5, ClientsAssumption DEF Asked
  <2>2. ReferenceVerify(b) = "OK"
    BY <1>5 DEF Verdict
  <2>3. Valid(b, disco)
    BY <2>2, <1>1 DEF ReferenceVerify
  <2>4. QED
    BY <2>1, <2>3, <1>3
<1>6. CASE client.sdk \in {"typescript", "python", "rust", "jvm", "dotnet"}
  <2>1. Valid(b, Asked)
    BY <1>6, <1>1, <1>2
    DEF Verdict, TypeScriptVerify, PythonVerify, JvmVerify, DotnetVerify, RustVerify
  <2>2. QED
    BY <2>1, <1>3
<1>7. client.sdk \in Sdks
  BY ClientsAssumption
<1>8. QED
  BY <1>4, <1>5, <1>6, <1>7 DEF Sdks

\* What each implementation's refusal says of the body.
LEMMA RefusalMeans ==
  ASSUME NEW b, b.shape \in {"whole", "altered", "foreign"}, client.sdk \in Sdks
  PROVE  /\ Verdict(b) = "FEED_HASH_MISMATCH" =>
              b.shape = "altered" /\ ~(client.sdk = "go" /\ Expired(b))
         /\ Verdict(b) = "FEED_EXPIRED" =>
              Expired(b) /\ (b.shape = "whole" \/ client.sdk = "go")
         /\ Verdict(b) = "FEED_SIGNER_MISMATCH" =>
              \/ client.sdk = "rust"
              \/ b.shape = "whole" /\ ~Expired(b) /\ (b.by # Asked \/ Early(b))
<1> DEFINE Named(c) == c \in {"FEED_HASH_MISMATCH", "FEED_EXPIRED", "FEED_SIGNER_MISMATCH"}
<1>1. \A e, r : Named(Judge(b, e, r)) =>
        Judge(b, e, r) = r /\ b.shape # "foreign" /\ ~Valid(b, e)
  BY DEF Judge
<1>2. \A e : ~Valid(b, e) /\ b.shape = "whole" /\ ~Expired(b) => b.by # e \/ Early(b)
  BY DEF Valid, Recovered
<1>3. /\ HashThenWindow(b) = "FEED_HASH_MISMATCH" => b.shape # "whole"
      /\ HashThenWindow(b) = "FEED_EXPIRED" => b.shape = "whole" /\ Expired(b)
      /\ HashThenWindow(b) = "FEED_SIGNER_MISMATCH" => b.shape = "whole" /\ ~Expired(b)
  BY DEF HashThenWindow
<1>4. CASE client.sdk = "go"
  <2> DEFINE e == IF Asked \in Signers THEN Asked ELSE b.by
             r == IF Expired(b) THEN "FEED_EXPIRED" ELSE HashThenWindow(b)
  <2>1. Verdict(b) = Judge(b, e, r)
    BY <1>4 DEF Verdict, GoVerify
  <2>2. Named(Verdict(b)) => Verdict(b) = r /\ b.shape # "foreign" /\ ~Valid(b, e)
    BY <1>1, <2>1
  <2>3. Expired(b) => r = "FEED_EXPIRED"
    OBVIOUS
  <2>4. ~Expired(b) => r = HashThenWindow(b)
    OBVIOUS
  <2>5. ~Valid(b, e) /\ b.shape = "whole" /\ ~Expired(b) => b.by # Asked \/ Early(b)
    BY <1>2
  <2> HIDE DEF e, r
  <2>6. QED
    BY <1>3, <1>4, <2>2, <2>3, <2>4, <2>5
<1>5. CASE client.sdk = "reference"
  <2>1. Verdict(b) = Judge(b, disco, "NOT_VALID")
    BY <1>5 DEF Verdict, ReferenceVerify
  <2>2. ~Named(Verdict(b))
    BY <1>1, <2>1
  <2>3. QED
    BY <2>2
<1>6. CASE client.sdk = "rust"
  <2>1. Verdict(b) = Judge(b, Asked, "FEED_SIGNER_MISMATCH")
    BY <1>6 DEF Verdict, RustVerify
  <2>2. Named(Verdict(b)) => Verdict(b) = "FEED_SIGNER_MISMATCH"
    BY <1>1, <2>1
  <2>3. QED
    BY <1>6, <2>2
<1>7. CASE client.sdk \in {"typescript", "python", "jvm", "dotnet"}
  <2>1. Verdict(b) = Judge(b, Asked, HashThenWindow(b))
    BY <1>7 DEF Verdict, TypeScriptVerify, PythonVerify, JvmVerify, DotnetVerify
  <2>2. Named(Verdict(b)) =>
          Verdict(b) = HashThenWindow(b) /\ b.shape # "foreign" /\ ~Valid(b, Asked)
    BY <1>1, <2>1
  <2>3. QED
    BY <1>2, <1>3, <1>7, <2>2
<1>8. QED
  BY <1>4, <1>5, <1>6, <1>7 DEF Sdks

\* Whatever an implementation hands out is part of the payload's routes.
LEMMA YieldIsSigned ==
  ASSUME NEW b, b.view \subseteq b.routes
  PROVE  Yield(b) \subseteq b.routes
BY DEF Yield, TypeScriptRoutes, PythonRoutes, RustRoutes, GoRoutes, JvmRoutes,
       DotnetRoutes, ReferenceRoutes

\* A body is a record of its parts.
LEMMA BodyParts ==
  ASSUME NEW b \in Bodies
  PROVE  /\ b.by \in Signers /\ b.age \in Ages /\ b.routes \in SUBSET Chains
         /\ b.view \in SUBSET Chains /\ b.signed \in SUBSET Chains
         /\ [b EXCEPT !.age = Older(@)] \in Bodies
BY OlderIsAge DEF Bodies

\* While no outcome is there, none is wrong; one that is there stays right.
LEMMA NothingNamed ==
  ASSUME code' \in {"none", "OK", "HTTP_ERROR", "DISCOVERY_INVALID"}
  PROVE  ErrorNamesCause'
BY DEF ErrorNamesCause

LEMMA SameNamed ==
  ASSUME ErrorNamesCause, UNCHANGED <<client, disco, held, code>>
  PROVE  ErrorNamesCause'
<1>1. Asked' = Asked /\ (Expired(held))' = Expired(held) /\ (Early(held))' = Early(held)
  BY DEF Asked, Expired, Early
<1>2. QED
  BY <1>1 DEF ErrorNamesCause

-----------------------------------------------------------------------------
(* The invariant.                                                          *)

LEMMA InitIInv == Init => IInv
<1> SUFFICES ASSUME Init PROVE IInv
  OBVIOUS
<1> USE DEF Init
<1>1. TypeOK
  <2>1. feed \in Feeds /\ 0 \in 0 .. Patience /\ 0 \in 0 .. MaxRotations /\ 0 \in 0 .. MaxFaults
    BY BoundsAssumption DEF Feeds, Ages, Ancient
  <2>2. QED
    BY <2>1 DEF TypeOK, Codes
<1>2. QED
  BY <1>1
  DEF IInv, InHand, SignerOfTheCall, RoutesWereSigned, AnswerFollowsQuery, AcceptedIsRecent, Accepted, ErrorNamesCause

\* The publisher's steps leave a call as it is; only more signers are named.
LEMMA PublisherStep ==
  ASSUME IInv, UNCHANGED <<client, call, waited, faults>>,
         key' \in Signers, announced' \in Signers, feed' \in Feeds,
         rotations' \in 0 .. MaxRotations,
         named' \in SUBSET Signers, named \subseteq named',
         pc # "idle" => announced' \in named'
  PROVE  IInv'
<1> USE DEF call
<1>1. TypeOK'
  BY DEF IInv, TypeOK
<1>2. InHand'
  BY DEF IInv, InHand
<1>3. SignerOfTheCall' /\ RoutesWereSigned' /\ AnswerFollowsQuery' /\ AcceptedIsRecent'
  BY DEF IInv, SignerOfTheCall, RoutesWereSigned, AnswerFollowsQuery, AcceptedIsRecent, Accepted
<1>4. ErrorNamesCause'
  BY SameNamed DEF IInv
<1>5. QED
  BY <1>1, <1>2, <1>3, <1>4 DEF IInv

LEMMA PublishStep == IInv /\ Publish => IInv'
<1> SUFFICES ASSUME IInv, Publish PROVE IInv'
  OBVIOUS
<1>1. feed' \in Feeds
  BY BoundsAssumption DEF IInv, TypeOK, Publish, Feeds, Ages, Ancient
<1>2. QED
  BY <1>1, PublisherStep DEF Publish, IInv, TypeOK, InHand, call

LEMMA RotateStep == IInv /\ Rotate => IInv'
<1> SUFFICES ASSUME IInv, Rotate PROVE IInv'
  OBVIOUS
<1>1. rotations' \in 0 .. MaxRotations
  BY BoundsAssumption DEF IInv, TypeOK, Rotate
<1>2. QED
  BY <1>1, PublisherStep DEF Rotate, IInv, TypeOK, InHand, call

LEMMA AnnounceStep == IInv /\ Announce => IInv'
<1> SUFFICES ASSUME IInv, Announce PROVE IInv'
  OBVIOUS
<1>1. /\ named' \in SUBSET Signers /\ named \subseteq named'
      /\ pc # "idle" => announced' \in named'
  BY DEF IInv, TypeOK, Announce
<1>2. QED
  BY <1>1, PublisherStep DEF Announce, IInv, TypeOK, call

LEMMA TickStep == IInv /\ Tick => IInv'
<1> SUFFICES ASSUME IInv, Tick PROVE IInv'
  OBVIOUS
<1>1. feed' \in Feeds
  <2>1. feed \in Feeds /\ feed.age \in Ages
    BY DEF IInv, TypeOK, Feeds
  <2>2. Older(feed.age) \in Ages
    BY <2>1, OlderIsAge
  <2>3. QED
    BY <2>1, <2>2 DEF Tick, Feeds
<1>2. waited' \in 0 .. Patience
  BY BoundsAssumption DEF IInv, TypeOK, Tick
<1>3. CASE pc = "verifying"
  <2>1. /\ held' \in Bodies
        /\ held'.view = held.view /\ held'.routes = held.routes
        /\ held'.signed = held.signed /\ held'.shape = held.shape
    <3>1. held \in Bodies /\ held' = [held EXCEPT !.age = Older(@)]
      BY <1>3 DEF IInv, InHand, Tick
    <3>2. [held EXCEPT !.age = Older(@)] \in Bodies
      BY <3>1, BodyParts
    <3>3. QED
      BY <3>1, <3>2 DEF Bodies
  <2>2. TypeOK'
    BY <1>1, <1>2, <2>1 DEF IInv, TypeOK, Tick
  <2>3. InHand'
    BY <1>3, <2>1 DEF IInv, InHand, Tick
  <2>4. ErrorNamesCause'
    BY <1>3, NothingNamed DEF IInv, InHand, Tick
  <2>5. QED
    BY <1>3, <2>2, <2>3, <2>4
    DEF Tick, IInv, SignerOfTheCall, RoutesWereSigned, AnswerFollowsQuery, AcceptedIsRecent, Accepted
<1>4. CASE pc # "verifying"
  <2>1. held' = held
    BY <1>4 DEF Tick
  <2>2. TypeOK'
    BY <1>1, <1>2, <2>1 DEF IInv, TypeOK, Tick
  <2>3. InHand'
    BY <1>4, <2>1 DEF IInv, InHand, Tick
  <2>4. SignerOfTheCall' /\ RoutesWereSigned' /\ AnswerFollowsQuery' /\ AcceptedIsRecent'
    BY <2>1 DEF Tick, IInv, SignerOfTheCall, RoutesWereSigned, AnswerFollowsQuery, AcceptedIsRecent, Accepted
  <2>5. ErrorNamesCause'
    BY <2>1, SameNamed DEF IInv, Tick
  <2>6. QED
    BY <2>2, <2>3, <2>4, <2>5 DEF IInv
<1>5. QED
  BY <1>3, <1>4

LEMMA CallStep == IInv /\ Call => IInv'
<1> SUFFICES ASSUME IInv, Call PROVE IInv'
  OBVIOUS
<1>1. TypeOK'
  BY DEF IInv, TypeOK, Call, publisher, Codes
<1>2. InHand'
  BY DEF IInv, InHand, Call, publisher
<1>3. ErrorNamesCause'
  BY NothingNamed DEF Call
<1>4. QED
  BY <1>1, <1>2, <1>3 DEF Call, IInv, SignerOfTheCall, RoutesWereSigned, AnswerFollowsQuery, AcceptedIsRecent, Accepted

LEMMA DiscoverStep == IInv /\ Discover => IInv'
<1> SUFFICES ASSUME IInv, Discover PROVE IInv'
  OBVIOUS
<1>1. TypeOK'
  BY DEF IInv, TypeOK, Discover, publisher
<1>2. InHand'
  BY DEF IInv, InHand, Discover, publisher
<1>3. ErrorNamesCause'
  BY NothingNamed DEF IInv, InHand, Discover
<1>4. QED
  BY <1>1, <1>2, <1>3 DEF Discover, IInv, SignerOfTheCall, RoutesWereSigned, AnswerFollowsQuery, AcceptedIsRecent, Accepted

\* Both ways a body arrives: whole, or altered.
LEMMA BodyArrives ==
  ASSUME IInv, pc = "reading", pc' = "verifying", NEW r \in SUBSET Chains,
         NEW s \in {"whole", "altered", "foreign"},
         s = "whole" => r = feed.routes, Answer(s, r, feed.routes),
         UNCHANGED <<client, publisher, query, disco, code, routes, named, waited>>,
         faults' \in 0 .. MaxFaults
  PROVE  IInv'
<1>1. /\ held' \in Bodies
      /\ held'.view = IF query' = None THEN held'.routes ELSE held'.routes \cap {query'}
      /\ held'.shape = "whole" => held'.routes = held'.signed
  <2>1. feed.by \in Signers /\ feed.age \in Ages /\ feed.routes \in SUBSET Chains
    BY DEF IInv, TypeOK, Feeds
  <2>2. QED
    BY <2>1 DEF Answer, Bodies
<1>2. TypeOK'
  BY <1>1 DEF IInv, TypeOK, publisher
<1>3. InHand'
  BY <1>1 DEF IInv, InHand, publisher
<1>4. ErrorNamesCause'
  BY NothingNamed DEF IInv, InHand
<1>5. QED
  BY <1>2, <1>3, <1>4 DEF IInv, SignerOfTheCall, RoutesWereSigned, AnswerFollowsQuery, AcceptedIsRecent, Accepted

LEMMA ReadFeedStep == IInv /\ ReadFeed => IInv'
<1> SUFFICES ASSUME IInv, ReadFeed PROVE IInv'
  OBVIOUS
<1>1. feed.routes \in SUBSET Chains /\ faults' \in 0 .. MaxFaults
  BY DEF IInv, TypeOK, Feeds, ReadFeed
<1>2. QED
  BY <1>1, BodyArrives DEF ReadFeed

LEMMA ReadAlteredStep == IInv /\ ReadAltered => IInv'
<1> SUFFICES ASSUME IInv, ReadAltered PROVE IInv'
  OBVIOUS
<1>1. faults' \in 0 .. MaxFaults
  BY BoundsAssumption DEF IInv, TypeOK, ReadAltered
<1>2. CASE Answer("foreign", {}, feed.routes)
  BY <1>1, <1>2, BodyArrives DEF ReadAltered
<1>3. CASE \E r \in SUBSET Chains \ {feed.routes} : Answer("altered", r, feed.routes)
  BY <1>1, <1>3, BodyArrives DEF ReadAltered
<1>4. QED
  BY <1>2, <1>3 DEF ReadAltered

LEMMA FailStep == IInv /\ Fail => IInv'
<1> SUFFICES ASSUME IInv, Fail PROVE IInv'
  OBVIOUS
<1>1. faults' \in 0 .. MaxFaults /\ waited' \in 0 .. Patience
  BY BoundsAssumption DEF IInv, TypeOK, Fail
<1>2. code' \in Codes /\ code' # "OK"
  BY DEF Fail, Codes
<1>3. TypeOK'
  BY <1>1, <1>2 DEF IInv, TypeOK, Fail, publisher
<1>4. InHand'
  BY DEF IInv, InHand, Fail
<1>5. ErrorNamesCause'
  BY NothingNamed DEF Fail
<1>6. QED
  BY <1>2, <1>3, <1>4, <1>5
  DEF Fail, IInv, SignerOfTheCall, RoutesWereSigned, AnswerFollowsQuery, AcceptedIsRecent, Accepted

LEMMA VerifyStep == IInv /\ Verify => IInv'
<1> SUFFICES ASSUME IInv, Verify PROVE IInv'
  OBVIOUS
<1>1. /\ held \in Bodies /\ held.view \subseteq held.routes
      /\ held.view = IF query = None THEN held.routes ELSE held.routes \cap {query}
      /\ held.shape = "whole" => held.routes = held.signed
      /\ disco \in named /\ disco \in Signers /\ client \in Clients
  BY ValuesAssumption DEF IInv, InHand, TypeOK, Verify
<1>2. Yield(held) \subseteq held.routes /\ held.routes \in SUBSET Chains
  BY <1>1, YieldIsSigned, BodyParts
<1>3. TypeOK'
  <2>1. code' \in Codes
    BY VerdictIsCode DEF Verify
  <2>2. routes' \in SUBSET Chains
    BY <1>2 DEF Verify
  <2>3. waited' \in 0 .. Patience
    BY BoundsAssumption DEF Verify
  <2>4. QED
    BY <2>1, <2>2, <2>3 DEF IInv, TypeOK, Verify, publisher
<1>4. InHand'
  BY DEF Verify, InHand
<1>5. ErrorNamesCause'
  <2>1. /\ held' = held /\ client' = client /\ code' = Verdict(held)
        /\ Asked' = Asked /\ (Expired(held))' = Expired(held) /\ (Early(held))' = Early(held)
    BY DEF Verify, Asked, Expired, Early
  <2>2. held.shape \in {"whole", "altered", "foreign"} /\ client.sdk \in Sdks
    BY <1>1, ClientsAssumption DEF Bodies
  <2>3. QED
    BY <2>1, <2>2, RefusalMeans DEF ErrorNamesCause
<1>6. CASE Verdict(held) # "OK"
  BY <1>3, <1>4, <1>5, <1>6
  DEF Verify, IInv, SignerOfTheCall, RoutesWereSigned, AnswerFollowsQuery, AcceptedIsRecent, Accepted
<1>7. CASE Verdict(held) = "OK"
  <2>1. /\ held.shape = "whole" /\ ~Expired(held)
        /\ held.by = Asked \/ (client.sdk = "go" /\ Asked \notin Signers)
    BY <1>1, <1>7, AcceptanceMeans
  <2>2. client.pin \in Signers \cup {None, Malformed} /\ client.skew \in Int
    BY <1>1, ClientsAssumption
  <2>3. ~TakesAnySigner(client) => held.by = Asked
    BY <1>1, <2>1, <2>2 DEF Asked, TakesAnySigner
  <2>4. SignerOfTheCall'
    BY <1>1, <2>3 DEF Asked, Verify, SignerOfTheCall, TakesAnySigner
  <2>q. AnswerFollowsQuery'
    <3>1. held.routes = held.signed /\ client.sdk \in Sdks
      BY <1>1, <2>1, ClientsAssumption
    <3>2. query # None =>
            \/ Yield(held) = held.routes \cap {query}
            \/ Yield(held) = held.routes /\ client.sdk \in {"go", "jvm", "dotnet", "reference"}
            \/ Yield(held) = held.routes /\ held.view = {} /\ client.sdk = "python"
      BY <1>1, <3>1 DEF Sdks, Yield, TypeScriptRoutes, PythonRoutes, RustRoutes, GoRoutes,
                        JvmRoutes, DotnetRoutes, ReferenceRoutes
    <3>3. QED
      BY <1>1, <1>7, <3>1, <3>2 DEF Verify, AnswerFollowsQuery
  <2>5. RoutesWereSigned'
    BY <1>1, <1>2, <1>7, <2>1 DEF Verify, RoutesWereSigned
  <2>6. AcceptedIsRecent'
    <3>1. held.age \in Int
      <4>1. held.age \in Ages
        BY <1>1, BodyParts
      <4>2. \A a \in Ages : a \in Int
        BY BoundsAssumption DEF Ages, Ancient
      <4>3. QED
        BY <4>1, <4>2
    <3>2. ~(held.age + client.skew >= Validity)
      BY <2>1 DEF Expired
    <3>3. held.age < Validity - client.skew
      BY <3>1, <3>2, <2>2, BoundsAssumption
    <3>4. QED
      BY <3>3 DEF Verify, AcceptedIsRecent
  <2>7. QED
    BY <1>3, <1>4, <1>5, <2>4, <2>q, <2>5, <2>6 DEF IInv
<1>8. QED
  BY <1>6, <1>7

LEMMA NextIInv == IInv /\ [Next]_vars => IInv'
<1> SUFFICES ASSUME IInv, [Next]_vars PROVE IInv'
  OBVIOUS
<1>1. CASE UNCHANGED vars
  <2>1. TypeOK'
    BY <1>1 DEF IInv, TypeOK, vars, publisher, call
  <2>2. InHand'
    BY <1>1 DEF IInv, InHand, vars, publisher, call
  <2>3. ErrorNamesCause'
    BY <1>1, SameNamed DEF IInv, vars, call
  <2>4. QED
    BY <1>1, <2>1, <2>2, <2>3
    DEF vars, publisher, call, IInv, SignerOfTheCall, RoutesWereSigned, AnswerFollowsQuery, AcceptedIsRecent, Accepted
<1>2. QED
  BY <1>1, PublishStep, RotateStep, AnnounceStep, TickStep, CallStep, DiscoverStep,
     ReadFeedStep, ReadAlteredStep, FailStep, VerifyStep
  DEF Next

LEMMA Invariance == Spec => []IInv
BY InitIInv, NextIInv, PTL DEF Spec

-----------------------------------------------------------------------------
\* The client, the publisher and the call keep their types (any SDK's getRoutes).
THEOREM TypeCorrect == Spec => []TypeOK
<1>1. IInv => TypeOK
  BY DEF IInv
<1>2. QED
  BY <1>1, Invariance, PTL

\* getRoutes accepts only feeds of the pinned signer or of one announced during
\* the call, however keys change and discovery lags behind, unless it is Go's with
\* a pin that is no address.
THEOREM SignersAreCurrent == Spec => []SignerOfTheCall
<1>1. IInv => SignerOfTheCall
  BY DEF IInv
<1>2. QED
  BY <1>1, Invariance, PTL

\* getRoutes answers the query it was given, with the exceptions the property names.
THEOREM AnswersFollowTheQuery == Spec => []AnswerFollowsQuery
<1>1. IInv => AnswerFollowsQuery
  BY DEF IInv
<1>2. QED
  BY <1>1, Invariance, PTL

\* Whichever of the payload and its view an SDK hands out, it was signed.
THEOREM RoutesAreSigned == Spec => []RoutesWereSigned
<1>1. IInv => RoutesWereSigned
  BY DEF IInv
<1>2. QED
  BY <1>1, Invariance, PTL

\* A feed that expired while the call was under way is refused.
THEOREM AcceptedFeedsAreRecent == Spec => []AcceptedIsRecent
<1>1. IInv => AcceptedIsRecent
  BY DEF IInv
<1>2. QED
  BY <1>1, Invariance, PTL

\* A refused feed gets the error of its cause, but for the named exceptions.
THEOREM ErrorsNameTheirCause == Spec => []ErrorNamesCause
<1>1. IInv => ErrorNamesCause
  BY DEF IInv
<1>2. QED
  BY <1>1, Invariance, PTL
=============================================================================
