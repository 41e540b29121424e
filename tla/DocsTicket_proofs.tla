------------------------- MODULE DocsTicket_proofs -------------------------
(***************************************************************************)
(* Proofs about DocsTicket for any number of pages, deliveries and tokens  *)
(* and any limit.  The invariant has one part per stage of a submission:   *)
(* what a delivery carries (Payloads), how far it may be given its payload *)
(* (Stages), who redeemed a token (Redeemed), which tokens the forms still *)
(* hold (Fresh), what the pages say (Honest) and the limiter's budget      *)
(* (Counted).                                                              *)
(***************************************************************************)
EXTENDS DocsTicket, FiniteSetTheorems, TLAPS

\* A delivery carries a payload from its arrival on.
Payloads ==
  \A a \in Attempts :
    IF pc[a] = "unsent"
    THEN /\ origin[a] = None /\ token[a] = None /\ sender[a] = None
         /\ verdict[a] = "none" /\ reply[a] = "none" /\ a \notin mailed
    ELSE /\ origin[a] \in Attempts /\ token[a] \in issued /\ sender[a] \in Browsers

\* How far a delivery gets follows from its payload and its verdict.
Stages ==
  \A a \in Attempts :
    /\ (pc[a] \in {"verifying", "mailing"} \/ verdict[a] # "none") => good[a] /\ ~trap[a]
    /\ (pc[a] = "mailing" \/ a \in mailed) => verdict[a] = "pass"
    /\ reply[a] = "accepted" => a \in mailed \/ trap[a]

\* Every spent token was redeemed by exactly one delivery.
Redeemed ==
  /\ \A a \in Attempts : verdict[a] = "pass" => token[a] \in spent
  /\ \A a, c \in Attempts :
       (verdict[a] = "pass" /\ verdict[c] = "pass" /\ token[a] = token[c]) => a = c
  /\ \A t \in spent : \E a \in Attempts : token[a] = t /\ verdict[a] = "pass"

\* The token a form may still submit belongs to no other form and no delivery.
Fresh ==
  /\ \A b \in Browsers : widget[b] # None => widget[b] \in issued
  /\ \A b, d \in Browsers : (widget[b] # None /\ widget[b] = widget[d]) => b = d
  /\ \A b \in Browsers, a \in Attempts :
       (trying[b] = None /\ widget[b] # None) => token[a] # widget[b]
  /\ RetriesUseFreshTokens

\* The delivery behind a page that says "sent".
Honest ==
  \A b \in Browsers :
    status[b] = "sent" =>
      \E a \in Attempts :
        pc[a] # "unsent" /\ origin[a] = last[b] /\ (a \in mailed \/ trap[a])

\* The deliveries of an address that use up its budget.
Served(b) ==
  {a \in Attempts : sender[a] = b /\ (pc[a] \in {"admitted", "verifying", "mailing"} \/ a \in mailed)}

Counted ==
  \A b \in Browsers :
    /\ hits[b] <= Limit
    /\ Cardinality(Served(b)) <= hits[b] + Limit * window

IInv ==
  /\ TypeOK
  /\ Payloads
  /\ Stages
  /\ Redeemed
  /\ Fresh
  /\ Honest
  /\ Counted

---------------------------------------------------------------------------
\* A set of deliveries is finite.
LEMMA FiniteServed ==
  ASSUME NEW S \in SUBSET Attempts
  PROVE  IsFiniteSet(S) /\ Cardinality(S) \in Nat
BY AttemptsAssumption, FS_Subset, FS_CardinalityType

\* Fewer deliveries do not cost more.
LEMMA SmallerServed ==
  ASSUME NEW S \in SUBSET Attempts, NEW T \in SUBSET S
  PROVE  Cardinality(T) <= Cardinality(S) /\ Cardinality(T) \in Nat /\ Cardinality(S) \in Nat
BY FiniteServed, FS_Subset

\* One more delivery costs at most one more.
LEMMA OneMoreServed ==
  ASSUME NEW S \in SUBSET Attempts, NEW a
  PROVE  Cardinality(S \cup {a}) <= Cardinality(S) + 1
<1>1. IsFiniteSet(S) /\ Cardinality(S) \in Nat
  BY FiniteServed
<1>2. Cardinality(S \cup {a}) = IF a \in S THEN Cardinality(S) ELSE Cardinality(S) + 1
  BY <1>1, FS_AddElement
<1> QED
  BY <1>1, <1>2

\* The budget of a window is a natural number.
LEMMA Budget ==
  ASSUME TypeOK
  PROVE  Limit * window \in Nat /\ window \in Nat
BY BoundsAssumption DEF TypeOK

\* The invariant holds in the initial state.
LEMMA InitIInv == Init => IInv
<1> SUFFICES ASSUME Init PROVE IInv
  OBVIOUS
<1>1. TypeOK
  BY BoundsAssumption DEF Init, TypeOK, Replies
<1>2. Payloads /\ Stages /\ Redeemed /\ Honest
  BY DEF Init, Payloads, Stages, Redeemed, Honest
<1>3. Fresh
  BY DEF Init, Fresh, RetriesUseFreshTokens
<1>4. Counted
  <2> SUFFICES ASSUME NEW b \in Browsers
               PROVE  hits[b] <= Limit /\ Cardinality(Served(b)) <= hits[b] + Limit * window
    BY DEF Counted
  <2>1. Served(b) = {}
    BY DEF Init, Served
  <2>2. hits[b] = 0 /\ window = 0
    BY DEF Init
  <2> QED
    BY <2>1, <2>2, FS_EmptySet, BoundsAssumption
<1> QED
  BY <1>1, <1>2, <1>3, <1>4 DEF IInv

\* The budget survives every step that neither admits, mails, nor ends a
\* window.
LEMMA SpentLess ==
  ASSUME TypeOK, Counted, UNCHANGED <<hits, window>>,
         \A b \in Browsers : Served(b)' \subseteq Served(b)
  PROVE  Counted'
<1> SUFFICES ASSUME NEW b \in Browsers
             PROVE  hits[b]' <= Limit /\ Cardinality(Served(b)') <= hits[b]' + Limit * window'
  BY DEF Counted
<1>1. Cardinality(Served(b)') <= Cardinality(Served(b))
      /\ Cardinality(Served(b)') \in Nat /\ Cardinality(Served(b)) \in Nat
  BY SmallerServed DEF Served
<1>2. hits[b] <= Limit /\ Cardinality(Served(b)) <= hits[b] + Limit * window
  BY DEF Counted
<1>3. hits[b] \in Nat /\ Limit * window \in Nat
  BY Budget DEF TypeOK
<1> QED
  BY <1>1, <1>2, <1>3

\* A step of the worker that moves a delivery on, or answers it.
Moves(a, step, code) ==
  /\ pc' = [pc EXCEPT ![a] = step]
  /\ reply' = [reply EXCEPT ![a] = code]
  /\ UNCHANGED <<bound, form, payload, verdict, services>>

LEMMA MoveIInv ==
  ASSUME IInv, NEW a \in Attempts, pc[a] # "unsent",
         NEW step \in {"verifying", "mailing", "replied"}, NEW code \in Replies,
         Moves(a, step, code),
         step = "verifying" => pc[a] = "admitted" /\ good[a] /\ ~trap[a],
         step = "mailing" => pc[a] = "verifying" /\ verdict[a] = "pass",
         code = "accepted" => a \in mailed \/ trap[a]
  PROVE  IInv'
<1> USE DEF Moves, IInv, form, payload, services
<1>1. TypeOK'
  BY DEF TypeOK
<1>2. Payloads'
  BY DEF TypeOK, Payloads
<1>3. Stages'
  BY DEF TypeOK, Stages
<1>4. Redeemed'
  BY DEF Redeemed
<1>5. Fresh'
  BY DEF Fresh, RetriesUseFreshTokens
<1>6. Honest'
  BY DEF TypeOK, Honest
<1>7. Counted'
  BY SpentLess DEF Served, TypeOK
<1> QED
  BY <1>1, <1>2, <1>3, <1>4, <1>5, <1>6, <1>7

\* An answer that says "sent" names a delivery that was mailed or trapped.
LEMMA ShowIInv ==
  ASSUME IInv, NEW b \in Browsers, NEW how \in {"sent", "notSent"}, Show(b, how),
         how = "sent" =>
           \E a \in Attempts :
             pc[a] # "unsent" /\ origin[a] = trying[b] /\ (a \in mailed \/ trap[a])
  PROVE  IInv'
<1> USE DEF Show, IInv, worker, payload, services
<1>1. TypeOK'
  BY DEF TypeOK
<1>2. Payloads' /\ Stages' /\ Redeemed'
  BY DEF Payloads, Stages, Redeemed
<1>3. Fresh'
  BY DEF TypeOK, Fresh, RetriesUseFreshTokens
<1>4. Honest'
  BY DEF TypeOK, Honest
<1>5. Counted'
  BY SpentLess DEF Served
<1> QED
  BY <1>1, <1>2, <1>3, <1>4, <1>5

\* A step that leaves the reply alone is a move, too.
LEMMA SameReply ==
  ASSUME TypeOK, NEW a \in Attempts
  PROVE  reply[a] \in Replies /\ [reply EXCEPT ![a] = reply[a]] = reply
BY DEF TypeOK

\* A new token.
LEMMA SolveIInv ==
  ASSUME IInv, NEW b \in Browsers, NEW t \in Tokens, Solve(b, t)
  PROVE  IInv'
<1> USE DEF Solve, IInv, worker, payload
<1>1. TypeOK'
  BY DEF TypeOK
<1>2. Payloads'
  BY DEF Payloads
<1>3. Stages' /\ Redeemed' /\ Honest'
  BY DEF Stages, Redeemed, Honest
<1>4. Fresh'
  <2>1. \A a \in Attempts : token[a] # t
    BY NoneAssumption DEF Payloads
  <2>2. \A d \in Browsers : widget[d] # t
    BY NoneAssumption DEF Fresh
  <2> QED
    BY <2>1, <2>2 DEF TypeOK, Fresh, RetriesUseFreshTokens
<1>5. Counted'
  BY SpentLess DEF Served
<1> QED
  BY <1>1, <1>2, <1>3, <1>4, <1>5

\* A submission.
LEMMA SubmitIInv ==
  ASSUME IInv, NEW b \in Browsers, NEW a \in Attempts, Submit(b, a)
  PROVE  IInv'
<1> USE DEF Submit, IInv, services
<1>0. PICK g \in BOOLEAN, f \in BOOLEAN :
        good' = [good EXCEPT ![a] = g] /\ trap' = [trap EXCEPT ![a] = f]
  OBVIOUS
<1>1. TypeOK'
  BY <1>0 DEF TypeOK
<1>2. Payloads'
  BY DEF TypeOK, Payloads, Fresh
<1>3. Stages'
  BY <1>0 DEF TypeOK, Payloads, Stages
<1>4. Redeemed'
  <2>1. verdict[a] = "none"
    BY DEF Payloads
  <2> QED
    BY <2>1 DEF TypeOK, Redeemed
<1>5. Fresh'
  <2>1. token[a] = None /\ origin[a] = None
    BY DEF Payloads
  <2>2. \A c \in Attempts : token[c] # widget[b]
    BY DEF Fresh
  <2>3. \A c \in Attempts \ {a} : token'[c] = token[c] /\ origin'[c] = origin[c]
    BY DEF TypeOK
  <2>4. token'[a] = widget[b] /\ origin'[a] = a
    BY DEF TypeOK
  <2>5. RetriesUseFreshTokens'
    BY <2>2, <2>3, <2>4 DEF Fresh, RetriesUseFreshTokens
  <2>6. \A d \in Browsers, c \in Attempts :
          (trying'[d] = None /\ widget[d] # None) => token'[c] # widget[d]
    BY <2>3, <2>4, NoneAssumption DEF TypeOK, Fresh
  <2> QED
    BY <2>5, <2>6 DEF Fresh
<1>6. Honest'
  BY <1>0 DEF TypeOK, Honest
<1>7. Counted'
  <2>1. a \notin mailed
    BY DEF Payloads
  <2> QED
    BY <2>1, SpentLess DEF Served, TypeOK
<1> QED
  BY <1>1, <1>2, <1>3, <1>4, <1>5, <1>6, <1>7

\* A second delivery.
LEMMA RedeliverIInv ==
  ASSUME IInv, NEW a \in Attempts, NEW c \in Attempts, Redeliver(a, c)
  PROVE  IInv'
<1> USE DEF Redeliver, IInv, services, form
<1>0. a # c /\ origin[a] = a /\ token[a] \in issued /\ sender[a] \in Browsers
      /\ verdict[c] = "none" /\ token[c] = None /\ c \notin mailed /\ reply[c] = "none"
  BY DEF Payloads
<1>1. TypeOK'
  BY <1>0 DEF TypeOK
<1>2. Payloads'
  BY <1>0 DEF TypeOK, Payloads
<1>3. Stages'
  BY <1>0 DEF TypeOK, Stages
<1>4. Redeemed'
  BY <1>0 DEF TypeOK, Redeemed
<1>5. Fresh'
  <2>1. \A d \in Attempts \ {c} : token'[d] = token[d] /\ origin'[d] = origin[d]
    BY DEF TypeOK
  <2>2. token'[c] = token[a] /\ origin'[c] = origin[a]
    BY <1>0 DEF TypeOK
  <2> QED
    BY <2>1, <2>2, <1>0 DEF Fresh, RetriesUseFreshTokens
<1>6. Honest'
  BY <1>0 DEF TypeOK, Honest
<1>7. Counted'
  BY <1>0, SpentLess DEF Served, TypeOK
<1> QED
  BY <1>1, <1>2, <1>3, <1>4, <1>5, <1>6, <1>7

\* A redeemed or a refused token.
LEMMA SiteverifyIInv ==
  ASSUME IInv, NEW a \in Attempts, Siteverify(a)
  PROVE  IInv'
<1> USE DEF Siteverify, IInv, form, payload
<1>1. TypeOK'
  BY DEF TypeOK, Payloads
<1>2. Payloads'
  BY DEF TypeOK, Payloads
<1>3. Stages'
  BY DEF TypeOK, Stages
<1>4. Redeemed'
  <2>1. CASE token[a] \notin spent /\ spent' = spent \cup {token[a]}
             /\ verdict' = [verdict EXCEPT ![a] = "pass"]
    BY <2>1 DEF TypeOK, Redeemed
  <2>2. CASE verdict' = [verdict EXCEPT ![a] = "fail"] /\ UNCHANGED spent
    BY <2>2 DEF TypeOK, Redeemed
  <2> QED
    BY <2>1, <2>2
<1>5. Fresh' /\ Honest'
  BY DEF Fresh, Honest, RetriesUseFreshTokens
<1>6. Counted'
  BY SpentLess DEF Served
<1> QED
  BY <1>1, <1>2, <1>3, <1>4, <1>5, <1>6

\* An admission costs the address one of its window.
LEMMA AdmitIInv ==
  ASSUME IInv, NEW a \in Attempts, Admit(a)
  PROVE  IInv'
<1> USE DEF Admit, IInv, form, payload
<1>0. sender[a] \in Browsers
  BY DEF Payloads
<1>1. TypeOK'
  BY <1>0 DEF TypeOK
<1>2. Payloads' /\ Stages'
  BY DEF TypeOK, Payloads, Stages
<1>3. Redeemed' /\ Fresh'
  BY DEF Redeemed, Fresh, RetriesUseFreshTokens
<1>4. Honest'
  BY DEF TypeOK, Honest
<1>5. Counted'
  <2> SUFFICES ASSUME NEW b \in Browsers
               PROVE  hits[b]' <= Limit /\ Cardinality(Served(b)') <= hits[b]' + Limit * window'
    BY DEF Counted
  <2>0. hits[b] \in Nat /\ Limit * window \in Nat /\ Limit \in Nat /\ window' = window
    BY Budget, BoundsAssumption DEF TypeOK
  <2>1. hits[b] <= Limit /\ Cardinality(Served(b)) <= hits[b] + Limit * window
    BY DEF Counted
  <2>2. IsFiniteSet(Served(b)) /\ Cardinality(Served(b)) \in Nat
    BY FiniteServed DEF Served
  <2>3. CASE b = sender[a]
    <3>1. Served(b)' = Served(b) \cup {a}
      BY <2>3 DEF Served, TypeOK
    <3>2. Cardinality(Served(b)') <= Cardinality(Served(b)) + 1
      BY <3>1, OneMoreServed DEF Served
    <3>3. Cardinality(Served(b)') \in Nat
      BY FiniteServed DEF Served
    <3>4. hits[b]' = hits[b] + 1 /\ hits[b] < Limit
      BY <2>3 DEF TypeOK
    <3> QED
      BY <2>0, <2>1, <2>2, <3>2, <3>3, <3>4
  <2>4. CASE b # sender[a]
    <3>1. Served(b)' = Served(b)
      BY <2>4 DEF Served, TypeOK
    <3>2. hits[b]' = hits[b]
      BY <2>4 DEF TypeOK
    <3> QED
      BY <2>0, <2>1, <3>1, <3>2
  <2> QED
    BY <2>3, <2>4
<1> QED
  BY <1>1, <1>2, <1>3, <1>4, <1>5

\* A mail counts for a delivery that was being served.
LEMMA DeliverIInv ==
  ASSUME IInv, NEW a \in Attempts, Deliver(a)
  PROVE  IInv'
<1> USE DEF Deliver, IInv, form, payload, worker
<1>1. TypeOK'
  BY DEF TypeOK
<1>2. Payloads' /\ Stages' /\ Redeemed'
  BY DEF Payloads, Stages, Redeemed
<1>3. Fresh' /\ Honest'
  BY DEF Fresh, Honest, RetriesUseFreshTokens
<1>4. Counted'
  BY SpentLess DEF Served
<1> QED
  BY <1>1, <1>2, <1>3, <1>4

\* A new window adds a limit to the budget of every address.
LEMMA NextWindowIInv ==
  ASSUME IInv, NextWindow
  PROVE  IInv'
<1> USE DEF NextWindow, IInv, form, payload, worker
<1>1. TypeOK'
  BY BoundsAssumption DEF TypeOK
<1>2. Payloads' /\ Stages' /\ Redeemed'
  BY DEF Payloads, Stages, Redeemed
<1>3. Fresh' /\ Honest'
  BY DEF Fresh, Honest, RetriesUseFreshTokens
<1>4. Counted'
  <2> SUFFICES ASSUME NEW b \in Browsers
               PROVE  hits[b]' <= Limit /\ Cardinality(Served(b)') <= hits[b]' + Limit * window'
    BY DEF Counted
  <2>1. Served(b)' = Served(b) /\ Cardinality(Served(b)) \in Nat
    BY FiniteServed DEF Served
  <2>2. hits[b] <= Limit /\ Cardinality(Served(b)) <= hits[b] + Limit * window
    BY DEF Counted
  <2>3. hits[b]' = 0 /\ hits[b] \in Nat
    BY DEF TypeOK
  <2>4. Limit * (window + 1) = Limit * window + Limit /\ Limit * window \in Nat /\ Limit \in Nat
    BY Budget, BoundsAssumption
  <2> QED
    BY <2>1, <2>2, <2>3, <2>4
<1> QED
  BY <1>1, <1>2, <1>3, <1>4

\* Every step keeps the invariant.
LEMMA StepIInv == IInv /\ [Next]_vars => IInv'
<1> SUFFICES ASSUME IInv, [Next]_vars PROVE IInv'
  OBVIOUS
<1>1. ASSUME NEW b \in Browsers, NEW t \in Tokens, Solve(b, t) PROVE IInv'
  BY <1>1, SolveIInv
<1>2. ASSUME NEW b \in Browsers, Prompt(b) PROVE IInv'
  <2> USE <1>2 DEF Prompt, IInv, payload, worker, services
  <2>1. TypeOK' /\ Honest'
    BY DEF TypeOK, Honest
  <2>2. Payloads' /\ Stages' /\ Redeemed' /\ Fresh'
    BY DEF Payloads, Stages, Redeemed, Fresh, RetriesUseFreshTokens
  <2>3. Counted'
    BY SpentLess DEF Served
  <2> QED
    BY <2>1, <2>2, <2>3
<1>3. ASSUME NEW b \in Browsers, NEW a \in Attempts, Submit(b, a) PROVE IInv'
  BY <1>3, SubmitIInv
<1>4. ASSUME NEW b \in Browsers, ReadAnswer(b) PROVE IInv'
  <2>1. PICK a \in Attempts :
          /\ origin[a] = trying[b] /\ trying[b] # None /\ reply[a] # "none"
          /\ Show(b, IF reply[a] = "accepted" THEN "sent" ELSE "notSent")
    BY <1>4 DEF ReadAnswer
  <2>2. pc[a] # "unsent"
    BY <2>1 DEF IInv, Payloads
  <2>3. CASE reply[a] = "accepted"
    <3>1. a \in mailed \/ trap[a]
      BY <2>3 DEF IInv, Stages
    <3> QED
      BY <2>1, <2>2, <2>3, <3>1, ShowIInv
  <2>4. CASE reply[a] # "accepted"
    BY <2>1, <2>4, ShowIInv
  <2> QED
    BY <2>3, <2>4
<1>5. ASSUME NEW b \in Browsers, LoseAnswer(b) PROVE IInv'
  BY <1>5, ShowIInv DEF LoseAnswer
<1>6. ASSUME NEW a \in Attempts, Handle(a) PROVE IInv'
  <2>0. reply[a] \in Replies /\ [reply EXCEPT ![a] = reply[a]] = reply
    BY SameReply DEF IInv
  <2>1. CASE Admit(a)
    BY <2>1, AdmitIInv
  <2>2. CASE TurnAway(a)
    BY <2>2, MoveIInv DEF TurnAway, Reply, Moves, Replies
  <2>3. CASE RefuseTicket(a)
    BY <2>3, MoveIInv DEF RefuseTicket, Reply, Moves, Replies
  <2>4. CASE SpringTrap(a)
    BY <2>4, MoveIInv DEF SpringTrap, Reply, Moves, Replies
  <2>5. CASE AskTurnstile(a)
    <3>1. CASE "secret" \in bound
      <4>1. Moves(a, "verifying", reply[a])
        BY <2>0, <2>5, <3>1 DEF AskTurnstile, Moves
      <4>2. reply[a] = "accepted" => a \in mailed \/ trap[a]
        BY DEF IInv, Stages
      <4> QED
        BY <2>0, <2>5, <4>1, <4>2, MoveIInv DEF AskTurnstile
    <3>2. CASE "secret" \notin bound
      BY <2>5, <3>2, MoveIInv DEF AskTurnstile, Reply, Moves, Replies
    <3> QED
      BY <3>1, <3>2
  <2>6. CASE Siteverify(a)
    BY <2>6, SiteverifyIInv
  <2>7. CASE LoseVerdict(a)
    BY <2>7, MoveIInv DEF LoseVerdict, Reply, Moves, Replies
  <2>8. CASE ReadVerdict(a)
    <3>1. CASE pc' = [pc EXCEPT ![a] = "mailing"] /\ UNCHANGED reply /\ verdict[a] = "pass"
      <4>1. Moves(a, "mailing", reply[a])
        BY <2>0, <2>8, <3>1 DEF ReadVerdict, Moves
      <4>2. reply[a] = "accepted" => a \in mailed \/ trap[a]
        BY DEF IInv, Stages
      <4> QED
        BY <2>0, <2>8, <3>1, <4>1, <4>2, MoveIInv DEF ReadVerdict
    <3>2. CASE Reply(a, "clientError") \/ Reply(a, "serverError")
      BY <2>8, <3>2, MoveIInv DEF ReadVerdict, Reply, Moves, Replies
    <3> QED
      BY <2>8, <3>1, <3>2 DEF ReadVerdict
  <2>9. CASE Deliver(a)
    BY <2>9, DeliverIInv
  <2>10. CASE Confirm(a)
    BY <2>10, MoveIInv DEF Confirm, Reply, Moves, Replies
  <2>11. CASE FailMail(a)
    BY <2>11, MoveIInv DEF FailMail, Reply, Moves, Replies
  <2> QED
    BY <1>6, <2>1, <2>2, <2>3, <2>4, <2>5, <2>6, <2>7, <2>8, <2>9, <2>10, <2>11 DEF Handle
<1>7. ASSUME NEW a \in Attempts, NEW c \in Attempts, Redeliver(a, c) PROVE IInv'
  BY <1>7, RedeliverIInv
<1>8. CASE NextWindow
  BY <1>8, NextWindowIInv
<1>9. CASE UNCHANGED vars
  <2> USE <1>9 DEF vars, IInv, form, payload, worker, services
  <2>1. TypeOK' /\ Payloads' /\ Stages'
    BY DEF TypeOK, Payloads, Stages
  <2>2. Redeemed' /\ Fresh' /\ Honest'
    BY DEF Redeemed, Fresh, Honest, RetriesUseFreshTokens
  <2>3. Counted'
    BY SpentLess DEF Served
  <2> QED
    BY <2>1, <2>2, <2>3
<1> QED
  BY <1>1, <1>2, <1>3, <1>4, <1>5, <1>6, <1>7, <1>8, <1>9 DEF Next

\* The invariant holds throughout.
THEOREM Invariance == Spec => []IInv
<1>1. Init => IInv
  BY InitIInv
<1>2. IInv /\ [Next]_vars => IInv'
  BY StepIInv
<1> QED
  BY <1>1, <1>2, PTL DEF Spec

---------------------------------------------------------------------------
\* The forms, the worker and the services keep their types.
THEOREM TypeCorrect == Spec => []TypeOK
<1>1. IInv => TypeOK
  BY DEF IInv
<1> QED
  BY <1>1, Invariance, PTL

\* One anti-bot token buys one mail.
THEOREM TokensBuyOneMail == Spec => []OneMailPerToken
<1>1. IInv => OneMailPerToken
  BY DEF IInv, TypeOK, Stages, Redeemed, OneMailPerToken
<1> QED
  BY <1>1, Invariance, PTL

\* A filled trap or a refused ticket costs neither a token nor a mail.
THEOREM TrapsCostNothing == Spec => []TrapCostsNothing
<1>1. IInv => TrapCostsNothing
  BY DEF IInv, TypeOK, Stages, Redeemed, TrapCostsNothing
<1> QED
  BY <1>1, Invariance, PTL

\* A submission never reuses the token of an earlier one.
THEOREM RetriesAreFresh == Spec => []RetriesUseFreshTokens
<1>1. IInv => RetriesUseFreshTokens
  BY DEF IInv, Fresh
<1> QED
  BY <1>1, Invariance, PTL

\* A page says "sent" of a submission that was mailed or trapped.
THEOREM SentIsMailed == Spec => []SentMeansMailed
<1>1. IInv => SentMeansMailed
  BY DEF IInv, Honest, SentMeansMailed
<1> QED
  BY <1>1, Invariance, PTL

\* An address gets no more mails out than the limiter's windows allow.
THEOREM MailIsRateLimited == Spec => []MailWithinRate
<1>1. IInv => MailWithinRate
  <2> SUFFICES ASSUME IInv, NEW b \in Browsers
               PROVE  Cardinality({a \in mailed : sender[a] = b}) <= Limit * (window + 1)
    BY DEF MailWithinRate
  <2>1. {a \in mailed : sender[a] = b} \in SUBSET Served(b) /\ Served(b) \in SUBSET Attempts
    BY DEF IInv, TypeOK, Served
  <2>2. /\ Cardinality({a \in mailed : sender[a] = b}) <= Cardinality(Served(b))
        /\ Cardinality({a \in mailed : sender[a] = b}) \in Nat
        /\ Cardinality(Served(b)) \in Nat
    BY <2>1, SmallerServed
  <2>3. hits[b] <= Limit /\ Cardinality(Served(b)) <= hits[b] + Limit * window
    BY DEF IInv, Counted
  <2>4. hits[b] \in Nat /\ Limit \in Nat /\ Limit * window \in Nat /\ window \in Nat
    BY Budget, BoundsAssumption DEF IInv, TypeOK
  <2>5. Limit * (window + 1) = Limit * window + Limit
    BY <2>4
  <2> QED
    BY <2>2, <2>3, <2>4, <2>5
<1> QED
  BY <1>1, Invariance, PTL
=============================================================================
