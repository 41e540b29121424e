---------------------------- MODULE DocsTicket ----------------------------
(***************************************************************************)
(* The contact form of the documentation site                              *)
(* (docs-site/docs/assets/javascripts/contact.8ac5ae43aae9.js) and the     *)
(* worker that turns its submissions into mail                             *)
(* (docs-ticket-worker/src/worker.mjs).                                    *)
(*                                                                         *)
(* An attempt is one arrival of a submission at the worker: the transport  *)
(* may deliver a submission twice, and may lose the answer to it.  What    *)
(* the reporter typed is abstracted to whether normalizeTicket accepts it  *)
(* and whether the trap field is filled.  A step is what runs between two  *)
(* awaits.  External are the rate limiter, the anti-bot service, whose     *)
(* tokens can be redeemed once, and the mail binding.                      *)
(***************************************************************************)
EXTENDS Naturals, FiniteSets

CONSTANTS
  Browsers,   \* pages that show the form, each with an address of its own
  Attempts,   \* arrivals at the worker
  Tokens,     \* anti-bot tokens
  Limit,      \* attempts the limiter admits per address and window
  MaxWindows, \* bound on the limiter's windows
  None        \* no token, no attempt

ASSUME BoundsAssumption == Limit \in Nat /\ MaxWindows \in Nat
ASSUME AttemptsAssumption == IsFiniteSet(Attempts)
ASSUME NoneAssumption == None \notin Tokens /\ None \notin Attempts

Bindings == {"limiter", "secret", "recipient"}
Replies == {"none", "accepted", "clientError", "serverError"}

VARIABLES
  bound,   \* bindings and secrets the deployment has (env)
  widget,  \* cf-turnstile-response in each form
  trying,  \* the submission a form awaits the answer of
  last,    \* the submission whose outcome a form shows
  status,  \* the message under the form
  pc,      \* progress of an attempt in handleRequest
  origin,  \* the submission an attempt is a delivery of
  sender,  \* CF-Connecting-IP
  token,   \* turnstileToken
  good,    \* normalizeTicket accepts the ticket
  trap,    \* company is filled
  verdict, \* what the anti-bot service made of the token
  reply,   \* status of the response: 202, 4xx or 5xx
  issued,  \* tokens handed to a form
  spent,   \* tokens redeemed at the anti-bot service
  mailed,  \* attempts whose mail the binding accepted
  hits,    \* admissions of an address in the limiter's window
  window   \* windows so far (bounded)

form == <<widget, trying, last, status>>
payload == <<origin, sender, token, good, trap>>
worker == <<pc, verdict, reply>>
services == <<issued, spent, mailed, hits, window>>
vars == <<bound, form, payload, worker, services>>

TypeOK ==
  /\ bound \in SUBSET Bindings
  /\ widget \in [Browsers -> Tokens \cup {None}]
  /\ trying \in [Browsers -> Attempts \cup {None}]
  /\ last \in [Browsers -> Attempts \cup {None}]
  /\ status \in [Browsers -> {"blank", "incomplete", "sending", "sent", "notSent"}]
  /\ pc \in [Attempts -> {"unsent", "arrived", "admitted", "verifying", "mailing", "replied"}]
  /\ origin \in [Attempts -> Attempts \cup {None}]
  /\ sender \in [Attempts -> Browsers \cup {None}]
  /\ token \in [Attempts -> Tokens \cup {None}]
  /\ good \in [Attempts -> BOOLEAN]
  /\ trap \in [Attempts -> BOOLEAN]
  /\ verdict \in [Attempts -> {"none", "pass", "fail"}]
  /\ reply \in [Attempts -> Replies]
  /\ issued \in SUBSET Tokens
  /\ spent \in SUBSET Tokens
  /\ mailed \in SUBSET Attempts
  /\ hits \in [Browsers -> Nat]
  /\ window \in 0 .. MaxWindows

Init ==
  /\ bound \in SUBSET Bindings
  /\ widget = [b \in Browsers |-> None]
  /\ trying = [b \in Browsers |-> None]
  /\ last = [b \in Browsers |-> None]
  /\ status = [b \in Browsers |-> "blank"]
  /\ pc = [a \in Attempts |-> "unsent"]
  /\ origin = [a \in Attempts |-> None]
  /\ sender = [a \in Attempts |-> None]
  /\ token = [a \in Attempts |-> None]
  /\ good = [a \in Attempts |-> FALSE]
  /\ trap = [a \in Attempts |-> FALSE]
  /\ verdict = [a \in Attempts |-> "none"]
  /\ reply = [a \in Attempts |-> "none"]
  /\ issued = {}
  /\ spent = {}
  /\ mailed = {}
  /\ hits = [b \in Browsers |-> 0]
  /\ window = 0

---------------------------------------------------------------------------
(* The form                                                                *)

\* The widget is solved, or replaces an expired token.
Solve(b, t) ==
  /\ t \notin issued
  /\ issued' = issued \cup {t}
  /\ widget' = [widget EXCEPT ![b] = t]
  /\ UNCHANGED <<bound, trying, last, status, payload, worker, spent, mailed, hits, window>>

\* Submitting without a token only shows a message.
Prompt(b) ==
  /\ trying[b] = None
  /\ widget[b] = None
  /\ status' = [status EXCEPT ![b] = "incomplete"]
  /\ UNCHANGED <<bound, widget, trying, last, payload, worker, services>>

\* The button is disabled until the answer is in: one submission at a time.
Submit(b, a) ==
  /\ trying[b] = None
  /\ widget[b] # None
  /\ pc[a] = "unsent"
  /\ pc' = [pc EXCEPT ![a] = "arrived"]
  /\ origin' = [origin EXCEPT ![a] = a]
  /\ sender' = [sender EXCEPT ![a] = b]
  /\ token' = [token EXCEPT ![a] = widget[b]]
  /\ \E g \in BOOLEAN : good' = [good EXCEPT ![a] = g]
  /\ \E f \in BOOLEAN : trap' = [trap EXCEPT ![a] = f]
  /\ trying' = [trying EXCEPT ![b] = a]
  /\ status' = [status EXCEPT ![b] = "sending"]
  /\ UNCHANGED <<bound, widget, last, verdict, reply, services>>

\* Mutant: a failed submission keeps its token.
ShowKeepsToken(b, how) ==
  /\ status' = [status EXCEPT ![b] = how]
  /\ last' = [last EXCEPT ![b] = trying[b]]
  /\ trying' = [trying EXCEPT ![b] = None]
  /\ widget' = IF how = "sent" THEN [widget EXCEPT ![b] = None] ELSE widget
  /\ UNCHANGED <<bound, payload, worker, services>>

\* Both outcomes reset the widget and enable the button again.
Show(b, how) ==
  /\ status' = [status EXCEPT ![b] = how]
  /\ last' = [last EXCEPT ![b] = trying[b]]
  /\ trying' = [trying EXCEPT ![b] = None]
  /\ widget' = [widget EXCEPT ![b] = None]
  /\ UNCHANGED <<bound, payload, worker, services>>

\* Mutant: the page shows the status of the response.
ReadAnswerRaw(b) ==
  \E a \in Attempts :
    /\ trying[b] # None
    /\ origin[a] = trying[b]
    /\ reply[a] # "none"
    /\ Show(b, reply[a])

\* Mutant: a failure leaves the button disabled.
ReadAnswerSent(b) ==
  \E a \in Attempts :
    /\ trying[b] # None
    /\ origin[a] = trying[b]
    /\ reply[a] = "accepted"
    /\ Show(b, "sent")

\* The answer to one of the deliveries of the submission reaches the form.
ReadAnswer(b) ==
  \E a \in Attempts :
    /\ trying[b] # None
    /\ origin[a] = trying[b]
    /\ reply[a] # "none"
    /\ Show(b, IF reply[a] = "accepted" THEN "sent" ELSE "notSent")

\* fetch rejects: the connection is lost, wherever the worker is.
LoseAnswer(b) == trying[b] # None /\ Show(b, "notSent")

---------------------------------------------------------------------------
(* handleRequest                                                           *)
(* The form always sends what the checks before the limiter ask for.       *)

Reply(a, code) ==
  /\ pc' = [pc EXCEPT ![a] = "replied"]
  /\ reply' = [reply EXCEPT ![a] = code]

\* Mutant: a missing limiter admits everyone.
AdmitUnlimited(a) ==
  /\ pc[a] = "arrived"
  /\ "limiter" \in bound => hits[sender[a]] < Limit
  /\ hits' = [hits EXCEPT ![sender[a]] = @ + 1]
  /\ pc' = [pc EXCEPT ![a] = "admitted"]
  /\ UNCHANGED <<bound, form, payload, verdict, reply, issued, spent, mailed, window>>

\* TICKET_RATE_LIMITER counts the attempt before its body is read.
Admit(a) ==
  /\ pc[a] = "arrived"
  /\ "limiter" \in bound
  /\ hits[sender[a]] < Limit
  /\ hits' = [hits EXCEPT ![sender[a]] = @ + 1]
  /\ pc' = [pc EXCEPT ![a] = "admitted"]
  /\ UNCHANGED <<bound, form, payload, verdict, reply, issued, spent, mailed, window>>

\* Above the limit, or no limiter is bound; or limit() itself rejects.
TurnAway(a) ==
  /\ pc[a] = "arrived"
  /\ \/ ("limiter" \in bound => hits[sender[a]] >= Limit) /\ Reply(a, "clientError")
     \/ "limiter" \in bound /\ Reply(a, "serverError")
  /\ UNCHANGED <<bound, form, payload, verdict, services>>

\* readJsonBody or normalizeTicket throws, or the body breaks off.
RefuseTicket(a) ==
  /\ pc[a] = "admitted"
  /\ \/ ~good[a] /\ Reply(a, "clientError")
     \/ Reply(a, "serverError")
  /\ UNCHANGED <<bound, form, payload, verdict, services>>

\* A filled trap is answered as if the ticket had been sent.
SpringTrap(a) ==
  /\ pc[a] = "admitted"
  /\ good[a]
  /\ trap[a]
  /\ Reply(a, "accepted")
  /\ UNCHANGED <<bound, form, payload, verdict, services>>

\* verifyTurnstile sends the token, if there is a secret to send it with.
AskTurnstile(a) ==
  /\ pc[a] = "admitted"
  /\ good[a]
  /\ ~trap[a]
  /\ IF "secret" \in bound
     THEN pc' = [pc EXCEPT ![a] = "verifying"] /\ UNCHANGED reply
     ELSE Reply(a, "serverError")
  /\ UNCHANGED <<bound, form, payload, verdict, services>>

\* The service redeems a token once; it may also find it expired, or solved
\* for another hostname or action.
Siteverify(a) ==
  /\ pc[a] = "verifying"
  /\ verdict[a] = "none"
  /\ \/ /\ token[a] \notin spent
        /\ spent' = spent \cup {token[a]}
        /\ verdict' = [verdict EXCEPT ![a] = "pass"]
     \/ /\ verdict' = [verdict EXCEPT ![a] = "fail"]
        /\ UNCHANGED spent
  /\ UNCHANGED <<bound, form, payload, pc, reply, issued, mailed, hits, window>>

\* Mutant: an outage of the anti-bot service lets the ticket through.
LoseVerdictOpen(a) ==
  /\ pc[a] = "verifying"
  /\ pc' = [pc EXCEPT ![a] = "mailing"]
  /\ UNCHANGED <<bound, form, payload, verdict, reply, services>>

\* The fetch rejects, is not ok or not JSON, before or after the token was redeemed.
LoseVerdict(a) ==
  /\ pc[a] = "verifying"
  /\ Reply(a, "serverError")
  /\ UNCHANGED <<bound, form, payload, verdict, services>>

\* A refused token ends the request; otherwise sendTicket starts, unless no
\* recipient is set, by when the token is gone.
ReadVerdict(a) ==
  /\ pc[a] = "verifying"
  /\ \/ verdict[a] = "fail" /\ Reply(a, "clientError")
     \/ verdict[a] = "pass" /\ "recipient" \notin bound /\ Reply(a, "serverError")
     \/ /\ verdict[a] = "pass"
        /\ "recipient" \in bound
        /\ pc' = [pc EXCEPT ![a] = "mailing"]
        /\ UNCHANGED reply
  /\ UNCHANGED <<bound, form, payload, verdict, services>>

\* TICKET_EMAIL accepts the mail.
Deliver(a) ==
  /\ pc[a] = "mailing"
  /\ a \notin mailed
  /\ mailed' = mailed \cup {a}
  /\ UNCHANGED <<bound, form, payload, worker, issued, spent, hits, window>>

\* Mutant: send() is not awaited.
ConfirmUnawaited(a) ==
  /\ pc[a] = "mailing"
  /\ Reply(a, "accepted")
  /\ UNCHANGED <<bound, form, payload, verdict, services>>

\* send() resolves.
Confirm(a) ==
  /\ pc[a] = "mailing"
  /\ a \in mailed
  /\ Reply(a, "accepted")
  /\ UNCHANGED <<bound, form, payload, verdict, services>>

\* send() rejects; the mail may have been accepted all the same.
FailMail(a) ==
  /\ pc[a] = "mailing"
  /\ Reply(a, "serverError")
  /\ UNCHANGED <<bound, form, payload, verdict, services>>

---------------------------------------------------------------------------
(* The transport and the limiter's clock                                   *)

\* A submission whose connection breaks is delivered once more.
Redeliver(a, c) ==
  /\ pc[a] # "unsent"
  /\ origin[a] = a
  /\ pc[c] = "unsent"
  /\ pc' = [pc EXCEPT ![c] = "arrived"]
  /\ origin' = [origin EXCEPT ![c] = a]
  /\ sender' = [sender EXCEPT ![c] = sender[a]]
  /\ token' = [token EXCEPT ![c] = token[a]]
  /\ good' = [good EXCEPT ![c] = good[a]]
  /\ trap' = [trap EXCEPT ![c] = trap[a]]
  /\ UNCHANGED <<bound, form, verdict, reply, services>>

NextWindow ==
  /\ window < MaxWindows
  /\ window' = window + 1
  /\ hits' = [b \in Browsers |-> 0]
  /\ UNCHANGED <<bound, form, payload, worker, issued, spent, mailed>>

Handle(a) ==
  \/ Admit(a) \/ TurnAway(a) \/ RefuseTicket(a) \/ SpringTrap(a) \/ AskTurnstile(a)
  \/ Siteverify(a) \/ LoseVerdict(a) \/ ReadVerdict(a)
  \/ Deliver(a) \/ Confirm(a) \/ FailMail(a)

Next ==
  \/ \E b \in Browsers :
       \/ Prompt(b) \/ ReadAnswer(b) \/ LoseAnswer(b)
       \/ \E t \in Tokens : Solve(b, t)
       \/ \E a \in Attempts : Submit(b, a)
  \/ \E a \in Attempts : Handle(a)
  \/ \E a, c \in Attempts : Redeliver(a, c)
  \/ NextWindow

Spec == Init /\ [][Next]_vars

\* The worker's continuations run and the services answer or fail, and an
\* answer that is sent reaches a page that waits.
Fairness ==
  /\ \A a \in Attempts : WF_vars(Handle(a))
  /\ \A b \in Browsers : WF_vars(ReadAnswer(b))

FairSpec == Spec /\ Fairness

---------------------------------------------------------------------------
(* Properties                                                              *)

\* One anti-bot token buys one mail, however often its submission is
\* delivered and whichever answers of the services are lost.
OneMailPerToken ==
  \A a, c \in mailed : token[a] = token[c] => a = c

\* "Do not spend Turnstile tokens or send mail for bots that fill the trap"
\* (worker.mjs:231), nor for a ticket that normalizeTicket refuses.
TrapCostsNothing ==
  /\ \A t \in spent : \E a \in Attempts : token[a] = t /\ good[a] /\ ~trap[a]
  /\ \A a \in mailed : good[a] /\ ~trap[a] /\ token[a] \in spent

\* A later submission never carries the token of an earlier one, which the
\* anti-bot service would refuse: every failure can be retried.
RetriesUseFreshTokens ==
  \A a, c \in Attempts :
    (token[a] # None /\ token[a] = token[c]) => origin[a] = origin[c]

\* The page reports a ticket as sent only when a delivery of that very
\* submission was mailed, or its trap was filled.
SentMeansMailed ==
  \A b \in Browsers :
    status[b] = "sent" =>
      \E a \in Attempts : origin[a] = last[b] /\ (a \in mailed \/ trap[a])

\* An address gets no more mails out than the limiter's windows allow, also
\* in a deployment without a limiter.
MailWithinRate ==
  \A b \in Browsers :
    Cardinality({a \in mailed : sender[a] = b}) <= Limit * (window + 1)

\* Every submission ends: the button is enabled again.
EverySubmissionEnds == \A b \in Browsers : (trying[b] # None) ~> (trying[b] = None)
===========================================================================
