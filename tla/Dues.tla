-------------------------------- MODULE Dues --------------------------------
(***************************************************************************)
(* Dues payments of members: collected through the payment provider with   *)
(* a one-time code and an approval on the member's phone, confirmed by     *)
(* webhook, by a check of stale payments or by a check of the staff.       *)
(*                                                                         *)
(* A request runs on its event loop from await to await.  Rows are locked  *)
(* while an answer is written, never while the provider is awaited.        *)
(***************************************************************************)
EXTENDS Naturals, FiniteSets

CONSTANTS
  Members, Payments, Requests,
  Environments  \* the sets of events (of AllEvents) that are considered

\* overlap: several requests are worked on at a time.  again: a second payment.
\* late: action_expires_at passes.  audit: the staff reconcile a payment.
\* hook: payments come from a gateway that names the payment itself.
\* crash: the process dies.  lost_answer: the provider's answer does not arrive or
\* cannot be read.
\* The others are keys and events of Ussd.
AllEvents == {"overlap", "again", "late", "audit", "hook", "crash", "lost_answer",
              "pay", "loan", "other", "lapse", "relink", "leave", "consent"}

Nobody == "nobody"
NoPayment == "no payment"

ASSUME EnvironmentsAssumption == Environments \subseteq SUBSET AllEvents
ASSUME NamesAssumption == Nobody \notin Members /\ NoPayment \notin Payments

VARIABLES
  payer,      \* transactions.farmer_id, Nobody for a row that is not there
  status, action, \* transactions.status and customer_action
  overdue,    \* payments whose action_expires_at has passed
  charge,     \* at the provider: what has become of the payment
  tasks,      \* payments with a background task to run after their webhook
  swept,      \* fees taken for a payment
  pc, op,     \* the requests: place and kind
  cur, code,  \* the payment a request is about; whether it carries a one-time code
  todo,       \* stale payments left to check
  answer,     \* what the provider, or then the service, answered
  env

rowVars == <<payer, status, action, overdue>>
afterVars == <<tasks, swept>>
callVars == <<pc, op, cur, code, todo, answer>>
duesVars == <<rowVars, charge, afterVars, callVars, env>>

TransactionStatus == {"none", "pending", "completed", "failed"}
CustomerAction == {"none", "initiating", "otp", "processing_otp", "approval", "expired"}
ChargeStatus == {"none", "otp", "prompt", "collected", "declined"}
CallPhase == {"idle", "calling", "called", "answered", "stale", "asking", "asked"}
Outcome == {"none", "otp", "push", "failed", "error", "conflict", "completed", "pending", "done"}

DuesTypeOK ==
  /\ payer \in [Payments -> Members \cup {Nobody}]
  /\ status \in [Payments -> TransactionStatus]
  /\ action \in [Payments -> CustomerAction]
  /\ overdue \subseteq Payments
  /\ charge \in [Payments -> ChargeStatus]
  /\ tasks \subseteq Payments
  /\ swept \in [Payments -> Nat]
  /\ pc \in [Requests -> CallPhase]
  /\ op \in [Requests -> {"none", "collect", "stale", "audit"}]
  /\ cur \in [Requests -> Payments \cup {NoPayment}]
  /\ code \in [Requests -> BOOLEAN]
  /\ todo \in [Requests -> SUBSET Payments]
  /\ answer \in [Requests -> Outcome]
  /\ env \in Environments

DuesInit ==
  /\ payer = [t \in Payments |-> Nobody]
  /\ status = [t \in Payments |-> "none"]
  /\ action = [t \in Payments |-> "none"]
  /\ overdue = {}
  /\ charge = [t \in Payments |-> "none"]
  /\ tasks = {}
  /\ swept = [t \in Payments |-> 0]
  /\ pc = [q \in Requests |-> "idle"]
  /\ op = [q \in Requests |-> "none"]
  /\ cur = [q \in Requests |-> NoPayment]
  /\ code = [q \in Requests |-> FALSE]
  /\ todo = [q \in Requests |-> {}]
  /\ answer = [q \in Requests |-> "none"]
  /\ env \in Environments

Free(q) ==
  /\ pc[q] = "idle"
  /\ "overlap" \in env \/ \A s \in Requests : pc[s] = "idle"

Set(q, phase, kind, t, otp, result) ==
  /\ pc' = [pc EXCEPT ![q] = phase]
  /\ op' = [op EXCEPT ![q] = kind]
  /\ cur' = [cur EXCEPT ![q] = t]
  /\ code' = [code EXCEPT ![q] = otp]
  /\ answer' = [answer EXCEPT ![q] = result]

\* A request in its course: same subject, other place and answer.
Continue(q, phase, result) ==
  /\ pc' = [pc EXCEPT ![q] = phase]
  /\ answer' = [answer EXCEPT ![q] = result]
  /\ UNCHANGED <<op, cur, code, todo>>

\* The row of payment t is written.
Write(t, newStatus, newAction) ==
  /\ status' = [status EXCEPT ![t] = newStatus]
  /\ action' = [action EXCEPT ![t] = newAction]
  /\ overdue' = overdue \ {t}

-----------------------------------------------------------------------------
(* Collecting *)

\* run_dues_collect with a new reference: the row is committed first.
CollectStart(q, m, t) ==
  /\ Free(q)
  /\ payer[t] = Nobody
  /\ "again" \in env \/ \A x \in Payments : payer[x] = Nobody
  /\ payer' = [payer EXCEPT ![t] = m]
  /\ Write(t, "pending", "initiating")
  /\ Set(q, "calling", "collect", t, FALSE, "none")
  /\ UNCHANGED <<charge, afterVars, todo, env>>

\* run_dues_collect with the reference of a pending payment, as the hook gateway
\* calls it: nothing is claimed and the row is not written before the call.
CollectAgain(q, m, t, otp) ==
  /\ "hook" \in env
  /\ Free(q)
  /\ payer[t] = m /\ status[t] = "pending"
  /\ Set(q, "calling", "collect", t, otp, "none")
  /\ UNCHANGED <<rowVars, charge, afterVars, todo, env>>

Claimable(t) == status[t] = "pending" /\ action[t] = "otp" /\ t \notin overdue

\* Mutant: the action is not part of the update's condition.
ResumeStart_AnyAction(q, m, t) ==
  /\ Free(q)
  /\ payer[t] = m
  /\ IF status[t] = "pending"
     THEN /\ Write(t, "pending", "processing_otp")
          /\ Set(q, "calling", "collect", t, TRUE, "none")
     ELSE /\ UNCHANGED <<status, action, overdue>>
          /\ Set(q, "answered", "collect", t, TRUE, "conflict")
  /\ UNCHANGED <<payer, charge, afterVars, todo, env>>

\* resume_dues_customer_action: one conditional update claims the code; the
\* request that loses is told so.
ResumeStart(q, m, t) ==
  /\ Free(q)
  /\ payer[t] = m
  /\ IF Claimable(t)
     THEN /\ Write(t, "pending", "processing_otp")
          /\ Set(q, "calling", "collect", t, TRUE, "none")
     ELSE /\ UNCHANGED <<status, action, overdue>>
          /\ Set(q, "answered", "collect", t, TRUE, "conflict")
  /\ UNCHANGED <<payer, charge, afterVars, todo, env>>

\* The provider asks for a code, prompts the payer or refuses; under a
\* reference that has gone further it says so again.
NextCharge(t, otp) ==
  IF charge[t] = "none" \/ (charge[t] = "otp" /\ otp)
  THEN {"otp", "prompt", "declined"} ELSE {charge[t]}

ReplyTo(c) ==
  CASE c = "otp" -> "otp"
    [] c \in {"prompt", "collected"} -> "push"
    [] c \in {"none", "declined"} -> "failed"

\* initiate_payment.  A provider that is not reached, or whose answer is lost
\* three times, reads as a refusal; an answer that cannot be read is an error.
CollectCall(q) ==
  /\ pc[q] = "calling"
  /\ \/ \E c \in NextCharge(cur[q], code[q]) :
          /\ charge' = [charge EXCEPT ![cur[q]] = c]
          /\ \/ Continue(q, "called", ReplyTo(c))
             \/ "lost_answer" \in env /\ \E r \in {"failed", "error"} : Continue(q, "called", r)
     \/ Continue(q, "called", "failed") /\ UNCHANGED charge
  /\ UNCHANGED <<rowVars, afterVars, env>>

\* Mutant: the row is written whatever became of it meanwhile.
CollectRecord_Overwrite(q) ==
  /\ pc[q] = "called"
  /\ LET t == cur[q]
         r == answer[q]
     IN \/ r = "error" /\ UNCHANGED <<status, action, overdue>>
        \/ r = "otp" /\ Write(t, "pending", "otp")
        \/ r = "push" /\ Write(t, "pending", "approval")
        \/ r = "failed" /\ Write(t, "failed", "none")
  /\ Continue(q, "answered", answer[q])
  /\ UNCHANGED <<payer, charge, afterVars, env>>

\* Under the row lock: a payment that is final by now is left alone.  A call
\* that failed writes nothing and leaves the payment to the check of stale ones.
CollectRecord(q) ==
  /\ pc[q] = "called"
  /\ LET t == cur[q]
         r == answer[q]
         final == status[t] \in {"completed", "failed"}
     IN \/ r = "error" /\ UNCHANGED <<status, action, overdue>> /\ Continue(q, "answered", r)
        \/ /\ r # "error" /\ final
           /\ UNCHANGED <<status, action, overdue>>
           /\ Continue(q, "answered", status[t])
        \/ /\ ~final
           /\ \/ r = "otp" /\ Write(t, "pending", "otp")
              \/ r = "push" /\ Write(t, "pending", "approval")
              \/ r = "failed" /\ Write(t, "failed", "none")
           /\ Continue(q, "answered", r)
  /\ UNCHANGED <<payer, charge, afterVars, env>>

\* The caller takes the answer.
Return(q) ==
  /\ pc[q] = "answered" /\ op[q] # "stale"
  /\ Set(q, "idle", "none", NoPayment, FALSE, "none")
  /\ todo' = [todo EXCEPT ![q] = {}]
  /\ UNCHANGED <<rowVars, charge, afterVars, env>>

-----------------------------------------------------------------------------
(* The payer's phone and time *)

PayerDecides(t) ==
  /\ charge[t] = "prompt"
  /\ charge' \in {[charge EXCEPT ![t] = "collected"], [charge EXCEPT ![t] = "declined"]}
  /\ UNCHANGED <<rowVars, afterVars, callVars, env>>

Elapse(t) ==
  /\ "late" \in env
  /\ status[t] = "pending" /\ t \notin overdue
  /\ overdue' = overdue \cup {t}
  /\ UNCHANGED <<payer, status, action, charge, afterVars, callVars, env>>

\* expire_customer_actions: payments that wait for the payer are given up.
Expirable(m) ==
  {t \in overdue : payer[t] = m /\ status[t] = "pending" /\ action[t] \in {"otp", "approval"}}

Expired(m) ==
  /\ status' = [t \in Payments |-> IF t \in Expirable(m) THEN "failed" ELSE status[t]]
  /\ action' = [t \in Payments |-> IF t \in Expirable(m) THEN "expired" ELSE action[t]]

\* The list of what is pending gives up first what ran out of time.
PendingList(q, m) ==
  /\ pc[q] = "answered" /\ op[q] = "stale"
  /\ Expired(m)
  /\ Set(q, "idle", "none", NoPayment, FALSE, "none")
  /\ UNCHANGED <<payer, overdue, charge, afterVars, todo, env>>

\* The hook gateway goes on with the payment it named, in the same call.
PendingCode(q, m, t) ==
  /\ "hook" \in env
  /\ pc[q] = "answered" /\ op[q] = "stale"
  /\ payer[t] = m
  /\ IF Claimable(t)
     THEN /\ status' = [x \in Payments |-> IF x \in Expirable(m) THEN "failed" ELSE status[x]]
          /\ action' = [x \in Payments |->
               IF x = t THEN "processing_otp" ELSE IF x \in Expirable(m) THEN "expired" ELSE action[x]]
          /\ Set(q, "calling", "collect", t, TRUE, "none")
     ELSE /\ Expired(m)
          /\ Set(q, "idle", "none", NoPayment, FALSE, "none")
  /\ UNCHANGED <<payer, overdue, charge, afterVars, todo, env>>

Expire(m) ==
  /\ Expirable(m) # {}
  /\ Expired(m)
  /\ UNCHANGED <<payer, overdue, charge, afterVars, callVars, env>>

-----------------------------------------------------------------------------
(* Confirmation by webhook *)

Final(t) == status[t] \in {"completed", "failed"}

Event(t) ==
  CASE charge[t] = "collected" -> "completed"
    [] charge[t] = "declined" -> "failed"
    [] OTHER -> "none"

\* Mutant: an event for a payment that is final is processed again.
Webhook_Again(t) ==
  /\ Event(t) # "none" /\ payer[t] # Nobody
  /\ Write(t, Event(t), "none")
  /\ tasks' = tasks \cup {t}
  /\ UNCHANGED <<payer, charge, swept, callVars, env>>

\* process_payment_event: a row that is final is not touched again.
RecordEvent(t) ==
  /\ ~Final(t)
  /\ Write(t, Event(t), "none")

\* The provider reports what became of a payment, as often as it likes.  The row
\* is found and locked by the reference.  A background task follows every event
\* that was processed, also the news of a failure.
Webhook(t) ==
  /\ Event(t) # "none" /\ payer[t] # Nobody
  /\ RecordEvent(t)
  /\ tasks' = tasks \cup {t}
  /\ UNCHANGED <<payer, charge, swept, callVars, env>>

\* The payer is thanked and the platform's fee taken from the cooperative's wallet.
PostPayment(t) ==
  /\ t \in tasks
  /\ tasks' = tasks \ {t}
  /\ swept' = [swept EXCEPT ![t] = @ + 1]
  /\ UNCHANGED <<rowVars, charge, callVars, env>>

-----------------------------------------------------------------------------
(* Confirmation by asking the provider *)

Stale(m) ==
  {t \in overdue :
     payer[t] = m /\ status[t] = "pending" /\ action[t] \in {"initiating", "processing_otp"}}

\* reconcile_stale_customer_actions for a member.
StaleStart(q, m) ==
  /\ Free(q)
  /\ Set(q, "stale", "stale", NoPayment, FALSE, "none")
  /\ todo' = [todo EXCEPT ![q] = Stale(m)]
  /\ UNCHANGED <<rowVars, charge, afterVars, env>>

StaleNext(q) ==
  /\ pc[q] = "stale"
  /\ \/ /\ todo[q] = {}
        /\ Set(q, "answered", "stale", NoPayment, FALSE, "done")
        /\ UNCHANGED todo
     \/ \E t \in todo[q] :
          /\ Set(q, "asking", "stale", t, FALSE, "none")
          /\ todo' = [todo EXCEPT ![q] = @ \ {t}]
  /\ UNCHANGED <<rowVars, charge, afterVars, env>>

\* reconcile_transaction, by the staff and for a payment in any state.
AuditStart(q, t) ==
  /\ "audit" \in env
  /\ Free(q)
  /\ payer[t] # Nobody
  /\ Set(q, "asking", "audit", t, FALSE, "none")
  /\ UNCHANGED <<rowVars, charge, afterVars, todo, env>>

\* payment_status.
AskProvider(q) ==
  /\ pc[q] = "asking"
  /\ \E r \in {"error", IF Event(cur[q]) = "none" THEN "pending" ELSE Event(cur[q])} :
       Continue(q, "asked", r)
  /\ UNCHANGED <<rowVars, charge, afterVars, env>>

\* Only a payment that is still open and still stale takes the provider's word;
\* one the provider still works on gets more time.
StaleApply(q) ==
  /\ pc[q] = "asked" /\ op[q] = "stale"
  /\ LET t == cur[q]
         open == status[t] = "pending" /\ action[t] \in {"initiating", "processing_otp"}
     IN IF open /\ answer[q] # "error"
        THEN IF answer[q] = "pending"
             THEN Write(t, "pending", action[t])
             ELSE Write(t, answer[q], "none")
        ELSE UNCHANGED <<status, action, overdue>>
  /\ Set(q, "stale", "stale", NoPayment, FALSE, "none")
  /\ UNCHANGED <<payer, charge, afterVars, todo, env>>

\* A failed payment the provider did collect is completed after all.
AuditApply(q) ==
  /\ pc[q] = "asked" /\ op[q] = "audit"
  /\ LET t == cur[q]
         to == CASE status[t] = "completed" -> "completed"
                 [] answer[q] = "completed" -> "completed"
                 [] status[t] = "pending" /\ answer[q] = "failed" -> "failed"
                 [] OTHER -> status[t]
     IN IF answer[q] # "error" /\ to \in {"completed", "failed"}
        THEN Write(t, to, "none")
        ELSE UNCHANGED <<status, action, overdue>>
  /\ Continue(q, "answered", "done")
  /\ UNCHANGED <<payer, charge, afterVars, env>>

\* The process dies: requests and background tasks are gone.
CallsLost ==
  /\ pc' = [q \in Requests |-> "idle"]
  /\ op' = [q \in Requests |-> "none"]
  /\ cur' = [q \in Requests |-> NoPayment]
  /\ code' = [q \in Requests |-> FALSE]
  /\ todo' = [q \in Requests |-> {}]
  /\ answer' = [q \in Requests |-> "none"]
  /\ tasks' = {}
  /\ UNCHANGED <<rowVars, charge, swept, env>>

DuesCrash == "crash" \in env /\ CallsLost

-----------------------------------------------------------------------------
\* What a request does between two awaits of its caller.
CallStep(q) ==
  CollectCall(q) \/ CollectRecord(q) \/ StaleNext(q) \/ AskProvider(q) \/ StaleApply(q) \/ AuditApply(q)

\* What happens to payments outside of any request.
PaymentStep(t) == PayerDecides(t) \/ Elapse(t) \/ Webhook(t) \/ PostPayment(t)

DuesNext ==
  \/ \E q \in Requests :
       \/ CallStep(q) \/ Return(q)
       \/ \E m \in Members :
            \/ StaleStart(q, m) \/ PendingList(q, m)
            \/ \E t \in Payments :
                 \/ CollectStart(q, m, t) \/ ResumeStart(q, m, t) \/ PendingCode(q, m, t)
                 \/ \E otp \in BOOLEAN : CollectAgain(q, m, t, otp)
       \/ \E t \in Payments : AuditStart(q, t)
  \/ \E t \in Payments : PaymentStep(t)
  \/ \E m \in Members : Expire(m)
  \/ DuesCrash

DuesSpec == DuesInit /\ [][DuesNext]_duesVars

-----------------------------------------------------------------------------
(* The ledger's contract *)

LedgerRow(t) ==
  CASE status[t] = "pending" -> "open"
    [] status[t] = "completed" -> "paid"
    [] OTHER -> status[t]

LedgerMoney(t) ==
  CASE charge[t] \in {"none", "otp"} -> "no"
    [] charge[t] = "prompt" -> "asked"
    [] charge[t] = "collected" -> "moved"
    [] charge[t] = "declined" -> "refused"

Ledger == INSTANCE LedgerContract WITH
  row <- [t \in Payments |-> LedgerRow(t)],
  money <- [t \in Payments |-> LedgerMoney(t)]

\* Dues payments keep the contract: the row is committed before the payer is
\* asked, says completed only when the provider collected, and never takes that
\* back, whichever of the five ways of learning about it comes first.
KeepsLedger == Ledger!Spec

-----------------------------------------------------------------------------
(* Safety *)

\* A payment is completed only when the provider collected it, whoever said so.
CompletedIsCollected == \A t \in Payments : status[t] = "completed" => charge[t] = "collected"

\* For one payment at most one request is at the provider with it: a code is
\* claimed by the conditional update of resume_dues_customer_action.  The hook
\* gateway, which claims nothing, is the exception.
OneCallPerPayment ==
  "hook" \in env \/
  \A q, r \in Requests :
    /\ pc[q] \in {"calling", "called"} /\ pc[r] \in {"calling", "called"}
    /\ cur[q] = cur[r]
    => q = r

\* The platform's fee is taken at most once for a payment, however often its
\* webhook arrives.
FeeOnce == \A t \in Payments : swept[t] + (IF t \in tasks THEN 1 ELSE 0) <= 1

\* "Runs asynchronously after a successful payment webhook": the fee is taken for
\* payments that were made.
FeeOnlyIfPaid == \A t \in Payments : swept[t] > 0 => status[t] = "completed"

=============================================================================
