--------------------------- MODULE LoanRepayment ---------------------------
(***************************************************************************)
(* The repayment of one disbursed loan over mobile money.  The farmer      *)
(* starts it from a phone session, the provider asks for a one-time code   *)
(* or for an approval on the phone, and webhooks, the next phone session   *)
(* and the office each try to find out what became of it.                  *)
(*                                                                         *)
(* An attempt is a repayment row of transactions with its own provider     *)
(* reference.  Requests interleave at every commit and every await; a      *)
(* block under row locks up to its commit is one step.  One lock is held   *)
(* across an await: start_farmer_loan_repayment polls the provider while   *)
(* it holds the loan's row, which loanLock models.                         *)
(***************************************************************************)
EXTENDS Naturals

CONSTANTS
  Requests,      \* concurrent requests about the loan
  MaxAttempts,   \* bound on the repayment attempts created for the loan
  Faults,        \* which of AllFaults the environment may exhibit
  NoRequest      \* holds the loan's lock when no request does

AllFaults == {"crash", "lost_answer", "legacy"}

ASSUME MaxAttemptsAssumption == MaxAttempts \in Nat \ {0}
ASSUME FaultsAssumption == Faults \subseteq AllFaults
ASSUME NoRequestAssumption == NoRequest \notin Requests

VARIABLES
  loan,      \* loans.status
  loanLock,  \* the request that holds the loan's row over an await
  tx,        \* transactions.status of each attempt, by creation order
  action,    \* transactions.customer_action
  elapsed,   \* attempts whose action_expires_at has passed
  last,      \* the latest attempt, 0 when there is none
  col,       \* the provider's side of each attempt
  why,       \* why the ledger gave an attempt up without the provider's word: {}
             \* for one it did not (history, read by the properties only)
  req        \* each request: where it is, its attempt, the answer it holds

ledger == <<tx, action, elapsed, why>>
vars == <<loan, loanLock, tx, action, elapsed, last, col, why, req>>

Attempts == 1..MaxAttempts

TxStatus == {"none", "pending", "completed", "failed"}
CustomerAction == {"none", "initiating", "otp", "processing_otp", "approval", "expired"}
Collection == {"absent", "otp", "prompted", "collected", "other", "declined"}
Phase == {"idle", "expire", "lock", "create", "initiate", "answered", "finalize",
          "resume", "resend", "reanswered", "stale"}

Request == [at : Phase, att : 0..MaxAttempts, ans : {"none", "push", "otp", "failed"}]
Idle == [at |-> "idle", att |-> 0, ans |-> "none"]

TypeOK ==
  /\ loan \in {"disbursed", "repaid"}
  /\ loanLock \in Requests \cup {NoRequest}
  /\ tx \in [Attempts -> TxStatus]
  /\ action \in [Attempts -> CustomerAction]
  /\ elapsed \subseteq Attempts
  /\ last \in 0..MaxAttempts
  /\ col \in [Attempts -> Collection]
  /\ why \in [Attempts -> SUBSET {"expired", "unanswered", "retired", "overwritten"}]
  /\ req \in [Requests -> Request]

\* A row from before explicit actions existed is pending with action "none".
Init ==
  /\ loan = "disbursed"
  /\ loanLock = NoRequest
  /\ last \in (IF "legacy" \in Faults THEN {0, 1} ELSE {0})
  /\ tx = [a \in Attempts |-> IF a <= last THEN "pending" ELSE "none"]
  /\ action = [a \in Attempts |-> "none"]
  /\ elapsed = {}
  /\ col = [a \in Attempts |-> IF a <= last THEN "prompted" ELSE "absent"]
  /\ why = [a \in Attempts |-> {}]
  /\ req = [r \in Requests |-> Idle]

-----------------------------------------------------------------------------
(* Helpers *)

At(r, phase) == req[r].at = phase
Goto(r, phase) == req' = [req EXCEPT ![r].at = phase]
Take(r, a, phase) == req' = [req EXCEPT ![r] = [at |-> phase, att |-> a, ans |-> "none"]]
Hear(r, answer, phase) == req' = [req EXCEPT ![r].ans = answer, ![r].at = phase]
Return(r) == req' = [req EXCEPT ![r] = Idle]

LoanFree(r) == loanLock \in {r, NoRequest}

\* Mutant: a prompt that was answered once reads "completed".
PaymentStatus_PromptCompletes(a) ==
  {"pending"} \cup (IF col[a] \in {"prompted", "collected"} THEN {"completed"} ELSE {})

\* provider.payment_status: an unknown reference and any HTTP error read
\* "pending"; the answer may lack the amount.  A payment collected with another
\* amount ("other") is the same mismatch at every poll.
PaymentStatus(a) ==
  {"pending"}
    \cup (IF col[a] = "collected" THEN {"completed", "no_amount"} ELSE {})
    \cup (IF col[a] = "other" THEN {"amount_mismatch"} ELSE {})
    \cup (IF col[a] = "declined" THEN {"failed"} ELSE {})

\* The row's status and action change together; a new action starts its TTL.
SetAttempt(a, status, act) ==
  /\ tx' = [tx EXCEPT ![a] = status]
  /\ action' = [action EXCEPT ![a] = act]
  /\ elapsed' = elapsed \ {a}

GiveUp(a, reason) == why' = [why EXCEPT ![a] = @ \cup {reason}]

\* Mutant: approval prompts are not expired.
Expirable_OtpOnly == {a \in elapsed : tx[a] = "pending" /\ action[a] = "otp"}

\* expire_customer_actions: elapsed prompts fail, their label says "expired".
Expirable == {a \in elapsed : tx[a] = "pending" /\ action[a] \in {"otp", "approval"}}

ExpireCustomerActions ==
  /\ tx' = [a \in Attempts |-> IF a \in Expirable THEN "failed" ELSE tx[a]]
  /\ action' = [a \in Attempts |-> IF a \in Expirable THEN "expired" ELSE action[a]]
  /\ why' = [a \in Attempts |-> IF a \in Expirable THEN why[a] \cup {"expired"} ELSE why[a]]
  /\ UNCHANGED elapsed

\* The new row, "initiating", is committed before the provider hears of it.
CreateAttempt(r) ==
  /\ last < MaxAttempts
  /\ last' = last + 1
  /\ tx' = [tx EXCEPT ![last + 1] = "pending"]
  /\ action' = [action EXCEPT ![last + 1] = "initiating"]
  /\ Take(r, last + 1, "initiate")
  /\ UNCHANGED <<loan, elapsed, col, why>>

-----------------------------------------------------------------------------
(* start_farmer_loan_repayment *)

\* The status check, on a row read without a lock.
StartCheck(r) ==
  /\ At(r, "idle")
  /\ loan = "disbursed"
  /\ Goto(r, "expire")
  /\ UNCHANGED <<loan, loanLock, ledger, last, col>>

StartExpire(r) ==
  /\ At(r, "expire")
  /\ ExpireCustomerActions
  /\ Goto(r, "lock")
  /\ UNCHANGED <<loan, loanLock, last, col>>

LatestIs(statuses) == last > 0 /\ tx[last] \in statuses

\* Under the loan's lock: a prompt the farmer can still act on is left alone.
StartReturns(r) ==
  /\ At(r, "lock") /\ LoanFree(r)
  /\ LatestIs({"pending"})
  /\ \/ action[last] = "otp"
     \/ action[last] \in {"initiating", "processing_otp"} /\ last \notin elapsed
  /\ Return(r)
  /\ UNCHANGED <<loan, loanLock, ledger, last, col>>

\* The fate of any other open attempt is asked for, with the lock held.
StartPolls(r) ==
  /\ At(r, "lock") /\ LoanFree(r)
  /\ LatestIs({"pending"})
  /\ \/ action[last] \in {"approval", "expired"}
     \/ action[last] \in {"initiating", "processing_otp"} /\ last \in elapsed
  /\ loanLock' = r
  /\ Take(r, last, "finalize")
  /\ UNCHANGED <<loan, ledger, last, col>>

\* A row of the old kind is failed, and the commit releases the lock.
StartRetires(r) ==
  /\ At(r, "lock") /\ LoanFree(r)
  /\ LatestIs({"pending"})
  /\ action[last] = "none"
  /\ tx' = [tx EXCEPT ![last] = "failed"]
  /\ GiveUp(last, "retired")
  /\ Goto(r, "create")
  /\ UNCHANGED <<loan, loanLock, action, elapsed, last, col>>

StartAfterRetiring(r) ==
  /\ At(r, "create")
  /\ CreateAttempt(r)
  /\ UNCHANGED loanLock

\* No open attempt: a new one, whatever the loan has become since the check.
StartCreates(r) ==
  /\ At(r, "lock") /\ LoanFree(r)
  /\ last = 0 \/ LatestIs({"completed", "failed"})
  /\ CreateAttempt(r)
  /\ UNCHANGED loanLock

\* What initiate_payment makes of the provider's answer: TP14 asks for a code.
AnswerTo(kind) ==
  CASE kind = "prompted" -> "push"
    [] kind = "otp" -> "otp"
    [] kind = "declined" -> "failed"

\* initiate_payment: the provider prompts, asks for a code or refuses; an
\* answer lost three times is returned as a refusal.
Initiate(r) ==
  /\ At(r, "initiate")
  /\ \/ \E kind \in {"prompted", "otp", "declined"} :
          /\ col' = [col EXCEPT ![req[r].att] = kind]
          /\ Hear(r, AnswerTo(kind), "answered")
          /\ UNCHANGED why
     \/ /\ "lost_answer" \in Faults
        /\ \E kind \in {"prompted", "otp"} : col' = [col EXCEPT ![req[r].att] = kind]
        /\ Hear(r, "failed", "answered")
        /\ GiveUp(req[r].att, "unanswered")
  /\ UNCHANGED <<loan, loanLock, tx, action, elapsed, last>>

\* The answer, on fresh locked rows.  Nothing asks whether the attempt has
\* failed meanwhile, only whether it or the loan is done.
RecordStart(r) ==
  /\ At(r, "answered") /\ LoanFree(r)
  /\ LET done == tx[req[r].att] = "completed" \/ loan = "repaid"
     IN \/ done /\ UNCHANGED <<tx, action, elapsed>> /\ Return(r)
        \/ ~done /\ req[r].ans = "failed" /\ SetAttempt(req[r].att, "failed", "none") /\ Return(r)
        \/ ~done /\ req[r].ans = "otp" /\ SetAttempt(req[r].att, tx[req[r].att], "otp") /\ Return(r)
        \/ ~done /\ req[r].ans = "push" /\ SetAttempt(req[r].att, tx[req[r].att], "approval") /\ Goto(r, "finalize")
  /\ UNCHANGED <<loan, loanLock, last, col, why>>

-----------------------------------------------------------------------------
(* finalize_repayment *)

\* Mutant: any answer but success fails the attempt.
Finalize_PendingFails(r) ==
  /\ At(r, "finalize") /\ LoanFree(r)
  /\ LET a == req[r].att
         done == tx[a] = "completed" \/ loan = "repaid"
     IN \/ done /\ UNCHANGED <<loan, tx, action, elapsed>>
        \/ /\ ~done /\ "completed" \notin PaymentStatus(a)
           /\ SetAttempt(a, "failed", "none") /\ UNCHANGED loan
        \/ /\ ~done /\ "completed" \in PaymentStatus(a)
           /\ SetAttempt(a, "completed", "none") /\ loan' = "repaid"
  /\ loanLock' = NoRequest
  /\ Return(r)
  /\ UNCHANGED <<last, col, why>>

\* One poll and its application to fresh rows, under both locks.  A final
\* answer of the provider stays final, so the two are one step.  Without an
\* amount, or with another one, nothing is written.
Finalize(r) ==
  /\ At(r, "finalize") /\ LoanFree(r)
  /\ \E answer \in PaymentStatus(req[r].att) :
       LET a == req[r].att
           done == tx[a] = "completed" \/ loan = "repaid"
       IN \/ done /\ UNCHANGED <<loan, tx, action, elapsed>>
          \/ /\ ~done /\ answer = "failed"
             /\ SetAttempt(a, "failed", "none") /\ UNCHANGED loan
          \/ /\ ~done /\ answer = "pending"
             /\ elapsed' = IF action[a] \in {"initiating", "processing_otp"}
                            THEN elapsed \ {a} ELSE elapsed
             /\ UNCHANGED <<loan, tx, action>>
          \/ /\ ~done /\ answer \in {"amount_mismatch", "no_amount"}
             /\ UNCHANGED <<loan, tx, action, elapsed>>
          \/ /\ ~done /\ answer = "completed"
             /\ SetAttempt(a, "completed", "none") /\ loan' = "repaid"
  /\ loanLock' = NoRequest
  /\ Return(r)
  /\ UNCHANGED <<last, col, why>>

-----------------------------------------------------------------------------
(* resume_loan_repayment_customer_action: the farmer types the code *)

\* The phone session loads the attempt; the copy it will check under the lock
\* is this one, for the locked query does not refresh a loaded row.
ResumeLoad(r, a) ==
  /\ At(r, "idle")
  /\ tx[a] = "pending" /\ action[a] = "otp"
  /\ Take(r, a, "resume")
  /\ UNCHANGED <<loan, loanLock, ledger, last, col>>

\* The copy's deadline has passed: the row fails, whatever it is by now.
ResumeExpired(r) ==
  /\ At(r, "resume")
  /\ LET a == req[r].att
         current == tx[a] = "pending" /\ action[a] = "otp"
     IN /\ tx' = [tx EXCEPT ![a] = "failed"]
        /\ action' = [action EXCEPT ![a] = "expired"]
        /\ GiveUp(a, IF current THEN "expired" ELSE "overwritten")
  /\ Return(r)
  /\ UNCHANGED <<loan, loanLock, elapsed, last, col>>

\* The loan is read fresh, without a lock.
ResumeRefused(r) ==
  /\ At(r, "resume")
  /\ loan # "disbursed"
  /\ Return(r)
  /\ UNCHANGED <<loan, loanLock, ledger, last, col>>

\* Only the action is written: the status column did not change in the copy.
ResumeLock(r) ==
  /\ At(r, "resume")
  /\ req[r].att \notin elapsed
  /\ loan = "disbursed"
  /\ SetAttempt(req[r].att, tx[req[r].att], "processing_otp")
  /\ Goto(r, "resend")
  /\ UNCHANGED <<loan, loanLock, last, col, why>>

\* initiate_payment with the code and the same reference.  A reference the
\* provider has already prompted or collected may be answered either way.
Resend(r) ==
  /\ At(r, "resend")
  /\ LET a == req[r].att IN
     \/ /\ col[a] \in {"otp", "declined"}
        /\ \E kind \in (IF col[a] = "otp" THEN {"prompted", "otp", "declined"}
                                          ELSE {"declined"}) :
             /\ col' = [col EXCEPT ![a] = kind]
             /\ Hear(r, AnswerTo(kind), "reanswered")
        /\ UNCHANGED why
     \/ /\ col[a] \in {"prompted", "collected", "other"}
        /\ Hear(r, "push", "reanswered")
        /\ UNCHANGED <<col, why>>
     \/ /\ "lost_answer" \in Faults
        /\ col[a] \in {"otp", "prompted", "collected", "other"}
        /\ col' = [col EXCEPT ![a] = IF @ = "otp" THEN "prompted" ELSE @]
        /\ Hear(r, "failed", "reanswered")
        /\ GiveUp(a, "unanswered")
  /\ UNCHANGED <<loan, loanLock, tx, action, elapsed, last>>

\* The answer, on the fresh locked row; the loan is not locked.
RecordResume(r) ==
  /\ At(r, "reanswered")
  /\ LET done == tx[req[r].att] = "completed"
     IN \/ done /\ UNCHANGED <<tx, action, elapsed>> /\ Return(r)
        \/ ~done /\ req[r].ans = "failed" /\ SetAttempt(req[r].att, "failed", "none") /\ Return(r)
        \/ ~done /\ req[r].ans = "otp" /\ SetAttempt(req[r].att, tx[req[r].att], "otp") /\ Return(r)
        \/ ~done /\ req[r].ans = "push" /\ SetAttempt(req[r].att, tx[req[r].att], "approval") /\ Goto(r, "finalize")
  /\ UNCHANGED <<loan, loanLock, last, col, why>>

-----------------------------------------------------------------------------
(* The other ways an attempt comes to an end *)

\* reconcile_stale_customer_actions selects elapsed ambiguous actions ...
StaleRead(r, a) ==
  /\ At(r, "idle")
  /\ tx[a] = "pending" /\ a \in elapsed
  /\ action[a] \in {"initiating", "processing_otp"}
  /\ Take(r, a, "stale")
  /\ UNCHANGED <<loan, loanLock, ledger, last, col>>

\* ... and applies the provider's word to the fresh locked row.  Here an answer
\* without an amount will do; another amount leaves the row as it is, elapsed.
StaleApply(r) ==
  /\ At(r, "stale")
  /\ \E answer \in PaymentStatus(req[r].att) :
       LET a == req[r].att
           open == tx[a] = "pending" /\ action[a] \in {"initiating", "processing_otp"}
       IN \/ /\ ~open \/ answer = "amount_mismatch"
             /\ UNCHANGED <<loan, tx, action, elapsed>>
          \/ /\ open /\ answer \in {"completed", "no_amount"} /\ LoanFree(r)
             /\ SetAttempt(a, "completed", "none") /\ loan' = "repaid"
          \/ /\ open /\ answer = "failed"
             /\ SetAttempt(a, "failed", "none") /\ UNCHANGED loan
          \/ /\ open /\ answer = "pending"
             /\ elapsed' = elapsed \ {a} /\ UNCHANGED <<loan, tx, action>>
  /\ Return(r)
  /\ UNCHANGED <<loanLock, last, col, why>>

\* Any phone session that lists the pending payments.
ListPending ==
  /\ Expirable # {}
  /\ ExpireCustomerActions
  /\ UNCHANGED <<loan, loanLock, last, col, req>>

\* Mutant: the webhook closes its payment and leaves the loan.
Webhook_TransactionOnly(a) ==
  /\ tx[a] = "pending"
  /\ col[a] \in {"collected", "declined"}
  /\ SetAttempt(a, IF col[a] = "collected" THEN "completed" ELSE "failed", "none")
  /\ UNCHANGED <<loan, loanLock, last, col, why, req>>

\* The provider's event.  A final row acknowledges it as a duplicate, another
\* amount is ignored; success closes the loan without asking for its status.
Webhook(a) ==
  /\ tx[a] = "pending"
  /\ \/ /\ col[a] = "collected" /\ loanLock = NoRequest
        /\ SetAttempt(a, "completed", "none") /\ loan' = "repaid"
     \/ /\ col[a] = "declined"
        /\ SetAttempt(a, "failed", "none") /\ UNCHANGED loan
  /\ UNCHANGED <<loanLock, last, col, why, req>>

\* POST /transactions/{id}/reconcile: a failed row can still be completed, and
\* nobody looks at the amount.
ReconcileTransaction(a) ==
  /\ \/ /\ tx[a] \in {"pending", "failed"}
        /\ PaymentStatus(a) \cap {"completed", "amount_mismatch"} # {}
        /\ loanLock = NoRequest
        /\ SetAttempt(a, "completed", "none") /\ loan' = "repaid"
     \/ /\ tx[a] = "pending" /\ "failed" \in PaymentStatus(a)
        /\ SetAttempt(a, "failed", "none") /\ UNCHANGED loan
     \/ /\ tx[a] = "failed" /\ action[a] # "none"
        /\ SetAttempt(a, "failed", "none") /\ UNCHANGED loan
  /\ UNCHANGED <<loanLock, last, col, why, req>>

\* The farmer approves or declines, or the provider gives the prompt up.
FarmerSettles(a) ==
  /\ \/ /\ col[a] = "prompted"
        /\ \E amount \in {"collected", "other"} : col' = [col EXCEPT ![a] = amount]
     \/ col[a] \in {"otp", "prompted"} /\ col' = [col EXCEPT ![a] = "declined"]
  /\ UNCHANGED <<loan, loanLock, ledger, last, req>>

TimePasses(a) ==
  /\ a \notin elapsed
  /\ action[a] \notin {"none", "expired"}
  /\ elapsed' = elapsed \cup {a}
  /\ UNCHANGED <<loan, loanLock, tx, action, last, col, why, req>>

\* A crash, or a statement the database aborts (lock timeout, deadlock): the
\* request's locks are released and nothing of its open transaction stays.
RequestDies(r) ==
  /\ "crash" \in Faults
  /\ ~At(r, "idle")
  /\ loanLock' = IF loanLock = r THEN NoRequest ELSE loanLock
  /\ Return(r)
  /\ UNCHANGED <<loan, ledger, last, col>>

-----------------------------------------------------------------------------
Step(r) ==
  \/ StartExpire(r) \/ StartReturns(r) \/ StartPolls(r) \/ StartRetires(r)
  \/ StartAfterRetiring(r) \/ StartCreates(r) \/ Initiate(r) \/ RecordStart(r)
  \/ Finalize(r) \/ ResumeExpired(r) \/ ResumeRefused(r) \/ ResumeLock(r)
  \/ Resend(r) \/ RecordResume(r) \/ StaleApply(r)

Next ==
  \/ \E r \in Requests :
       \/ StartCheck(r) \/ Step(r) \/ RequestDies(r)
       \/ \E a \in Attempts : ResumeLoad(r, a) \/ StaleRead(r, a)
  \/ \E a \in Attempts :
       \/ Webhook(a) \/ ReconcileTransaction(a) \/ FarmerSettles(a) \/ TimePasses(a)
  \/ ListPending

Spec == Init /\ [][Next]_vars

\* A poll that hears the provider's final word about its attempt.
PollSettles(r) ==
  /\ StaleApply(r) \/ Finalize(r)
  /\ \E a \in Attempts : tx[a] = "pending" /\ tx'[a] # "pending"

\* Requests finish, the farmer or the provider settles a prompt, deadlines
\* pass, phone sessions keep coming and their polls get through now and then.
\* What a poll hears of another amount stays the same however often it asks.
Fairness ==
  /\ \A r \in Requests : WF_vars(Step(r)) /\ SF_vars(PollSettles(r))
  /\ \A r \in Requests, a \in Attempts : SF_vars(StaleRead(r, a))
  /\ \A a \in Attempts : WF_vars(FarmerSettles(a)) /\ WF_vars(TimePasses(a))
  /\ WF_vars(ListPending)

FairSpec == Spec /\ Fairness

-----------------------------------------------------------------------------
(* Properties *)

\* An expiry decided on an outdated copy of the row has been written.
Overwritten == \E a \in Attempts : "overwritten" \in why[a]

Live(a) == col[a] \in {"otp", "prompted", "collected", "other"}

\* finalize_repayment, the webhook and both reconciliations write two rows:
\* the loan is repaid exactly when one of its payments is completed.
ClosedTogether ==
  ~Overwritten => (loan = "repaid" <=> \E a \in Attempts : tx[a] = "completed")

\* A payment is completed only when the provider has collected it, the loan's
\* amount or, if the office says so, another.
CompletedIsCollected ==
  \A a \in Attempts : tx[a] = "completed" => col[a] \in {"collected", "other"}

\* An old row has been failed to make room for an attempt.
Retired == \E a \in Attempts : "retired" \in why[a]

\* The row is committed before initiate_payment: the farmer is never asked
\* for money no row of the ledger refers to.
RecordedBeforePrompted ==
  \A a \in Attempts : col[a] # "absent" => a <= last /\ tx[a] # "none"

\* start_farmer_loan_repayment finds only the latest attempt, so an earlier
\* one must not be open.  (Two starts that retire an old row can both create.)
OnlyLatestOpen ==
  ~Retired
    => \A a \in Attempts : tx[a] = "pending" => a = last

\* A failed row the ledger did not give up by itself is dead at the provider.
FailedIsDead ==
  \A a \in Attempts : tx[a] = "failed" /\ why[a] = {} => col[a] = "declined"

\* A second reference exists beside a live one only when the ledger gave that
\* one up by itself, or when it had already collected the loan.
OneCollection ==
  ~Retired
    => \A a \in Attempts :
         a < last /\ Live(a) => why[a] # {} \/ tx[a] = "completed"

\* Late answers and polls never undo a completed payment; of all the steps only
\* an expiry decided on an outdated copy does.
CompletedStays ==
  [][\A a \in Attempts :
       tx[a] = "completed" => tx'[a] = "completed" \/ "overwritten" \in why'[a]]_vars

\* "Cannot repay loan ... Must be 'disbursed'": no attempt is made for a loan
\* that is not.
AttemptsOnlyOwed == [][last' # last => loan = "disbursed"]_vars

\* Another amount was collected, nobody is at work on the attempt, and its
\* ambiguous action never expires: every poll reports the same mismatch.
Mismatched(a) ==
  /\ col[a] = "other" /\ action[a] \in {"initiating", "processing_otp"}
  /\ \A r \in Requests :
       req[r].att = a => req[r].at \notin {"answered", "resume", "resend", "reanswered"}

\* Without a single webhook, an attempt the provider has heard of is closed by
\* the phone sessions that follow: its prompt expires or its fate is polled.
\* One alone stays open: its request died, and another amount was collected.
OpenAttemptCloses ==
  \A a \in Attempts :
    (tx[a] = "pending" /\ action[a] # "none" /\ col[a] # "absent")
      ~> tx[a] # "pending" \/ Mismatched(a)

-----------------------------------------------------------------------------
(* The ledger's contract *)

LedgerRow(a) ==
  CASE tx[a] = "pending" -> "open"
    [] tx[a] = "completed" -> "paid"
    [] OTHER -> tx[a]

LedgerMoney(a) ==
  CASE col[a] \in {"absent", "otp"} -> "no"
    [] col[a] = "prompted" -> "asked"
    [] col[a] \in {"collected", "other"} -> "moved"
    [] col[a] = "declined" -> "refused"

Ledger == INSTANCE LedgerContract WITH
  Payments <- Attempts,
  row <- [a \in Attempts |-> LedgerRow(a)],
  money <- [a \in Attempts |-> LedgerMoney(a)]

\* Repayments keep the contract: the row is committed before the farmer is
\* asked, says completed only when the provider collected, and never takes that
\* back, with one exception: an expiry decided on an outdated copy of the row.
KeepsLedger ==
  /\ Ledger!Init
  /\ [][Ledger!Next \/ \E a \in Attempts : "overwritten" \in why'[a]]_vars

-----------------------------------------------------------------------------
(* The inductive invariant behind the safety properties (LoanRepayment_proofs) *)

\* The rows of the loan's attempts are 1..last.
AttemptsNumbered == \A a \in Attempts : tx[a] = "none" <=> a > last

\* A request that works on an attempt works on a recorded one, and only the
\* prompt of an attempt the provider knows is answered or resumed.
WorksOnRecorded ==
  \A r \in Requests :
    /\ req[r].at \notin {"idle", "expire", "lock", "create"} => req[r].att \in 1..last
    /\ req[r].at \in {"answered", "resume", "resend", "reanswered"} => col[req[r].att] # "absent"

\* Until it is sent an attempt is open and "initiating", and one request sends it.
UnsentIsOpen ==
  \A a \in 1..last : col[a] = "absent" => tx[a] = "pending" /\ action[a] = "initiating"

OneSender ==
  /\ \A r \in Requests : At(r, "initiate") => col[req[r].att] = "absent"
  /\ \A r, s \in Requests :
       At(r, "initiate") /\ At(s, "initiate") /\ req[r].att = req[s].att => r = s

\* A failure about to be recorded is the provider's, or its answer was lost.
FailureIsKnown ==
  \A r \in Requests :
    req[r].at \in {"answered", "reanswered"} /\ req[r].ans = "failed"
      => col[req[r].att] = "declined" \/ why[req[r].att] # {}

\* Only a start that retired an old row creates an attempt unchecked.
RetiredFirst == \A r \in Requests : At(r, "create") => Retired

RequestInv ==
  /\ WorksOnRecorded
  /\ OneSender
  /\ FailureIsKnown
  /\ RetiredFirst

LedgerInv ==
  /\ AttemptsNumbered
  /\ UnsentIsOpen
  /\ ClosedTogether
  /\ CompletedIsCollected
  /\ RecordedBeforePrompted
  /\ OnlyLatestOpen
  /\ FailedIsDead

SafetyInv == TypeOK /\ RequestInv /\ LedgerInv
=============================================================================
