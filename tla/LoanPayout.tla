----------------------------- MODULE LoanPayout -----------------------------
(***************************************************************************)
(* The life of one loan up to its payout: approval, rejection, cancel,     *)
(* disbursement and reconciliation, run by HTTP requests that interleave   *)
(* with each other and with the payment provider.                          *)
(*                                                                         *)
(* A request that awaits the provider, or is a threadpool handler, can be  *)
(* overtaken between any two steps below.  A block that holds the loan's   *)
(* row lock (SELECT ... FOR UPDATE up to the commit) is one step.          *)
(*                                                                         *)
(* The locked re-read of a row the session has already loaded returns the  *)
(* attributes loaded before the lock (the query does not repopulate a      *)
(* cached instance), unless a commit or db.expire_all() came in between.   *)
(* seen[r] is that cached status; LockedLoanStatus says where it is used.  *)
(***************************************************************************)
EXTENDS Naturals

CONSTANTS
  Requests,      \* concurrent HTTP requests about the loan
  MaxAttempts,   \* bound on the payout attempts created for the loan
  Faults         \* which of AllFaults the environment may exhibit

AllFaults == {"crash", "lost_answer", "unknown_id"}

ASSUME MaxAttemptsAssumption == MaxAttempts \in Nat \ {0}
ASSUME FaultsAssumption == Faults \subseteq AllFaults

VARIABLES
  loan,   \* loans.status
  tx,     \* transactions.status of each payout attempt, by creation order
  last,   \* the latest attempt, 0 when there is none
  prov,   \* what the provider did with the attempt's transfer
  lost,   \* attempts the provider accepted in an answer that was lost
  pc,     \* where each request is
  seen,   \* the loan status cached in each request's session
  att     \* the attempt each request works on

vars == <<loan, tx, last, prov, lost, pc, seen, att>>

Attempts == 1..MaxAttempts

LoanStatus == {"requested", "approved", "disbursed", "repaid", "rejected", "cancelled"}
TxStatus == {"none", "pending", "completed", "failed"}
Transfer == {"absent", "processing", "paid", "reversed"}
Phase == {"idle", "reject", "cancel", "refresh", "resolve", "poll", "relock",
          "send", "send_failed", "confirm", "reconcile", "reconcile_poll"}

TypeOK ==
  /\ loan \in LoanStatus
  /\ tx \in [Attempts -> TxStatus]
  /\ last \in 0..MaxAttempts
  /\ prov \in [Attempts -> Transfer]
  /\ lost \subseteq Attempts
  /\ pc \in [Requests -> Phase]
  /\ seen \in [Requests -> LoanStatus]
  /\ att \in [Requests -> 0..MaxAttempts]

Init ==
  /\ loan = "requested"
  /\ tx = [a \in Attempts |-> "none"]
  /\ last = 0
  /\ prov = [a \in Attempts |-> "absent"]
  /\ lost = {}
  /\ pc = [r \in Requests |-> "idle"]
  /\ seen = [r \in Requests |-> "requested"]
  /\ att = [r \in Requests |-> 0]

-----------------------------------------------------------------------------
(* Helpers *)

Goto(r, phase) == pc' = [pc EXCEPT ![r] = phase]

\* latest_loan_transaction(...): the newest payout row of the loan.
LatestPayout == IF last = 0 THEN "none" ELSE tx[last]

\* The status the first FOR UPDATE re-read of disburse_loan and the one of
\* cancel_loan see: the instance is already in the session's identity map.
LockedLoanStatus(r) == seen[r]

\* Mutant: a status the client does not know reads "failed".
TransferStatus_UnknownFails(a) ==
  CASE prov[a] \in {"absent", "processing"} -> {"pending", "failed"}
    [] prov[a] = "paid" -> {"pending", "completed"}
    [] prov[a] = "reversed" -> {"failed"}

\* transfer_status: an unknown reference, an HTTP error and a transfer under
\* way all read "pending"; a completed transfer may lack the loan's amount.
TransferStatus(a) ==
  {"pending"}
    \cup (IF prov[a] = "paid" THEN {"completed", "amount_mismatch"} ELSE {})
    \cup (IF prov[a] = "reversed" THEN {"failed"} ELSE {})

\* A later poll has only the reference we chose ourselves, which is all the row
\* keeps, and asks for it as if the provider had given it (id type "2").  With
\* "unknown_id" the provider knows no such transfer, and that reads "pending".
StoredStatus(a) == IF "unknown_id" \in Faults THEN {"pending"} ELSE TransferStatus(a)

\* Mutant: any answer but a failure completes the payout.
ApplyDisbursementStatus_PendingCompletes(a, answer) ==
  /\ tx' = [tx EXCEPT ![a] = IF answer = "failed" THEN "failed" ELSE "completed"]
  /\ loan' = IF answer = "failed" THEN loan ELSE "disbursed"

\* apply_disbursement_status: the compare-and-set of one provider answer, on
\* fresh rows.  Only an open attempt of an approved loan takes the answer.
ApplyDisbursementStatus(a, answer) ==
  LET open == tx[a] = "pending" /\ loan = "approved"
      adopts == tx[a] = "completed" /\ loan = "approved"
  IN \/ adopts /\ loan' = "disbursed" /\ UNCHANGED tx
     \/ /\ open /\ answer = "failed"
        /\ tx' = [tx EXCEPT ![a] = "failed"] /\ UNCHANGED loan
     \/ /\ open /\ answer = "completed"
        /\ tx' = [tx EXCEPT ![a] = "completed"] /\ loan' = "disbursed"
     \/ /\ ~adopts /\ (open => answer \in {"pending", "amount_mismatch"})
        /\ UNCHANGED <<loan, tx>>

\* The attempt row is inserted and committed before the transfer is sent.
CreateAttempt(r) ==
  /\ last < MaxAttempts
  /\ last' = last + 1
  /\ tx' = [tx EXCEPT ![last + 1] = "pending"]
  /\ att' = [att EXCEPT ![r] = last + 1]
  /\ Goto(r, "send")
  /\ UNCHANGED <<loan, prov, lost, seen>>

-----------------------------------------------------------------------------
(* Approve, reject, cancel *)

\* The first load of the row takes the lock, so the check is on fresh data.
ApproveLoan ==
  /\ loan = "requested"
  /\ loan' = "approved"
  /\ UNCHANGED <<tx, last, prov, lost, pc, seen, att>>

\* reject_loan checks an unlocked read ...
RejectRead(r) ==
  /\ pc[r] = "idle"
  /\ loan = "requested"
  /\ seen' = [seen EXCEPT ![r] = loan]
  /\ Goto(r, "reject")
  /\ UNCHANGED <<loan, tx, last, prov, lost, att>>

\* ... and writes without looking again.
RejectCommit(r) ==
  /\ pc[r] = "reject"
  /\ loan' = "rejected"
  /\ Goto(r, "idle")
  /\ UNCHANGED <<tx, last, prov, lost, seen, att>>

CancelRead(r) ==
  /\ pc[r] = "idle"
  /\ loan \in {"requested", "approved"}
  /\ seen' = [seen EXCEPT ![r] = loan]
  /\ Goto(r, "cancel")
  /\ UNCHANGED <<loan, tx, last, prov, lost, att>>

\* Mutant: only a completed payout stops a cancellation.
CancelCommit_IgnoresPending(r) ==
  /\ pc[r] = "cancel"
  /\ loan' = IF LatestPayout = "completed" THEN "disbursed" ELSE "cancelled"
  /\ Goto(r, "idle")
  /\ UNCHANGED <<tx, last, prov, lost, seen, att>>

\* Under the row lock: the loan's status is the cached one, the payout fresh.
CancelCommit(r) ==
  /\ pc[r] = "cancel"
  /\ LockedLoanStatus(r) \in {"requested", "approved"}
  /\ \/ LatestPayout = "pending" /\ UNCHANGED loan
     \/ LatestPayout = "completed" /\ loan' = "disbursed"
     \/ LatestPayout \in {"none", "failed"} /\ loan' = "cancelled"
  /\ Goto(r, "idle")
  /\ UNCHANGED <<tx, last, prov, lost, seen, att>>

-----------------------------------------------------------------------------
(* Disburse *)

\* The route's own check, before it commits the audit row.
DisburseCheck(r) ==
  /\ pc[r] = "idle"
  /\ loan = "approved"
  /\ Goto(r, "refresh")
  /\ UNCHANGED <<loan, tx, last, prov, lost, seen, att>>

\* The service touches loan.id: the expired instance is loaded again, and
\* then the wallet lookup is awaited.
DisburseRefresh(r) ==
  /\ pc[r] = "refresh"
  /\ seen' = [seen EXCEPT ![r] = loan]
  /\ Goto(r, "resolve")
  /\ UNCHANGED <<loan, tx, last, prov, lost, att>>

\* The wallet lookup fails, or the locked check refuses.
DisburseRefused(r) ==
  /\ pc[r] = "resolve"
  /\ Goto(r, "idle")
  /\ UNCHANGED <<loan, tx, last, prov, lost, seen, att>>

DisburseAdopts(r) ==
  /\ pc[r] = "resolve"
  /\ LockedLoanStatus(r) = "approved"
  /\ LatestPayout = "completed"
  /\ loan' = "disbursed"
  /\ Goto(r, "idle")
  /\ UNCHANGED <<tx, last, prov, lost, seen, att>>

DisbursePolls(r) ==
  /\ pc[r] = "resolve"
  /\ LockedLoanStatus(r) = "approved"
  /\ LatestPayout = "pending"
  /\ att' = [att EXCEPT ![r] = last]
  /\ Goto(r, "poll")
  /\ UNCHANGED <<loan, tx, last, prov, lost, seen>>

\* Mutant: an open payout is no reason to wait.
DisburseStarts_IgnoresPending(r) ==
  /\ pc[r] = "resolve"
  /\ LockedLoanStatus(r) = "approved"
  /\ LatestPayout # "completed"
  /\ CreateAttempt(r)

\* No open payout: nothing expires the cached loan before the second locked
\* read, so it sees the same status and the attempt is created.
DisburseStarts(r) ==
  /\ pc[r] = "resolve"
  /\ LockedLoanStatus(r) = "approved"
  /\ LatestPayout \in {"none", "failed"}
  /\ CreateAttempt(r)

\* The second locked check, on a row loaded after db.expire_all().
DisburseRecheck(r) ==
  \/ /\ loan # "approved" \/ LatestPayout = "pending"
     /\ Goto(r, "idle")
     /\ UNCHANGED <<loan, tx, last, prov, lost, seen, att>>
  \/ /\ loan = "approved" /\ LatestPayout = "completed"
     /\ loan' = "disbursed"
     /\ Goto(r, "idle")
     /\ UNCHANGED <<tx, last, prov, lost, seen, att>>
  \/ /\ loan = "approved" /\ LatestPayout \in {"none", "failed"}
     /\ CreateAttempt(r)

\* apply_disbursement_status has something to commit for a failed transfer.
FailureCommits(a) == loan = "approved" /\ tx[a] \in {"pending", "completed"}

\* The open attempt is asked about: anything but a failure ends the request.
\* A failure is applied, and a commit releases the locks before the second
\* check; without one the second check runs under the same locks.
DisbursePoll(r) ==
  /\ pc[r] = "poll"
  /\ \E answer \in StoredStatus(att[r]) :
       \/ /\ answer # "failed"
          /\ ApplyDisbursementStatus(att[r], answer)
          /\ Goto(r, "idle")
          /\ UNCHANGED <<last, prov, lost, seen, att>>
       \/ /\ answer = "failed"
          /\ FailureCommits(att[r])
          /\ ApplyDisbursementStatus(att[r], answer)
          /\ Goto(r, "relock")
          /\ UNCHANGED <<last, prov, lost, seen, att>>
       \/ /\ answer = "failed"
          /\ ~FailureCommits(att[r])
          /\ DisburseRecheck(r)

DisburseRelock(r) == pc[r] = "relock" /\ DisburseRecheck(r)

\* initiate_transfer.  The provider accepts or rejects the transfer; after
\* three tries without an answer _post reports a failure, although the
\* provider may have accepted it.
DisburseSend(r) ==
  /\ pc[r] = "send"
  /\ \/ /\ prov' = [prov EXCEPT ![att[r]] = "processing"]
        /\ Goto(r, "confirm")
        /\ UNCHANGED lost
     \/ /\ UNCHANGED <<prov, lost>>
        /\ Goto(r, "send_failed")
     \/ /\ "lost_answer" \in Faults
        /\ prov' = [prov EXCEPT ![att[r]] = "processing"]
        /\ lost' = lost \cup {att[r]}
        /\ Goto(r, "send_failed")
  /\ UNCHANGED <<loan, tx, last, seen, att>>

DisburseSendFailed(r) ==
  /\ pc[r] = "send_failed"
  /\ tx' = IF tx[att[r]] = "pending" THEN [tx EXCEPT ![att[r]] = "failed"] ELSE tx
  /\ Goto(r, "idle")
  /\ UNCHANGED <<loan, last, prov, lost, seen, att>>

\* The status is asked for and applied.  One step: the provider's terminal
\* answers are final and a "pending" one changes nothing, so an answer read
\* earlier acts like one read when it is applied.
DisburseConfirm(r) ==
  /\ pc[r] = "confirm"
  /\ \E answer \in TransferStatus(att[r]) : ApplyDisbursementStatus(att[r], answer)
  /\ Goto(r, "idle")
  /\ UNCHANGED <<last, prov, lost, seen, att>>

-----------------------------------------------------------------------------
(* Reconciliation requests *)

\* GET /disbursement-status reads the loan; any other status is only shown.
ReconcileRead(r) ==
  /\ pc[r] = "idle"
  /\ loan = "approved"
  /\ seen' = [seen EXCEPT ![r] = loan]
  /\ Goto(r, "reconcile")
  /\ UNCHANGED <<loan, tx, last, prov, lost, att>>

\* Then the latest payout.  The locked re-reads of a completed payout and of
\* its loan return the cached rows.
ReconcileLatest(r) ==
  /\ pc[r] = "reconcile"
  /\ loan' = IF LockedLoanStatus(r) = "approved" /\ LatestPayout = "completed"
             THEN "disbursed" ELSE loan
  /\ att' = [att EXCEPT ![r] = last]
  /\ Goto(r, IF LatestPayout = "pending" THEN "reconcile_poll" ELSE "idle")
  /\ UNCHANGED <<tx, last, prov, lost, seen>>

ReconcileApply(r) ==
  /\ pc[r] = "reconcile_poll"
  /\ \E answer \in StoredStatus(att[r]) : ApplyDisbursementStatus(att[r], answer)
  /\ Goto(r, "idle")
  /\ UNCHANGED <<last, prov, lost, seen, att>>

\* POST /transactions/{id}/reconcile on any payout attempt: fresh, locked
\* rows, no amount check, and a failed attempt may still become completed.
ReconcileTransaction(a) ==
  /\ tx[a] # "none"
  /\ \E answer \in StoredStatus(a) :
       tx' = [tx EXCEPT ![a] =
                IF answer \in {"completed", "amount_mismatch"} THEN "completed"
                ELSE IF answer = "failed" /\ tx[a] = "pending" THEN "failed"
                ELSE tx[a]]
  /\ loan' = IF tx'[a] = "completed" /\ loan = "approved" THEN "disbursed" ELSE loan
  /\ UNCHANGED <<last, prov, lost, pc, seen, att>>

-----------------------------------------------------------------------------
(* Environment *)

\* The provider settles a transfer it has accepted, once and for all.
ProviderSettles(a) ==
  /\ prov[a] = "processing"
  /\ \E result \in {"paid", "reversed"} : prov' = [prov EXCEPT ![a] = result]
  /\ UNCHANGED <<loan, tx, last, lost, pc, seen, att>>

\* The farmer repays (module LoanRepayment).
FarmerRepays ==
  /\ loan = "disbursed"
  /\ loan' = "repaid"
  /\ UNCHANGED <<tx, last, prov, lost, pc, seen, att>>

\* The process dies, or the provider client raises, at an await or between
\* two transactions; a transfer being sent may have left.
RequestDies(r) ==
  /\ "crash" \in Faults
  /\ pc[r] # "idle"
  /\ Goto(r, "idle")
  /\ \/ UNCHANGED prov
     \/ /\ pc[r] = "send"
        /\ prov' = [prov EXCEPT ![att[r]] = "processing"]
  /\ UNCHANGED <<loan, tx, last, lost, seen, att>>

-----------------------------------------------------------------------------
RequestStep(r) ==
  \/ RejectCommit(r)
  \/ CancelCommit(r)
  \/ DisburseRefresh(r)
  \/ DisburseRefused(r)
  \/ DisburseAdopts(r)
  \/ DisbursePolls(r)
  \/ DisburseStarts(r)
  \/ DisbursePoll(r)
  \/ DisburseRelock(r)
  \/ DisburseSend(r)
  \/ DisburseSendFailed(r)
  \/ DisburseConfirm(r)
  \/ ReconcileLatest(r)
  \/ ReconcileApply(r)

RequestArrives(r) ==
  \/ RejectRead(r)
  \/ CancelRead(r)
  \/ DisburseCheck(r)
  \/ ReconcileRead(r)

Next ==
  \/ ApproveLoan
  \/ FarmerRepays
  \/ \E r \in Requests : RequestArrives(r) \/ RequestStep(r) \/ RequestDies(r)
  \/ \E a \in Attempts : ReconcileTransaction(a) \/ ProviderSettles(a)

Spec == Init /\ [][Next]_vars

\* Fairness: the server finishes the requests it accepted, the provider
\* settles what it accepted, and an operator keeps asking about an attempt
\* until the provider's final answer gets through.
ReconcileConclusive(a) == ReconcileTransaction(a) /\ tx'[a] # "pending"

Fairness ==
  /\ \A r \in Requests : WF_vars(RequestStep(r))
  /\ \A a \in Attempts : WF_vars(ProviderSettles(a)) /\ SF_vars(ReconcileConclusive(a))

FairSpec == Spec /\ Fairness

-----------------------------------------------------------------------------
(* Properties *)

\* Only the latest attempt of a loan can be open.  Two disburse requests that
\* overlap, retry and poll never leave two attempts in flight.  (disburse_loan's
\* locked checks.)
OnlyLatestOpen == \A a \in Attempts : a < last => tx[a] # "pending"

\* A loan is shown as disbursed only when one of its payouts is recorded as
\* completed, and a payout is recorded as completed only when the provider
\* really paid, however stale the status a request decided on.
DisbursedMeansPaid ==
  /\ loan \in {"disbursed", "repaid"} => \E a \in Attempts : tx[a] = "completed"
  /\ \A a \in Attempts : tx[a] = "completed" => prov[a] = "paid"

\* Money never moves without a committed attempt row that says so, so that a
\* crash while sending leaves something to reconcile.
RecordedBeforeSent == \A a \in Attempts : prov[a] # "absent" => tx[a] # "none"

\* At most one transfer of the loan is under way or paid at the provider,
\* whatever is retried and under every fault: a second live transfer comes only
\* from an answer lost after three tries, which the code takes for a refusal.
OneAnsweredTransfer ==
  \A a, b \in Attempts \ lost :
    prov[a] \in {"processing", "paid"} /\ prov[b] \in {"processing", "paid"} => a = b

\* At the moment a loan is cancelled no payout of it is open or completed.
\* (cancel_loan reads the latest payout after it has the loan's row lock; an
\* earlier one may have been found paid if its answer was lost.)
CancelChecksPayout ==
  [][loan' = "cancelled" /\ loan # "cancelled"
       => \A a \in Attempts :
            tx[a] \in {"none", "failed"} \/ (tx[a] = "completed" /\ a \in lost)]_vars

\* Cancel a loan only while no payout is in flight or completed: hence a
\* cancelled loan has none.
CancelledHasNoPayout ==
  loan = "cancelled" => \A a \in Attempts : tx[a] \in {"none", "failed"}

\* An open payout that has reached the provider is eventually settled in the
\* ledger, also when the request that sent it died.  ("Reconcile it before
\* retrying", says disburse_loan.)  False with "unknown_id": once the sender's
\* own status call is over no later poll can settle it.
SentPayoutSettles ==
  \A a \in Attempts : tx[a] = "pending" /\ prov[a] # "absent" ~> tx[a] # "pending"

-----------------------------------------------------------------------------
(* The ledger's contract *)

LedgerRow(a) ==
  CASE tx[a] = "pending" -> "open"
    [] tx[a] = "completed" -> "paid"
    [] OTHER -> tx[a]

LedgerMoney(a) ==
  CASE prov[a] = "absent" -> "no"
    [] prov[a] = "processing" -> "asked"
    [] prov[a] = "paid" -> "moved"
    [] prov[a] = "reversed" -> "refused"

Ledger == INSTANCE LedgerContract WITH
  Payments <- Attempts,
  row <- [a \in Attempts |-> LedgerRow(a)],
  money <- [a \in Attempts |-> LedgerMoney(a)]

\* Payout attempts keep the contract: the row is committed before the transfer
\* is sent, says completed only when it was paid, and never takes that back.
KeepsLedger == Ledger!Spec

-----------------------------------------------------------------------------
(* The inductive invariant behind the safety properties (LoanPayout_proofs) *)

\* The rows of the loan's attempts are 1..last.
AttemptsNumbered == \A a \in Attempts : tx[a] = "none" <=> a > last

\* A request that works on an attempt works on a recorded one.
WorksOnRecorded ==
  \A r \in Requests :
    pc[r] \in {"poll", "relock", "send", "send_failed", "confirm", "reconcile_poll"}
      => att[r] \in 1..last

\* An attempt about to be sent is open and unknown to the provider, and only
\* one request sends it or holds its failed answer.
SenderOwnsAttempt ==
  /\ \A r \in Requests : pc[r] = "send" => tx[att[r]] = "pending" /\ prov[att[r]] = "absent"
  /\ \A r, s \in Requests :
       /\ pc[r] \in {"send", "send_failed"}
       /\ pc[s] \in {"send", "send_failed"}
       /\ att[r] = att[s]
       => r = s

SafetyInv ==
  /\ TypeOK
  /\ AttemptsNumbered
  /\ WorksOnRecorded
  /\ SenderOwnsAttempt
  /\ OnlyLatestOpen
  /\ DisbursedMeansPaid
  /\ RecordedBeforeSent

\* Unless its answer was lost, an attempt given up is dead at the provider,
\* and every attempt but the latest has been given up.
GivenUpIsDead ==
  /\ \A a \in Attempts : tx[a] = "failed" /\ a \notin lost => prov[a] \in {"absent", "reversed"}
  /\ \A r \in Requests : pc[r] = "send_failed" /\ att[r] \notin lost => prov[att[r]] = "absent"
  /\ \A a \in Attempts \ lost : a < last => tx[a] = "failed"

=============================================================================
