----------------------------- MODULE Settlement -----------------------------
(***************************************************************************)
(* The settlement of one produce sale: runs that are calculated, submitted *)
(* and approved, and the payout of their farmer lines through the payment  *)
(* provider, with retries and reconciliation.                              *)
(*                                                                         *)
(* A request is a sequence of database transactions.  A block that holds   *)
(* the rows it reads under FOR UPDATE is one step; the process can be      *)
(* overtaken wherever it awaits the provider or commits.                   *)
(***************************************************************************)
EXTENDS Naturals, FiniteSets

CONSTANTS
  Requests,      \* concurrent disburse and reconcile requests
  Members,       \* farmers who delivered to the sale's batch
  MaxRuns,       \* bound on the settlement runs calculated for the sale
  MaxAttempts,   \* bound on the payout batches of a run
  Environments   \* the sets of events (of AllEvents) that are considered

\* overlap: two requests work on one run at a time.
\* lost_answer: a transfer is accepted but its answer is lost.
\* client_error: the provider client raises instead of answering.
\* ledger_only: a webhook or POST /transactions/{id}/reconcile settles the
\* transaction of a line.
AllEvents == {"crash", "overlap", "lost_answer", "client_error", "ledger_only"}

ASSUME BoundsAssumption == MaxRuns \in Nat \ {0} /\ MaxAttempts \in Nat \ {0}
ASSUME EnvironmentsAssumption == Environments \subseteq SUBSET AllEvents

Runs == 1..MaxRuns
Attempts == 1..MaxAttempts
Lines == Runs \X Members
Payouts == Runs \X Members \X Attempts
LineOf(p) == <<p[1], p[2]>>

VARIABLES
  sale,      \* produce_sales.status, once its receipts cover the gross amount
  run,       \* settlement_runs.status
  line,      \* settlement_lines.status
  cut,       \* the lines with a loan deduction
  loan,      \* the status of each member's loan
  batches,   \* disbursement batches of each run
  tx,        \* transactions.status of each line's payout attempt
  prov,      \* what the provider did with the attempt's transfer
  pc,        \* where each request is
  at,        \* the run each request works on
  todo,      \* the payouts each request still has to visit
  cur,       \* the payout each request has sent and not yet recorded
  touched,   \* whether a reconciliation has a batch to roll up
  env        \* the events that may happen, fixed for a behaviour

state == <<sale, run, line, cut, loan, batches, tx, prov, pc, at, todo, cur, touched>>
vars == <<state, env>>
requestVars == <<pc, at, todo, cur, touched>>
bookVars == <<sale, run, line, cut, loan, batches, tx>>

NoPayout == <<0>>

SettlementStatus == {"none", "draft", "pending_approval", "approved", "processing",
                     "partially_paid", "completed"}
LineStatus == {"none", "pending", "processing", "paid", "failed"}
TxStatus == {"none", "pending", "completed", "failed"}
LoanStatus == {"none", "disbursed", "repaid"}
Transfer == {"absent", "processing", "paid", "mispaid", "reversed"}
Phase == {"idle", "disburse", "accepted", "refused", "reconcile", "settle"}

TypeOK ==
  /\ sale \in {"funded", "settled"}
  /\ run \in [Runs -> SettlementStatus]
  /\ line \in [Lines -> LineStatus]
  /\ cut \subseteq Lines
  /\ loan \in [Members -> LoanStatus]
  /\ batches \in [Runs -> 0..MaxAttempts]
  /\ tx \in [Payouts -> TxStatus]
  /\ prov \in [Payouts -> Transfer]
  /\ pc \in [Requests -> Phase]
  /\ at \in [Requests -> 0..MaxRuns]
  /\ todo \in [Requests -> SUBSET Payouts]
  /\ cur \in [Requests -> Payouts \cup {NoPayout}]
  /\ touched \in [Requests -> BOOLEAN]
  /\ env \in Environments

Init ==
  /\ sale = "funded"
  /\ run = [r \in Runs |-> "none"]
  /\ line = [l \in Lines |-> "none"]
  /\ cut = {}
  /\ loan \in [Members -> {"none", "disbursed"}]
  /\ batches = [r \in Runs |-> 0]
  /\ tx = [p \in Payouts |-> "none"]
  /\ prov = [p \in Payouts |-> "absent"]
  /\ pc = [q \in Requests |-> "idle"]
  /\ at = [q \in Requests |-> 0]
  /\ todo = [q \in Requests |-> {}]
  /\ cur = [q \in Requests |-> NoPayout]
  /\ touched = [q \in Requests |-> FALSE]
  /\ env \in Environments

-----------------------------------------------------------------------------
(* Calculate, submit, approve: each under the row lock of the sale or run *)

ActiveRun(r) == run[r] \notin {"none", "completed"}

\* Mutant: a submitted run no longer counts as active.
Calculate_DraftsOnly(r) ==
  /\ sale = "funded"
  /\ run[r] = "none"
  /\ \A s \in Runs : s < r => run[s] \notin {"none", "draft"}
  /\ run' = [run EXCEPT ![r] = "draft"]
  /\ line' = [l \in Lines |-> IF l[1] = r THEN "pending" ELSE line[l]]
  /\ UNCHANGED <<sale, cut, loan, batches, tx, prov, requestVars, env>>

\* Every member with an accepted delivery gets a line.  Deductions may eat a
\* line's gross amount up: such a line is born paid.  A member's outstanding
\* loan is deducted when enough is left.
Calculate(r) ==
  /\ sale = "funded"
  /\ run[r] = "none"
  /\ \A s \in Runs : s < r => run[s] # "none"
  /\ \A s \in Runs : ~ActiveRun(s)
  /\ run' = [run EXCEPT ![r] = "draft"]
  /\ \E zero \in SUBSET Members, deducted \in SUBSET {m \in Members : loan[m] = "disbursed"} :
       /\ line' = [l \in Lines |-> IF l[1] # r THEN line[l]
                                   ELSE IF l[2] \in zero THEN "paid" ELSE "pending"]
       /\ cut' = cut \cup ({r} \X deducted)
  /\ UNCHANGED <<sale, loan, batches, tx, prov, requestVars, env>>

SubmitSettlement(r) ==
  /\ run[r] = "draft"
  /\ run' = [run EXCEPT ![r] = "pending_approval"]
  /\ UNCHANGED <<sale, line, cut, loan, batches, tx, prov, requestVars, env>>

ApproveSettlement(r) ==
  /\ run[r] = "pending_approval"
  /\ run' = [run EXCEPT ![r] = "approved"]
  /\ UNCHANGED <<sale, line, cut, loan, batches, tx, prov, requestVars, env>>

-----------------------------------------------------------------------------
(* Roll-ups *)

LineStatuses(r) == {line[r, m] : m \in Members}

\* _refresh_rollups: the run's status from the statuses of its lines.
Rollup(r) ==
  IF LineStatuses(r) = {"paid"} THEN "completed"
  ELSE IF "failed" \in LineStatuses(r) THEN "partially_paid"
  ELSE "processing"

-----------------------------------------------------------------------------
(* Disburse and retry-failed *)

Free(q, r) ==
  /\ pc[q] = "idle"
  /\ "overlap" \in env \/ \A s \in Requests : at[s] # r

\* disburse takes the pending lines of a run without a batch, retry-failed
\* the failed lines of a run with one.
Eligible(r) ==
  {m \in Members : line[r, m] = IF batches[r] = 0 THEN "pending" ELSE "failed"}

\* Under the run's row lock: a batch, a pending transaction per line.
DisburseStart(q, r) ==
  /\ Free(q, r)
  /\ run[r] \in {"approved", "partially_paid"}
  /\ Eligible(r) # {}
  /\ batches[r] < MaxAttempts
  /\ LET a == batches[r] + 1
         sent == {r} \X Eligible(r) \X {a}
     IN /\ tx' = [p \in Payouts |-> IF p \in sent THEN "pending" ELSE tx[p]]
        /\ todo' = [todo EXCEPT ![q] = sent]
  /\ line' = [l \in Lines |-> IF l[1] = r /\ l[2] \in Eligible(r) THEN "processing" ELSE line[l]]
  /\ batches' = [batches EXCEPT ![r] = @ + 1]
  /\ run' = [run EXCEPT ![r] = "processing"]
  /\ pc' = [pc EXCEPT ![q] = "disburse"]
  /\ at' = [at EXCEPT ![q] = r]
  /\ UNCHANGED <<sale, cut, loan, prov, cur, touched, env>>

\* initiate_transfer for one line, in any order.  An answer that never
\* arrives reads as a refusal; an exception leaves the line alone.
DisburseSend(q) ==
  /\ pc[q] = "disburse"
  /\ \E p \in todo[q] :
       /\ todo' = [todo EXCEPT ![q] = @ \ {p}]
       /\ \/ /\ prov' = [prov EXCEPT ![p] = "processing"]
             /\ cur' = [cur EXCEPT ![q] = p]
             /\ pc' = [pc EXCEPT ![q] = "accepted"]
          \/ /\ UNCHANGED prov
             /\ cur' = [cur EXCEPT ![q] = p]
             /\ pc' = [pc EXCEPT ![q] = "refused"]
          \/ /\ "lost_answer" \in env
             /\ prov' = [prov EXCEPT ![p] = "processing"]
             /\ cur' = [cur EXCEPT ![q] = p]
             /\ pc' = [pc EXCEPT ![q] = "refused"]
          \/ /\ "client_error" \in env
             /\ prov' \in {prov, [prov EXCEPT ![p] = "processing"]}
             /\ UNCHANGED <<cur, pc>>
  /\ UNCHANGED <<bookVars, at, touched, env>>

\* Mutant: an accepted transfer is taken for a payment.
DisburseRecord_AcceptedIsPaid(q) ==
  /\ pc[q] \in {"accepted", "refused"}
  /\ line' = [line EXCEPT ![LineOf(cur[q])] = IF pc[q] = "accepted" THEN "paid" ELSE "failed"]
  /\ cur' = [cur EXCEPT ![q] = NoPayout]
  /\ pc' = [pc EXCEPT ![q] = "disburse"]
  /\ UNCHANGED <<sale, run, cut, loan, batches, tx, prov, at, todo, touched, env>>

\* The answer is recorded under the locks of the transaction and its line,
\* whatever their status has become in the meantime.
DisburseRecord(q) ==
  /\ pc[q] \in {"accepted", "refused"}
  /\ LET p == cur[q]
     IN IF pc[q] = "accepted"
        THEN line' = [line EXCEPT ![LineOf(p)] = "processing"] /\ UNCHANGED tx
        ELSE /\ line' = [line EXCEPT ![LineOf(p)] = "failed"]
             /\ tx' = [tx EXCEPT ![p] = "failed"]
  /\ cur' = [cur EXCEPT ![q] = NoPayout]
  /\ pc' = [pc EXCEPT ![q] = "disburse"]
  /\ UNCHANGED <<sale, run, cut, loan, batches, prov, at, todo, touched, env>>

Done(q) ==
  /\ pc' = [pc EXCEPT ![q] = "idle"]
  /\ at' = [at EXCEPT ![q] = 0]
  /\ todo' = [todo EXCEPT ![q] = {}]
  /\ cur' = [cur EXCEPT ![q] = NoPayout]
  /\ touched' = [touched EXCEPT ![q] = FALSE]

DisburseFinish(q) ==
  /\ pc[q] = "disburse"
  /\ todo[q] = {}
  /\ run' = [run EXCEPT ![at[q]] = Rollup(at[q])]
  /\ Done(q)
  /\ UNCHANGED <<sale, line, cut, loan, batches, tx, prov, env>>

-----------------------------------------------------------------------------
(* Reconcile *)

PendingOf(r) == {p \in Payouts : p[1] = r /\ tx[p] = "pending"}

\* Nothing is pending: only the sale of a completed run is left to close.
ReconcileNothing(r) ==
  /\ PendingOf(r) = {}
  /\ run[r] = "completed"
  /\ sale' = "settled"
  /\ UNCHANGED <<run, line, cut, loan, batches, tx, prov, requestVars, env>>

\* A wallet lookup that fails here ends the request with nothing changed.
ReconcileStart(q, r) ==
  /\ Free(q, r)
  /\ PendingOf(r) # {}
  /\ todo' = [todo EXCEPT ![q] = PendingOf(r)]
  /\ pc' = [pc EXCEPT ![q] = "reconcile"]
  /\ at' = [at EXCEPT ![q] = r]
  /\ UNCHANGED <<bookVars, prov, cur, touched, env>>

\* Mutant: a transfer that is not completed has failed.
TransferStatus_OpenIsFailed(p) == {IF prov[p] = "paid" THEN "completed" ELSE "failed"}

\* transfer_status: an unknown reference, an HTTP error and a transfer under
\* way all read "pending".  A transfer paid with another amount than the line's
\* is the same mismatch at every poll.
TransferStatus(p) ==
  {"pending"}
    \cup (IF prov[p] = "paid" THEN {"completed"} ELSE {})
    \cup (IF prov[p] = "mispaid" THEN {"amount_mismatch"} ELSE {})
    \cup (IF prov[p] = "reversed" THEN {"failed"} ELSE {})

\* A conclusive answer settles the transaction, its line and, when the line
\* was paid, the loan that was deducted from it.
Adopt(p, answer) ==
  /\ tx' = [tx EXCEPT ![p] = answer]
  /\ line' = [line EXCEPT ![LineOf(p)] = IF answer = "completed" THEN "paid" ELSE "failed"]
  /\ loan' = IF answer = "completed" /\ LineOf(p) \in cut /\ loan[p[2]] = "disbursed"
             THEN [loan EXCEPT ![p[2]] = "repaid"] ELSE loan

\* One pending payout is asked about and the answer applied to fresh, locked
\* rows: a transaction no longer pending is skipped.  One step, because the
\* provider's conclusive answers are final and "pending" changes nothing.
ReconcilePoll(q) ==
  /\ pc[q] = "reconcile"
  /\ \E p \in todo[q] :
       /\ todo' = [todo EXCEPT ![q] = @ \ {p}]
       /\ \E answer \in TransferStatus(p) :
            /\ IF tx[p] = "pending" /\ answer \in {"completed", "failed"}
               THEN Adopt(p, answer)
               ELSE UNCHANGED <<tx, line, loan>>
            /\ touched' = [touched EXCEPT ![q] =
                 @ \/ (tx[p] = "pending" /\ answer # "amount_mismatch")]
  /\ UNCHANGED <<sale, run, cut, batches, prov, pc, at, cur, env>>

\* Mutant: the run's status is left to the next payout batch.
ReconcileFinish_NoRollup(q) ==
  /\ pc[q] = "reconcile"
  /\ todo[q] = {}
  /\ pc' = [pc EXCEPT ![q] = "settle"]
  /\ UNCHANGED <<bookVars, prov, at, todo, cur, touched, env>>

ReconcileFinish(q) ==
  /\ pc[q] = "reconcile"
  /\ todo[q] = {}
  /\ run' = [run EXCEPT ![at[q]] = IF touched[q] THEN Rollup(at[q]) ELSE @]
  /\ pc' = [pc EXCEPT ![q] = "settle"]
  /\ UNCHANGED <<sale, line, cut, loan, batches, tx, prov, at, todo, cur, touched, env>>

\* After the farmers' SMS statements, in a transaction of its own.
SettleSale(q) ==
  /\ pc[q] = "settle"
  /\ sale' = IF run[at[q]] = "completed" THEN "settled" ELSE sale
  /\ Done(q)
  /\ UNCHANGED <<run, line, cut, loan, batches, tx, prov, env>>

\* Webhook, or POST /transactions/{id}/reconcile, on a payout's transaction:
\* the transaction alone is settled.  Only the latter revives a failed one or
\* overlooks another amount.
LedgerSettles(p) ==
  /\ "ledger_only" \in env
  /\ \/ tx[p] \in {"pending", "failed"} /\ prov[p] \in {"paid", "mispaid"}
        /\ tx' = [tx EXCEPT ![p] = "completed"]
     \/ tx[p] = "pending" /\ prov[p] = "reversed" /\ tx' = [tx EXCEPT ![p] = "failed"]
  /\ UNCHANGED <<sale, run, line, cut, loan, batches, prov, requestVars, env>>

-----------------------------------------------------------------------------
(* Environment *)

ProviderSettles(p) ==
  /\ prov[p] = "processing"
  /\ \E result \in {"paid", "mispaid", "reversed"} : prov' = [prov EXCEPT ![p] = result]
  /\ UNCHANGED <<bookVars, requestVars, env>>

\* The member repays from the phone (module LoanRepayment).
MemberRepays(m) ==
  /\ loan[m] = "disbursed"
  /\ loan' = [loan EXCEPT ![m] = "repaid"]
  /\ UNCHANGED <<sale, run, line, cut, batches, tx, prov, requestVars, env>>

\* The process dies between two transactions; a transfer may have left.
RequestDies(q) ==
  /\ "crash" \in env
  /\ pc[q] # "idle"
  /\ Done(q)
  /\ \/ UNCHANGED prov
     \/ /\ pc[q] = "disburse"
        /\ \E p \in todo[q] : prov' = [prov EXCEPT ![p] = "processing"]
  /\ UNCHANGED <<bookVars, env>>

-----------------------------------------------------------------------------
RequestStep(q) ==
  \/ DisburseSend(q)
  \/ DisburseRecord(q)
  \/ DisburseFinish(q)
  \/ ReconcilePoll(q)
  \/ ReconcileFinish(q)
  \/ SettleSale(q)

Next ==
  \/ \E r \in Runs :
       Calculate(r) \/ SubmitSettlement(r) \/ ApproveSettlement(r) \/ ReconcileNothing(r)
  \/ \E q \in Requests, r \in Runs : DisburseStart(q, r) \/ ReconcileStart(q, r)
  \/ \E q \in Requests : RequestStep(q) \/ RequestDies(q)
  \/ \E p \in Payouts : LedgerSettles(p) \/ ProviderSettles(p)
  \/ \E m \in Members : MemberRepays(m)

Spec == Init /\ [][Next]_vars

\* Fairness: the server finishes what it started, the provider settles what
\* it accepted, and the operator reconciles until the final answer arrives: a
\* poll asks by the provider's own id, which an accepted transfer's answer brings,
\* or by our reference (id type "1"), so it can.
ReconcileConclusive(q, p) ==
  ReconcilePoll(q) /\ tx[p] = "pending" /\ tx'[p] # "pending"

Fairness ==
  /\ \A q \in Requests :
       /\ WF_state(RequestStep(q) /\ pc[q] # "reconcile")
       /\ WF_state(ReconcilePoll(q))
       /\ WF_state(ReconcileFinish(q))
  /\ \A p \in Payouts :
       /\ WF_state(ProviderSettles(p))
       /\ SF_state(\E q \in Requests : ReconcileConclusive(q, p))
  /\ \A r \in Runs : SF_state(\E q \in Requests : ReconcileStart(q, r))

FairSpec == Spec /\ Fairness

-----------------------------------------------------------------------------
(* Properties *)

\* A sale has at most one run under way, however its runs are calculated,
\* unless two requests work on one of them.
OneActiveRun ==
  "overlap" \notin env => \A r, s \in Runs : ActiveRun(r) /\ ActiveRun(s) => r = s

\* A line is shown as paid by a payout only when one of its transactions is
\* completed, and a transaction is completed only when the provider paid it.
PaidIsBacked ==
  /\ \A l \in Lines :
       line[l] = "paid" /\ (\E a \in Attempts : tx[l[1], l[2], a] # "none")
         => \E a \in Attempts : tx[l[1], l[2], a] = "completed"
  /\ \A p \in Payouts : tx[p] = "completed" => prov[p] \in {"paid", "mispaid"}

\* The provider never holds a transfer of a line that has no transaction row.
SentIsRecorded == \A p \in Payouts : prov[p] # "absent" => tx[p] # "none"

\* At most one transfer of a line is under way or paid: retries never pay a
\* farmer twice, unless an answer was lost.
LinePaidOnce ==
  "lost_answer" \notin env =>
    \A p, s \in Payouts :
      /\ LineOf(p) = LineOf(s)
      /\ prov[p] \in {"processing", "paid", "mispaid"}
      /\ prov[s] \in {"processing", "paid", "mispaid"}
      => p = s

\* A paid line stays paid, unless two requests work on the run.
PaidStaysPaid ==
  [][\A l \in Lines :
       "overlap" \notin env /\ line[l] = "paid" => line'[l] = "paid"]_vars

\* A completed run has paid all of its lines, unless two requests work on it.
CompletedIsPaid ==
  "overlap" \notin env =>
    \A r \in Runs : run[r] = "completed" => \A m \in Members : line[r, m] = "paid"

\* A line that is being paid has a transaction reconciliation will look at.
ProcessingIsOpen ==
  \A l \in Lines :
    line[l] = "processing" => \E a \in Attempts : tx[l[1], l[2], a] = "pending"

\* The sale's verified funds pay each member at most once.
FundsPaidOnce ==
  \A p, s \in Payouts :
    /\ p[2] = s[2]
    /\ prov[p] \in {"paid", "mispaid"}
    /\ prov[s] \in {"paid", "mispaid"}
    => p[1] = s[1]

\* Nobody works on the run and no retry or reconciliation can move it: a
\* request died after its last record and before the roll-up, or a transaction
\* is open that the provider has never heard of, or paid with another amount.
Stranded(r) ==
  /\ \A q \in Requests : at[q] # r
  /\ \/ "crash" \in env /\ PendingOf(r) = {}
     \/ \E p \in PendingOf(r) : prov[p] \in {"absent", "mispaid"}

\* A run whose payout has started comes to a conclusion, all paid, or failed
\* lines that can be retried, under crashes, lost answers and clients that
\* raise; or it is stranded in one of the ways above and no other.  (Not so when
\* requests overlap or a webhook settles a transaction without its line.)
PayoutConcludes ==
  \A r \in Runs :
    env \cap {"overlap", "ledger_only"} = {} /\ run[r] = "processing"
      ~> run[r] \in {"completed", "partially_paid"} \/ Stranded(r)

=============================================================================
