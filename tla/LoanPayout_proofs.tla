-------------------------- MODULE LoanPayout_proofs --------------------------
(***************************************************************************)
(* Proofs about LoanPayout, for every number of requests and attempts.     *)
(*                                                                         *)
(* SafetyInv is inductive under every fault.  What keeps it so is that an  *)
(* attempt is created only under the loan's row lock, when the latest one  *)
(* is neither open nor completed, and that only its creator sends it.      *)
(***************************************************************************)
EXTENDS LoanPayout, TLAPS

USE MaxAttemptsAssumption

-----------------------------------------------------------------------------
(* Lemmas about the steps that several actions share *)

\* A poll by the stored reference learns nothing that the sender's own status
\* call could not.
LEMMA StoredIsStatus ==
  ASSUME NEW a
  PROVE  StoredStatus(a) \subseteq TransferStatus(a)
  BY DEF StoredStatus, TransferStatus

\* What apply_disbursement_status does with an answer the provider can give:
\* nothing, adopt a payout already completed, give up an open attempt the
\* provider reversed, or complete an open attempt the provider paid.
LEMMA StatusEffect ==
  ASSUME TypeOK, NEW a \in Attempts, NEW answer \in TransferStatus(a),
         ApplyDisbursementStatus(a, answer)
  PROVE  \/ loan' = loan /\ tx' = tx
         \/ loan' = "disbursed" /\ tx' = tx /\ tx[a] = "completed"
         \/ /\ answer = "failed" /\ tx[a] = "pending" /\ prov[a] = "reversed"
            /\ loan' = loan /\ tx' = [tx EXCEPT ![a] = "failed"]
         \/ /\ tx[a] = "pending" /\ prov[a] = "paid"
            /\ loan' = "disbursed" /\ tx' = [tx EXCEPT ![a] = "completed"]
  BY DEF TypeOK, TransferStatus, ApplyDisbursementStatus

\* A request that applies an answer and stops, or goes on to its second check.
LEMMA StatusSafe ==
  ASSUME SafetyInv, NEW r \in Requests, pc[r] \in {"poll", "confirm", "reconcile_poll"},
         NEW answer \in TransferStatus(att[r]), ApplyDisbursementStatus(att[r], answer),
         NEW phase \in {"idle", "relock"}, Goto(r, phase), UNCHANGED <<last, prov, lost, seen, att>>
  PROVE  SafetyInv'
<1> DEFINE a == att[r]
<1>1. a \in Attempts
  BY DEF SafetyInv, WorksOnRecorded, Attempts, TypeOK
<1>2. \/ loan' = loan /\ tx' = tx
      \/ loan' = "disbursed" /\ tx' = tx /\ tx[a] = "completed"
      \/ /\ tx[a] = "pending" /\ prov[a] = "reversed"
         /\ loan' = loan /\ tx' = [tx EXCEPT ![a] = "failed"]
      \/ /\ tx[a] = "pending" /\ prov[a] = "paid"
         /\ loan' = "disbursed" /\ tx' = [tx EXCEPT ![a] = "completed"]
  BY <1>1, StatusEffect DEF SafetyInv
<1>3. QED
  BY <1>1, <1>2 DEF SafetyInv, TypeOK, Attempts, LoanStatus, TxStatus, Transfer, Phase, Goto,
     LatestPayout, AttemptsNumbered, WorksOnRecorded, SenderOwnsAttempt, OnlyLatestOpen,
     DisbursedMeansPaid, RecordedBeforeSent

\* A new attempt, when the latest one is neither open nor completed.
LEMMA CreateAttemptSafe ==
  ASSUME SafetyInv, NEW r \in Requests, LatestPayout \in {"none", "failed"}, CreateAttempt(r)
  PROVE  SafetyInv'
<1> USE DEF CreateAttempt, Attempts, Goto
<1>1. TypeOK'
  BY DEF SafetyInv, TypeOK, TxStatus, Phase
<1>2. AttemptsNumbered'
  BY DEF SafetyInv, TypeOK, AttemptsNumbered
<1>3. WorksOnRecorded'
  BY DEF SafetyInv, TypeOK, WorksOnRecorded
<1>4. SenderOwnsAttempt'
  BY DEF SafetyInv, TypeOK, SenderOwnsAttempt, WorksOnRecorded, RecordedBeforeSent, AttemptsNumbered
<1>5. OnlyLatestOpen'
  BY DEF SafetyInv, TypeOK, OnlyLatestOpen, LatestPayout, AttemptsNumbered
<1>6. DisbursedMeansPaid'
  BY DEF SafetyInv, TypeOK, DisbursedMeansPaid, AttemptsNumbered
<1>7. RecordedBeforeSent'
  BY DEF SafetyInv, TypeOK, RecordedBeforeSent
<1>8. QED
  BY <1>1, <1>2, <1>3, <1>4, <1>5, <1>6, <1>7 DEF SafetyInv

\* The second locked check of disburse_loan.
LEMMA RecheckSafe ==
  ASSUME SafetyInv, NEW r \in Requests, DisburseRecheck(r)
  PROVE  SafetyInv'
<1>1. CASE /\ Goto(r, "idle")
           /\ UNCHANGED <<loan, tx, last, prov, lost, seen, att>>
  BY <1>1 DEF SafetyInv, TypeOK, Attempts, LoanStatus, TxStatus, Transfer, Phase, Goto,
     LatestPayout, AttemptsNumbered, WorksOnRecorded, SenderOwnsAttempt, OnlyLatestOpen,
     DisbursedMeansPaid, RecordedBeforeSent
<1>2. CASE /\ LatestPayout = "completed"
           /\ loan' = "disbursed"
           /\ Goto(r, "idle")
           /\ UNCHANGED <<tx, last, prov, lost, seen, att>>
  BY <1>2 DEF SafetyInv, TypeOK, Attempts, LoanStatus, TxStatus, Transfer, Phase, Goto,
     LatestPayout, AttemptsNumbered, WorksOnRecorded, SenderOwnsAttempt, OnlyLatestOpen,
     DisbursedMeansPaid, RecordedBeforeSent
<1>3. CASE LatestPayout \in {"none", "failed"} /\ CreateAttempt(r)
  BY <1>3, CreateAttemptSafe
<1>4. QED
  BY <1>1, <1>2, <1>3 DEF DisburseRecheck

\* initiate_transfer, whether or not its answer comes back.
LEMMA SendSafe ==
  ASSUME SafetyInv, NEW r \in Requests, pc[r] = "send",
         NEW fate \in {"absent", "processing"}, prov' = [prov EXCEPT ![att[r]] = fate],
         NEW phase \in {"idle", "confirm", "send_failed"}, Goto(r, phase),
         lost' \subseteq Attempts, UNCHANGED <<loan, tx, last, seen, att>>
  PROVE  SafetyInv'
<1> USE DEF Goto, Attempts
<1>1. att[r] \in 1..last /\ tx[att[r]] = "pending" /\ prov[att[r]] = "absent"
  BY DEF SafetyInv, WorksOnRecorded, SenderOwnsAttempt
<1>2. TypeOK'
  BY <1>1 DEF SafetyInv, TypeOK, Transfer, Phase
<1>3. AttemptsNumbered' /\ OnlyLatestOpen'
  BY DEF SafetyInv, AttemptsNumbered, OnlyLatestOpen
<1>4. WorksOnRecorded'
  BY <1>1 DEF SafetyInv, TypeOK, WorksOnRecorded
<1>5. SenderOwnsAttempt'
  <2>1. ASSUME NEW s \in Requests, pc'[s] = "send"
        PROVE  tx'[att'[s]] = "pending" /\ prov'[att'[s]] = "absent"
    <3>1. s # r /\ pc[s] = "send"
      BY <2>1 DEF SafetyInv, TypeOK
    <3>2. att[s] # att[r]
      BY <3>1 DEF SafetyInv, SenderOwnsAttempt
    <3>3. QED
      BY <3>1, <3>2 DEF SafetyInv, TypeOK, SenderOwnsAttempt, WorksOnRecorded
  <2>2. ASSUME NEW s \in Requests, NEW t \in Requests, att'[s] = att'[t],
               pc'[s] \in {"send", "send_failed"}, pc'[t] \in {"send", "send_failed"}
        PROVE  s = t
    BY <2>2 DEF SafetyInv, TypeOK, SenderOwnsAttempt
  <2>3. QED
    BY <2>1, <2>2 DEF SenderOwnsAttempt
<1>6. DisbursedMeansPaid' /\ RecordedBeforeSent'
  BY <1>1 DEF SafetyInv, TypeOK, DisbursedMeansPaid, RecordedBeforeSent
<1>7. QED
  BY <1>2, <1>3, <1>4, <1>5, <1>6 DEF SafetyInv

-----------------------------------------------------------------------------
\* The loan's rows stay well typed and numbered, only the latest attempt can
\* be open, a disbursed loan has really been paid and no transfer is unknown
\* to the ledger: under every fault and every interleaving of requests.
THEOREM SafetyInvariant == Spec => []SafetyInv
<1>1. Init => SafetyInv
  BY DEF Init, SafetyInv, TypeOK, Attempts, LoanStatus, TxStatus, Transfer, Phase,
     LatestPayout, AttemptsNumbered, WorksOnRecorded, SenderOwnsAttempt, OnlyLatestOpen,
     DisbursedMeansPaid, RecordedBeforeSent
<1>2. ASSUME SafetyInv, [Next]_vars PROVE SafetyInv'
  <2> USE <1>2
  <2>1. CASE ApproveLoan
    BY <2>1 DEF ApproveLoan, SafetyInv, TypeOK, Attempts, LoanStatus, TxStatus, Transfer, Phase, Goto,
       LatestPayout, AttemptsNumbered, WorksOnRecorded, SenderOwnsAttempt, OnlyLatestOpen,
       DisbursedMeansPaid, RecordedBeforeSent
  <2>2. ASSUME NEW r \in Requests, RejectRead(r) PROVE SafetyInv'
    BY <2>2 DEF RejectRead, SafetyInv, TypeOK, Attempts, LoanStatus, TxStatus, Transfer, Phase, Goto,
       LatestPayout, AttemptsNumbered, WorksOnRecorded, SenderOwnsAttempt, OnlyLatestOpen,
       DisbursedMeansPaid, RecordedBeforeSent
  <2>3. ASSUME NEW r \in Requests, RejectCommit(r) PROVE SafetyInv'
    BY <2>3 DEF RejectCommit, SafetyInv, TypeOK, Attempts, LoanStatus, TxStatus, Transfer, Phase, Goto,
       LatestPayout, AttemptsNumbered, WorksOnRecorded, SenderOwnsAttempt, OnlyLatestOpen,
       DisbursedMeansPaid, RecordedBeforeSent
  <2>4. ASSUME NEW r \in Requests, CancelRead(r) PROVE SafetyInv'
    BY <2>4 DEF CancelRead, SafetyInv, TypeOK, Attempts, LoanStatus, TxStatus, Transfer, Phase, Goto,
       LatestPayout, AttemptsNumbered, WorksOnRecorded, SenderOwnsAttempt, OnlyLatestOpen,
       DisbursedMeansPaid, RecordedBeforeSent
  <2>5. ASSUME NEW r \in Requests, CancelCommit(r) PROVE SafetyInv'
    BY <2>5 DEF CancelCommit, SafetyInv, TypeOK, Attempts, LoanStatus, TxStatus, Transfer, Phase, Goto,
       LatestPayout, AttemptsNumbered, WorksOnRecorded, SenderOwnsAttempt, OnlyLatestOpen,
       DisbursedMeansPaid, RecordedBeforeSent
  <2>6. ASSUME NEW r \in Requests, DisburseCheck(r) PROVE SafetyInv'
    BY <2>6 DEF DisburseCheck, SafetyInv, TypeOK, Attempts, LoanStatus, TxStatus, Transfer, Phase, Goto,
       LatestPayout, AttemptsNumbered, WorksOnRecorded, SenderOwnsAttempt, OnlyLatestOpen,
       DisbursedMeansPaid, RecordedBeforeSent
  <2>7. ASSUME NEW r \in Requests, DisburseRefresh(r) PROVE SafetyInv'
    BY <2>7 DEF DisburseRefresh, SafetyInv, TypeOK, Attempts, LoanStatus, TxStatus, Transfer, Phase, Goto,
       LatestPayout, AttemptsNumbered, WorksOnRecorded, SenderOwnsAttempt, OnlyLatestOpen,
       DisbursedMeansPaid, RecordedBeforeSent
  <2>8. ASSUME NEW r \in Requests, DisburseRefused(r) PROVE SafetyInv'
    BY <2>8 DEF DisburseRefused, SafetyInv, TypeOK, Attempts, LoanStatus, TxStatus, Transfer, Phase, Goto,
       LatestPayout, AttemptsNumbered, WorksOnRecorded, SenderOwnsAttempt, OnlyLatestOpen,
       DisbursedMeansPaid, RecordedBeforeSent
  <2>9. ASSUME NEW r \in Requests, DisburseAdopts(r) PROVE SafetyInv'
    BY <2>9 DEF DisburseAdopts, SafetyInv, TypeOK, Attempts, LoanStatus, TxStatus, Transfer, Phase, Goto,
       LatestPayout, AttemptsNumbered, WorksOnRecorded, SenderOwnsAttempt, OnlyLatestOpen,
       DisbursedMeansPaid, RecordedBeforeSent
  <2>10. ASSUME NEW r \in Requests, DisbursePolls(r) PROVE SafetyInv'
    BY <2>10 DEF DisbursePolls, SafetyInv, TypeOK, Attempts, LoanStatus, TxStatus, Transfer, Phase, Goto,
       LatestPayout, AttemptsNumbered, WorksOnRecorded, SenderOwnsAttempt, OnlyLatestOpen,
       DisbursedMeansPaid, RecordedBeforeSent
  <2>11. ASSUME NEW r \in Requests, DisburseStarts(r) PROVE SafetyInv'
    BY <2>11, CreateAttemptSafe DEF DisburseStarts
  <2>12. ASSUME NEW r \in Requests, DisbursePoll(r) PROVE SafetyInv'
    <3>1. StoredStatus(att[r]) \subseteq TransferStatus(att[r])
      BY StoredIsStatus
    <3>2. QED
      BY <3>1, <2>12, RecheckSafe, StatusSafe DEF DisbursePoll
  <2>13. ASSUME NEW r \in Requests, DisburseRelock(r) PROVE SafetyInv'
    BY <2>13, RecheckSafe DEF DisburseRelock
  <2>14. ASSUME NEW r \in Requests, DisburseSend(r) PROVE SafetyInv'
    <3>1. /\ pc[r] = "send" /\ UNCHANGED <<loan, tx, last, seen, att>>
          /\ prov[att[r]] = "absent" /\ att[r] \in Attempts /\ prov \in [Attempts -> Transfer]
      BY <2>14 DEF DisburseSend, SafetyInv, TypeOK, WorksOnRecorded, SenderOwnsAttempt, Attempts
    <3>2. \/ prov' = [prov EXCEPT ![att[r]] = "processing"]
          \/ prov' = [prov EXCEPT ![att[r]] = "absent"]
      BY <2>14, <3>1 DEF DisburseSend
    <3>3. Goto(r, "confirm") \/ Goto(r, "send_failed")
      BY <2>14 DEF DisburseSend
    <3>4. lost' \subseteq Attempts
      BY <2>14, <3>1 DEF DisburseSend, SafetyInv, TypeOK
    <3>5. QED
      BY <3>1, <3>2, <3>3, <3>4, SendSafe
  <2>15. ASSUME NEW r \in Requests, DisburseSendFailed(r) PROVE SafetyInv'
    BY <2>15 DEF DisburseSendFailed, SafetyInv, TypeOK, Attempts, LoanStatus, TxStatus, Transfer, Phase, Goto,
       LatestPayout, AttemptsNumbered, WorksOnRecorded, SenderOwnsAttempt, OnlyLatestOpen,
       DisbursedMeansPaid, RecordedBeforeSent
  <2>16. ASSUME NEW r \in Requests, DisburseConfirm(r) PROVE SafetyInv'
    BY <2>16, StatusSafe DEF DisburseConfirm
  <2>17. ASSUME NEW r \in Requests, ReconcileRead(r) PROVE SafetyInv'
    BY <2>17 DEF ReconcileRead, SafetyInv, TypeOK, Attempts, LoanStatus, TxStatus, Transfer, Phase, Goto,
       LatestPayout, AttemptsNumbered, WorksOnRecorded, SenderOwnsAttempt, OnlyLatestOpen,
       DisbursedMeansPaid, RecordedBeforeSent
  <2>18. ASSUME NEW r \in Requests, ReconcileLatest(r) PROVE SafetyInv'
    BY <2>18 DEF ReconcileLatest, SafetyInv, TypeOK, Attempts, LoanStatus, TxStatus, Transfer, Phase, Goto,
       LatestPayout, AttemptsNumbered, WorksOnRecorded, SenderOwnsAttempt, OnlyLatestOpen,
       DisbursedMeansPaid, RecordedBeforeSent
  <2>19. ASSUME NEW r \in Requests, ReconcileApply(r) PROVE SafetyInv'
    <3>1. StoredStatus(att[r]) \subseteq TransferStatus(att[r])
      BY StoredIsStatus
    <3>2. QED
      BY <3>1, <2>19, StatusSafe DEF ReconcileApply
  <2>20. ASSUME NEW r \in Requests, RequestDies(r) PROVE SafetyInv'
    <3>1. CASE UNCHANGED prov
      BY <2>20, <3>1 DEF RequestDies, SafetyInv, TypeOK, Attempts, LoanStatus, TxStatus, Transfer, Phase, Goto,
         LatestPayout, AttemptsNumbered, WorksOnRecorded, SenderOwnsAttempt, OnlyLatestOpen,
         DisbursedMeansPaid, RecordedBeforeSent
    <3>2. CASE pc[r] = "send" /\ prov' = [prov EXCEPT ![att[r]] = "processing"]
      BY <2>20, <3>2, SendSafe DEF RequestDies, SafetyInv, TypeOK
    <3>3. QED
      BY <2>20, <3>1, <3>2 DEF RequestDies
  <2>21. ASSUME NEW a \in Attempts, ReconcileTransaction(a) PROVE SafetyInv'
    BY <2>21 DEF ReconcileTransaction, StoredStatus, TransferStatus, SafetyInv, TypeOK, Attempts, LoanStatus, TxStatus, Transfer, Phase, Goto,
       LatestPayout, AttemptsNumbered, WorksOnRecorded, SenderOwnsAttempt, OnlyLatestOpen,
       DisbursedMeansPaid, RecordedBeforeSent
  <2>22. ASSUME NEW a \in Attempts, ProviderSettles(a) PROVE SafetyInv'
    BY <2>22 DEF ProviderSettles, SafetyInv, TypeOK, Attempts, LoanStatus, TxStatus, Transfer, Phase, Goto,
       LatestPayout, AttemptsNumbered, WorksOnRecorded, SenderOwnsAttempt, OnlyLatestOpen,
       DisbursedMeansPaid, RecordedBeforeSent
  <2>23. CASE FarmerRepays
    BY <2>23 DEF FarmerRepays, SafetyInv, TypeOK, Attempts, LoanStatus, TxStatus, Transfer, Phase, Goto,
       LatestPayout, AttemptsNumbered, WorksOnRecorded, SenderOwnsAttempt, OnlyLatestOpen,
       DisbursedMeansPaid, RecordedBeforeSent
  <2>24. CASE UNCHANGED vars
    BY <2>24 DEF vars, SafetyInv, TypeOK, Attempts, LoanStatus, TxStatus, Transfer, Phase, Goto,
       LatestPayout, AttemptsNumbered, WorksOnRecorded, SenderOwnsAttempt, OnlyLatestOpen,
       DisbursedMeansPaid, RecordedBeforeSent
  <2>25. QED
    BY <2>1, <2>2, <2>3, <2>4, <2>5, <2>6, <2>7, <2>8, <2>9, <2>10, <2>11, <2>12, <2>13, <2>14, <2>15, <2>16, <2>17, <2>18, <2>19, <2>20, <2>21, <2>22, <2>23, <2>24
    DEF Next, RequestStep, RequestArrives
<1>3. QED
  BY <1>1, <1>2, PTL DEF Spec

-----------------------------------------------------------------------------
(* Its consequences *)

\* Every variable keeps its type.
THEOREM TypeCorrect == Spec => []TypeOK
<1>1. SafetyInv => TypeOK
  BY DEF SafetyInv
<1>2. QED
  BY <1>1, SafetyInvariant, PTL

\* Overlapping disburse requests never leave two attempts of a loan open.
THEOREM LatestOpen == Spec => []OnlyLatestOpen
<1>1. SafetyInv => OnlyLatestOpen
  BY DEF SafetyInv
<1>2. QED
  BY <1>1, SafetyInvariant, PTL

\* A loan shown as disbursed was paid, also when a stale request said so.
THEOREM DisbursedPaid == Spec => []DisbursedMeansPaid
<1>1. SafetyInv => DisbursedMeansPaid
  BY DEF SafetyInv
<1>2. QED
  BY <1>1, SafetyInvariant, PTL

\* No transfer exists that the ledger does not know of.
THEOREM SentIsRecorded == Spec => []RecordedBeforeSent
<1>1. SafetyInv => RecordedBeforeSent
  BY DEF SafetyInv
<1>2. QED
  BY <1>1, SafetyInvariant, PTL

-----------------------------------------------------------------------------
(***************************************************************************)
(* Unless the provider's answer to its transfer was lost, an attempt is    *)
(* given up only when its transfer is dead.                                *)
(***************************************************************************)
LEMMA GivenUpStatus ==
  ASSUME SafetyInv, GivenUpIsDead, NEW r \in Requests,
         pc[r] \in {"poll", "confirm", "reconcile_poll"},
         NEW answer \in TransferStatus(att[r]), ApplyDisbursementStatus(att[r], answer),
         NEW phase \in {"idle", "relock"}, Goto(r, phase), UNCHANGED <<last, prov, lost, seen, att>>
  PROVE  GivenUpIsDead'
<1>1. att[r] \in Attempts
  BY DEF SafetyInv, WorksOnRecorded, Attempts, TypeOK
<1>2. \/ tx' = tx
      \/ tx[att[r]] = "pending" /\ prov[att[r]] = "reversed" /\ tx' = [tx EXCEPT ![att[r]] = "failed"]
      \/ tx[att[r]] = "pending" /\ prov[att[r]] = "paid" /\ tx' = [tx EXCEPT ![att[r]] = "completed"]
  BY <1>1, StatusEffect DEF SafetyInv
<1>3. tx[att[r]] = "pending" => att[r] = last
  BY <1>1 DEF SafetyInv, TypeOK, OnlyLatestOpen, AttemptsNumbered, Attempts
<1>4. QED
  BY <1>1, <1>2, <1>3 DEF GivenUpIsDead, SafetyInv, TypeOK, Goto, Attempts

LEMMA GivenUpCreate ==
  ASSUME SafetyInv, GivenUpIsDead, NEW r \in Requests,
         LatestPayout \in {"none", "failed"}, CreateAttempt(r)
  PROVE  GivenUpIsDead'
<1> USE DEF SafetyInv, TypeOK, Attempts, CreateAttempt
<1>1. \A a \in Attempts :
        tx'[a] = "failed" /\ a \notin lost' => prov'[a] \in {"absent", "reversed"}
  BY DEF GivenUpIsDead
<1>2. \A s \in Requests :
        pc'[s] = "send_failed" /\ att'[s] \notin lost' => prov'[att'[s]] = "absent"
  BY DEF GivenUpIsDead, Goto
<1>3. \A a \in Attempts \ lost' : a < last' => tx'[a] = "failed"
  BY DEF GivenUpIsDead, LatestPayout, AttemptsNumbered
<1>4. QED
  BY <1>1, <1>2, <1>3 DEF GivenUpIsDead

LEMMA GivenUpRecheck ==
  ASSUME SafetyInv, GivenUpIsDead, NEW r \in Requests, DisburseRecheck(r)
  PROVE  GivenUpIsDead'
<1>1. CASE /\ Goto(r, "idle")
           /\ UNCHANGED <<tx, last, prov, lost, att>>
  BY <1>1 DEF GivenUpIsDead, SafetyInv, TypeOK, Goto
<1>2. CASE LatestPayout \in {"none", "failed"} /\ CreateAttempt(r)
  BY <1>2, GivenUpCreate
<1>3. QED
  BY <1>1, <1>2 DEF DisburseRecheck

LEMMA GivenUpStep ==
  ASSUME SafetyInv, GivenUpIsDead, [Next]_vars
  PROVE  GivenUpIsDead'
<1> USE DEF GivenUpIsDead, SafetyInv, TypeOK, Goto, Attempts
<1>1. CASE ApproveLoan
  BY <1>1 DEF ApproveLoan
<1>2. ASSUME NEW r \in Requests, RejectRead(r) PROVE GivenUpIsDead'
  BY <1>2 DEF RejectRead
<1>3. ASSUME NEW r \in Requests, RejectCommit(r) PROVE GivenUpIsDead'
  BY <1>3 DEF RejectCommit
<1>4. ASSUME NEW r \in Requests, CancelRead(r) PROVE GivenUpIsDead'
  BY <1>4 DEF CancelRead
<1>5. ASSUME NEW r \in Requests, CancelCommit(r) PROVE GivenUpIsDead'
  BY <1>5 DEF CancelCommit
<1>6. ASSUME NEW r \in Requests, DisburseCheck(r) PROVE GivenUpIsDead'
  BY <1>6 DEF DisburseCheck
<1>7. ASSUME NEW r \in Requests, DisburseRefresh(r) PROVE GivenUpIsDead'
  BY <1>7 DEF DisburseRefresh
<1>8. ASSUME NEW r \in Requests, DisburseRefused(r) PROVE GivenUpIsDead'
  BY <1>8 DEF DisburseRefused
<1>9. ASSUME NEW r \in Requests, DisburseAdopts(r) PROVE GivenUpIsDead'
  BY <1>9 DEF DisburseAdopts
<1>10. ASSUME NEW r \in Requests, DisbursePolls(r) PROVE GivenUpIsDead'
  BY <1>10 DEF DisbursePolls
<1>11. ASSUME NEW r \in Requests, DisburseStarts(r) PROVE GivenUpIsDead'
  BY <1>11, GivenUpCreate DEF DisburseStarts
<1>12. ASSUME NEW r \in Requests, DisbursePoll(r) PROVE GivenUpIsDead'
  <2>1. StoredStatus(att[r]) \subseteq TransferStatus(att[r])
    BY StoredIsStatus
  <2>2. QED
    BY <2>1, <1>12, GivenUpRecheck, GivenUpStatus DEF DisbursePoll
<1>13. ASSUME NEW r \in Requests, DisburseRelock(r) PROVE GivenUpIsDead'
  BY <1>13, GivenUpRecheck DEF DisburseRelock
<1>14. ASSUME NEW r \in Requests, DisburseSend(r) PROVE GivenUpIsDead'
  <2>1. /\ pc[r] = "send" /\ tx[att[r]] = "pending" /\ prov[att[r]] = "absent" /\ att[r] \in Attempts
        /\ UNCHANGED <<tx, last, att>>
        /\ lost \subseteq lost'
        /\ \/ UNCHANGED prov
           \/ prov' = [prov EXCEPT ![att[r]] = "processing"] /\ Goto(r, "confirm")
           \/ prov' = [prov EXCEPT ![att[r]] = "processing"] /\ att[r] \in lost'
        /\ \E phase \in {"confirm", "send_failed"} : Goto(r, phase)
    BY <1>14 DEF DisburseSend, SenderOwnsAttempt, WorksOnRecorded
  <2>2. \A a \in Attempts :
          tx'[a] = "failed" /\ a \notin lost' => prov'[a] \in {"absent", "reversed"}
    BY <2>1
  <2>3. ASSUME NEW s \in Requests, pc'[s] = "send_failed", att'[s] \notin lost'
        PROVE  prov'[att'[s]] = "absent"
    <3>1. CASE s = r
      BY <2>1, <2>3, <3>1
    <3>2. CASE s # r
      BY <2>1, <2>3, <3>2 DEF SenderOwnsAttempt, WorksOnRecorded
    <3>3. QED
      BY <3>1, <3>2
  <2>4. \A a \in Attempts \ lost' : a < last' => tx'[a] = "failed"
    BY <2>1
  <2>5. QED
    BY <2>2, <2>3, <2>4
<1>15. ASSUME NEW r \in Requests, DisburseSendFailed(r) PROVE GivenUpIsDead'
  BY <1>15 DEF DisburseSendFailed, SenderOwnsAttempt, WorksOnRecorded, OnlyLatestOpen
<1>16. ASSUME NEW r \in Requests, DisburseConfirm(r) PROVE GivenUpIsDead'
  BY <1>16, GivenUpStatus DEF DisburseConfirm
<1>17. ASSUME NEW r \in Requests, ReconcileRead(r) PROVE GivenUpIsDead'
  BY <1>17 DEF ReconcileRead
<1>18. ASSUME NEW r \in Requests, ReconcileLatest(r) PROVE GivenUpIsDead'
  BY <1>18 DEF ReconcileLatest
<1>19. ASSUME NEW r \in Requests, ReconcileApply(r) PROVE GivenUpIsDead'
  <2>1. StoredStatus(att[r]) \subseteq TransferStatus(att[r])
    BY StoredIsStatus
  <2>2. QED
    BY <2>1, <1>19, GivenUpStatus DEF ReconcileApply
<1>20. ASSUME NEW r \in Requests, RequestDies(r) PROVE GivenUpIsDead'
  BY <1>20 DEF RequestDies, SenderOwnsAttempt, WorksOnRecorded
<1>21. ASSUME NEW a \in Attempts, ReconcileTransaction(a) PROVE GivenUpIsDead'
  BY <1>21 DEF ReconcileTransaction, StoredStatus, TransferStatus, OnlyLatestOpen
<1>22. ASSUME NEW a \in Attempts, ProviderSettles(a) PROVE GivenUpIsDead'
  BY <1>22 DEF ProviderSettles, SenderOwnsAttempt, WorksOnRecorded
<1>23. CASE FarmerRepays
  BY <1>23 DEF FarmerRepays
<1>24. CASE UNCHANGED vars
  BY <1>24 DEF vars
<1>25. QED
  BY <1>1, <1>2, <1>3, <1>4, <1>5, <1>6, <1>7, <1>8, <1>9, <1>10, <1>11, <1>12, <1>13, <1>14, <1>15, <1>16, <1>17, <1>18, <1>19, <1>20, <1>21, <1>22, <1>23, <1>24
  DEF Next, RequestStep, RequestArrives

\* An attempt the ledger gave up is dead at the provider, unless its answer
\* was lost.
THEOREM GivenUpInvariant == Spec => []GivenUpIsDead
<1>1. Init => GivenUpIsDead
  BY DEF Init, GivenUpIsDead, Attempts
<1>2. SafetyInv /\ GivenUpIsDead /\ [Next]_vars => GivenUpIsDead'
  BY GivenUpStep
<1>3. QED
  BY <1>1, <1>2, SafetyInvariant, PTL DEF Spec

\* The farmer is paid at most once, however the requests retry, overlap and
\* die, but for attempts whose answer was lost.
THEOREM PaidOnce == Spec => []OneAnsweredTransfer
<1>1. SafetyInv /\ GivenUpIsDead => OneAnsweredTransfer
  <2> SUFFICES ASSUME SafetyInv, GivenUpIsDead,
                      NEW a \in Attempts \ lost, NEW b \in Attempts \ lost,
                      prov[a] \in {"processing", "paid"}, prov[b] \in {"processing", "paid"}
               PROVE  a = b
    BY DEF OneAnsweredTransfer
  <2>1. \A c \in {a, b} : tx[c] # "none" /\ tx[c] # "failed"
    BY DEF SafetyInv, RecordedBeforeSent, GivenUpIsDead
  <2>2. \A c \in {a, b} : c = last
    BY <2>1 DEF SafetyInv, TypeOK, AttemptsNumbered, GivenUpIsDead, Attempts
  <2>3. QED
    BY <2>2
<1>2. QED
  BY <1>1, SafetyInvariant, GivenUpInvariant, PTL

\* A loan is cancelled only when every payout attempt has been given up, but
\* for an attempt whose answer was lost and which was found paid later.
THEOREM CancelSafe == Spec => CancelChecksPayout
<1>1. ASSUME SafetyInv, GivenUpIsDead, [Next]_vars, loan' = "cancelled", loan # "cancelled"
      PROVE  \A a \in Attempts :
               tx[a] \in {"none", "failed"} \/ (tx[a] = "completed" /\ a \in lost)
  <2>1. PICK r \in Requests : CancelCommit(r)
    BY <1>1 DEF Next, RequestStep, RequestArrives, vars, ApproveLoan, RejectRead, RejectCommit, CancelRead,
       DisburseCheck, DisburseRefresh, DisburseRefused, DisburseAdopts, DisbursePolls,
       DisburseStarts, DisbursePoll, DisburseRelock, DisburseRecheck, CreateAttempt,
       DisburseSend, DisburseSendFailed, DisburseConfirm, ReconcileRead, ReconcileLatest,
       ReconcileApply, RequestDies, ReconcileTransaction, ProviderSettles, FarmerRepays,
       ApplyDisbursementStatus
  <2>2. LatestPayout \in {"none", "failed"}
    BY <1>1, <2>1 DEF CancelCommit, LatestPayout, SafetyInv, TypeOK, TxStatus, Attempts
  <2>3. QED
    BY <1>1, <2>2 DEF SafetyInv, TypeOK, TxStatus, GivenUpIsDead, AttemptsNumbered,
       OnlyLatestOpen, LatestPayout, Attempts
<1>2. QED
  BY <1>1, SafetyInvariant, GivenUpInvariant, PTL DEF Spec, CancelChecksPayout

-----------------------------------------------------------------------------
(***************************************************************************)
(* The refinement: every step is, for every attempt, a step of the         *)
(* ledger's contract or none.                                              *)
(***************************************************************************)

\* A step of the contract, said of an attempt's row and transfer.
Kept(a) ==
  \/ tx'[a] = tx[a] /\ prov'[a] = prov[a]
  \/ tx[a] = "none" /\ tx'[a] = "pending" /\ prov'[a] = prov[a]
  \/ tx[a] # "none" /\ tx'[a] = tx[a] /\ prov[a] = "absent" /\ prov'[a] = "processing"
  \/ tx'[a] = tx[a] /\ prov[a] = "processing" /\ prov'[a] \in {"paid", "reversed"}
  \/ tx[a] \in {"pending", "failed"} /\ tx'[a] = "completed" /\ prov[a] = "paid" /\ prov'[a] = "paid"
  \/ tx[a] = "pending" /\ tx'[a] = "failed" /\ prov'[a] = prov[a]

LEMMA KeptStatus ==
  ASSUME SafetyInv, NEW r \in Requests, pc[r] \in {"poll", "confirm", "reconcile_poll"},
         NEW answer \in TransferStatus(att[r]), ApplyDisbursementStatus(att[r], answer),
         UNCHANGED prov
  PROVE  \A a \in Attempts : Kept(a)
<1>1. att[r] \in Attempts
  BY DEF SafetyInv, WorksOnRecorded, Attempts, TypeOK
<1>2. \/ tx' = tx
      \/ tx[att[r]] = "pending" /\ tx' = [tx EXCEPT ![att[r]] = "failed"]
      \/ tx[att[r]] = "pending" /\ prov[att[r]] = "paid" /\ tx' = [tx EXCEPT ![att[r]] = "completed"]
  BY <1>1, StatusEffect DEF SafetyInv
<1>3. QED
  BY <1>1, <1>2 DEF SafetyInv, TypeOK, Kept

LEMMA KeptCreate ==
  ASSUME SafetyInv, NEW r \in Requests, CreateAttempt(r)
  PROVE  \A a \in Attempts : Kept(a)
BY DEF CreateAttempt, SafetyInv, TypeOK, AttemptsNumbered, Kept, Attempts

LEMMA KeptRecheck ==
  ASSUME SafetyInv, NEW r \in Requests, DisburseRecheck(r)
  PROVE  \A a \in Attempts : Kept(a)
<1>1. CASE UNCHANGED <<tx, prov>>
  BY <1>1 DEF Kept
<1>2. CASE CreateAttempt(r)
  BY <1>2, KeptCreate
<1>3. QED
  BY <1>1, <1>2 DEF DisburseRecheck

LEMMA KeptStep ==
  ASSUME SafetyInv, [Next]_vars
  PROVE  \A a \in Attempts : Kept(a)
<1> DEFINE Goal == \A a \in Attempts : Kept(a)
<1>1. CASE UNCHANGED <<tx, prov>>
  BY <1>1 DEF Kept
<1>2. ASSUME NEW r \in Requests, DisburseStarts(r) PROVE Goal
  BY <1>2, KeptCreate DEF DisburseStarts
<1>3. ASSUME NEW r \in Requests, DisbursePoll(r) PROVE Goal
  <2>1. StoredStatus(att[r]) \subseteq TransferStatus(att[r])
    BY StoredIsStatus
  <2>2. QED
    BY <2>1, <1>3, KeptRecheck, KeptStatus DEF DisbursePoll
<1>4. ASSUME NEW r \in Requests, DisburseRelock(r) PROVE Goal
  BY <1>4, KeptRecheck DEF DisburseRelock
<1>5. ASSUME NEW r \in Requests, DisburseSend(r) PROVE Goal
  BY <1>5 DEF DisburseSend, Kept, SafetyInv, TypeOK, SenderOwnsAttempt
<1>6. ASSUME NEW r \in Requests, DisburseSendFailed(r) PROVE Goal
  BY <1>6 DEF DisburseSendFailed, Kept, SafetyInv, TypeOK
<1>7. ASSUME NEW r \in Requests, DisburseConfirm(r) PROVE Goal
  BY <1>7, KeptStatus DEF DisburseConfirm
<1>8. ASSUME NEW r \in Requests, ReconcileApply(r) PROVE Goal
  <2>1. StoredStatus(att[r]) \subseteq TransferStatus(att[r])
    BY StoredIsStatus
  <2>2. QED
    BY <2>1, <1>8, KeptStatus DEF ReconcileApply
<1>9. ASSUME NEW r \in Requests, RequestDies(r) PROVE Goal
  BY <1>9 DEF RequestDies, Kept, SafetyInv, TypeOK, SenderOwnsAttempt
<1>10. ASSUME NEW b \in Attempts, ReconcileTransaction(b) PROVE Goal
  <2>1. PICK answer \in StoredStatus(b) :
          tx' = [tx EXCEPT ![b] =
                   IF answer \in {"completed", "amount_mismatch"} THEN "completed"
                   ELSE IF answer = "failed" /\ tx[b] = "pending" THEN "failed"
                   ELSE tx[b]]
    BY <1>10 DEF ReconcileTransaction
  <2>2. answer \in {"completed", "amount_mismatch"} => prov[b] = "paid"
    BY DEF StoredStatus, TransferStatus
  <2>3. tx[b] # "none" /\ prov' = prov
    BY <1>10 DEF ReconcileTransaction
  <2>4. QED
    BY <2>1, <2>2, <2>3 DEF Kept, SafetyInv, TypeOK, TxStatus
<1>11. ASSUME NEW b \in Attempts, ProviderSettles(b) PROVE Goal
  BY <1>11 DEF ProviderSettles, Kept, SafetyInv, TypeOK
<1>12. QED
  BY <1>1, <1>2, <1>3, <1>4, <1>5, <1>6, <1>7, <1>8, <1>9, <1>10, <1>11
  DEF Next, RequestStep, RequestArrives, vars, ApproveLoan, FarmerRepays, RejectRead, RejectCommit,
      CancelRead, CancelCommit, DisburseCheck, DisburseRefresh, DisburseRefused, DisburseAdopts,
      DisbursePolls, ReconcileRead, ReconcileLatest

LEMMA KeptImplements ==
  ASSUME SafetyInv, SafetyInv', \A a \in Attempts : Kept(a)
  PROVE  Ledger!Next
<1>1. ASSUME NEW a \in Attempts
      PROVE  \/ Ledger!Stays(a) \/ Ledger!Open(a) \/ Ledger!Ask(a)
             \/ Ledger!Decide(a) \/ Ledger!Settle(a) \/ Ledger!GiveUp(a)
  <2>1. /\ tx[a] \in TxStatus /\ tx'[a] \in TxStatus
        /\ prov[a] \in Transfer /\ prov'[a] \in Transfer
    BY DEF SafetyInv, TypeOK
  <2>2. Kept(a)
    OBVIOUS
  <2>3. QED
    BY <2>1, <2>2 DEF Kept, TxStatus, Transfer, LedgerRow, LedgerMoney, Ledger!Stays, Ledger!Open, Ledger!Ask,
       Ledger!Decide, Ledger!Settle, Ledger!GiveUp
<1>2. QED
  BY <1>1 DEF Ledger!Next

\* The payout of a loan keeps the ledger's contract under every fault: it
\* implements LedgerContract, attempt by attempt.
THEOREM PayoutKeepsLedger == Spec => KeepsLedger
<1>1. Init => Ledger!Init
  BY DEF Init, LedgerRow, LedgerMoney, Ledger!Init
<1>2. ASSUME SafetyInv, SafetyInv', [Next]_vars
      PROVE  Ledger!Next
  BY <1>2, KeptStep, KeptImplements
<1>3. QED
  BY <1>1, <1>2, SafetyInvariant, PTL DEF Spec, KeepsLedger, Ledger!Spec

=============================================================================
