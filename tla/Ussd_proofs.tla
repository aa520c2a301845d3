---------------------------- MODULE Ussd_proofs ----------------------------
(***************************************************************************)
(* Dues, and the phone menu on top of them.                                *)
(*                                                                         *)
(* Dues are collected at most once at a time, completed only when the      *)
(* provider collected, and cost one fee: for any number of members,        *)
(* payments and requests, with crashes and lost answers.  All of this      *)
(* holds of the whole menu: whatever its sessions, the gateway and the     *)
(* staff do is, for the payments, a step of Dues, a session is about       *)
(* payments of its own membership, and a member has one loan request.      *)
(***************************************************************************)
EXTENDS Ussd, TLAPS

(* Dues *)

AtProvider == {"calling", "called", "asking", "asked"}

\* A row exists before the provider hears of it.
RowBeforeCharge ==
  \A t \in Payments : (payer[t] # Nobody \/ charge[t] # "none" \/ status[t] # "none") => (payer[t] # Nobody /\ status[t] # "none")

\* A request at the provider is there for a payment with a row, and an answer
\* about what became of a payment stays true.
CallIsKnown ==
  \A q \in Requests :
    /\ pc[q] \in AtProvider => cur[q] \in Payments /\ status[cur[q]] # "none"
    /\ \A t \in todo[q] : status[t] # "none"
    /\ pc[q] = "called" => answer[q] \in {"otp", "push", "failed", "error"}
    /\ pc[q] = "asked" =>
         /\ answer[q] \in {"completed", "failed", "pending", "error"}
         /\ answer[q] = "completed" => charge[cur[q]] = "collected"

\* Only what is over has been followed up.
FollowedUpIsFinal == \A t \in Payments : swept[t] > 0 \/ t \in tasks => Final(t)

\* While a request is at the provider with a payment that is still open, nobody
\* can claim a code for it.
CallIsMarked ==
  \A q \in Requests :
    pc[q] \in {"calling", "called"} =>
      Final(cur[q]) \/ action[cur[q]] \in {"initiating", "processing_otp"}

DuesInv ==
  /\ DuesTypeOK
  /\ RowBeforeCharge
  /\ CallIsKnown
  /\ CompletedIsCollected
  /\ FollowedUpIsFinal
  /\ FeeOnce

-----------------------------------------------------------------------------
(* What a step does to one payment *)

Kept(x) ==
  \/ /\ status[x] = "none" /\ status'[x] = "pending" /\ charge'[x] = charge[x]
     /\ payer'[x] # Nobody
  \/ /\ payer'[x] = payer[x]
     /\ \/ status'[x] = status[x] /\ charge'[x] = charge[x]
        \/ /\ status[x] # "none" /\ status'[x] = status[x]
           /\ charge[x] \in {"none", "otp"} /\ charge'[x] \in {"otp", "prompt", "declined"}
        \/ status'[x] = status[x] /\ charge[x] = "prompt" /\ charge'[x] \in {"collected", "declined"}
        \/ /\ status[x] \in {"pending", "failed"} /\ status'[x] = "completed"
           /\ charge[x] = "collected" /\ charge'[x] = "collected"
        \/ status[x] = "pending" /\ status'[x] = "failed" /\ charge'[x] = charge[x]

LEMMA KeptStep ==
  ASSUME DuesInv, [DuesNext]_duesVars
  PROVE  \A x \in Payments : Kept(x)
<1> DEFINE Goal == \A x \in Payments : Kept(x)
<1>1. CASE UNCHANGED <<payer, status, charge>>
  BY <1>1 DEF Kept
<1>2. ASSUME NEW q \in Requests, NEW m \in Members, NEW t \in Payments, CollectStart(q, m, t) PROVE Goal
  BY <1>2, NamesAssumption DEF CollectStart, Write, Kept, DuesInv, DuesTypeOK, RowBeforeCharge
<1>3. ASSUME NEW q \in Requests, NEW m \in Members, NEW t \in Payments, ResumeStart(q, m, t) PROVE Goal
  BY <1>3 DEF ResumeStart, Claimable, Write, Kept, DuesInv, DuesTypeOK
<1>4. ASSUME NEW q \in Requests, NEW m \in Members, NEW t \in Payments, PendingCode(q, m, t) PROVE Goal
  BY <1>4 DEF PendingCode, Claimable, Expirable, Expired, Kept, DuesInv, DuesTypeOK
<1>5. ASSUME NEW q \in Requests, NEW m \in Members, PendingList(q, m) PROVE Goal
  BY <1>5 DEF PendingList, Expirable, Expired, Kept, DuesInv, DuesTypeOK
<1>6. ASSUME NEW m \in Members, Expire(m) PROVE Goal
  BY <1>6 DEF Expire, Expirable, Expired, Kept, DuesInv, DuesTypeOK
<1>7. ASSUME NEW q \in Requests, CollectCall(q) PROVE Goal
  <2>1. status' = status /\ payer' = payer /\ cur[q] \in Payments /\ status[cur[q]] # "none"
    BY <1>7 DEF CollectCall, rowVars, DuesInv, CallIsKnown, AtProvider
  <2>2. CASE charge' = charge
    BY <2>1, <2>2 DEF Kept
  <2>3. ASSUME NEW c \in NextCharge(cur[q], code[q]), charge' = [charge EXCEPT ![cur[q]] = c] PROVE Goal
    BY <2>1, <2>3 DEF NextCharge, Kept, DuesInv, DuesTypeOK
  <2>4. QED
    BY <1>7, <2>2, <2>3 DEF CollectCall
<1>8. ASSUME NEW q \in Requests, CollectRecord(q) PROVE Goal
  <2>1. cur[q] \in Payments /\ status[cur[q]] # "none" /\ status[cur[q]] \in TransactionStatus
    BY <1>8 DEF CollectRecord, DuesInv, CallIsKnown, AtProvider, DuesTypeOK
  <2>2. charge' = charge /\ payer' = payer
    BY <1>8 DEF CollectRecord
  <2>3. \/ status' = status
        \/ status[cur[q]] = "pending" /\ status' = [status EXCEPT ![cur[q]] = "pending"]
        \/ status[cur[q]] = "pending" /\ status' = [status EXCEPT ![cur[q]] = "failed"]
    BY <1>8, <2>1 DEF CollectRecord, Write, TransactionStatus
  <2>4. QED
    BY <2>1, <2>2, <2>3 DEF Kept, DuesInv, DuesTypeOK
<1>9. ASSUME NEW q \in Requests, StaleApply(q) PROVE Goal
  <2>1. /\ cur[q] \in Payments
        /\ answer[q] \in {"completed", "failed", "pending", "error"}
        /\ answer[q] = "completed" => charge[cur[q]] = "collected"
    BY <1>9 DEF StaleApply, DuesInv, CallIsKnown, AtProvider
  <2>2. charge' = charge /\ payer' = payer
    BY <1>9 DEF StaleApply
  <2>3. \/ status' = status
        \/ status[cur[q]] = "pending" /\ status' = [status EXCEPT ![cur[q]] = "pending"]
        \/ /\ status[cur[q]] = "pending" /\ answer[q] \in {"completed", "failed"}
           /\ status' = [status EXCEPT ![cur[q]] = answer[q]]
    BY <1>9, <2>1 DEF StaleApply, Write
  <2>4. QED
    BY <2>1, <2>2, <2>3 DEF Kept, DuesInv, DuesTypeOK
<1>10. ASSUME NEW q \in Requests, AuditApply(q) PROVE Goal
  <2>1. /\ cur[q] \in Payments /\ status[cur[q]] \in TransactionStatus /\ status[cur[q]] # "none"
        /\ answer[q] \in {"completed", "failed", "pending", "error"}
        /\ answer[q] = "completed" => charge[cur[q]] = "collected"
    BY <1>10 DEF AuditApply, DuesInv, CallIsKnown, AtProvider, DuesTypeOK
  <2>2. charge' = charge /\ payer' = payer
    BY <1>10 DEF AuditApply
  <2>3. \/ status' = status
        \/ status' = [status EXCEPT ![cur[q]] = status[cur[q]]]
        \/ answer[q] = "completed" /\ status' = [status EXCEPT ![cur[q]] = "completed"]
        \/ status[cur[q]] = "pending" /\ status' = [status EXCEPT ![cur[q]] = "failed"]
    BY <1>10, <2>1 DEF AuditApply, Write, TransactionStatus
  <2>4. QED
    BY <2>1, <2>2, <2>3 DEF Kept, DuesInv, DuesTypeOK, TransactionStatus, CompletedIsCollected
<1>11. ASSUME NEW t \in Payments, PayerDecides(t) PROVE Goal
  BY <1>11 DEF PayerDecides, rowVars, Kept, DuesInv, DuesTypeOK
<1>12. ASSUME NEW t \in Payments, Webhook(t) PROVE Goal
  <2>1. charge' = charge /\ payer' = payer /\ ~Final(t) /\ status[t] \in TransactionStatus /\ status[t] # "none"
    BY <1>12 DEF Webhook, RecordEvent, DuesInv, DuesTypeOK, RowBeforeCharge
  <2>2. \/ charge[t] = "collected" /\ status' = [status EXCEPT ![t] = "completed"]
        \/ status' = [status EXCEPT ![t] = "failed"]
    BY <1>12 DEF Webhook, RecordEvent, Event, Write
  <2>3. QED
    BY <2>1, <2>2 DEF Kept, Final, TransactionStatus, DuesInv, DuesTypeOK
<1>13. QED
  BY <1>1, <1>2, <1>3, <1>4, <1>5, <1>6, <1>7, <1>8, <1>9, <1>10, <1>11, <1>12
  DEF DuesNext, duesVars, rowVars, CallStep, PaymentStep, Return, StaleStart, CollectAgain, AuditStart, StaleNext,
      AskProvider, Elapse, PostPayment, DuesCrash, CallsLost

\* What is final, collected or recorded stays so.
LEMMA KeptFacts ==
  ASSUME DuesInv, \A x \in Payments : Kept(x)
  PROVE  /\ \A x \in Payments : status[x] # "none" => status'[x] # "none"
         /\ \A x \in Payments : Final(x) => Final(x)'
         /\ \A x \in Payments : charge[x] = "collected" => charge'[x] = "collected"
         /\ RowBeforeCharge'
         /\ CompletedIsCollected'
BY DEF Kept, DuesInv, DuesTypeOK, Final, RowBeforeCharge, CompletedIsCollected

-----------------------------------------------------------------------------
(* Types *)

CallTypes ==
  /\ pc \in [Requests -> CallPhase]
  /\ op \in [Requests -> {"none", "collect", "stale", "audit"}]
  /\ cur \in [Requests -> Payments \cup {NoPayment}]
  /\ code \in [Requests -> BOOLEAN]
  /\ answer \in [Requests -> Outcome]

LEMMA SetType ==
  ASSUME DuesTypeOK, NEW q \in Requests, NEW phase \in CallPhase,
         NEW kind \in {"none", "collect", "stale", "audit"}, NEW t \in Payments \cup {NoPayment},
         NEW otp \in BOOLEAN, NEW result \in Outcome, Set(q, phase, kind, t, otp, result)
  PROVE  CallTypes'
<1>1. (code \in [Requests -> BOOLEAN])'
  BY Zenon DEF Set, DuesTypeOK
<1>2. QED
  BY <1>1 DEF Set, DuesTypeOK, CallTypes

LEMMA WriteType ==
  ASSUME DuesTypeOK, NEW t \in Payments, NEW to \in TransactionStatus, NEW mark \in CustomerAction,
         Write(t, to, mark)
  PROVE  /\ status' \in [Payments -> TransactionStatus]
         /\ action' \in [Payments -> CustomerAction]
         /\ overdue' \subseteq Payments
BY DEF Write, DuesTypeOK

LEMMA TypeStep ==
  ASSUME DuesInv, [DuesNext]_duesVars
  PROVE  DuesTypeOK'
<1> USE DEF DuesInv
<1>1. ASSUME NEW q \in Requests, NEW m \in Members, NEW t \in Payments, CollectStart(q, m, t) PROVE DuesTypeOK'
  <2>1. CallTypes'
    BY <1>1, SetType DEF CollectStart, CallPhase, Outcome
  <2>2. Write(t, "pending", "initiating") /\ payer' = [payer EXCEPT ![t] = m]
    BY <1>1 DEF CollectStart
  <2>3. QED
    BY <1>1, <2>1, <2>2, WriteType DEF CollectStart, CallTypes, DuesTypeOK, TransactionStatus, CustomerAction, afterVars
<1>2. ASSUME NEW q \in Requests, NEW m \in Members, NEW t \in Payments, ResumeStart(q, m, t) PROVE DuesTypeOK'
  <2>1. CallTypes'
    BY <1>2, SetType DEF ResumeStart, CallPhase, Outcome
  <2>2. Write(t, "pending", "processing_otp") \/ UNCHANGED <<status, action, overdue>>
    BY <1>2 DEF ResumeStart
  <2>3. QED
    BY <1>2, <2>1, <2>2, WriteType DEF ResumeStart, CallTypes, DuesTypeOK, TransactionStatus, CustomerAction, afterVars
<1>3. ASSUME NEW q \in Requests, NEW m \in Members, NEW t \in Payments, PendingCode(q, m, t) PROVE DuesTypeOK'
  <2>1. CallTypes'
    BY <1>3, SetType DEF PendingCode, CallPhase, Outcome
  <2>2. status' \in [Payments -> TransactionStatus] /\ action' \in [Payments -> CustomerAction]
    BY <1>3 DEF PendingCode, Expired, DuesTypeOK, TransactionStatus, CustomerAction
  <2>3. QED
    BY <1>3, <2>1, <2>2 DEF PendingCode, CallTypes, DuesTypeOK, afterVars
<1>4. ASSUME NEW q \in Requests, NEW m \in Members, PendingList(q, m) PROVE DuesTypeOK'
  <2>1. CallTypes'
    BY <1>4, SetType DEF PendingList, CallPhase, Outcome
  <2>2. QED
    BY <1>4, <2>1 DEF PendingList, Expired, CallTypes, DuesTypeOK, TransactionStatus, CustomerAction, afterVars
<1>5. ASSUME NEW m \in Members, Expire(m) PROVE DuesTypeOK'
  BY <1>5 DEF Expire, Expired, DuesTypeOK, TransactionStatus, CustomerAction, afterVars, callVars
<1>6. ASSUME NEW q \in Requests, CollectCall(q) PROVE DuesTypeOK'
  <2>1. cur[q] \in Payments
    BY <1>6 DEF CollectCall, CallIsKnown, AtProvider
  <2>2. \A c \in NextCharge(cur[q], code[q]) : c \in ChargeStatus /\ ReplyTo(c) \in Outcome
    BY <2>1 DEF NextCharge, ReplyTo, ChargeStatus, Outcome, DuesTypeOK
  <2>3. QED
    BY <1>6, <2>1, <2>2 DEF CollectCall, Continue, DuesTypeOK, CallPhase, Outcome, rowVars, afterVars
<1>7. ASSUME NEW q \in Requests, CollectRecord(q) PROVE DuesTypeOK'
  <2>1. cur[q] \in Payments /\ status[cur[q]] \in TransactionStatus /\ answer[q] \in Outcome
    BY <1>7 DEF CollectRecord, CallIsKnown, AtProvider, DuesTypeOK
  <2>2. \E r \in Outcome : Continue(q, "answered", r)
    BY <1>7, <2>1 DEF CollectRecord, Outcome
  <2>3. \/ UNCHANGED <<status, action, overdue>>
        \/ \E to \in TransactionStatus, mark \in CustomerAction : Write(cur[q], to, mark)
    BY <1>7, <2>1 DEF CollectRecord, TransactionStatus, CustomerAction
  <2>4. QED
    BY <1>7, <2>1, <2>2, <2>3 DEF CollectRecord, Continue, Write, DuesTypeOK, CallPhase, afterVars
<1>8. ASSUME NEW q \in Requests, StaleApply(q) PROVE DuesTypeOK'
  <2>1. cur[q] \in Payments /\ answer[q] \in {"completed", "failed", "pending", "error"}
    BY <1>8 DEF StaleApply, CallIsKnown, AtProvider
  <2>2. \/ UNCHANGED <<status, action, overdue>>
        \/ \E to \in TransactionStatus, mark \in CustomerAction : Write(cur[q], to, mark)
    BY <1>8, <2>1 DEF StaleApply, TransactionStatus, CustomerAction, DuesTypeOK
  <2>3. CallTypes'
    BY <1>8, SetType DEF StaleApply, CallPhase, Outcome
  <2>4. QED
    BY <1>8, <2>1, <2>2, <2>3, WriteType DEF StaleApply, CallTypes, DuesTypeOK, afterVars
<1>9. ASSUME NEW q \in Requests, AuditApply(q) PROVE DuesTypeOK'
  <2>1. cur[q] \in Payments
    BY <1>9 DEF AuditApply, CallIsKnown, AtProvider
  <2>2. \/ UNCHANGED <<status, action, overdue>>
        \/ \E to \in TransactionStatus, mark \in CustomerAction : Write(cur[q], to, mark)
    BY <1>9, <2>1 DEF AuditApply, TransactionStatus, CustomerAction
  <2>3. QED
    BY <1>9, <2>1, <2>2 DEF AuditApply, Continue, Write, DuesTypeOK, CallPhase, Outcome, afterVars
<1>10. ASSUME NEW t \in Payments, PayerDecides(t) PROVE DuesTypeOK'
  BY <1>10 DEF PayerDecides, DuesTypeOK, ChargeStatus, rowVars, afterVars, callVars
<1>11. ASSUME NEW t \in Payments, Webhook(t) PROVE DuesTypeOK'
  <2>1. Event(t) \in TransactionStatus
    BY DEF Event, TransactionStatus
  <2>2. QED
    BY <1>11, <2>1 DEF Webhook, RecordEvent, Write, DuesTypeOK, CustomerAction, callVars
<1>12. ASSUME NEW t \in Payments, PostPayment(t) PROVE DuesTypeOK'
  BY <1>12 DEF PostPayment, DuesTypeOK, rowVars, callVars
<1>13. ASSUME NEW t \in Payments, Elapse(t) PROVE DuesTypeOK'
  BY <1>13 DEF Elapse, DuesTypeOK, afterVars, callVars
<1>14. ASSUME NEW q \in Requests, NEW m \in Members, StaleStart(q, m) PROVE DuesTypeOK'
  <2>1. CallTypes'
    BY <1>14, SetType DEF StaleStart, CallPhase, Outcome
  <2>2. QED
    BY <1>14, <2>1 DEF StaleStart, Stale, CallTypes, DuesTypeOK, rowVars, afterVars
<1>15. ASSUME NEW q \in Requests, StaleNext(q) PROVE DuesTypeOK'
  <2>1. CallTypes'
    BY <1>15, SetType DEF StaleNext, CallPhase, Outcome, DuesTypeOK
  <2>2. todo' \in [Requests -> SUBSET Payments]
    BY <1>15 DEF StaleNext, DuesTypeOK
  <2>3. QED
    BY <1>15, <2>1, <2>2 DEF StaleNext, CallTypes, DuesTypeOK, rowVars, afterVars
<1>16. ASSUME NEW q \in Requests, AskProvider(q) PROVE DuesTypeOK'
  <2>1. Event(cur[q]) \in Outcome
    BY DEF Event, Outcome
  <2>2. QED
    BY <1>16, <2>1 DEF AskProvider, Continue, DuesTypeOK, CallPhase, Outcome, rowVars, afterVars
<1>17. ASSUME NEW q \in Requests, NEW t \in Payments, AuditStart(q, t) PROVE DuesTypeOK'
  <2>1. CallTypes'
    BY <1>17, SetType DEF AuditStart, CallPhase, Outcome
  <2>2. QED
    BY <1>17, <2>1 DEF AuditStart, CallTypes, DuesTypeOK, rowVars, afterVars
<1>18. ASSUME NEW q \in Requests, NEW m \in Members, NEW t \in Payments, NEW otp \in BOOLEAN,
              CollectAgain(q, m, t, otp) PROVE DuesTypeOK'
  <2>1. CallTypes'
    BY <1>18, SetType DEF CollectAgain, CallPhase, Outcome
  <2>2. QED
    BY <1>18, <2>1 DEF CollectAgain, CallTypes, DuesTypeOK, rowVars, afterVars
<1>19. ASSUME NEW q \in Requests, Return(q) PROVE DuesTypeOK'
  <2>1. CallTypes'
    BY <1>19, SetType DEF Return, CallPhase, Outcome
  <2>2. QED
    BY <1>19, <2>1 DEF Return, CallTypes, DuesTypeOK, rowVars, afterVars
<1>20. CASE DuesCrash
  BY <1>20 DEF DuesCrash, CallsLost, DuesTypeOK, CallPhase, Outcome, rowVars
<1>21. CASE UNCHANGED duesVars
  BY <1>21 DEF duesVars, rowVars, afterVars, callVars, DuesTypeOK
<1>22. QED
  BY <1>1, <1>2, <1>3, <1>4, <1>5, <1>6, <1>7, <1>8, <1>9, <1>10, <1>11, <1>12, <1>13, <1>14, <1>15, <1>16,
     <1>17, <1>18, <1>19, <1>20, <1>21
  DEF DuesNext, CallStep, PaymentStep

-----------------------------------------------------------------------------
(* Requests *)

LEMMA CallStepKnown ==
  ASSUME DuesInv, [DuesNext]_duesVars, \A x \in Payments : Kept(x)
  PROVE  CallIsKnown'
<1> USE DEF DuesInv
<1>0. /\ \A x \in Payments : status[x] # "none" => status'[x] # "none"
      /\ \A x \in Payments : charge[x] = "collected" => charge'[x] = "collected"
      /\ RowBeforeCharge'
  BY KeptFacts
<1>1. ASSUME NEW q \in Requests, NEW m \in Members, NEW t \in Payments, CollectStart(q, m, t) PROVE CallIsKnown'
  BY <1>0, <1>1 DEF CollectStart, Set, Write, CallIsKnown, AtProvider, DuesTypeOK
<1>2. ASSUME NEW q \in Requests, NEW m \in Members, NEW t \in Payments, ResumeStart(q, m, t) PROVE CallIsKnown'
  <2>1. UNCHANGED <<todo, charge>> /\ (pc'[q] = "calling" => status[t] # "none")
    BY <1>2 DEF ResumeStart, Set, Claimable, DuesTypeOK
  <2>2. \/ Set(q, "calling", "collect", t, TRUE, "none")
        \/ Set(q, "answered", "collect", t, TRUE, "conflict")
    BY <1>2 DEF ResumeStart
  <2>3. QED
    BY <1>0, <2>1, <2>2 DEF Set, CallIsKnown, AtProvider, DuesTypeOK
<1>3. ASSUME NEW q \in Requests, NEW m \in Members, NEW t \in Payments, PendingCode(q, m, t) PROVE CallIsKnown'
  <2>1. UNCHANGED <<todo, charge>> /\ (pc'[q] = "calling" => status[t] # "none")
    BY <1>3 DEF PendingCode, Set, Claimable, DuesTypeOK
  <2>2. \/ Set(q, "calling", "collect", t, TRUE, "none")
        \/ Set(q, "idle", "none", NoPayment, FALSE, "none")
    BY <1>3 DEF PendingCode
  <2>3. QED
    BY <1>0, <2>1, <2>2 DEF Set, CallIsKnown, AtProvider, DuesTypeOK
<1>4. ASSUME NEW q \in Requests, NEW m \in Members, PendingList(q, m) PROVE CallIsKnown'
  BY <1>0, <1>4 DEF PendingList, Set, CallIsKnown, AtProvider, DuesTypeOK
<1>5. CASE UNCHANGED callVars
  BY <1>0, <1>5 DEF callVars, CallIsKnown, AtProvider, DuesTypeOK
<1>6. ASSUME NEW q \in Requests, CollectCall(q) PROVE CallIsKnown'
  <2>1. cur[q] \in Payments /\ status[cur[q]] # "none"
    BY <1>6 DEF CollectCall, CallIsKnown, AtProvider
  <2>2. \A c \in NextCharge(cur[q], code[q]) : ReplyTo(c) \in {"otp", "push", "failed", "error"}
    BY <2>1 DEF NextCharge, ReplyTo, ChargeStatus, DuesTypeOK
  <2>3. \E r \in {"otp", "push", "failed", "error"} : Continue(q, "called", r)
    BY <1>6, <2>2 DEF CollectCall
  <2>4. QED
    BY <1>0, <2>1, <2>3 DEF Continue, CallIsKnown, AtProvider, DuesTypeOK
<1>7. ASSUME NEW q \in Requests, CollectRecord(q) PROVE CallIsKnown'
  <2>1. \E r \in {answer[q], status[cur[q]]} : Continue(q, "answered", r)
    BY <1>7 DEF CollectRecord
  <2>2. QED
    BY <1>0, <2>1 DEF Continue, CallIsKnown, AtProvider, DuesTypeOK
<1>8. ASSUME NEW q \in Requests, StaleApply(q) PROVE CallIsKnown'
  BY <1>0, <1>8 DEF StaleApply, Set, CallIsKnown, AtProvider, DuesTypeOK
<1>9. ASSUME NEW q \in Requests, AuditApply(q) PROVE CallIsKnown'
  <2>1. Continue(q, "answered", "done")
    BY <1>9 DEF AuditApply
  <2>2. QED
    BY <1>0, <2>1 DEF Continue, CallIsKnown, AtProvider, DuesTypeOK
<1>10. ASSUME NEW q \in Requests, NEW m \in Members, StaleStart(q, m) PROVE CallIsKnown'
  BY <1>0, <1>10 DEF StaleStart, Stale, Set, CallIsKnown, AtProvider, DuesTypeOK
<1>11. ASSUME NEW q \in Requests, StaleNext(q) PROVE CallIsKnown'
  <2>1. todo[q] \subseteq Payments /\ \A t \in todo[q] : status[t] # "none"
    BY <1>11 DEF CallIsKnown, DuesTypeOK
  <2>2. CASE Set(q, "answered", "stale", NoPayment, FALSE, "done") /\ UNCHANGED todo
    BY <1>0, <2>2 DEF Set, CallIsKnown, AtProvider, DuesTypeOK
  <2>3. ASSUME NEW t \in todo[q], Set(q, "asking", "stale", t, FALSE, "none"),
               todo' = [todo EXCEPT ![q] = @ \ {t}]
        PROVE  CallIsKnown'
    BY <1>0, <2>1, <2>3 DEF Set, CallIsKnown, AtProvider, DuesTypeOK
  <2>4. QED
    BY <1>11, <2>2, <2>3 DEF StaleNext
<1>12. ASSUME NEW q \in Requests, AskProvider(q) PROVE CallIsKnown'
  <2>1. /\ Event(cur[q]) \in {"completed", "failed", "none"}
        /\ Event(cur[q]) = "completed" => charge[cur[q]] = "collected"
    BY DEF Event
  <2>2. PICK r \in {"error", IF Event(cur[q]) = "none" THEN "pending" ELSE Event(cur[q])} :
          Continue(q, "asked", r)
    BY <1>12 DEF AskProvider
  <2>3. cur[q] \in Payments /\ status[cur[q]] # "none"
    BY <1>12 DEF AskProvider, CallIsKnown, AtProvider
  <2>4. QED
    BY <1>0, <2>1, <2>2, <2>3 DEF Continue, CallIsKnown, AtProvider, DuesTypeOK
<1>13. ASSUME NEW q \in Requests, NEW t \in Payments, AuditStart(q, t) PROVE CallIsKnown'
  <2>1. status[t] # "none"
    BY <1>13 DEF AuditStart, RowBeforeCharge
  <2>2. QED
    BY <1>0, <1>13, <2>1 DEF AuditStart, Set, CallIsKnown, AtProvider, DuesTypeOK
<1>14. ASSUME NEW q \in Requests, NEW m \in Members, NEW t \in Payments, NEW otp \in BOOLEAN,
              CollectAgain(q, m, t, otp) PROVE CallIsKnown'
  <2>1. status[t] # "none"
    BY <1>14 DEF CollectAgain
  <2>2. QED
    BY <1>0, <1>14, <2>1 DEF CollectAgain, Set, CallIsKnown, AtProvider, DuesTypeOK
<1>15. ASSUME NEW q \in Requests, Return(q) PROVE CallIsKnown'
  BY <1>0, <1>15 DEF Return, Set, CallIsKnown, AtProvider, DuesTypeOK
<1>16. CASE DuesCrash
  BY <1>16 DEF DuesCrash, CallsLost, CallIsKnown, AtProvider, DuesTypeOK
<1>17. QED
  BY <1>1, <1>2, <1>3, <1>4, <1>5, <1>6, <1>7, <1>8, <1>9, <1>10, <1>11, <1>12, <1>13, <1>14, <1>15, <1>16
  DEF DuesNext, CallStep, PaymentStep, PayerDecides, Elapse, Webhook, PostPayment, Expire, duesVars

-----------------------------------------------------------------------------
(* Fees *)

LEMMA FeeStep ==
  ASSUME DuesInv, [DuesNext]_duesVars, \A x \in Payments : Kept(x)
  PROVE  FollowedUpIsFinal' /\ FeeOnce'
<1> USE DEF DuesInv
<1>1. \A x \in Payments : Final(x) => Final(x)'
  BY KeptFacts
<1>2. CASE UNCHANGED afterVars
  BY <1>1, <1>2 DEF afterVars, FollowedUpIsFinal, FeeOnce
<1>3. ASSUME NEW t \in Payments, Webhook(t) PROVE FollowedUpIsFinal' /\ FeeOnce'
  <2>1. tasks' = tasks \cup {t} /\ swept' = swept /\ ~Final(t)
    BY <1>3 DEF Webhook, RecordEvent
  <2>2. Final(t)'
    BY <1>3 DEF Webhook, RecordEvent, Event, Write, Final, DuesTypeOK
  <2>3. swept[t] = 0
    BY <2>1 DEF FollowedUpIsFinal, DuesTypeOK
  <2>4. QED
    BY <1>1, <2>1, <2>2, <2>3 DEF FollowedUpIsFinal, FeeOnce, DuesTypeOK
<1>4. ASSUME NEW t \in Payments, PostPayment(t) PROVE FollowedUpIsFinal' /\ FeeOnce'
  BY <1>1, <1>4 DEF PostPayment, FollowedUpIsFinal, FeeOnce, DuesTypeOK
<1>5. CASE DuesCrash
  BY <1>1, <1>5 DEF DuesCrash, CallsLost, FollowedUpIsFinal, FeeOnce, DuesTypeOK
<1>6. ASSUME NEW q \in Requests, CallStep(q) \/ Return(q) PROVE UNCHANGED afterVars
  BY <1>6 DEF CallStep, CollectCall, CollectRecord, StaleNext, AskProvider, StaleApply, AuditApply, Return
<1>7. ASSUME NEW q \in Requests, NEW m \in Members, StaleStart(q, m) \/ PendingList(q, m) PROVE UNCHANGED afterVars
  BY <1>7 DEF StaleStart, PendingList
<1>8. ASSUME NEW q \in Requests, NEW m \in Members, NEW t \in Payments,
             CollectStart(q, m, t) \/ ResumeStart(q, m, t) \/ PendingCode(q, m, t)
      PROVE  UNCHANGED afterVars
  BY <1>8 DEF CollectStart, ResumeStart, PendingCode
<1>9. ASSUME NEW q \in Requests, NEW m \in Members, NEW t \in Payments, NEW otp \in BOOLEAN,
             CollectAgain(q, m, t, otp)
      PROVE  UNCHANGED afterVars
  BY <1>9 DEF CollectAgain
<1>10. ASSUME NEW q \in Requests, NEW t \in Payments, AuditStart(q, t) PROVE UNCHANGED afterVars
  BY <1>10 DEF AuditStart
<1>11. ASSUME NEW t \in Payments, PayerDecides(t) \/ Elapse(t) PROVE UNCHANGED afterVars
  BY <1>11 DEF PayerDecides, Elapse
<1>12. ASSUME NEW m \in Members, Expire(m) PROVE UNCHANGED afterVars
  BY <1>12 DEF Expire
<1>13. CASE UNCHANGED duesVars
  BY <1>2, <1>13 DEF duesVars
<1> HIDE DEF DuesInv
<1>14. QED
  BY <1>2, <1>3, <1>4, <1>5, <1>6, <1>7, <1>8, <1>9, <1>10, <1>11, <1>12, <1>13 DEF DuesNext, PaymentStep

-----------------------------------------------------------------------------
(* One call at a time *)

Calling == {"calling", "called"}
Marks == {"initiating", "processing_otp"}

\* What keeps two requests from being at the provider with one payment.
CallsApart == "hook" \in env \/ (OneCallPerPayment /\ CallIsMarked)

\* A request that takes up a payment nobody is at the provider with.
LEMMA NewCallApart ==
  ASSUME DuesTypeOK, CallIsKnown, OneCallPerPayment, CallIsMarked, "hook" \notin env,
         NEW q \in Requests, NEW t \in Payments, NEW otp \in BOOLEAN,
         Set(q, "calling", "collect", t, otp, "none"),
         \A x \in Payments : Final(x) => Final(x)',
         \A r \in Requests : pc[r] \in Calling => cur[r] # t,
         action' = [action EXCEPT ![t] = action'[t]], action'[t] \in Marks, pc[q] \notin Calling
  PROVE  OneCallPerPayment' /\ CallIsMarked'
<1>1. \A r \in Requests \ {q} : pc'[r] = pc[r] /\ cur'[r] = cur[r]
  BY DEF Set, DuesTypeOK
<1>2. pc'[q] = "calling" /\ cur'[q] = t
  BY DEF Set, DuesTypeOK
<1>3. OneCallPerPayment'
  BY <1>1, <1>2 DEF OneCallPerPayment, Calling
<1>4. ASSUME NEW r \in Requests \ {q}, pc'[r] \in Calling
      PROVE  (Final(cur[r]) \/ action[cur[r]] \in Marks)'
  <2>1. cur[r] \in Payments /\ cur[r] # t /\ cur'[r] = cur[r] /\ pc[r] \in Calling
    BY <1>1, <1>4 DEF CallIsKnown, AtProvider, Calling
  <2>2. Final(cur[r]) \/ action[cur[r]] \in Marks
    BY <2>1 DEF CallIsMarked, Calling, Marks
  <2>3. action'[cur[r]] = action[cur[r]]
    BY <2>1 DEF DuesTypeOK
  <2>4. QED
    BY <2>1, <2>2, <2>3 DEF Final
<1>5. QED
  BY <1>2, <1>3, <1>4 DEF CallIsMarked, Calling, Marks

\* No new call, and the payments of those that are left are still marked.
LEMMA CallsKept ==
  ASSUME DuesTypeOK, CallIsKnown, OneCallPerPayment, CallIsMarked, "hook" \notin env,
         \A r \in Requests : pc'[r] \in Calling =>
           /\ pc[r] \in Calling /\ cur'[r] = cur[r]
           /\ (status'[cur[r]] = status[cur[r]] /\ action'[cur[r]] = action[cur[r]]) \/ Final(cur[r])'
  PROVE  OneCallPerPayment' /\ CallIsMarked'
<1>1. OneCallPerPayment'
  BY DEF OneCallPerPayment, Calling
<1>2. CallIsMarked'
  BY DEF CallIsMarked, Calling, Marks, Final
<1>3. QED
  BY <1>1, <1>2

\* The environment never changes.
LEMMA EnvironmentKept ==
  ASSUME [DuesNext]_duesVars
  PROVE  env' = env
<1>1. ASSUME NEW q \in Requests, CallStep(q) \/ Return(q) PROVE env' = env
  BY <1>1 DEF CallStep, CollectCall, CollectRecord, StaleNext, AskProvider, StaleApply, AuditApply, Return
<1>2. ASSUME NEW q \in Requests, NEW m \in Members, StaleStart(q, m) \/ PendingList(q, m) PROVE env' = env
  BY <1>2 DEF StaleStart, PendingList
<1>3. ASSUME NEW q \in Requests, NEW m \in Members, NEW t \in Payments,
             CollectStart(q, m, t) \/ ResumeStart(q, m, t) \/ PendingCode(q, m, t)
      PROVE  env' = env
  BY <1>3 DEF CollectStart, ResumeStart, PendingCode
<1>4. ASSUME NEW q \in Requests, NEW m \in Members, NEW t \in Payments, NEW otp \in BOOLEAN,
             CollectAgain(q, m, t, otp)
      PROVE  env' = env
  BY <1>4 DEF CollectAgain
<1>5. ASSUME NEW q \in Requests, NEW t \in Payments, AuditStart(q, t) PROVE env' = env
  BY <1>5 DEF AuditStart
<1>6. ASSUME NEW t \in Payments, PaymentStep(t) PROVE env' = env
  BY <1>6 DEF PaymentStep, PayerDecides, Elapse, Webhook, PostPayment
<1>7. ASSUME NEW m \in Members, Expire(m) PROVE env' = env
  BY <1>7 DEF Expire
<1>8. CASE DuesCrash \/ UNCHANGED duesVars
  BY <1>8 DEF DuesCrash, CallsLost, duesVars
<1>9. QED
  BY <1>1, <1>2, <1>3, <1>4, <1>5, <1>6, <1>7, <1>8 DEF DuesNext

LEMMA CallsApartStep ==
  ASSUME DuesInv, DuesInv', CallsApart, [DuesNext]_duesVars, \A x \in Payments : Kept(x)
  PROVE  CallsApart'
<1>0. env' = env
  BY EnvironmentKept
<1> DEFINE Goal == OneCallPerPayment' /\ CallIsMarked'
<1> SUFFICES ASSUME "hook" \notin env PROVE Goal
  BY <1>0 DEF CallsApart
<1>a. OneCallPerPayment /\ CallIsMarked /\ DuesTypeOK /\ CallIsKnown /\ RowBeforeCharge
  BY DEF CallsApart, DuesInv
<1>b. \A x \in Payments : Final(x) => Final(x)'
  BY KeptFacts
<1>c. \A r \in Requests : pc[r] \in Calling =>
        /\ cur[r] \in Payments /\ status[cur[r]] # "none"
        /\ Final(cur[r]) \/ action[cur[r]] \in Marks
  BY <1>a DEF CallIsKnown, CallIsMarked, AtProvider, Calling, Marks
<1>1. ASSUME NEW q \in Requests, NEW m \in Members, NEW t \in Payments, CollectStart(q, m, t) PROVE Goal
  <2>1. \A r \in Requests : pc[r] \in Calling => cur[r] # t
    BY <1>1, <1>a, <1>c DEF CollectStart, RowBeforeCharge
  <2>2. /\ Set(q, "calling", "collect", t, FALSE, "none")
        /\ action' = [action EXCEPT ![t] = action'[t]] /\ action'[t] \in Marks /\ pc[q] \notin Calling
    BY <1>1, <1>a DEF CollectStart, Free, Write, DuesTypeOK, Marks, Calling
  <2>3. QED
    BY <1>a, <1>b, <2>1, <2>2, NewCallApart
<1>2. ASSUME NEW q \in Requests, NEW m \in Members, NEW t \in Payments, ResumeStart(q, m, t) PROVE Goal
  <2>1. CASE Claimable(t)
    <3>1. \A r \in Requests : pc[r] \in Calling => cur[r] # t
      BY <2>1, <1>c DEF Claimable, Final, Marks
    <3>2. /\ Set(q, "calling", "collect", t, TRUE, "none")
          /\ action' = [action EXCEPT ![t] = action'[t]] /\ action'[t] \in Marks /\ pc[q] \notin Calling
      BY <1>2, <1>a, <2>1 DEF ResumeStart, Free, Write, DuesTypeOK, Marks, Calling
    <3>3. QED
      BY <1>a, <1>b, <3>1, <3>2, NewCallApart
  <2>2. CASE ~Claimable(t)
    <3>1. UNCHANGED <<status, action>> /\ Set(q, "answered", "collect", t, TRUE, "conflict")
      BY <1>2, <2>2 DEF ResumeStart
    <3>2. \A r \in Requests : pc'[r] \in Calling => pc[r] \in Calling /\ cur'[r] = cur[r]
      BY <3>1, <1>a DEF Set, Calling, DuesTypeOK
    <3>3. QED
      BY <1>a, <3>1, <3>2, CallsKept
  <2>3. QED
    BY <2>1, <2>2
<1>3. ASSUME NEW q \in Requests, CollectCall(q) PROVE Goal
  <2>1. UNCHANGED <<status, action, cur>> /\ pc[q] = "calling" /\ pc' = [pc EXCEPT ![q] = "called"]
    BY <1>3 DEF CollectCall, Continue, rowVars
  <2>2. \A r \in Requests : pc'[r] \in Calling => pc[r] \in Calling
    BY <2>1, <1>a DEF Calling, DuesTypeOK
  <2>3. QED
    BY <1>a, <2>1, <2>2, CallsKept
<1>4. ASSUME NEW q \in Requests, CollectRecord(q) PROVE Goal
  <2>1. pc[q] \in Calling /\ cur' = cur /\ pc' = [pc EXCEPT ![q] = "answered"]
    BY <1>4 DEF CollectRecord, Continue, Calling
  <2>2. \A r \in Requests : pc'[r] \in Calling => pc[r] \in Calling /\ r # q
    BY <2>1, <1>a DEF Calling, DuesTypeOK
  <2>3. \A r \in Requests : pc'[r] \in Calling => cur[r] # cur[q]
    BY <1>a, <2>1, <2>2 DEF OneCallPerPayment, Calling
  <2>4. UNCHANGED <<status, action>> \/ \E to, mark : Write(cur[q], to, mark)
    BY <1>4 DEF CollectRecord
  <2>5. \A r \in Requests : pc'[r] \in Calling => status'[cur[r]] = status[cur[r]] /\ action'[cur[r]] = action[cur[r]]
    BY <1>a, <1>c, <2>2, <2>3, <2>4 DEF Write, DuesTypeOK
  <2>6. QED
    BY <1>a, <2>1, <2>2, <2>5, CallsKept
<1>5. ASSUME NEW q \in Requests, StaleApply(q) \/ AuditApply(q) PROVE Goal
  <2>1. \A r \in Requests : pc'[r] \in Calling => pc[r] \in Calling /\ cur'[r] = cur[r]
    BY <1>5, <1>a DEF StaleApply, AuditApply, Set, Continue, Calling, DuesTypeOK
  <2>2. \/ UNCHANGED <<status, action>>
        \/ status[cur[q]] = "pending" /\ Write(cur[q], "pending", action[cur[q]])
        \/ \E to \in {"completed", "failed"} : Write(cur[q], to, "none")
    BY <1>5, <1>a DEF StaleApply, AuditApply, CallIsKnown
  <2>3. \A r \in Requests : pc'[r] \in Calling =>
          (status'[cur[r]] = status[cur[r]] /\ action'[cur[r]] = action[cur[r]]) \/ Final(cur[r])'
    BY <1>a, <1>c, <2>1, <2>2 DEF Write, Final, DuesTypeOK
  <2>4. QED
    BY <1>a, <2>1, <2>3, CallsKept
<1>6. ASSUME NEW q \in Requests, NEW m \in Members, PendingList(q, m) PROVE Goal
  <2>1. \A r \in Requests : pc'[r] \in Calling => pc[r] \in Calling /\ cur'[r] = cur[r]
    BY <1>6, <1>a DEF PendingList, Set, Calling, DuesTypeOK
  <2>2. \A x \in Payments : \/ status'[x] = status[x] /\ action'[x] = action[x]
                            \/ Final(x)'
    BY <1>6 DEF PendingList, Expired, Final
  <2>3. QED
    BY <1>a, <1>c, <2>1, <2>2, CallsKept
<1>7. ASSUME NEW m \in Members, Expire(m) PROVE Goal
  <2>1. UNCHANGED <<pc, cur>>
    BY <1>7 DEF Expire, callVars
  <2>2. \A x \in Payments : \/ status'[x] = status[x] /\ action'[x] = action[x]
                            \/ Final(x)'
    BY <1>7 DEF Expire, Expired, Final
  <2>3. QED
    BY <1>a, <1>c, <2>1, <2>2, CallsKept
<1>8. ASSUME NEW t \in Payments, Webhook(t) PROVE Goal
  <2>1. UNCHANGED <<pc, cur>> /\ Event(t) \in {"completed", "failed"} /\ Write(t, Event(t), "none")
    BY <1>8 DEF Webhook, RecordEvent, Event, callVars
  <2>2. \A x \in Payments : \/ status'[x] = status[x] /\ action'[x] = action[x]
                            \/ Final(x)'
    BY <1>a, <2>1 DEF Write, Final, DuesTypeOK
  <2>3. QED
    BY <1>a, <1>c, <2>1, <2>2, CallsKept
<1>9. ASSUME UNCHANGED <<status, action, pc, cur>> PROVE Goal
  BY <1>a, <1>9, CallsKept
<1>10. ASSUME NEW q \in Requests, UNCHANGED <<status, action>>,
              \E phase, kind, t, otp, result :
                phase \notin Calling /\ Set(q, phase, kind, t, otp, result)
       PROVE  Goal
  <2>1. \A r \in Requests : pc'[r] \in Calling => pc[r] \in Calling /\ cur'[r] = cur[r]
    BY <1>10, <1>a DEF Set, Calling, DuesTypeOK
  <2>2. QED
    BY <1>a, <1>10, <2>1, CallsKept
<1>11. ASSUME NEW q \in Requests, StaleNext(q) \/ Return(q) PROVE Goal
  BY <1>10, <1>11 DEF StaleNext, Return, rowVars, Calling
<1>12. ASSUME NEW q \in Requests, NEW m \in Members, StaleStart(q, m) PROVE Goal
  BY <1>10, <1>12 DEF StaleStart, rowVars, Calling
<1>13. ASSUME NEW q \in Requests, NEW t \in Payments, AuditStart(q, t) PROVE Goal
  BY <1>10, <1>13 DEF AuditStart, rowVars, Calling
<1>14. ASSUME NEW q \in Requests, AskProvider(q) PROVE Goal
  <2>1. UNCHANGED <<status, action, cur>> /\ pc' = [pc EXCEPT ![q] = "asked"]
    BY <1>14 DEF AskProvider, Continue, rowVars
  <2>2. \A r \in Requests : pc'[r] \in Calling => pc[r] \in Calling
    BY <2>1, <1>a DEF Calling, DuesTypeOK
  <2>3. QED
    BY <1>a, <2>1, <2>2, CallsKept
<1>15. CASE DuesCrash
  <2>1. \A r \in Requests : pc'[r] = "idle"
    BY <1>15 DEF DuesCrash, CallsLost
  <2>2. QED
    BY <2>1 DEF OneCallPerPayment, CallIsMarked
<1>16. ASSUME NEW t \in Payments, PayerDecides(t) \/ Elapse(t) \/ PostPayment(t) PROVE Goal
  BY <1>9, <1>16 DEF PayerDecides, Elapse, PostPayment, rowVars, callVars
<1>17. CASE UNCHANGED duesVars
  BY <1>9, <1>17 DEF duesVars, rowVars, callVars
<1>18. ASSUME NEW q \in Requests, NEW m \in Members, NEW t \in Payments, NEW otp \in BOOLEAN
       PROVE  ~PendingCode(q, m, t) /\ ~CollectAgain(q, m, t, otp)
  BY DEF PendingCode, CollectAgain
<1> HIDE DEF Goal
<1>19. QED
  BY <1>1, <1>2, <1>3, <1>4, <1>5, <1>6, <1>7, <1>8, <1>11, <1>12, <1>13, <1>14, <1>15, <1>16, <1>17, <1>18
  DEF DuesNext, CallStep, PaymentStep

LEMMA DuesInvStep ==
  ASSUME DuesInv, [DuesNext]_duesVars
  PROVE  DuesInv'
<1>1. \A x \in Payments : Kept(x)
  BY KeptStep
<1>2. QED
  BY <1>1, KeptFacts, TypeStep, CallStepKnown, FeeStep DEF DuesInv

-----------------------------------------------------------------------------
(* Theorems *)

\* Every variable keeps its type, rows come before charges, what is completed
\* was collected, and what was followed up is over.
THEOREM DuesInvariant == DuesSpec => []DuesInv
<1>1. DuesInit => DuesInv
  BY DEF DuesInit, DuesInv, DuesTypeOK, TransactionStatus, CustomerAction, ChargeStatus, CallPhase, Outcome,
     RowBeforeCharge, CallIsKnown, AtProvider, CompletedIsCollected, FollowedUpIsFinal, FeeOnce
<1>2. DuesInv /\ [DuesNext]_duesVars => DuesInv'
  BY DuesInvStep
<1>3. QED
  BY <1>1, <1>2, PTL DEF DuesSpec

\* The platform's fee is taken at most once for a payment.
THEOREM FeeTakenOnce == DuesSpec => []FeeOnce
<1>1. DuesInv => FeeOnce
  BY DEF DuesInv
<1>2. QED
  BY <1>1, DuesInvariant, PTL

\* But for the hook gateway, at most one request is at the provider with a
\* payment, although no lock is held over the call.
THEOREM CallsExclusive == DuesSpec => []OneCallPerPayment
<1>1. DuesInit => CallsApart
  BY DEF DuesInit, CallsApart, OneCallPerPayment, CallIsMarked
<1>2. ASSUME DuesInv, DuesInv', CallsApart, [DuesNext]_duesVars PROVE CallsApart'
  BY <1>2, KeptStep, CallsApartStep
<1>3. CallsApart => OneCallPerPayment
  BY DEF CallsApart, OneCallPerPayment
<1>4. QED
  BY <1>1, <1>2, <1>3, DuesInvariant, PTL DEF DuesSpec

-----------------------------------------------------------------------------
(* The refinement *)

LEMMA KeptImplements ==
  ASSUME DuesInv, DuesInv', \A x \in Payments : Kept(x)
  PROVE  Ledger!Next
<1>1. ASSUME NEW x \in Payments
      PROVE  \/ Ledger!Stays(x) \/ Ledger!Open(x) \/ Ledger!Ask(x)
             \/ Ledger!Decide(x) \/ Ledger!Settle(x) \/ Ledger!GiveUp(x)
  <2>1. /\ status[x] \in TransactionStatus /\ status'[x] \in TransactionStatus
        /\ charge[x] \in ChargeStatus /\ charge'[x] \in ChargeStatus
    BY DEF DuesInv, DuesTypeOK
  <2>2. Kept(x)
    OBVIOUS
  <2>3. QED
    BY <2>1, <2>2 DEF Kept, TransactionStatus, ChargeStatus, LedgerRow, LedgerMoney, Ledger!Stays, Ledger!Open,
       Ledger!Ask, Ledger!Decide, Ledger!Settle, Ledger!GiveUp
<1>2. QED
  BY <1>1 DEF Ledger!Next

\* Dues payments keep the ledger's contract, whichever of the ways of learning
\* what became of them comes first: Dues implements LedgerContract.
THEOREM DuesKeepLedger == DuesSpec => KeepsLedger
<1>1. DuesInit => Ledger!Init
  BY DEF DuesInit, LedgerRow, LedgerMoney, Ledger!Init
<1>2. ASSUME DuesInv, DuesInv', [DuesNext]_duesVars PROVE Ledger!Next
  BY <1>2, KeptStep, KeptImplements
<1>3. QED
  BY <1>1, <1>2, DuesInvariant, PTL DEF DuesSpec, KeepsLedger, Ledger!Spec

-----------------------------------------------------------------------------
(* The phone menu *)

WithMember == {"pay_amount", "pay_otp", "pending_payment_select", "pending_payment_otp",
               "loan_amount", "loan_purpose", "loan_confirm"}
WithPayment == {"pay_otp", "pending_payment_otp"}

\* What a session's state says is there.
Known(r) ==
  /\ r \in State
  /\ r.step \in WithMember => r.member \in Members
  /\ r.step = "select_cooperative" => r.list \subseteq Members
  /\ r.step \in WithPayment => r.tx \in Payments /\ payer[r.tx] = r.member
  /\ r.step = "pending_payment_select" => r.list \subseteq Payments /\ \A t \in r.list : payer[t] = r.member

SessionsKnown ==
  /\ state \in [Sessions -> [Phones -> State]]
  /\ \A s \in Sessions, p \in Phones : Known(state[s][p])

ForMember == {"pay", "pending", "hook", "list", "loan", "loan_checked"}

\* A handler holds a state that was stored, and one that collects is at the
\* payment it has created for its member.
VisitKnown(q) ==
  /\ Known(visit[q].state)
  /\ visit[q].session # NoSession => visit[q].phone \in Phones
  /\ visit[q].kind \in ForMember => visit[q].state.member \in Members
  /\ visit[q].kind = "pay" =>
       /\ pc[q] \in {"calling", "called", "answered"}
       /\ cur[q] \in Payments /\ payer[cur[q]] = visit[q].state.member

VisitsKnown ==
  /\ visit \in [Requests -> [kind : VisitKind, session : Sessions \cup {NoSession},
                             phone : Phones \cup {"none"}, state : State]]
  /\ \A q \in Requests : VisitKnown(q)

UssdInv == DuesInv /\ active \subseteq Members /\ SessionsKnown /\ VisitsKnown

-----------------------------------------------------------------------------
(* Payers *)

\* A payment keeps its payer.
PayersKept == \A t \in Payments : payer[t] # Nobody => payer'[t] = payer[t]

LEMMA PayerStep ==
  ASSUME DuesInv, [DuesNext]_duesVars
  PROVE  PayersKept
<1>1. \A x \in Payments : Kept(x)
  BY KeptStep
<1>2. QED
  BY <1>1 DEF Kept, PayersKept, DuesInv, RowBeforeCharge, DuesTypeOK

LEMMA KnownKept ==
  ASSUME PayersKept, NEW r, Known(r), DuesTypeOK
  PROVE  Known(r)'
<1>1. ASSUME NEW t \in Payments, NEW m \in Members, payer[t] = m PROVE payer'[t] = m
  BY <1>1, NamesAssumption DEF PayersKept
<1>2. QED
  BY <1>1 DEF Known, WithMember, WithPayment

-----------------------------------------------------------------------------
(* Sessions *)

LEMMA NoStateKnown == NoState \in State /\ Known(NoState)
BY DEF NoState, State, Steps, Known, WithMember, WithPayment

\* From step to step with the rest of the state as it is.
LEMMA GoKnown ==
  ASSUME NEW r, Known(r), NEW step \in Steps \ {"select_cooperative", "pending_payment_select"},
         step \notin WithPayment, step \in WithMember => r.member \in Members
  PROVE  Known([r EXCEPT !.step = step])
BY DEF Known, State, WithMember, WithPayment

\* Sessions are rewritten with states that are known, or cleared.
Rewritten(s, p) ==
  \/ UNCHANGED state
  \/ Clear(s)
  \/ \E r : Known(r) /\ Put(s, p, r)

LEMMA RewrittenKnown ==
  ASSUME SessionsKnown, DuesTypeOK, PayersKept, NEW s \in Sessions, NEW p \in Phones, Rewritten(s, p)
  PROVE  SessionsKnown'
<1>1. \A r : Known(r) => Known(r)'
  BY KnownKept
<1>2. \A z \in Sessions, y \in Phones : Known(state[z][y]) /\ state[z][y] \in State
  BY DEF SessionsKnown
<1>3. CASE UNCHANGED state
  <2>1. \A z \in Sessions, y \in Phones : Known(state[z][y])'
    BY <1>1, <1>2, <1>3 DEF Known
  <2>2. QED
    BY <1>3, <2>1 DEF SessionsKnown
<1>4. CASE Clear(s)
  <2>1. /\ state' \in [Sessions -> [Phones -> State]]
        /\ \A z \in Sessions, y \in Phones : state'[z][y] \in {state[z][y], NoState}
    BY <1>4, NoStateKnown DEF Clear, SessionsKnown
  <2>2. \A z \in Sessions, y \in Phones : Known(state[z][y])'
    BY <1>1, <1>2, <2>1, NoStateKnown DEF Known
  <2>3. QED
    BY <2>1, <2>2 DEF SessionsKnown
<1>5. ASSUME NEW r, Known(r), Put(s, p, r) PROVE SessionsKnown'
  <2>1. r \in State
    BY <1>5 DEF Known
  <2>2. /\ state' \in [Sessions -> [Phones -> State]]
        /\ \A z \in Sessions, y \in Phones : state'[z][y] \in {state[z][y], r}
    BY <1>5, <2>1 DEF Put, SessionsKnown
  <2>3. \A z \in Sessions, y \in Phones : Known(state[z][y])'
    BY <1>1, <1>2, <1>5, <2>2 DEF Known
  <2>4. QED
    BY <2>2, <2>3 DEF SessionsKnown
<1>6. QED
  BY <1>3, <1>4, <1>5 DEF Rewritten

LEMMA KeyRewrites ==
  ASSUME UssdInv, NEW s \in Sessions, NEW p \in Phones, Key(s, p)
  PROVE  Rewritten(s, p) /\ UNCHANGED <<duesVars, active, visit>>
<1> DEFINE r == state[s][p]
<1>0. Known(r) /\ r \in State
  BY DEF UssdInv, SessionsKnown, Known
<1>1. MembersOf(p) \subseteq Members
  BY DEF MembersOf, UssdInv
<1>2. CASE Dial(s, p)
  <2>1. Known([NoState EXCEPT !.step = "select_cooperative", !.list = MembersOf(p)])
    BY <1>1 DEF NoState, State, Steps, Known, WithMember, WithPayment
  <2>2. \A m \in Members \cup {Nobody} : Known([NoState EXCEPT !.step = "main", !.member = m])
    BY DEF NoState, State, Steps, Known, WithMember, WithPayment
  <2>3. QED
    BY <1>1, <1>2, <2>1, <2>2 DEF Dial, MenuOnly, Rewritten
<1>3. CASE SelectCooperative(s, p)
  <2>1. \A m \in r.list : Known([NoState EXCEPT !.step = "main", !.member = m])
    BY <1>0, <1>3 DEF SelectCooperative, At, StateOf, NoState, State, Steps, Known, WithMember, WithPayment
  <2>2. QED
    BY <1>3, <2>1 DEF SelectCooperative, StateOf, MenuOnly, Rewritten
<1>4. CASE MenuAmount(s, p)
  <2>1. r.member \in Members
    BY <1>0, <1>4 DEF MenuAmount, Member, StateOf, State
  <2>2. Known([r EXCEPT !.step = "pay_amount"]) /\ Known([r EXCEPT !.step = "loan_amount"])
    BY <1>0, <2>1, GoKnown DEF Steps, WithMember, WithPayment
  <2>3. QED
    BY <1>4, <2>2 DEF MenuAmount, Go, StateOf, MenuOnly, Rewritten
<1>5. CASE MenuEnd(s, p) \/ RepayCancel(s, p) \/ LoanCancel(s, p) \/ PreferenceKeep(s, p)
  BY <1>5 DEF MenuEnd, RepayCancel, LoanCancel, PreferenceKeep, MenuOnly, Rewritten
<1>6. CASE PreferenceChange(s, p) \/ LinkFarmer(s, p)
  BY <1>6 DEF PreferenceChange, LinkFarmer, Rewritten
<1>7. \A step \in {"repay_confirm", "repay_loan_select", "sms_on", "sms_off", "link_coop_code", "link_farmer_code"} :
        Known([r EXCEPT !.step = step])
  BY <1>0, GoKnown DEF Steps, WithMember, WithPayment
<1>8. CASE MenuRepay(s, p) \/ RepaySelect(s, p)
  BY <1>7, <1>8 DEF MenuRepay, RepaySelect, Go, StateOf, MenuOnly, Rewritten
<1>9. CASE MenuPreferences(s, p) \/ MenuLink(s, p) \/ LinkCooperative(s, p)
  BY <1>7, <1>9 DEF MenuPreferences, MenuLink, LinkCooperative, Go, StateOf, MenuOnly, Rewritten
<1>10. CASE LoanAmount(s, p) \/ LoanPurpose(s, p)
  <2>1. r.member \in Members
    BY <1>0, <1>10 DEF LoanAmount, LoanPurpose, At, StateOf, Known, WithMember
  <2>2. \A step \in {"loan_purpose", "loan_confirm"} : Known([r EXCEPT !.step = step])
    BY <1>0, <2>1, GoKnown DEF Steps, WithPayment
  <2>3. QED
    BY <1>10, <2>2 DEF LoanAmount, LoanPurpose, Go, StateOf, MenuOnly, Rewritten
<1>11. CASE PendingSelect(s, p)
  <2>1. \A t \in r.list : payer[t] = r.member =>
          Known([r EXCEPT !.step = "pending_payment_otp", !.tx = t])
    BY <1>0, <1>11 DEF PendingSelect, At, StateOf, State, Steps, Known, WithMember, WithPayment
  <2>2. QED
    BY <1>11, <2>1 DEF PendingSelect, Member, StateOf, MenuOnly, Rewritten
<1>12. CASE SessionTimeout(s, p)
  BY <1>12, NoStateKnown DEF SessionTimeout, MenuOnly, Rewritten
<1>13. QED
  BY <1>2, <1>3, <1>4, <1>5, <1>6, <1>8, <1>9, <1>10, <1>11, <1>12 DEF Key

-----------------------------------------------------------------------------
(* The payments take steps of Dues *)

LEMMA WaitingKeyDues ==
  ASSUME UssdInv, NEW q \in Requests, NEW s \in Sessions, NEW p \in Phones, WaitingKey(q, s, p)
  PROVE  [DuesNext]_duesVars
<1> DEFINE r == state[s][p]
<1>0. Known(r) /\ r \in State
  BY DEF UssdInv, SessionsKnown, Known
<1>1. CASE PayAmount(q, s, p)
  <2>1. r.member \in Members
    BY <1>0, <1>1 DEF PayAmount, At, StateOf, Known, WithMember
  <2>2. \E t \in Payments : CollectStart(q, r.member, t)
    BY <1>1 DEF PayAmount, Member, StateOf
  <2>3. QED
    BY <2>1, <2>2 DEF DuesNext
<1>2. CASE EnterCode(q, s, p)
  <2>1. r.member \in Members /\ r.tx \in Payments
    BY <1>0, <1>2 DEF EnterCode, At, StateOf, Known, WithMember, WithPayment
  <2>2. ResumeStart(q, r.member, r.tx)
    BY <1>2 DEF EnterCode, Member, StateOf
  <2>3. QED
    BY <2>1, <2>2 DEF DuesNext
<1>3. CASE MenuPending(q, s, p)
  <2>1. r.member \in Members
    BY <1>0, <1>3 DEF MenuPending, Member, StateOf, State
  <2>2. StaleStart(q, r.member)
    BY <1>3 DEF MenuPending, Member, StateOf
  <2>3. QED
    BY <2>1, <2>2 DEF DuesNext
<1>4. CASE MenuAnnouncements(q, s, p) \/ RepayConfirm(q, s, p) \/ RepayCode(q, s, p) \/ LoanConfirm(q, s, p)
  BY <1>4 DEF MenuAnnouncements, RepayConfirm, RepayCode, LoanConfirm, LoanLock
<1>5. QED
  BY <1>1, <1>2, <1>3, <1>4 DEF WaitingKey

LEMMA HookCallDues ==
  ASSUME UssdInv, NEW q \in Requests, HookCall(q)
  PROVE  [DuesNext]_duesVars
<1>1. ASSUME NEW p \in Phones, NEW m \in Members, HookPending(q, p, m) PROVE [DuesNext]_duesVars
  BY <1>1 DEF HookPending, DuesNext
<1>2. ASSUME NEW p \in Phones, NEW m \in Members, NEW t \in Payments, HookPay(q, p, m, t)
      PROVE  [DuesNext]_duesVars
  BY <1>2 DEF HookPay, DuesNext
<1>3. ASSUME NEW p \in Phones, NEW m \in Members,
             LoanHook(q, p, m) \/ HookRepay(q, p, m) \/ HookAnnouncements(q, p, m)
      PROVE  UNCHANGED duesVars
  BY <1>3 DEF LoanHook, LoanLock, HookRepay, HookAnnouncements
<1>4. QED
  BY <1>1, <1>2, <1>3 DEF HookCall

LEMMA ReplyDues ==
  ASSUME UssdInv, NEW q \in Requests, Reply(q)
  PROVE  [DuesNext]_duesVars
<1>0. visit[q].kind \in {"pay", "pending", "hook", "list"} => visit[q].state.member \in Members
  BY DEF UssdInv, VisitsKnown, VisitKnown, ForMember
<1>1. CASE PayReply(q) \/ CodeReply(q) \/ CallReturns(q)
  <2>1. Return(q)
    BY <1>1 DEF PayReply, CodeReply, CallReturns
  <2>2. QED
    BY <2>1 DEF DuesNext
<1>2. CASE PendingReply(q) \/ StaffListReply(q)
  <2>1. PendingList(q, visit[q].state.member) /\ visit[q].kind \in {"pending", "list"}
    BY <1>2 DEF PendingReply, StaffListReply
  <2>2. QED
    BY <1>0, <2>1 DEF DuesNext
<1>3. CASE HookPendingReply(q)
  <2> DEFINE m == visit[q].state.member
  <2>1. m \in Members
    BY <1>0, <1>3 DEF HookPendingReply
  <2>2. PendingList(q, m) \/ \E t \in Payments : PendingCode(q, m, t)
    BY <1>3 DEF HookPendingReply
  <2> HIDE DEF m
  <2>3. QED
    BY <2>1, <2>2 DEF DuesNext
<1>4. CASE OtherReply(q) \/ LoanLapse(q) \/ LoanCheck(q) \/ LoanInsert(q)
  BY <1>4 DEF OtherReply, LoanLapse, LoanCheck, LoanInsert
<1>5. QED
  BY <1>1, <1>2, <1>3, <1>4 DEF Reply

\* Whoever acts, the payments take a step of Dues or stay as they are.
LEMMA DuesSteps ==
  ASSUME UssdInv, [Next]_vars
  PROVE  [DuesNext]_duesVars
<1>1. ASSUME NEW s \in Sessions, NEW p \in Phones, Key(s, p) PROVE [DuesNext]_duesVars
  BY <1>1, KeyRewrites
<1>2. ASSUME NEW s \in Sessions, NEW p \in Phones, NEW q \in Requests, WaitingKey(q, s, p)
      PROVE  [DuesNext]_duesVars
  BY <1>2, WaitingKeyDues
<1>3. ASSUME NEW q \in Requests, Reply(q) \/ HookCall(q) PROVE [DuesNext]_duesVars
  BY <1>3, ReplyDues, HookCallDues
<1>4. ASSUME NEW q \in Requests, StaffAudit(q) \/ CallStep(q) PROVE [DuesNext]_duesVars
  BY <1>4 DEF StaffAudit, DuesNext
<1>5. ASSUME NEW q \in Requests, NEW m \in Members, StaffList(q, m) PROVE [DuesNext]_duesVars
  BY <1>5 DEF StaffList, DuesNext
<1>6. ASSUME NEW t \in Payments, PaymentStep(t) PROVE [DuesNext]_duesVars
  BY <1>6 DEF DuesNext
<1>7. ASSUME NEW m \in Members, Expire(m) PROVE [DuesNext]_duesVars
  BY <1>7 DEF DuesNext
<1>8. ASSUME NEW m \in Members, LoanDecided(m) \/ Leave(m) \/ StaffConsent(m) PROVE UNCHANGED duesVars
  BY <1>8 DEF LoanDecided, Leave, StaffConsent
<1>9. CASE Crash
  BY <1>9 DEF Crash, DuesNext
<1>10. CASE UNCHANGED vars
  BY <1>10 DEF vars
<1>11. QED
  BY <1>1, <1>2, <1>3, <1>4, <1>5, <1>6, <1>7, <1>8, <1>9, <1>10 DEF Next

-----------------------------------------------------------------------------
(* What the handlers do to the sessions *)

\* Of one session, or of none.
SomeRewritten == UNCHANGED state \/ \E s \in Sessions, p \in Phones : Rewritten(s, p)

LEMMA SomeRewrittenKnown ==
  ASSUME SessionsKnown, DuesTypeOK, PayersKept, SomeRewritten
  PROVE  SessionsKnown'
<1>1. CASE UNCHANGED state
  <2>1. \A s \in Sessions, p \in Phones : Known(state[s][p])'
    BY <1>1, KnownKept DEF SessionsKnown, Known
  <2>2. QED
    BY <1>1, <2>1 DEF SessionsKnown
<1>2. QED
  BY <1>1, RewrittenKnown DEF SomeRewritten

LEMMA FinishRewrites ==
  ASSUME VisitsKnown, NEW q \in Requests, Finish(q)
  PROVE  SomeRewritten /\ Answered(q)
<1>1. visit[q].session \in Sessions \cup {NoSession}
  BY DEF VisitsKnown
<1>2. visit[q].session # NoSession => visit[q].phone \in Phones
  BY DEF VisitsKnown, VisitKnown, ForMember
<1>3. QED
  BY <1>1, <1>2 DEF Finish, SomeRewritten, Rewritten

LEMMA ResumeRewrites ==
  ASSUME VisitsKnown, NEW q \in Requests, NEW r, Known(r), Resume(q, r)
  PROVE  SomeRewritten /\ Answered(q)
<1>1. visit[q].session \in Sessions \cup {NoSession}
  BY DEF VisitsKnown
<1>2. visit[q].session # NoSession => visit[q].phone \in Phones
  BY DEF VisitsKnown, VisitKnown, ForMember
<1>3. QED
  BY <1>1, <1>2 DEF Resume, SomeRewritten, Rewritten

LEMMA ReplyRewrites ==
  ASSUME UssdInv, NEW q \in Requests, Reply(q)
  PROVE  SomeRewritten
<1> DEFINE r == visit[q].state
           m == visit[q].state.member
<1>0. VisitsKnown /\ VisitKnown(q) /\ Known(r) /\ r \in State
  BY DEF UssdInv, VisitsKnown, VisitKnown, ForMember, Known
<1>1. CASE PayReply(q)
  <2>1. Known([r EXCEPT !.step = "pay_otp", !.tx = cur[q]])
    BY <1>0, <1>1 DEF PayReply, VisitKnown, ForMember, Known, State, Steps, WithMember, WithPayment
  <2>2. Resume(q, [r EXCEPT !.step = "pay_otp", !.tx = cur[q]]) \/ Finish(q)
    BY <1>1 DEF PayReply
  <2>3. QED
    BY <1>0, <2>1, <2>2, ResumeRewrites, FinishRewrites
<1>2. CASE CodeReply(q)
  BY <1>0, <1>2, FinishRewrites DEF CodeReply, SomeRewritten
<1>3. CASE PendingReply(q)
  <2>1. m \in Members
    BY <1>0, <1>3 DEF PendingReply, VisitKnown, ForMember
  <2>2. \A t \in PendingOf(m) : t \in Payments /\ payer[t] = m
    BY DEF PendingOf
  <2>3. Known([r EXCEPT !.step = "pending_payment_select", !.list = PendingOf(m)])
    BY <1>0, <2>1, <2>2 DEF Known, State, Steps, WithMember, WithPayment
  <2>4. \A t \in PendingOf(m) : Known([r EXCEPT !.step = "pending_payment_otp", !.tx = t])
    BY <1>0, <2>1, <2>2 DEF Known, State, Steps, WithMember, WithPayment
  <2>5. \/ Resume(q, [r EXCEPT !.step = "pending_payment_select", !.list = PendingOf(m)])
        \/ \E t \in PendingOf(m) : Resume(q, [r EXCEPT !.step = "pending_payment_otp", !.tx = t])
        \/ Finish(q)
    BY <1>3 DEF PendingReply
  <2>6. QED
    BY <1>0, <2>3, <2>4, <2>5, ResumeRewrites, FinishRewrites
<1>4. CASE OtherReply(q)
  <2>1. Known([r EXCEPT !.step = "repay_otp"])
    BY <1>0, GoKnown DEF Steps, WithMember, WithPayment
  <2>2. Resume(q, [r EXCEPT !.step = "repay_otp"]) \/ Finish(q) \/ UNCHANGED state
    BY <1>4 DEF OtherReply
  <2>3. QED
    BY <1>0, <2>1, <2>2, ResumeRewrites, FinishRewrites DEF SomeRewritten
<1>5. CASE HookPendingReply(q) \/ StaffListReply(q) \/ CallReturns(q) \/ LoanLapse(q)
  BY <1>5 DEF HookPendingReply, StaffListReply, CallReturns, LoanLapse, ussdVars, SomeRewritten
<1>6. CASE LoanCheck(q) \/ LoanInsert(q)
  BY <1>0, <1>6, FinishRewrites DEF LoanCheck, LoanInsert, SomeRewritten
<1>7. QED
  BY <1>1, <1>2, <1>3, <1>4, <1>5, <1>6 DEF Reply

LEMMA SessionStep ==
  ASSUME UssdInv, [Next]_vars
  PROVE  SomeRewritten
<1>1. ASSUME NEW s \in Sessions, NEW p \in Phones, Key(s, p) PROVE SomeRewritten
  BY <1>1, KeyRewrites DEF SomeRewritten
<1>2. ASSUME NEW s \in Sessions, NEW p \in Phones, NEW q \in Requests, WaitingKey(q, s, p)
      PROVE  UNCHANGED state
  BY <1>2 DEF WaitingKey, PayAmount, EnterCode, MenuPending, MenuAnnouncements, RepayConfirm, RepayCode,
     LoanConfirm, LoanLock
<1>3. ASSUME NEW q \in Requests, Reply(q) PROVE SomeRewritten
  BY <1>3, ReplyRewrites
<1>4. ASSUME NEW q \in Requests, HookCall(q) \/ StaffAudit(q) PROVE UNCHANGED state
  BY <1>4 DEF HookCall, LoanHook, LoanLock, HookRepay, HookAnnouncements, HookPending, HookPay, StaffAudit, ussdVars
<1>5. ASSUME NEW q \in Requests, NEW m \in Members, StaffList(q, m) PROVE UNCHANGED state
  BY <1>5 DEF StaffList
<1>6. ASSUME NEW m \in Members, LoanDecided(m) \/ Leave(m) \/ StaffConsent(m) PROVE UNCHANGED state
  BY <1>6 DEF LoanDecided, Leave, StaffConsent
<1>7. CASE Crash \/ UNCHANGED vars
  BY <1>7 DEF Crash, vars, ussdVars, SomeRewritten
<1>8. ASSUME UNCHANGED state PROVE SomeRewritten
  BY <1>8 DEF SomeRewritten
<1>9. ASSUME UNCHANGED ussdVars PROVE UNCHANGED state
  BY <1>9 DEF ussdVars
<1>10. QED
  BY <1>1, <1>2, <1>3, <1>4, <1>5, <1>6, <1>7, <1>8, <1>9 DEF Next

-----------------------------------------------------------------------------
(* What the handlers do to each other *)

Visit == [kind : VisitKind, session : Sessions \cup {NoSession}, phone : Phones \cup {"none"}, state : State]

\* The calls of the other requests stay where they are.
OthersStay(q) == \A x \in Requests \ {q} : pc'[x] = pc[x] /\ cur'[x] = cur[x]

LEMMA CallsStay ==
  ASSUME DuesTypeOK, NEW q \in Requests
  PROVE  /\ UNCHANGED duesVars \/ CallStep(q) \/ Return(q) => OthersStay(q)
         /\ \A m : StaleStart(q, m) \/ PendingList(q, m) => OthersStay(q)
         /\ \A t : AuditStart(q, t) => OthersStay(q)
         /\ \A m, t : CollectStart(q, m, t) \/ ResumeStart(q, m, t) \/ PendingCode(q, m, t) => OthersStay(q)
         /\ \A m, t, otp : CollectAgain(q, m, t, otp) => OthersStay(q)
<1>1. ASSUME NEW phase, NEW kind, NEW t, NEW otp, NEW result, Set(q, phase, kind, t, otp, result)
      PROVE  OthersStay(q)
  BY <1>1 DEF Set, OthersStay, DuesTypeOK
<1>2. ASSUME NEW phase, NEW result, Continue(q, phase, result) PROVE OthersStay(q)
  BY <1>2 DEF Continue, OthersStay, DuesTypeOK
<1>3. ASSUME UNCHANGED duesVars PROVE OthersStay(q)
  BY <1>3 DEF duesVars, callVars, OthersStay
<1>4. ASSUME CallStep(q) \/ Return(q) PROVE OthersStay(q)
  BY <1>1, <1>2, <1>4 DEF CallStep, Return, CollectCall, CollectRecord, StaleNext, AskProvider, StaleApply, AuditApply
<1>5. ASSUME NEW m, StaleStart(q, m) \/ PendingList(q, m) PROVE OthersStay(q)
  BY <1>1, <1>5 DEF StaleStart, PendingList
<1>6. ASSUME NEW t, AuditStart(q, t) PROVE OthersStay(q)
  BY <1>1, <1>6 DEF AuditStart
<1>7. ASSUME NEW m, NEW t, CollectStart(q, m, t) \/ ResumeStart(q, m, t) \/ PendingCode(q, m, t)
      PROVE  OthersStay(q)
  BY <1>1, <1>7 DEF CollectStart, ResumeStart, PendingCode
<1>8. ASSUME NEW m, NEW t, NEW otp, CollectAgain(q, m, t, otp) PROVE OthersStay(q)
  BY <1>1, <1>8 DEF CollectAgain
<1>9. QED
  BY <1>3, <1>4, <1>5, <1>6, <1>7, <1>8

\* A handler whose call and state stay as they are knows what it knew.
LEMMA VisitKept ==
  ASSUME VisitsKnown, DuesTypeOK, PayersKept, NEW x \in Requests,
         visit'[x] = visit[x], pc'[x] = pc[x], cur'[x] = cur[x]
  PROVE  VisitKnown(x)'
<1>1. VisitKnown(x)
  BY DEF VisitsKnown
<1>2. Known(visit[x].state)'
  <2>1. \A r : Known(r) => Known(r)'
    BY KnownKept
  <2>2. Known(visit[x].state)
    BY <1>1 DEF VisitKnown, ForMember
  <2>3. QED
    BY <2>1, <2>2 DEF Known
<1>3. \A t \in Payments, m \in Members : payer[t] = m => payer'[t] = m
  BY NamesAssumption DEF PayersKept
<1>4. QED
  BY <1>1, <1>2, <1>3 DEF VisitKnown, ForMember

\* One handler moves.
LEMMA VisitMoves ==
  ASSUME VisitsKnown, DuesTypeOK, PayersKept, NEW q \in Requests, OthersStay(q),
         NEW v \in Visit, visit' = [visit EXCEPT ![q] = v], VisitKnown(q)'
  PROVE  VisitsKnown'
<1>1. /\ visit' \in [Requests -> Visit]
      /\ \A x \in Requests \ {q} : visit'[x] = visit[x]
  BY DEF VisitsKnown, Visit
<1>2. \A x \in Requests \ {q} : VisitKnown(x)'
  BY <1>1, VisitKept DEF OthersStay
<1>3. QED
  BY <1>1, <1>2 DEF VisitsKnown, Visit

\* A request enters a handler with a state that is known.
LEMMA EnterKnown ==
  ASSUME VisitsKnown, DuesTypeOK, PayersKept, NEW q \in Requests, OthersStay(q),
         NEW kind \in VisitKind, NEW s \in Sessions \cup {NoSession}, NEW p \in Phones \cup {"none"},
         NEW r, Known(r), s # NoSession => p \in Phones, Enter(q, kind, s, p, r),
         kind \in ForMember => r.member \in Members,
         kind = "pay" => pc'[q] = "calling" /\ cur'[q] \in Payments /\ payer'[cur'[q]] = r.member
  PROVE  VisitsKnown'
<1> DEFINE v == [kind |-> kind, session |-> s, phone |-> p, state |-> r]
<1>1. v \in Visit /\ visit' = [visit EXCEPT ![q] = v] /\ visit'[q] = v
  BY DEF Visit, Known, Enter, VisitsKnown
<1>2. Known(r)'
  BY KnownKept
<1>3. VisitKnown(q)'
  BY <1>1, <1>2 DEF VisitKnown, ForMember, Known
<1>4. QED
  BY <1>1, <1>3, VisitMoves

\* A handler has answered.
LEMMA AnsweredKnown ==
  ASSUME VisitsKnown, DuesTypeOK, PayersKept, NEW q \in Requests, OthersStay(q), Answered(q)
  PROVE  VisitsKnown'
<1>1. NoVisit \in Visit /\ visit' = [visit EXCEPT ![q] = NoVisit] /\ visit'[q] = NoVisit
  BY NoStateKnown DEF NoVisit, Visit, VisitKind, Answered, VisitsKnown
<1>2. Known(NoState)'
  BY NoStateKnown, KnownKept
<1>3. VisitKnown(q)'
  BY <1>1, <1>2 DEF VisitKnown, ForMember, Known, NoVisit
<1>4. QED
  BY <1>1, <1>3, VisitMoves

\* A request that is in no handler does something.
LEMMA NoVisitKnown ==
  ASSUME VisitsKnown, DuesTypeOK, PayersKept, NEW q \in Requests, OthersStay(q), UNCHANGED visit,
         visit[q].kind # "pay"
  PROVE  VisitsKnown'
<1>1. Known(visit[q].state)'
  <2>1. \A r : Known(r) => Known(r)'
    BY KnownKept
  <2>2. Known(visit[q].state)
    BY DEF VisitsKnown, VisitKnown, ForMember
  <2>3. QED
    BY <2>1, <2>2 DEF Known
<1>2. VisitKnown(q)'
  BY <1>1 DEF VisitsKnown, VisitKnown, ForMember
<1>3. \A x \in Requests \ {q} : VisitKnown(x)'
  BY VisitKept DEF OthersStay
<1>4. QED
  BY <1>2, <1>3 DEF VisitsKnown

LEMMA WaitingKeyVisits ==
  ASSUME UssdInv, PayersKept, NEW q \in Requests, NEW s \in Sessions, NEW p \in Phones, WaitingKey(q, s, p)
  PROVE  VisitsKnown'
<1> DEFINE r == state[s][p]
<1>0. /\ Known(r) /\ r \in State /\ DuesTypeOK /\ VisitsKnown /\ s \in Sessions \cup {NoSession}
      /\ {"pay", "code", "pending", "sms", "repay", "repay_code", "loan"} \subseteq VisitKind
  BY DEF UssdInv, SessionsKnown, Known, DuesInv, VisitKind
<1>1. CASE PayAmount(q, s, p)
  <2>1. r.member \in Members
    BY <1>0, <1>1 DEF PayAmount, At, StateOf, Known, WithMember
  <2>2. PICK t \in Payments : CollectStart(q, r.member, t)
    BY <1>1 DEF PayAmount, Member, StateOf
  <2>3. pc'[q] = "calling" /\ cur'[q] \in Payments /\ payer'[cur'[q]] = r.member
    BY <1>0, <2>2 DEF CollectStart, Set, DuesTypeOK
  <2>4. OthersStay(q)
    BY <1>0, <2>2, CallsStay
  <2>5. Enter(q, "pay", s, p, r)
    BY <1>1 DEF PayAmount, StateOf
  <2> HIDE DEF r
  <2>6. QED
    BY <1>0, <2>1, <2>3, <2>4, <2>5, EnterKnown
<1>2. CASE EnterCode(q, s, p)
  <2>1. OthersStay(q)
    BY <1>0, <1>2, CallsStay DEF EnterCode
  <2>2. Enter(q, "code", s, p, r)
    BY <1>2 DEF EnterCode, StateOf
  <2> HIDE DEF r
  <2>3. QED
    BY <1>0, <2>1, <2>2, EnterKnown DEF ForMember
<1>3. CASE MenuPending(q, s, p)
  <2>1. r.member \in Members
    BY <1>0, <1>3 DEF MenuPending, Member, StateOf, State
  <2>2. OthersStay(q)
    BY <1>0, <1>3, CallsStay DEF MenuPending
  <2>3. Enter(q, "pending", s, p, r)
    BY <1>3 DEF MenuPending, StateOf
  <2> HIDE DEF r
  <2>4. QED
    BY <1>0, <2>1, <2>2, <2>3, EnterKnown
<1>4. CASE MenuAnnouncements(q, s, p) \/ RepayConfirm(q, s, p) \/ RepayCode(q, s, p) \/ LoanConfirm(q, s, p)
  <2>1. OthersStay(q)
    BY <1>0, <1>4, CallsStay DEF MenuAnnouncements, RepayConfirm, RepayCode, LoanConfirm, LoanLock
  <2>2. CASE LoanConfirm(q, s, p)
    <3>1. r.member \in Members
      BY <1>0, <2>2 DEF LoanConfirm, At, StateOf, Known, WithMember
    <3>2. Enter(q, "loan", s, p, r)
      BY <2>2 DEF LoanConfirm, LoanLock, StateOf
    <3> HIDE DEF r
    <3>3. QED
      BY <1>0, <2>1, <3>1, <3>2, EnterKnown
  <2>3. CASE MenuAnnouncements(q, s, p) \/ RepayConfirm(q, s, p) \/ RepayCode(q, s, p)
    <3>1. \E kind \in {"sms", "repay", "repay_code"} : Enter(q, kind, s, p, r)
      BY <2>3 DEF MenuAnnouncements, RepayConfirm, RepayCode, StateOf
    <3> HIDE DEF r
    <3>2. QED
      BY <1>0, <2>1, <3>1, EnterKnown DEF ForMember
  <2>4. QED
    BY <1>4, <2>2, <2>3
<1>5. QED
  BY <1>1, <1>2, <1>3, <1>4 DEF WaitingKey

\* The gateway and the staff come without a session.
LEMMA GuestVisits ==
  ASSUME UssdInv, PayersKept, NEW q \in Requests,
         HookCall(q) \/ StaffAudit(q) \/ \E m \in Members : StaffList(q, m)
  PROVE  VisitsKnown'
<1>0. /\ DuesTypeOK /\ VisitsKnown
      /\ {"sms", "repay", "repay_code", "loan", "hook", "list"} \subseteq VisitKind
  BY DEF UssdInv, DuesInv, VisitKind
<1> DEFINE r(m) == [NoState EXCEPT !.member = m]
<1>1. \A m \in Members : Known(r(m)) /\ r(m).member = m
  BY DEF NoState, State, Steps, Known, WithMember, WithPayment
<1>2. ASSUME NEW p \in Phones, NEW m \in Members,
             LoanHook(q, p, m) \/ HookRepay(q, p, m) \/ HookAnnouncements(q, p, m)
      PROVE  VisitsKnown'
  <2>1. OthersStay(q)
    BY <1>0, <1>2, CallsStay DEF LoanHook, LoanLock, HookRepay, HookAnnouncements
  <2>2. \E kind \in {"sms", "repay", "repay_code", "loan"} : Enter(q, kind, NoSession, p, r(m))
    BY <1>2 DEF LoanHook, LoanLock, HookRepay, HookAnnouncements
  <2> HIDE DEF r
  <2>3. QED
    BY <1>0, <1>1, <2>1, <2>2, EnterKnown
<1>3. ASSUME NEW p \in Phones, NEW m \in Members, HookPending(q, p, m) PROVE VisitsKnown'
  <2>1. OthersStay(q)
    BY <1>0, <1>3, CallsStay DEF HookPending
  <2>2. Enter(q, "hook", NoSession, p, r(m))
    BY <1>3 DEF HookPending
  <2> HIDE DEF r
  <2>3. QED
    BY <1>0, <1>1, <2>1, <2>2, EnterKnown
<1>4. ASSUME NEW p \in Phones, NEW m \in Members, NEW t \in Payments, HookPay(q, p, m, t) PROVE VisitsKnown'
  <2>1. OthersStay(q)
    BY <1>0, <1>4, CallsStay DEF HookPay
  <2>2. UNCHANGED visit /\ visit[q].kind # "pay"
    BY <1>4 DEF HookPay, NoVisit, ussdVars
  <2>3. QED
    BY <1>0, <2>1, <2>2, NoVisitKnown
<1>5. ASSUME StaffAudit(q) PROVE VisitsKnown'
  <2>1. OthersStay(q)
    BY <1>0, <1>5, CallsStay DEF StaffAudit
  <2>2. UNCHANGED visit /\ visit[q].kind # "pay"
    BY <1>5 DEF StaffAudit, NoVisit, ussdVars
  <2>3. QED
    BY <1>0, <2>1, <2>2, NoVisitKnown
<1>6. ASSUME NEW m \in Members, StaffList(q, m) PROVE VisitsKnown'
  <2>1. OthersStay(q)
    BY <1>0, <1>6, CallsStay DEF StaffList
  <2>2. Enter(q, "list", NoSession, "none", r(m))
    BY <1>6 DEF StaffList
  <2> HIDE DEF r
  <2>3. QED
    BY <1>0, <1>1, <2>1, <2>2, EnterKnown
<1>7. QED
  BY <1>2, <1>3, <1>4, <1>5, <1>6 DEF HookCall

LEMMA ReplyVisits ==
  ASSUME UssdInv, PayersKept, NEW q \in Requests, Reply(q)
  PROVE  VisitsKnown'
<1>0. DuesTypeOK /\ VisitsKnown /\ VisitKnown(q) /\ Known(visit[q].state)
  BY DEF UssdInv, DuesInv, VisitsKnown, VisitKnown, ForMember
<1>1. OthersStay(q)
  <2>1. CASE PayReply(q) \/ CodeReply(q) \/ CallReturns(q)
    BY <1>0, <2>1, CallsStay DEF PayReply, CodeReply, CallReturns
  <2>2. CASE PendingReply(q) \/ HookPendingReply(q) \/ StaffListReply(q)
    BY <1>0, <2>2, CallsStay DEF PendingReply, HookPendingReply, StaffListReply
  <2>3. CASE OtherReply(q) \/ LoanLapse(q) \/ LoanCheck(q) \/ LoanInsert(q)
    BY <1>0, <2>3, CallsStay DEF OtherReply, LoanLapse, LoanCheck, LoanInsert, duesVars, rowVars, afterVars, callVars
  <2>4. QED
    BY <2>1, <2>2, <2>3 DEF Reply
<1>2. ASSUME Answered(q) PROVE VisitsKnown'
  BY <1>0, <1>1, <1>2, AnsweredKnown
<1>3. CASE PayReply(q) \/ CodeReply(q) \/ PendingReply(q) \/ OtherReply(q) \/ HookPendingReply(q) \/ StaffListReply(q)
  BY <1>2, <1>3 DEF PayReply, CodeReply, PendingReply, OtherReply, HookPendingReply, StaffListReply, Resume, Finish
<1>4. CASE LoanInsert(q)
  BY <1>2, <1>4 DEF LoanInsert, Finish
<1>5. CASE CallReturns(q) \/ LoanLapse(q)
  <2>1. UNCHANGED visit /\ visit[q].kind # "pay"
    BY <1>5 DEF CallReturns, LoanLapse, NoVisit, ussdVars
  <2>2. QED
    BY <1>0, <1>1, <2>1, NoVisitKnown
<1>6. CASE LoanCheck(q)
  <2>1. CASE Finish(q)
    BY <1>2, <2>1 DEF Finish
  <2>2. CASE visit' = [visit EXCEPT ![q].kind = "loan_checked"]
    <3> DEFINE v == [visit[q] EXCEPT !.kind = "loan_checked"]
    <3>1. /\ v \in Visit /\ visit' = [visit EXCEPT ![q] = v] /\ visit'[q] = v
          /\ v.kind = "loan_checked" /\ v.state = visit[q].state
          /\ v.session = visit[q].session /\ v.phone = visit[q].phone
      BY <1>0, <2>2 DEF VisitsKnown, Visit, VisitKind
    <3>2. \A r : Known(r) => Known(r)'
      BY <1>0, KnownKept
    <3>3. visit[q].kind = "loan"
      BY <1>6 DEF LoanCheck
    <3>4. VisitKnown(q)'
      BY <1>0, <3>1, <3>2, <3>3 DEF VisitKnown, ForMember, Known
    <3> HIDE DEF v
    <3>5. QED
      BY <1>0, <1>1, <3>1, <3>4, VisitMoves
  <2>3. QED
    BY <1>6, <2>1, <2>2 DEF LoanCheck
<1>7. QED
  BY <1>3, <1>4, <1>5, <1>6 DEF Reply

LEMMA VisitStep ==
  ASSUME UssdInv, PayersKept, [Next]_vars
  PROVE  VisitsKnown'
<1>0. DuesTypeOK /\ VisitsKnown
  BY DEF UssdInv, DuesInv
<1>1. ASSUME UNCHANGED <<visit, pc, cur>> PROVE VisitsKnown'
  <2>1. \A x \in Requests : VisitKnown(x)'
    BY <1>0, <1>1, VisitKept
  <2>2. QED
    BY <1>0, <1>1, <2>1 DEF VisitsKnown
<1>2. ASSUME NEW s \in Sessions, NEW p \in Phones, Key(s, p) PROVE VisitsKnown'
  BY <1>1, <1>2, KeyRewrites DEF duesVars, callVars
<1>3. ASSUME NEW s \in Sessions, NEW p \in Phones, NEW q \in Requests, WaitingKey(q, s, p) PROVE VisitsKnown'
  BY <1>3, WaitingKeyVisits
<1>4. ASSUME NEW q \in Requests, HookCall(q) \/ StaffAudit(q) PROVE VisitsKnown'
  BY <1>4, GuestVisits
<1>5. ASSUME NEW q \in Requests, NEW m \in Members, StaffList(q, m) PROVE VisitsKnown'
  BY <1>5, GuestVisits
<1>6. ASSUME NEW q \in Requests, Reply(q) PROVE VisitsKnown'
  BY <1>6, ReplyVisits
<1>7. ASSUME NEW q \in Requests, CallStep(q), UNCHANGED ussdVars PROVE VisitsKnown'
  <2>1. OthersStay(q) /\ UNCHANGED visit
    BY <1>0, <1>7, CallsStay DEF ussdVars
  <2>2. CASE visit[q].kind # "pay"
    BY <1>0, <2>1, <2>2, NoVisitKnown
  <2>3. CASE visit[q].kind = "pay"
    <3>1. VisitKnown(q) /\ visit[q] \in Visit
      BY <1>0 DEF VisitsKnown, Visit
    <3>2. pc[q] \in {"calling", "called", "answered"} /\ cur[q] \in Payments /\ payer[cur[q]] = visit[q].state.member
          /\ visit[q].state.member \in Members
      BY <2>3, <3>1 DEF VisitKnown, ForMember
    <3>3. CollectCall(q) \/ CollectRecord(q)
      BY <1>7, <3>2 DEF CallStep, StaleNext, AskProvider, StaleApply, AuditApply
    <3>4. pc'[q] \in {"called", "answered"} /\ cur'[q] = cur[q]
      BY <1>0, <3>3 DEF CollectCall, CollectRecord, Continue, DuesTypeOK
    <3>5. payer'[cur[q]] = visit[q].state.member
      BY <3>2, NamesAssumption DEF PayersKept
    <3>6. \A r : Known(r) => Known(r)'
      BY <1>0, KnownKept
    <3>7. VisitKnown(q)'
      BY <2>1, <3>1, <3>2, <3>4, <3>5, <3>6 DEF VisitKnown, ForMember, Known
    <3>8. visit' = [visit EXCEPT ![q] = visit[q]]
      BY <1>0, <2>1 DEF VisitsKnown
    <3>9. QED
      BY <1>0, <2>1, <3>1, <3>7, <3>8, VisitMoves
  <2>4. QED
    BY <2>2, <2>3
<1>8. ASSUME NEW t \in Payments, PaymentStep(t), UNCHANGED ussdVars PROVE VisitsKnown'
  BY <1>1, <1>8 DEF PaymentStep, PayerDecides, Elapse, Webhook, PostPayment, callVars, ussdVars
<1>9. ASSUME NEW m \in Members, Expire(m), UNCHANGED ussdVars PROVE VisitsKnown'
  BY <1>1, <1>9 DEF Expire, callVars, ussdVars
<1>10. ASSUME NEW m \in Members, LoanDecided(m) \/ Leave(m) \/ StaffConsent(m) PROVE VisitsKnown'
  BY <1>1, <1>10 DEF LoanDecided, Leave, StaffConsent, duesVars, callVars
<1>11. CASE Crash
  <2>1. \A q \in Requests : visit'[q] = NoVisit
    BY <1>11 DEF Crash
  <2>2. Known(NoState)' /\ NoVisit \in Visit /\ visit' \in [Requests -> Visit]
    BY <1>0, <1>11, NoStateKnown, KnownKept DEF Crash, NoVisit, Visit, VisitKind
  <2>3. \A q \in Requests : VisitKnown(q)'
    BY <2>1, <2>2 DEF VisitKnown, ForMember, Known, NoVisit
  <2>4. QED
    BY <2>2, <2>3 DEF VisitsKnown, Visit
<1>12. CASE UNCHANGED vars
  BY <1>1, <1>12 DEF vars, duesVars, callVars, ussdVars
<1>13. QED
  BY <1>2, <1>3, <1>4, <1>5, <1>6, <1>7, <1>8, <1>9, <1>10, <1>11, <1>12 DEF Next

LEMMA ActiveStep ==
  ASSUME UssdInv, [Next]_vars
  PROVE  active' \subseteq Members
<1>1. ASSUME NEW s \in Sessions, NEW p \in Phones, Key(s, p) PROVE UNCHANGED active
  BY <1>1, KeyRewrites
<1>2. ASSUME NEW s \in Sessions, NEW p \in Phones, NEW q \in Requests, WaitingKey(q, s, p) PROVE UNCHANGED active
  BY <1>2 DEF WaitingKey, PayAmount, EnterCode, MenuPending, MenuAnnouncements, RepayConfirm, RepayCode,
     LoanConfirm, LoanLock, RowsOnly
<1>3. ASSUME NEW q \in Requests, Reply(q) PROVE UNCHANGED active
  BY <1>3 DEF Reply, PayReply, CodeReply, PendingReply, OtherReply, HookPendingReply, StaffListReply, CallReturns,
     LoanLapse, LoanCheck, LoanInsert, RowsOnly, ussdVars
<1>4. ASSUME NEW q \in Requests, HookCall(q) \/ StaffAudit(q) PROVE UNCHANGED active
  BY <1>4 DEF HookCall, LoanHook, LoanLock, HookRepay, HookAnnouncements, HookPending, HookPay, StaffAudit,
     RowsOnly, ussdVars
<1>5. ASSUME NEW q \in Requests, NEW m \in Members, StaffList(q, m) PROVE UNCHANGED active
  BY <1>5 DEF StaffList, RowsOnly
<1>6. ASSUME NEW m \in Members, LoanDecided(m) \/ Leave(m) \/ StaffConsent(m) PROVE active' \subseteq active
  BY <1>6 DEF LoanDecided, Leave, StaffConsent
<1>7. CASE Crash \/ UNCHANGED vars
  BY <1>7 DEF Crash, vars, ussdVars, UssdInv
<1>8. active \subseteq Members
  BY DEF UssdInv
<1>9. ASSUME UNCHANGED ussdVars PROVE UNCHANGED active
  BY <1>9 DEF ussdVars
<1>10. QED
  BY <1>1, <1>2, <1>3, <1>4, <1>5, <1>6, <1>7, <1>8, <1>9 DEF Next

LEMMA UssdInvStep ==
  ASSUME UssdInv, [Next]_vars
  PROVE  UssdInv' /\ [DuesNext]_duesVars
<1>1. [DuesNext]_duesVars
  BY DuesSteps
<1>2. DuesInv /\ DuesTypeOK /\ SessionsKnown
  BY DEF UssdInv, DuesInv
<1>3. DuesInv' /\ PayersKept
  BY <1>1, <1>2, DuesInvStep, PayerStep
<1>4. SessionsKnown'
  BY <1>2, <1>3, SessionStep, SomeRewrittenKnown
<1>5. VisitsKnown' /\ active' \subseteq Members
  BY <1>3, VisitStep, ActiveStep
<1>6. QED
  BY <1>1, <1>3, <1>4, <1>5 DEF UssdInv

-----------------------------------------------------------------------------
(* Loan requests *)

Asking == {"loan", "loan_checked"}

\* Whoever asks for a loan holds the lock of the membership, and whoever has
\* found no request waiting is still right about that.
RequestsApart ==
  /\ requested \in [Members -> Nat]
  /\ lock \in [Members -> Requests \cup {Nobody}]
  /\ \A q \in Requests :
       /\ visit[q].kind \in Asking => lock[visit[q].state.member] = q
       /\ visit[q].kind = "loan_checked" => requested[visit[q].state.member] = 0
  /\ \A m \in Members : requested[m] <= 1

\* A step that has nothing to do with loans: no lock, no request, and no
\* handler that asks for a loan afterwards but has not before.
Elsewhere ==
  /\ UNCHANGED <<requested, lock>>
  /\ \A q \in Requests : visit'[q] = visit[q] \/ visit'[q].kind \notin Asking

LEMMA ElsewhereApart ==
  ASSUME RequestsApart, Elsewhere
  PROVE  RequestsApart'
BY DEF RequestsApart, Elsewhere, Asking

\* A handler that enters for something else, or answers.
LEMMA EntersElsewhere ==
  ASSUME VisitsKnown, UNCHANGED <<requested, lock>>, NEW q \in Requests,
         \/ UNCHANGED visit
         \/ Answered(q)
         \/ \E kind \in VisitKind \ Asking : \E s, p, r : Enter(q, kind, s, p, r)
  PROVE  Elsewhere
BY DEF VisitsKnown, Answered, Enter, NoVisit, Elsewhere, Asking

LEMMA WaitingKeyElsewhere ==
  ASSUME VisitsKnown, NEW q \in Requests, NEW s \in Sessions, NEW p \in Phones,
         WaitingKey(q, s, p), ~LoanConfirm(q, s, p)
  PROVE  Elsewhere
<1>1. \E kind \in {"pay", "code", "pending", "sms", "repay", "repay_code"} :
        Enter(q, kind, s, p, StateOf(s, p)) /\ RowsOnly
  BY DEF WaitingKey, PayAmount, EnterCode, MenuPending, MenuAnnouncements, RepayConfirm, RepayCode
<1>2. {"pay", "code", "pending", "sms", "repay", "repay_code"} \subseteq VisitKind \ Asking
  BY DEF VisitKind, Asking
<1>3. QED
  BY <1>1, <1>2, EntersElsewhere DEF RowsOnly

LEMMA GuestElsewhere ==
  ASSUME VisitsKnown, NEW q \in Requests,
         HookCall(q) \/ StaffAudit(q) \/ (\E m \in Members : StaffList(q, m)),
         ~\E p \in Phones, m \in Members : LoanHook(q, p, m)
  PROVE  Elsewhere
<1>1. {"sms", "repay", "repay_code", "hook", "list"} \subseteq VisitKind \ Asking
  BY DEF VisitKind, Asking
<1>2. ASSUME NEW p, NEW m, HookRepay(q, p, m) \/ HookAnnouncements(q, p, m) \/ HookPending(q, p, m)
      PROVE  Elsewhere
  <2>1. \E kind \in {"sms", "repay", "repay_code", "hook"} :
          Enter(q, kind, NoSession, p, [NoState EXCEPT !.member = m]) /\ RowsOnly
    BY <1>2 DEF HookRepay, HookAnnouncements, HookPending
  <2>2. QED
    BY <1>1, <2>1, EntersElsewhere DEF RowsOnly
<1>3. ASSUME NEW m, StaffList(q, m) PROVE Elsewhere
  <2>1. Enter(q, "list", NoSession, "none", [NoState EXCEPT !.member = m]) /\ RowsOnly
    BY <1>3 DEF StaffList
  <2>2. QED
    BY <1>1, <2>1, EntersElsewhere DEF RowsOnly
<1>4. ASSUME UNCHANGED ussdVars PROVE Elsewhere
  BY <1>4 DEF ussdVars, Elsewhere
<1>5. QED
  BY <1>2, <1>3, <1>4 DEF HookCall, HookPay, StaffAudit

LEMMA ReplyElsewhere ==
  ASSUME VisitsKnown, NEW q \in Requests, Reply(q),
         ~(LoanLapse(q) \/ LoanCheck(q) \/ LoanInsert(q))
  PROVE  Elsewhere
<1>1. CASE CallReturns(q)
  BY <1>1 DEF CallReturns, ussdVars, Elsewhere
<1>2. CASE ~CallReturns(q)
  <2>1. Answered(q) /\ RowsOnly
    BY <1>2 DEF Reply, PayReply, CodeReply, PendingReply, OtherReply, HookPendingReply, StaffListReply,
       Resume, Finish
  <2>2. QED
    BY <2>1, EntersElsewhere DEF RowsOnly
<1>3. QED
  BY <1>1, <1>2

\* The lock is taken by a handler that holds no other, when nobody holds it.
LEMMA LockApart ==
  ASSUME VisitsKnown, RequestsApart, NEW q \in Requests, NEW s, NEW p, NEW r,
         r.member \in Members, LoanLock(q, s, p, r)
  PROVE  RequestsApart'
<1> DEFINE v == [kind |-> "loan", session |-> s, phone |-> p, state |-> r]
<1>1. /\ lock[r.member] = Nobody /\ lock' = [lock EXCEPT ![r.member] = q] /\ requested' = requested
      /\ visit' = [visit EXCEPT ![q] = v] /\ visit[q] = NoVisit
  BY DEF LoanLock, Enter
<1>2. visit'[q] = v /\ v.kind = "loan" /\ v.state = r /\ \A x \in Requests \ {q} : visit'[x] = visit[x]
  BY <1>1 DEF VisitsKnown
<1>3. lock' \in [Members -> Requests \cup {Nobody}] /\ lock'[r.member] = q
      /\ \A m \in Members \ {r.member} : lock'[m] = lock[m]
  BY <1>1 DEF RequestsApart
<1> HIDE DEF v
<1>4. ASSUME NEW x \in Requests
      PROVE  /\ visit'[x].kind \in Asking => lock'[visit'[x].state.member] = x
             /\ visit'[x].kind = "loan_checked" => requested[visit'[x].state.member] = 0
  <2>1. CASE x = q
    BY <1>2, <1>3, <2>1
  <2>2. CASE x # q
    <3>1. visit'[x] = visit[x]
      BY <1>2, <2>2
    <3>2. ASSUME visit[x].kind \in Asking
          PROVE  visit[x].state.member \in Members /\ visit[x].state.member # r.member
      <4>1. visit[x].state.member \in Members
        BY <3>2 DEF VisitsKnown, VisitKnown, ForMember, Asking
      <4>2. lock[visit[x].state.member] = x
        BY <3>2 DEF RequestsApart
      <4>3. QED
        BY <1>1, <4>1, <4>2, NoneAssumption
    <3>3. QED
      BY <1>3, <3>1, <3>2 DEF RequestsApart
  <2>3. QED
    BY <2>1, <2>2
<1>5. QED
  BY <1>1, <1>3, <1>4 DEF RequestsApart

\* A handler is done and gives its locks back.
LEMMA DoneApart ==
  ASSUME VisitsKnown, RequestsApart, NEW q \in Requests, Answered(q), Unlocked(q),
         requested' \in [Members -> Nat], \A m \in Members : requested'[m] <= 1,
         \A m \in Members : lock[m] = q \/ requested'[m] = requested[m]
  PROVE  RequestsApart'
<1>1. visit'[q] = NoVisit /\ \A x \in Requests \ {q} : visit'[x] = visit[x]
  BY DEF Answered, VisitsKnown
<1>2. lock' \in [Members -> Requests \cup {Nobody}]
      /\ \A m \in Members : lock'[m] = IF lock[m] = q THEN Nobody ELSE lock[m]
  BY DEF Unlocked, RequestsApart
<1>3. ASSUME NEW x \in Requests
      PROVE  /\ visit'[x].kind \in Asking => lock'[visit'[x].state.member] = x
             /\ visit'[x].kind = "loan_checked" => requested'[visit'[x].state.member] = 0
  <2>1. CASE x = q
    BY <1>1, <2>1 DEF NoVisit, Asking
  <2>2. CASE x # q
    <3>1. visit'[x] = visit[x]
      BY <1>1, <2>2
    <3>2. ASSUME visit[x].kind \in Asking
          PROVE  visit[x].state.member \in Members /\ lock[visit[x].state.member] = x
      BY <3>2 DEF VisitsKnown, VisitKnown, ForMember, Asking, RequestsApart
    <3>3. visit[x].kind \in Asking => lock'[visit[x].state.member] = x
                                      /\ requested'[visit[x].state.member] = requested[visit[x].state.member]
      BY <1>2, <2>2, <3>2
    <3>4. QED
      BY <3>1, <3>3 DEF RequestsApart, Asking
  <2>3. QED
    BY <2>1, <2>2
<1>4. QED
  BY <1>2, <1>3 DEF RequestsApart

LEMMA CheckApart ==
  ASSUME VisitsKnown, RequestsApart, NEW q \in Requests, LoanCheck(q)
  PROVE  RequestsApart'
<1>1. CASE Finish(q) /\ Unlocked(q)
  <2>1. Answered(q) /\ requested' = requested
    BY <1>1 DEF LoanCheck, Finish
  <2>2. requested \in [Members -> Nat] /\ \A m \in Members : requested[m] <= 1
    BY DEF RequestsApart
  <2>3. QED
    BY <1>1, <2>1, <2>2, DoneApart
<1>2. CASE ~(Finish(q) /\ Unlocked(q))
  <2> DEFINE v == [visit[q] EXCEPT !.kind = "loan_checked"]
  <2>1. /\ visit[q].kind = "loan" /\ requested[visit[q].state.member] = 0
        /\ visit' = [visit EXCEPT ![q] = v] /\ UNCHANGED <<lock, requested>>
    BY <1>2 DEF LoanCheck, VisitsKnown
  <2>2. v.state = visit[q].state
    BY DEF VisitsKnown
  <2>3. visit'[q] = v /\ \A x \in Requests \ {q} : visit'[x] = visit[x]
    BY <2>1 DEF VisitsKnown
  <2>4. lock[visit[q].state.member] = q
    BY <2>1 DEF RequestsApart, Asking
  <2> HIDE DEF v
  <2>5. QED
    BY <2>1, <2>2, <2>3, <2>4 DEF RequestsApart, Asking
<1>3. QED
  BY <1>1, <1>2

LEMMA InsertApart ==
  ASSUME VisitsKnown, RequestsApart, NEW q \in Requests, LoanInsert(q)
  PROVE  RequestsApart'
<1> DEFINE m == visit[q].state.member
<1>1. m \in Members /\ lock[m] = q /\ requested[m] = 0
  BY DEF LoanInsert, VisitsKnown, VisitKnown, ForMember, RequestsApart, Asking
<1>2. requested' = [requested EXCEPT ![m] = requested[m] + 1] /\ Answered(q) /\ Unlocked(q)
  BY DEF LoanInsert, Finish
<1> HIDE DEF m
<1>3. /\ requested' \in [Members -> Nat] /\ requested'[m] = 1
      /\ \A x \in Members \ {m} : requested'[x] = requested[x]
  BY <1>1, <1>2 DEF RequestsApart
<1>4. \A x \in Members : requested'[x] <= 1
  BY <1>3 DEF RequestsApart
<1>5. QED
  BY <1>1, <1>2, <1>3, <1>4, DoneApart

LEMMA DecidedApart ==
  ASSUME VisitsKnown, RequestsApart, NEW m \in Members, LoanDecided(m)
  PROVE  RequestsApart'
<1>1. /\ requested[m] > 0 /\ UNCHANGED <<visit, lock>>
      /\ requested' = [requested EXCEPT ![m] = requested[m] - 1]
  BY DEF LoanDecided
<1>2. /\ requested' \in [Members -> Nat]
      /\ \A x \in Members : requested'[x] <= requested[x]
      /\ \A x \in Members \ {m} : requested'[x] = requested[x]
  BY <1>1 DEF RequestsApart
<1>3. \A x \in Members : requested'[x] <= 1
  BY <1>2 DEF RequestsApart
<1>4. ASSUME NEW q \in Requests, visit[q].kind = "loan_checked" PROVE requested'[visit[q].state.member] = 0
  <2>1. visit[q].state.member \in Members /\ requested[visit[q].state.member] = 0
    BY <1>4 DEF VisitsKnown, VisitKnown, ForMember, RequestsApart
  <2>2. QED
    BY <1>1, <1>2, <2>1
<1>5. QED
  BY <1>1, <1>2, <1>3, <1>4 DEF RequestsApart

LEMMA RequestsStep ==
  ASSUME UssdInv, RequestsApart, "lapse" \notin env, [Next]_vars
  PROVE  RequestsApart'
<1>0. VisitsKnown /\ SessionsKnown /\ active \subseteq Members
  BY DEF UssdInv
<1>1. ASSUME Elsewhere PROVE RequestsApart'
  BY <1>1, ElsewhereApart
<1>2. ASSUME UNCHANGED <<visit, requested, lock>> PROVE RequestsApart'
  BY <1>1, <1>2 DEF Elsewhere
<1>3. ASSUME NEW s \in Sessions, NEW p \in Phones, Key(s, p) PROVE RequestsApart'
  BY <1>2, <1>3 DEF Key, Dial, SelectCooperative, MenuAmount, MenuEnd, MenuRepay, MenuPreferences, MenuLink,
     RepaySelect, RepayCancel, LoanAmount, LoanPurpose, LoanCancel, PreferenceChange, PreferenceKeep,
     LinkCooperative, LinkFarmer, PendingSelect, SessionTimeout, MenuOnly
<1>4. ASSUME NEW s \in Sessions, NEW p \in Phones, NEW q \in Requests, WaitingKey(q, s, p)
      PROVE  RequestsApart'
  <2>1. CASE LoanConfirm(q, s, p)
    <3>1. StateOf(s, p).member \in Members /\ LoanLock(q, s, p, StateOf(s, p))
      BY <1>0, <2>1 DEF LoanConfirm, At, StateOf, SessionsKnown, Known, WithMember
    <3>2. QED
      BY <1>0, <3>1, LockApart
  <2>2. QED
    BY <1>0, <1>1, <1>4, <2>1, WaitingKeyElsewhere
<1>5. ASSUME NEW q \in Requests, HookCall(q) \/ StaffAudit(q) \/ \E m \in Members : StaffList(q, m)
      PROVE  RequestsApart'
  <2>1. ASSUME NEW p \in Phones, NEW m \in Members, LoanHook(q, p, m) PROVE RequestsApart'
    <3> DEFINE r == [NoState EXCEPT !.member = m]
    <3>1. r.member = m /\ LoanLock(q, NoSession, p, r)
      BY <2>1 DEF LoanHook, NoState
    <3> HIDE DEF r
    <3>2. QED
      BY <1>0, <3>1, LockApart
  <2>2. QED
    BY <1>0, <1>1, <1>5, <2>1, GuestElsewhere
<1>6. ASSUME NEW q \in Requests, Reply(q) PROVE RequestsApart'
  <2>1. ~LoanLapse(q)
    BY DEF LoanLapse
  <2>2. QED
    BY <1>0, <1>1, <1>6, <2>1, CheckApart, InsertApart, ReplyElsewhere
<1>7. ASSUME NEW m \in Members, LoanDecided(m) \/ Leave(m) \/ StaffConsent(m) PROVE RequestsApart'
  <2>1. CASE Leave(m) \/ StaffConsent(m)
    BY <1>2, <2>1 DEF Leave, StaffConsent
  <2>2. QED
    BY <1>0, <1>7, <2>1, DecidedApart
<1>8. CASE Crash
  <2>1. visit' = [q \in Requests |-> NoVisit] /\ lock' = [m \in Members |-> Nobody] /\ requested' = requested
    BY <1>8 DEF Crash
  <2>2. QED
    BY <2>1 DEF RequestsApart, NoVisit, Asking
<1>9. ASSUME UNCHANGED ussdVars PROVE RequestsApart'
  BY <1>2, <1>9 DEF ussdVars
<1>10. CASE UNCHANGED vars
  BY <1>9, <1>10 DEF vars
<1>11. QED
  BY <1>3, <1>4, <1>5, <1>6, <1>7, <1>8, <1>9, <1>10 DEF Next

-----------------------------------------------------------------------------
(* Theorems *)

\* The dues keep their invariant, and what a session or a waiting handler says
\* of a member and of payments is so.
THEOREM UssdInvariant == Spec => []UssdInv
<1>1. Init => UssdInv
  <2> SUFFICES ASSUME Init PROVE UssdInv
    OBVIOUS
  <2>1. DuesInv
    BY DEF Init, DuesInit, DuesInv, DuesTypeOK, TransactionStatus, CustomerAction, ChargeStatus, CallPhase, Outcome,
       RowBeforeCharge, CallIsKnown, AtProvider, CompletedIsCollected, FollowedUpIsFinal, FeeOnce
  <2>2. SessionsKnown
    BY NoStateKnown DEF Init, SessionsKnown, Known
  <2>3. VisitsKnown
    BY NoStateKnown DEF Init, VisitsKnown, VisitKnown, ForMember, NoVisit, VisitKind
  <2>4. QED
    BY <2>1, <2>2, <2>3 DEF Init, UssdInv
<1>2. UssdInv /\ [Next]_vars => UssdInv'
  BY UssdInvStep
<1>3. QED
  BY <1>1, <1>2, PTL DEF Spec

\* Sessions, the gateway and the staff do nothing to payments that Dues does not
\* provide for: Ussd implements Dues.
THEOREM PhoneImplementsDues == Spec => DuesSpec
<1>1. Init => DuesInit
  BY DEF Init
<1>2. UssdInv /\ [Next]_vars => [DuesNext]_duesVars
  BY UssdInvStep
<1>3. QED
  BY <1>1, <1>2, UssdInvariant, PTL DEF Spec, DuesSpec

\* A session is about payments of its own membership, whatever it became while
\* its handler was at the provider.
THEOREM SessionsOwnPayments == Spec => []OwnPayments
<1>1. UssdInv => OwnPayments
  BY DEF UssdInv, SessionsKnown, Known, OwnPayments, WithPayment
<1>2. QED
  BY <1>1, UssdInvariant, PTL

\* The platform's fee is taken at most once for a payment of the menu.
THEOREM PhoneFeeOnce == Spec => []FeeOnce
BY PhoneImplementsDues, FeeTakenOnce, PTL

\* However keys, gateways and staff overlap, at most one of them is at the
\* provider with a payment, but for the gateway that names payments itself.
THEOREM PhoneCallsExclusive == Spec => []OneCallPerPayment
BY PhoneImplementsDues, CallsExclusive, PTL

\* Dues paid by phone keep the ledger's contract.
THEOREM PhoneKeepsLedger == Spec => KeepsLedger
BY PhoneImplementsDues, DuesKeepLedger, PTL

\* A member has at most one loan request waiting, however many phone channels
\* send one at the same time, unless the subscription's dates take the locks away.
THEOREM OneRequest == Spec => []OneOpenRequest
<1> DEFINE Apart == "lapse" \in env \/ RequestsApart
<1>1. Init => Apart
  BY DEF Init, RequestsApart, NoVisit, Asking
<1>2. UssdInv /\ Apart /\ [Next]_vars => Apart'
  <2> SUFFICES ASSUME UssdInv, Apart, [Next]_vars PROVE Apart'
    OBVIOUS
  <2>1. env' = env
    BY UssdInvStep, EnvironmentKept
  <2>2. QED
    BY <2>1, RequestsStep
<1>3. Apart => OneOpenRequest
  BY DEF RequestsApart, OneOpenRequest
<1> HIDE DEF Apart
<1>4. QED
  BY <1>1, <1>2, <1>3, UssdInvariant, PTL DEF Spec
=============================================================================
