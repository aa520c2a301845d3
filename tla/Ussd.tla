-------------------------------- MODULE Ussd --------------------------------
(***************************************************************************)
(* The phone menu of members: sessions whose state is kept in the database *)
(* from one key press to the next, and the operations they start, on top   *)
(* of the dues payments of Dues.                                           *)
(*                                                                         *)
(* A handler runs without interruption up to an await.  It keeps the state *)
(* it has read and writes it, changed, when its answer is there.  Several  *)
(* instances of the program serve the same sessions.                       *)
(***************************************************************************)
EXTENDS Dues

CONSTANTS
  Farmers, Phones, Sessions,
  FarmerOf,    \* the person behind each membership
  FirstPhone   \* the phone each person is registered with

NoSession == "no session"

ASSUME FarmerOfAssumption == FarmerOf \in [Members -> Farmers]
ASSUME FirstPhoneAssumption ==
  /\ FirstPhone \in [Farmers -> Phones]
  /\ \A f, g \in Farmers : FirstPhone[f] = FirstPhone[g] => f = g
ASSUME NoneAssumption == NoSession \notin Sessions /\ Nobody \notin Requests

VARIABLES
  phoneOf,    \* farmers.phone, unique
  active,     \* memberships whose status is active
  consent,    \* memberships with sms_consent
  state,      \* ussd_sessions.session_state by session id and phone
  visit,      \* handlers that wait: what for, for whom, with which state
  requested,  \* loans in status requested, by membership
  lock        \* the handler that holds the row lock of a membership

ussdVars == <<phoneOf, active, consent, state, visit, requested, lock>>
vars == <<duesVars, ussdVars>>

\* sms_on and sms_off are one step, sms_prefs, by what its text offers.
Steps == {"none", "select_cooperative", "main", "pay_amount", "pay_otp", "pending_payment_select",
          "pending_payment_otp", "repay_loan_select", "repay_confirm", "repay_otp", "loan_amount",
          "loan_purpose", "loan_confirm", "link_coop_code", "link_farmer_code", "sms_on", "sms_off"}

State == [step : Steps, member : Members \cup {Nobody}, tx : Payments \cup {NoPayment},
          list : SUBSET (Members \cup Payments)]
NoState == [step |-> "none", member |-> Nobody, tx |-> NoPayment, list |-> {}]

VisitKind == {"none", "pay", "code", "pending", "sms", "repay", "repay_code", "loan", "loan_checked",
              "hook", "list"}
NoVisit == [kind |-> "none", session |-> NoSession, phone |-> "none", state |-> NoState]

TypeOK ==
  /\ DuesTypeOK
  /\ phoneOf \in [Farmers -> Phones]
  /\ active \subseteq Members
  /\ consent \subseteq Members
  /\ state \in [Sessions -> [Phones -> State]]
  /\ visit \in [Requests -> [kind : VisitKind, session : Sessions \cup {NoSession},
                             phone : Phones \cup {"none"}, state : State]]
  /\ requested \in [Members -> Nat]
  /\ lock \in [Members -> Requests \cup {Nobody}]

Init ==
  /\ DuesInit
  /\ phoneOf = FirstPhone
  /\ active = Members
  /\ consent = Members
  /\ state = [s \in Sessions |-> [p \in Phones |-> NoState]]
  /\ visit = [q \in Requests |-> NoVisit]
  /\ requested = [m \in Members |-> 0]
  /\ lock = [m \in Members |-> Nobody]

-----------------------------------------------------------------------------
(* Sessions *)

\* get_ussd_state: the newest state of this session id and phone.
StateOf(s, p) == state[s][p]

Put(s, p, r) == state' = [state EXCEPT ![s][p] = r]

\* clear_ussd_state: every row of the session id.
Clear(s) == state' = [state EXCEPT ![s] = [p \in Phones |-> NoState]]

At(s, p, step) == StateOf(s, p).step = step
Go(s, p, step) == Put(s, p, [StateOf(s, p) EXCEPT !.step = step])
Member(s, p) == StateOf(s, p).member

\* resolve_farmer_by_phone
MembersOf(p) == {m \in active : phoneOf[FarmerOf[m]] = p}

\* Without overlap a request is worked on only when no other one waits.
Undisturbed == "overlap" \in env \/ \A q \in Requests : visit[q] = NoVisit /\ pc[q] = "idle"

MenuOnly == UNCHANGED <<duesVars, phoneOf, active, consent, visit, requested, lock>>

\* A new session, or one whose state is gone: any key leads here.
Dial(s, p) ==
  /\ Undisturbed
  /\ LET ms == MembersOf(p)
     IN IF Cardinality(ms) > 1
        THEN Put(s, p, [NoState EXCEPT !.step = "select_cooperative", !.list = ms])
        ELSE \E m \in IF ms = {} THEN {Nobody} ELSE ms :
               Put(s, p, [NoState EXCEPT !.step = "main", !.member = m])
  /\ MenuOnly

\* The membership is not looked at again: it may have left in the meantime.
SelectCooperative(s, p) ==
  /\ Undisturbed
  /\ At(s, p, "select_cooperative")
  /\ \E m \in StateOf(s, p).list : Put(s, p, [NoState EXCEPT !.step = "main", !.member = m])
  /\ MenuOnly

\* Options 2 and 3: an amount is asked for.
MenuAmount(s, p) ==
  /\ Undisturbed
  /\ At(s, p, "main") /\ Member(s, p) # Nobody
  /\ \/ "pay" \in env /\ Go(s, p, "pay_amount")
     \/ "loan" \in env /\ Go(s, p, "loan_amount")
  /\ MenuOnly

\* Options that show something and end: the loan balance, that a phone is
\* already linked, that there is nothing to repay or announce, and every option
\* that needs a membership for a phone that has none.
MenuEnd(s, p) ==
  /\ Undisturbed
  /\ At(s, p, "main")
  /\ Clear(s)
  /\ MenuOnly

\* Option 6 with one loan, or with several to choose from.
MenuRepay(s, p) ==
  /\ "other" \in env /\ Undisturbed
  /\ At(s, p, "main") /\ Member(s, p) # Nobody
  /\ \E next \in {"repay_confirm", "repay_loan_select"} : Go(s, p, next)
  /\ MenuOnly

RepaySelect(s, p) ==
  /\ Undisturbed
  /\ At(s, p, "repay_loan_select")
  /\ Go(s, p, "repay_confirm")
  /\ MenuOnly

RepayCancel(s, p) ==
  /\ Undisturbed
  /\ At(s, p, "repay_confirm")
  /\ Clear(s)
  /\ MenuOnly

LoanAmount(s, p) ==
  /\ Undisturbed
  /\ At(s, p, "loan_amount")
  /\ Go(s, p, "loan_purpose")
  /\ MenuOnly

LoanPurpose(s, p) ==
  /\ Undisturbed
  /\ At(s, p, "loan_purpose")
  /\ Go(s, p, "loan_confirm")
  /\ MenuOnly

LoanCancel(s, p) ==
  /\ Undisturbed
  /\ At(s, p, "loan_confirm")
  /\ Clear(s)
  /\ MenuOnly

-----------------------------------------------------------------------------
(* Preferences and the phone's own link *)

MenuPreferences(s, p) ==
  /\ "other" \in env /\ Undisturbed
  /\ At(s, p, "main") /\ Member(s, p) # Nobody
  /\ Go(s, p, IF Member(s, p) \in consent THEN "sms_on" ELSE "sms_off")
  /\ MenuOnly

\* Option 1 of either text turns what is stored by now the other way.
PreferenceChange(s, p) ==
  /\ Undisturbed
  /\ At(s, p, "sms_on") \/ At(s, p, "sms_off")
  /\ LET m == Member(s, p)
     IN consent' = IF m \in consent THEN consent \ {m} ELSE consent \cup {m}
  /\ Clear(s)
  /\ UNCHANGED <<duesVars, phoneOf, active, visit, requested, lock>>

PreferenceKeep(s, p) ==
  /\ Undisturbed
  /\ At(s, p, "sms_on") \/ At(s, p, "sms_off")
  /\ Clear(s)
  /\ MenuOnly

\* Option 7 for a phone without a membership.
MenuLink(s, p) ==
  /\ "relink" \in env /\ Undisturbed
  /\ At(s, p, "main") /\ Member(s, p) = Nobody
  /\ Go(s, p, "link_coop_code")
  /\ MenuOnly

LinkCooperative(s, p) ==
  /\ Undisturbed
  /\ At(s, p, "link_coop_code")
  /\ Go(s, p, "link_farmer_code") \/ Clear(s)
  /\ MenuOnly

\* The person behind the membership moves to this phone; the phone of another
\* person is refused by the unique index.
LinkFarmer(s, p) ==
  /\ Undisturbed
  /\ At(s, p, "link_farmer_code")
  /\ Clear(s)
  /\ \/ \E m \in Members :
          /\ \A f \in Farmers \ {FarmerOf[m]} : phoneOf[f] # p
          /\ phoneOf' = [phoneOf EXCEPT ![FarmerOf[m]] = p]
     \/ UNCHANGED phoneOf
  /\ UNCHANGED <<duesVars, active, consent, visit, requested, lock>>

-----------------------------------------------------------------------------
(* Handlers that wait *)

Enter(q, kind, s, p, r) ==
  /\ visit[q] = NoVisit /\ pc[q] = "idle"
  /\ visit' = [visit EXCEPT ![q] = [kind |-> kind, session |-> s, phone |-> p, state |-> r]]

\* The handler of q answers: the session goes on as r, or is cleared.
Answered(q) == visit' = [visit EXCEPT ![q] = NoVisit]
Resume(q, r) ==
  /\ IF visit[q].session = NoSession THEN UNCHANGED state ELSE Put(visit[q].session, visit[q].phone, r)
  /\ Answered(q)
Finish(q) ==
  /\ IF visit[q].session = NoSession THEN UNCHANGED state ELSE Clear(visit[q].session)
  /\ Answered(q)

RowsOnly == UNCHANGED <<phoneOf, active, consent, requested, lock>>

\* The amount is typed: a new payment under a new reference.
PayAmount(q, s, p) ==
  /\ Undisturbed
  /\ At(s, p, "pay_amount")
  /\ Enter(q, "pay", s, p, StateOf(s, p))
  /\ \E t \in Payments : CollectStart(q, Member(s, p), t)
  /\ UNCHANGED state /\ RowsOnly

PayReply(q) ==
  /\ visit[q].kind = "pay"
  /\ Return(q)
  /\ IF answer[q] = "otp"
     THEN Resume(q, [visit[q].state EXCEPT !.step = "pay_otp", !.tx = cur[q]])
     ELSE Finish(q)
  /\ RowsOnly

\* The code is typed, in the session of the payment or in a later one.
EnterCode(q, s, p) ==
  /\ Undisturbed
  /\ At(s, p, "pay_otp") \/ At(s, p, "pending_payment_otp")
  /\ Enter(q, "code", s, p, StateOf(s, p))
  /\ ResumeStart(q, Member(s, p), StateOf(s, p).tx)
  /\ UNCHANGED state /\ RowsOnly

\* The row is read again: the session goes on only if it still asks for a code.
CodeReply(q) ==
  /\ visit[q].kind = "code"
  /\ Return(q)
  /\ LET t == visit[q].state.tx
     IN IF status[t] = "pending" /\ action[t] = "otp"
        THEN Answered(q) /\ UNCHANGED state
        ELSE Finish(q)
  /\ RowsOnly

\* Option 5: payments that got stuck are looked up at the provider first.
MenuPending(q, s, p) ==
  /\ "pay" \in env /\ Undisturbed
  /\ At(s, p, "main") /\ Member(s, p) # Nobody
  /\ Enter(q, "pending", s, p, StateOf(s, p))
  /\ StaleStart(q, Member(s, p))
  /\ UNCHANGED state /\ RowsOnly

Actions == {"initiating", "otp", "processing_otp", "approval"}

\* Mutant: the payments of every member are listed.
PendingOf_Everyone(m) ==
  {t \in Payments \ overdue : payer[t] # Nobody /\ status[t] = "pending" /\ action[t] \in Actions}

\* pending_customer_actions, after what ran out of time was given up.
PendingOf(m) ==
  {t \in Payments \ overdue : payer[t] = m /\ status[t] = "pending" /\ action[t] \in Actions}

PendingReply(q) ==
  /\ visit[q].kind = "pending"
  /\ PendingList(q, visit[q].state.member)
  /\ LET list == PendingOf(visit[q].state.member)
     IN IF Cardinality(list) > 1
        THEN Resume(q, [visit[q].state EXCEPT !.step = "pending_payment_select", !.list = list])
        ELSE IF \E t \in list : action[t] = "otp"
        THEN \E t \in list : Resume(q, [visit[q].state EXCEPT !.step = "pending_payment_otp", !.tx = t])
        ELSE Finish(q)
  /\ RowsOnly

PendingSelect(s, p) ==
  /\ Undisturbed
  /\ At(s, p, "pending_payment_select")
  /\ \E t \in StateOf(s, p).list :
       IF payer[t] = Member(s, p) /\ status[t] = "pending" /\ action[t] = "otp"
       THEN Put(s, p, [StateOf(s, p) EXCEPT !.step = "pending_payment_otp", !.tx = t])
       ELSE Clear(s)
  /\ MenuOnly

\* Option 4 sends the announcements to a member who agreed to messages.
MenuAnnouncements(q, s, p) ==
  /\ "other" \in env /\ Undisturbed
  /\ At(s, p, "main") /\ Member(s, p) \in consent
  /\ Enter(q, "sms", s, p, StateOf(s, p))
  /\ UNCHANGED <<duesVars, state>> /\ RowsOnly

\* start_farmer_loan_repayment and resume_loan_repayment_customer_action, see
\* LoanRepayment: here only how the session goes on.
RepayConfirm(q, s, p) ==
  /\ Undisturbed
  /\ At(s, p, "repay_confirm")
  /\ Enter(q, "repay", s, p, StateOf(s, p))
  /\ UNCHANGED <<duesVars, state>> /\ RowsOnly

RepayCode(q, s, p) ==
  /\ Undisturbed
  /\ At(s, p, "repay_otp")
  /\ Enter(q, "repay_code", s, p, StateOf(s, p))
  /\ UNCHANGED <<duesVars, state>> /\ RowsOnly

OtherReply(q) ==
  /\ visit[q].kind \in {"sms", "repay", "repay_code"}
  /\ \/ Finish(q)
     \/ visit[q].kind = "repay" /\ Resume(q, [visit[q].state EXCEPT !.step = "repay_otp"])
     \/ visit[q].kind = "repay_code" /\ Answered(q) /\ UNCHANGED state
  /\ UNCHANGED duesVars /\ RowsOnly

-----------------------------------------------------------------------------
(* Loan requests of members *)

\* Mutant: the membership is read without its lock.
LoanLock_None(q, s, p, r) ==
  /\ Enter(q, "loan", s, p, r)
  /\ UNCHANGED <<duesVars, phoneOf, active, consent, state, requested, lock>>

\* create_farmer_loan_request waits for the lock of the membership.
LoanLock(q, s, p, r) ==
  /\ Enter(q, "loan", s, p, r)
  /\ lock[r.member] = Nobody
  /\ lock' = [lock EXCEPT ![r.member] = q]
  /\ UNCHANGED <<duesVars, phoneOf, active, consent, state, requested>>

LoanConfirm(q, s, p) ==
  /\ Undisturbed
  /\ At(s, p, "loan_confirm")
  /\ LoanLock(q, s, p, StateOf(s, p))

\* request_loan of the hook gateway, which keeps its own sessions.
LoanHook(q, p, m) ==
  /\ {"hook", "loan"} \subseteq env
  /\ Undisturbed
  /\ m \in MembersOf(p)
  /\ LoanLock(q, NoSession, p, [NoState EXCEPT !.member = m])

Unlocked(q) == lock' = [m \in Members |-> IF lock[m] = q THEN Nobody ELSE lock[m]]

\* A date of the cooperative's subscription has passed: what follows from it is
\* committed, and with that the lock is gone before anything was checked.
LoanLapse(q) ==
  /\ "lapse" \in env
  /\ visit[q].kind = "loan"
  /\ \E m \in Members : lock[m] = q
  /\ Unlocked(q)
  /\ UNCHANGED <<duesVars, phoneOf, active, consent, state, visit, requested>>

\* The plan may have no loans; a request that waits for its decision is enough.
LoanCheck(q) ==
  /\ visit[q].kind = "loan"
  /\ \/ /\ Finish(q)
        /\ Unlocked(q)
     \/ /\ requested[visit[q].state.member] = 0
        /\ visit' = [visit EXCEPT ![q].kind = "loan_checked"]
        /\ UNCHANGED <<state, lock>>
  /\ UNCHANGED <<duesVars, phoneOf, active, consent, requested>>

LoanInsert(q) ==
  /\ visit[q].kind = "loan_checked"
  /\ requested' = [requested EXCEPT ![visit[q].state.member] = @ + 1]
  /\ Finish(q)
  /\ Unlocked(q)
  /\ UNCHANGED <<duesVars, phoneOf, active, consent>>

\* The staff approve or reject, see LoanPayout.
LoanDecided(m) ==
  /\ requested[m] > 0
  /\ requested' = [requested EXCEPT ![m] = @ - 1]
  /\ UNCHANGED <<duesVars, phoneOf, active, consent, state, visit, lock>>

-----------------------------------------------------------------------------
(* Everything else *)

\* The hook gateway's calls about payments, and those of the staff.
HookPay(q, p, m, t) ==
  /\ {"hook", "pay"} \subseteq env
  /\ visit[q] = NoVisit
  /\ m \in MembersOf(p)
  /\ \/ CollectStart(q, m, t)
     \/ \E otp \in BOOLEAN : CollectAgain(q, m, t, otp)
  /\ UNCHANGED ussdVars

\* view_announcements of the hook gateway, to a member who agreed to messages.
HookAnnouncements(q, p, m) ==
  /\ {"hook", "other"} \subseteq env /\ Undisturbed
  /\ m \in MembersOf(p) \cap consent
  /\ Enter(q, "sms", NoSession, p, [NoState EXCEPT !.member = m])
  /\ UNCHANGED <<duesVars, state>> /\ RowsOnly

\* repay_loan of the hook gateway starts a repayment or sends its code.
HookRepay(q, p, m) ==
  /\ {"hook", "other"} \subseteq env /\ Undisturbed
  /\ m \in MembersOf(p)
  /\ \E kind \in {"repay", "repay_code"} : Enter(q, kind, NoSession, p, [NoState EXCEPT !.member = m])
  /\ UNCHANGED <<duesVars, state>> /\ RowsOnly

HookPending(q, p, m) ==
  /\ {"hook", "pay"} \subseteq env
  /\ m \in MembersOf(p)
  /\ Enter(q, "hook", NoSession, p, [NoState EXCEPT !.member = m])
  /\ StaleStart(q, m)
  /\ UNCHANGED state /\ RowsOnly

HookPendingReply(q) ==
  /\ visit[q].kind = "hook"
  /\ LET m == visit[q].state.member
     IN PendingList(q, m) \/ \E t \in Payments : PendingCode(q, m, t)
  /\ Answered(q)
  /\ UNCHANGED state /\ RowsOnly

\* list_transactions, of the cooperative of m.
StaffList(q, m) ==
  /\ "audit" \in env
  /\ Enter(q, "list", NoSession, "none", [NoState EXCEPT !.member = m])
  /\ StaleStart(q, m)
  /\ UNCHANGED state /\ RowsOnly

StaffListReply(q) ==
  /\ visit[q].kind = "list"
  /\ PendingList(q, visit[q].state.member)
  /\ Answered(q)
  /\ UNCHANGED state /\ RowsOnly

StaffAudit(q) ==
  /\ visit[q] = NoVisit
  /\ \E t \in Payments : AuditStart(q, t)
  /\ UNCHANGED ussdVars

\* Calls about a payment that no session waits for.
CallReturns(q) ==
  /\ visit[q] = NoVisit
  /\ Return(q)
  /\ UNCHANGED ussdVars

\* A state is not used an hour after it was written.
SessionTimeout(s, p) ==
  /\ "late" \in env
  /\ state[s][p] # NoState
  /\ Put(s, p, NoState)
  /\ MenuOnly

Leave(m) ==
  /\ "leave" \in env
  /\ m \in active
  /\ active' = active \ {m}
  /\ UNCHANGED <<duesVars, phoneOf, consent, state, visit, requested, lock>>

\* update_farmer, by the staff.
StaffConsent(m) ==
  /\ "consent" \in env
  /\ consent' = IF m \in consent THEN consent \ {m} ELSE consent \cup {m}
  /\ UNCHANGED <<duesVars, phoneOf, active, state, visit, requested, lock>>

\* The process dies; the sessions are in the database and go on.
Crash ==
  /\ DuesCrash
  /\ visit' = [q \in Requests |-> NoVisit]
  /\ lock' = [m \in Members |-> Nobody]
  /\ UNCHANGED <<phoneOf, active, consent, state, requested>>

-----------------------------------------------------------------------------
\* A key that is answered at once.
Key(s, p) ==
  \/ Dial(s, p) \/ SelectCooperative(s, p)
  \/ MenuAmount(s, p) \/ MenuEnd(s, p) \/ MenuRepay(s, p) \/ MenuPreferences(s, p) \/ MenuLink(s, p)
  \/ RepaySelect(s, p) \/ RepayCancel(s, p)
  \/ LoanAmount(s, p) \/ LoanPurpose(s, p) \/ LoanCancel(s, p)
  \/ PreferenceChange(s, p) \/ PreferenceKeep(s, p)
  \/ LinkCooperative(s, p) \/ LinkFarmer(s, p)
  \/ PendingSelect(s, p)
  \/ SessionTimeout(s, p)

\* A key whose handler waits.
WaitingKey(q, s, p) ==
  \/ PayAmount(q, s, p) \/ EnterCode(q, s, p) \/ MenuPending(q, s, p)
  \/ MenuAnnouncements(q, s, p) \/ RepayConfirm(q, s, p) \/ RepayCode(q, s, p)
  \/ LoanConfirm(q, s, p)

\* A call of the hook gateway, about one of the memberships of the phone.
HookCall(q) ==
  \E p \in Phones, m \in Members :
    \/ LoanHook(q, p, m) \/ HookRepay(q, p, m)
    \/ HookAnnouncements(q, p, m) \/ HookPending(q, p, m)
    \/ \E t \in Payments : HookPay(q, p, m, t)

Reply(q) ==
  \/ PayReply(q) \/ CodeReply(q) \/ PendingReply(q) \/ OtherReply(q)
  \/ HookPendingReply(q) \/ StaffListReply(q) \/ CallReturns(q)
  \/ LoanLapse(q) \/ LoanCheck(q) \/ LoanInsert(q)

Next ==
  \/ \E s \in Sessions, p \in Phones :
       \/ Key(s, p)
       \/ \E q \in Requests : WaitingKey(q, s, p)
  \/ \E q \in Requests :
       \/ Reply(q) \/ StaffAudit(q)
       \/ \E m \in Members : StaffList(q, m)
       \/ CallStep(q) /\ UNCHANGED ussdVars
       \/ HookCall(q)
  \/ \E t \in Payments : PaymentStep(t) /\ UNCHANGED ussdVars
  \/ \E m \in Members :
       \/ LoanDecided(m) \/ Leave(m) \/ StaffConsent(m)
       \/ Expire(m) /\ UNCHANGED ussdVars
  \/ Crash

Spec == Init /\ [][Next]_vars

-----------------------------------------------------------------------------
(* Safety *)

\* A session that waits for a code, or has listed payments to choose from, is
\* about payments of its own membership.
OwnPayments ==
  \A s \in Sessions, p \in Phones :
    LET r == state[s][p]
    IN /\ r.step \in {"pay_otp", "pending_payment_otp"} => payer[r.tx] = r.member
       /\ r.step = "pending_payment_select" => \A t \in r.list : payer[t] = r.member

\* A member has at most one loan request waiting, however many phone channels
\* send one at the same time, as long as the subscription's dates are not met.
OneOpenRequest == "lapse" \in env \/ \A m \in Members : requested[m] <= 1

\* "1. Stop SMS alerts": the answer to that text gives nobody's consent.
StopStops ==
  [][\A s \in Sessions, p \in Phones :
       state[s][p].step = "sms_on" /\ state'[s][p].step # "sms_on" => consent' \subseteq consent]_vars

=============================================================================
