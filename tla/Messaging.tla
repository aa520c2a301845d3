------------------------------ MODULE Messaging ------------------------------
(***************************************************************************)
(* The messages of a cooperative: SMS broadcasts counted against the       *)
(* plan's monthly quota, dues reminders, announcements, messages to one    *)
(* member, and the reminders of loans that fall due.                       *)
(*                                                                         *)
(* A handler runs on the event loop of its process and leaves it only      *)
(* while it awaits the SMS provider.  A database call that waits for a row *)
(* lock does not leave it: the whole process waits, until the database     *)
(* gives the call up after lock_timeout.                                   *)
(***************************************************************************)
EXTENDS Naturals, Integers, FiniteSets

CONSTANTS
  Members, Requests,
  PaidQuota, FreeQuota, \* sms_per_month of the plans, 0 is unlimited
  MaxMonths,            \* bound on the calendar months that pass
  MaxSent,              \* where the count of broadcast messages stops
  FirstDay, LastDay,    \* days until the loans are due, counting down
  Environments          \* the sets of events (of AllEvents) that are considered

\* broadcast, dues, announce, member, remind: what the staff and the job send.
\* menu: a member reads the announcements in the phone menu.
\* overlap: two requests are worked on at a time, on one process.
\* instances: each request has a process of its own.
\* consent: members give and withdraw their consent, join and leave.
\* lapse: the subscription passes a date that a request has to act on.
\* month: the calendar month ends.  crash: the processes die.
\* lost_answer: the provider's answer does not arrive.
\* unreadable: it arrives with a body that is not JSON.
AllEvents ==
  {"broadcast", "dues", "announce", "member", "remind", "menu", "overlap", "instances",
   "consent", "lapse", "month", "crash", "lost_answer", "unreadable"}

Server == "server"        \* the one process when there are no instances
NoRequest == "nobody"

ASSUME QuotaAssumption ==
  PaidQuota \in Nat /\ FreeQuota \in Nat /\ MaxMonths \in Nat /\ MaxSent \in Nat
ASSUME DaysAssumption == FirstDay \in Int /\ LastDay \in Int
ASSUME EnvironmentsAssumption == Environments \subseteq SUBSET AllEvents
ASSUME NamesAssumption == Server \notin Requests /\ NoRequest \notin Requests
ASSUME FiniteAssumption == IsFiniteSet(Members)

VARIABLES
  active, consent,  \* the members who are active, and who consented to SMS
  status, due,      \* subscription_status; whether a change of it is due by now
  used, marker,     \* sms_sent_this_month and the month it counts
  month,
  lock,             \* who holds the cooperative's row
  loop,             \* per process: the request its event loop is stuck in
  pc, op,           \* the requests: place and kind
  todo, audience,   \* members left in a list, members of the message on its way
  new_total, rolled, asked,
                    \* the count to write; an uncommitted reset of the window;
                    \* the month it is for
  reminder,         \* loan_reminders.status of today's row per borrower
  daysLeft,
  broadcasted, unasked, unlogged, missing, reminded,
                    \* what happened: messages broadcast this month, members
                    \* written to without consent, requests whose delivery is
                    \* not logged yet, the kinds of messages that were delivered
                    \* and will never be logged, reminders per borrower today
  env

memberVars == <<active, consent>>
planVars == <<status, due, used, marker, month>>
requestVars == <<pc, op, todo, audience, new_total, rolled, asked>>
historyVars == <<broadcasted, unasked, unlogged, missing, reminded>>
dayVars == <<reminder, daysLeft>>
vars == <<memberVars, planVars, lock, loop, requestVars, dayVars, historyVars, env>>

Ops == {"none", "broadcast", "dues", "announce", "member", "remind", "menu"}
Answered == {"delivered", "refused", "unreadable"}
Phase == {"idle", "waiting", "list", "sending", "logged"} \cup Answered
SubscriptionStatus == {"active", "past_due", "expired"}
ReminderStatus == {"none", "pending", "sent", "failed", "skipped_no_consent"}
Processes == Requests \cup {Server}

TypeOK ==
  /\ active \subseteq Members /\ consent \subseteq Members
  /\ status \in SubscriptionStatus /\ due \in BOOLEAN
  /\ used \in Nat /\ month \in Nat /\ marker \in 0..month
  /\ lock \in Requests \cup {NoRequest}
  /\ loop \in [Processes -> Requests \cup {NoRequest}]
  /\ pc \in [Requests -> Phase]
  /\ op \in [Requests -> Ops]
  /\ todo \in [Requests -> SUBSET Members]
  /\ audience \in [Requests -> SUBSET Members]
  /\ new_total \in [Requests -> Nat]
  /\ rolled \in [Requests -> BOOLEAN]
  /\ asked \in [Requests -> 0..month]
  /\ reminder \in [Members -> ReminderStatus]
  /\ daysLeft \in Int
  /\ broadcasted \in Nat
  /\ unasked \subseteq Members /\ unlogged \subseteq Requests /\ missing \subseteq Ops
  /\ reminded \in [Members -> Nat]
  /\ env \in Environments

Init ==
  /\ active = Members /\ consent \in SUBSET Members
  /\ status = "active" /\ due = FALSE
  /\ used = 0 /\ marker = 0 /\ month = 0
  /\ lock = NoRequest
  /\ loop = [h \in Processes |-> NoRequest]
  /\ pc = [q \in Requests |-> "idle"]
  /\ op = [q \in Requests |-> "none"]
  /\ todo = [q \in Requests |-> {}]
  /\ audience = [q \in Requests |-> {}]
  /\ new_total = [q \in Requests |-> 0]
  /\ rolled = [q \in Requests |-> FALSE]
  /\ asked = [q \in Requests |-> 0]
  /\ reminder = [m \in Members |-> "none"]
  /\ daysLeft = FirstDay
  /\ broadcasted = 0 /\ unasked = {} /\ unlogged = {} /\ missing = {}
  /\ reminded = [m \in Members |-> 0]
  /\ env \in Environments

Least(a, b) == IF a <= b THEN a ELSE b

Host(q) == IF "instances" \in env THEN q ELSE Server
Awake(q) == loop[Host(q)] = NoRequest
Holds(q) == lock = q

Free(q) ==
  /\ pc[q] = "idle"
  /\ Awake(q)
  /\ env \cap {"overlap", "instances"} # {} \/ \A s \in Requests : pc[s] = "idle"

Begin(q, kind, phase) ==
  /\ pc' = [pc EXCEPT ![q] = phase]
  /\ op' = [op EXCEPT ![q] = kind]

\* The request is answered: its session is closed, its transaction over.
End(q) ==
  /\ pc' = [pc EXCEPT ![q] = "idle"]
  /\ op' = [op EXCEPT ![q] = "none"]
  /\ todo' = [todo EXCEPT ![q] = {}]
  /\ audience' = [audience EXCEPT ![q] = {}]
  /\ new_total' = [new_total EXCEPT ![q] = 0]
  /\ rolled' = [rolled EXCEPT ![q] = FALSE]
  /\ asked' = [asked EXCEPT ![q] = 0]
  /\ lock' = IF Holds(q) THEN NoRequest ELSE lock
  /\ loop' = [loop EXCEPT ![Host(q)] = IF @ = q THEN NoRequest ELSE @]

\* The provider is asked to deliver a message to the members of group.
Call(q, group) ==
  /\ audience' = [audience EXCEPT ![q] = group]
  /\ unasked' = unasked \cup (group \ consent)

-----------------------------------------------------------------------------
(* The world around the requests *)

MemberChanges ==
  /\ "consent" \in env
  /\ \E m \in Members :
       \/ consent' \in {consent \cup {m}, consent \ {m}} /\ UNCHANGED active
       \/ active' \in {active \cup {m}, active \ {m}} /\ UNCHANGED consent
  /\ UNCHANGED <<planVars, lock, loop, requestVars, dayVars, historyVars, env>>

DateFallsDue ==
  /\ "lapse" \in env
  /\ status # "expired" /\ ~due
  /\ due' = TRUE
  /\ UNCHANGED <<memberVars, status, used, marker, month, lock, loop, requestVars, dayVars,
                 historyVars, env>>

MonthEnds ==
  /\ "month" \in env
  /\ month < MaxMonths
  /\ month' = month + 1
  /\ broadcasted' = 0
  /\ UNCHANGED <<memberVars, status, due, used, marker, lock, loop, requestVars, dayVars,
                 unasked, unlogged, missing, reminded, env>>

-----------------------------------------------------------------------------
(* A broadcast *)

Quota(s) == IF s = "expired" THEN FreeQuota ELSE PaidQuota

\* lifecycle.reconcile: the change that is due by now.
Reconciled == IF ~due THEN status ELSE IF status = "active" THEN "past_due" ELSE "expired"

WithinQuota(total) == Quota(Reconciled) = 0 \/ total <= Quota(Reconciled)

\* The row is locked by another request: this one waits and its process with it.
BroadcastWait(q) ==
  /\ Free(q) /\ "broadcast" \in env
  /\ lock # NoRequest
  /\ Begin(q, "broadcast", "waiting")
  /\ loop' = [loop EXCEPT ![Host(q)] = q]
  /\ UNCHANGED <<memberVars, planVars, lock, todo, audience, new_total, rolled, asked, dayVars,
                 historyVars, env>>

\* Members are counted, the window is reset when the month is another one, and
\* the effective plan is asked for.  A change that is due is committed, with
\* the reset, and the commit gives the row back before anything is sent.
CountBase == IF marker # month THEN 0 ELSE used

CommitDue ==
  /\ status' = Reconciled
  /\ due' = FALSE
  /\ IF due
     THEN used' = CountBase /\ marker' = month
     ELSE UNCHANGED <<used, marker>>

Asked(q) ==
  \/ pc[q] = "waiting"
  \/ Free(q) /\ "broadcast" \in env

BroadcastRefused(q) ==
  /\ lock = NoRequest /\ Asked(q)
  /\ ~WithinQuota(CountBase + Cardinality(active))
  /\ CommitDue
  /\ End(q)
  /\ UNCHANGED <<memberVars, month, dayVars, historyVars, env>>

\* Nobody to write to counts as a success: the total is written all the same.
BroadcastToNobody(q) ==
  /\ lock = NoRequest /\ Asked(q)
  /\ WithinQuota(CountBase + Cardinality(active))
  /\ active \cap consent = {}
  /\ used' = CountBase + Cardinality(active) /\ marker' = month
  /\ status' = Reconciled /\ due' = FALSE
  /\ End(q)
  /\ UNCHANGED <<memberVars, month, dayVars, historyVars, env>>

\* Mutant: the row is read without FOR UPDATE.
BroadcastSend_Unlocked(q) ==
  /\ Asked(q)
  /\ WithinQuota(CountBase + Cardinality(active))
  /\ active \cap consent # {}
  /\ CommitDue
  /\ Begin(q, "broadcast", "sending")
  /\ Call(q, active \cap consent)
  /\ new_total' = [new_total EXCEPT ![q] = CountBase + Cardinality(active)]
  /\ rolled' = [rolled EXCEPT ![q] = marker # month /\ ~due]
  /\ asked' = [asked EXCEPT ![q] = month]
  /\ loop' = [loop EXCEPT ![Host(q)] = NoRequest]
  /\ UNCHANGED <<memberVars, month, lock, todo, dayVars, broadcasted, unlogged, missing, reminded, env>>

BroadcastSend(q) ==
  /\ lock = NoRequest /\ Asked(q)
  /\ WithinQuota(CountBase + Cardinality(active))
  /\ active \cap consent # {}
  /\ CommitDue
  /\ Begin(q, "broadcast", "sending")
  /\ Call(q, active \cap consent)
  /\ new_total' = [new_total EXCEPT ![q] = CountBase + Cardinality(active)]
  /\ rolled' = [rolled EXCEPT ![q] = marker # month /\ ~due]
  /\ asked' = [asked EXCEPT ![q] = month]
  /\ lock' = IF due THEN NoRequest ELSE q
  /\ loop' = [loop EXCEPT ![Host(q)] = NoRequest]
  /\ UNCHANGED <<memberVars, month, todo, dayVars, broadcasted, unlogged, missing, reminded, env>>

\* The log is committed, with a reset not yet committed: the row is given
\* back.  After a failed broadcast the request ends here; after a good one it
\* goes on to write the count, without leaving the event loop.
BroadcastLog(q) ==
  /\ op[q] = "broadcast" /\ pc[q] \in {"delivered", "refused"}
  /\ Awake(q)
  /\ used' = IF rolled[q] THEN 0 ELSE used
  /\ marker' = IF rolled[q] THEN asked[q] ELSE marker
  /\ unlogged' = unlogged \ {q}
  /\ IF pc[q] = "refused"
     THEN End(q)
     ELSE /\ pc' = [pc EXCEPT ![q] = "logged"]
          /\ lock' = IF Holds(q) THEN NoRequest ELSE lock
          /\ loop' = [loop EXCEPT ![Host(q)] = q]
          /\ UNCHANGED <<op, todo, audience, new_total, rolled, asked>>
  /\ UNCHANGED <<memberVars, status, due, month, dayVars, broadcasted, unasked, missing, reminded, env>>

BroadcastCount(q) ==
  /\ pc[q] = "logged"
  /\ lock = NoRequest
  /\ used' = new_total[q]
  /\ End(q)
  /\ UNCHANGED <<memberVars, status, due, marker, month, dayVars, historyVars, env>>

\* Mutant: the connection has no lock_timeout.
LockTimeout_Never(q) ==
  /\ FALSE
  /\ UNCHANGED vars

\* The database gives up a call that has waited lock_timeout for the row.
LockTimeout(q) ==
  /\ pc[q] \in {"waiting", "logged"}
  /\ lock # NoRequest
  /\ End(q)
  /\ UNCHANGED <<memberVars, planVars, dayVars, historyVars, env>>

-----------------------------------------------------------------------------
(* The other messages; none of them is counted *)

\* One bulk message to the members who consent; without any there is nothing to do.
DuesReminder(q) ==
  /\ Free(q) /\ "dues" \in env
  /\ active \cap consent # {}
  /\ Begin(q, "dues", "sending")
  /\ Call(q, active \cap consent)
  /\ UNCHANGED <<memberVars, planVars, lock, loop, todo, new_total, rolled, asked, dayVars,
                 broadcasted, unlogged, missing, reminded, env>>

\* Mutant: the consent is not asked for.
SendToMember_Unasked(q, m) ==
  /\ Free(q) /\ "member" \in env
  /\ Begin(q, "member", "sending")
  /\ Call(q, {m})
  /\ UNCHANGED <<memberVars, planVars, lock, loop, todo, new_total, rolled, asked, dayVars,
                 broadcasted, unlogged, missing, reminded, env>>

\* A dues reminder, a payment confirmation, a rejection, a call for an OTP or a
\* statement to one member; one who did not consent only gets a line in the log.
SendToMember(q, m) ==
  /\ Free(q) /\ "member" \in env
  /\ m \in consent
  /\ Begin(q, "member", "sending")
  /\ Call(q, {m})
  /\ UNCHANGED <<memberVars, planVars, lock, loop, todo, new_total, rolled, asked, dayVars,
                 broadcasted, unlogged, missing, reminded, env>>

\* The phone menu also sends the announcements it shows, past the service that
\* writes the log: the provider is called and nothing is written afterwards.
MenuAnnouncement(q, m) ==
  /\ Free(q) /\ "menu" \in env
  /\ m \in consent
  /\ Begin(q, "menu", "sending")
  /\ Call(q, {m})
  /\ UNCHANGED <<memberVars, planVars, lock, loop, todo, new_total, rolled, asked, dayVars,
                 broadcasted, unlogged, missing, reminded, env>>

\* The kind of message request q has had delivered and will not log.
Forgotten(q) == IF q \in unlogged THEN {op[q]} ELSE {}

MenuAnswered(q) ==
  /\ op[q] = "menu" /\ pc[q] \in {"delivered", "refused"}
  /\ Awake(q)
  /\ missing' = missing \cup Forgotten(q)
  /\ unlogged' = unlogged \ {q}
  /\ End(q)
  /\ UNCHANGED <<memberVars, planVars, dayVars, broadcasted, unasked, reminded, env>>

\* The announcement is committed, then the list of members is read once.
Announce(q) ==
  /\ Free(q) /\ "announce" \in env
  /\ Begin(q, "announce", "list")
  /\ todo' = [todo EXCEPT ![q] = active \cap consent]
  /\ UNCHANGED <<memberVars, planVars, lock, loop, audience, new_total, rolled, asked, dayVars,
                 historyVars, env>>

AnnounceTo(q) ==
  /\ op[q] = "announce" /\ pc[q] = "list"
  /\ Awake(q)
  /\ \E m \in todo[q] :
       /\ todo' = [todo EXCEPT ![q] = @ \ {m}]
       /\ pc' = [pc EXCEPT ![q] = "sending"]
       /\ Call(q, {m})
  /\ UNCHANGED <<memberVars, planVars, lock, loop, op, new_total, rolled, asked, dayVars,
                 broadcasted, unlogged, missing, reminded, env>>

ListDone(q) ==
  /\ pc[q] = "list" /\ todo[q] = {}
  /\ Awake(q)
  /\ End(q)
  /\ UNCHANGED <<memberVars, planVars, dayVars, historyVars, env>>

\* The answer; a failed call may have delivered its message all the same.
Answer(q) ==
  /\ pc[q] = "sending"
  /\ \E delivered \in BOOLEAN :
       /\ pc' \in {[pc EXCEPT ![q] = IF delivered THEN "delivered" ELSE "refused"]} \cup
            (IF delivered /\ "lost_answer" \in env THEN {[pc EXCEPT ![q] = "refused"]} ELSE {}) \cup
            (IF "unreadable" \in env THEN {[pc EXCEPT ![q] = "unreadable"]} ELSE {})
       /\ IF delivered
          THEN /\ unlogged' = unlogged \cup {q}
               /\ broadcasted' = IF op[q] = "broadcast" /\ asked[q] = month
                                 THEN Least(broadcasted + Cardinality(audience[q]), MaxSent)
                                 ELSE broadcasted
               /\ reminded' = [m \in Members |->
                                 IF op[q] = "remind" /\ m \in audience[q]
                                 THEN Least(reminded[m] + 1, 2) ELSE reminded[m]]
          ELSE UNCHANGED <<unlogged, broadcasted, reminded>>
  /\ UNCHANGED <<memberVars, planVars, lock, loop, op, todo, audience, new_total, rolled, asked, dayVars,
                 unasked, missing, env>>

\* An answer that cannot be parsed raises out of the call: the request ends
\* with nothing written.  The reminder job alone rolls back and goes on with
\* its list; today's row keeps the status it had before the call.
AnswerRaises(q) ==
  /\ pc[q] = "unreadable"
  /\ Awake(q)
  /\ missing' = missing \cup Forgotten(q)
  /\ unlogged' = unlogged \ {q}
  /\ IF op[q] = "remind"
     THEN /\ pc' = [pc EXCEPT ![q] = "list"]
          /\ audience' = [audience EXCEPT ![q] = {}]
          /\ UNCHANGED <<op, todo, new_total, rolled, asked, lock, loop>>
     ELSE End(q)
  /\ UNCHANGED <<memberVars, planVars, dayVars, broadcasted, unasked, reminded, env>>

\* Mutant: only a delivered message is logged.
SendLog_Delivered(q) ==
  /\ op[q] \in {"dues", "member", "announce"} /\ pc[q] \in {"delivered", "refused"}
  /\ Awake(q)
  /\ unlogged' = IF pc[q] = "delivered" THEN unlogged \ {q} ELSE unlogged
  /\ IF op[q] = "announce"
     THEN /\ pc' = [pc EXCEPT ![q] = "list"]
          /\ audience' = [audience EXCEPT ![q] = {}]
          /\ UNCHANGED <<op, todo, new_total, rolled, asked, lock, loop>>
     ELSE End(q)
  /\ UNCHANGED <<memberVars, planVars, dayVars, broadcasted, unasked, missing, reminded, env>>

SendLog(q) ==
  /\ op[q] \in {"dues", "member", "announce"} /\ pc[q] \in {"delivered", "refused"}
  /\ Awake(q)
  /\ unlogged' = unlogged \ {q}
  /\ IF op[q] = "announce"
     THEN /\ pc' = [pc EXCEPT ![q] = "list"]
          /\ audience' = [audience EXCEPT ![q] = {}]
          /\ UNCHANGED <<op, todo, new_total, rolled, asked, lock, loop>>
     ELSE End(q)
  /\ UNCHANGED <<memberVars, planVars, dayVars, broadcasted, unasked, missing, reminded, env>>

-----------------------------------------------------------------------------
(* The daily reminders of loans *)

\* reminder_kind: 7, 3 and 1 days ahead, on the day, then 1, 3, 7, 14, ... after.
ReminderDue(days) == days \in {7, 3, 1, 0, -1, -3} \/ (days < 0 /\ (-days) % 7 = 0)

DayEnds ==
  /\ "remind" \in env
  /\ daysLeft > LastDay
  /\ \A q \in Requests : pc[q] = "idle"
  /\ daysLeft' = daysLeft - 1
  /\ reminder' = [m \in Members |-> "none"]
  /\ reminded' = [m \in Members |-> 0]
  /\ UNCHANGED <<memberVars, planVars, lock, loop, requestVars, broadcasted, unasked, unlogged, missing, env>>

RemindStart(q) ==
  /\ Free(q) /\ "remind" \in env
  /\ ReminderDue(daysLeft)
  /\ Begin(q, "remind", "list")
  /\ todo' = [todo EXCEPT ![q] = Members]
  /\ UNCHANGED <<memberVars, planVars, lock, loop, audience, new_total, rolled, asked, dayVars,
                 historyVars, env>>

\* Mutant: the status of today's row is not looked at.
RemindTo_Again(q) ==
  /\ op[q] = "remind" /\ pc[q] = "list"
  /\ Awake(q)
  /\ \E m \in todo[q] :
       /\ todo' = [todo EXCEPT ![q] = @ \ {m}]
       /\ IF m \in consent
          THEN /\ reminder' = [reminder EXCEPT ![m] = IF @ = "none" THEN "pending" ELSE @]
               /\ pc' = [pc EXCEPT ![q] = "sending"]
               /\ Call(q, {m})
          ELSE /\ reminder' = [reminder EXCEPT ![m] = "skipped_no_consent"]
               /\ UNCHANGED <<pc, audience, unasked>>
  /\ UNCHANGED <<memberVars, planVars, lock, loop, op, new_total, rolled, asked, daysLeft,
                 broadcasted, unlogged, missing, reminded, env>>

\* Today's row is committed before the message goes out; a row that says the
\* message was sent is left alone.
RemindTo(q) ==
  /\ op[q] = "remind" /\ pc[q] = "list"
  /\ Awake(q)
  /\ \E m \in todo[q] :
       /\ todo' = [todo EXCEPT ![q] = @ \ {m}]
       /\ \/ reminder[m] = "sent" /\ UNCHANGED <<reminder, pc, audience, unasked>>
          \/ /\ reminder[m] # "sent" /\ m \notin consent
             /\ reminder' = [reminder EXCEPT ![m] = "skipped_no_consent"]
             /\ UNCHANGED <<pc, audience, unasked>>
          \/ /\ reminder[m] # "sent" /\ m \in consent
             /\ reminder' = [reminder EXCEPT ![m] = IF @ = "none" THEN "pending" ELSE @]
             /\ pc' = [pc EXCEPT ![q] = "sending"]
             /\ Call(q, {m})
  /\ UNCHANGED <<memberVars, planVars, lock, loop, op, new_total, rolled, asked, daysLeft,
                 broadcasted, unlogged, missing, reminded, env>>

RemindLog(q) ==
  /\ op[q] = "remind" /\ pc[q] \in {"delivered", "refused"}
  /\ Awake(q)
  /\ reminder' = [m \in Members |->
                    IF m \in audience[q]
                    THEN IF pc[q] = "delivered" THEN "sent" ELSE "failed"
                    ELSE reminder[m]]
  /\ unlogged' = unlogged \ {q}
  /\ pc' = [pc EXCEPT ![q] = "list"]
  /\ audience' = [audience EXCEPT ![q] = {}]
  /\ UNCHANGED <<memberVars, planVars, lock, loop, op, todo, new_total, rolled, asked, daysLeft,
                 broadcasted, unasked, missing, reminded, env>>

\* The processes die: their transactions are rolled back and their locks free.
Crash ==
  /\ "crash" \in env
  /\ \E q \in Requests : pc[q] # "idle"
  /\ lock' = NoRequest
  /\ loop' = [h \in Processes |-> NoRequest]
  /\ pc' = [q \in Requests |-> "idle"]
  /\ op' = [q \in Requests |-> "none"]
  /\ todo' = [q \in Requests |-> {}]
  /\ audience' = [q \in Requests |-> {}]
  /\ new_total' = [q \in Requests |-> 0]
  /\ rolled' = [q \in Requests |-> FALSE]
  /\ asked' = [q \in Requests |-> 0]
  /\ missing' = missing \cup UNION {Forgotten(q) : q \in Requests}
  /\ unlogged' = {}
  /\ UNCHANGED <<memberVars, planVars, dayVars, broadcasted, unasked, reminded, env>>

-----------------------------------------------------------------------------
Start(q) ==
  \/ BroadcastWait(q) \/ DuesReminder(q) \/ Announce(q) \/ RemindStart(q)
  \/ \E m \in Members : SendToMember(q, m) \/ MenuAnnouncement(q, m)

Broadcast(q) == BroadcastRefused(q) \/ BroadcastToNobody(q) \/ BroadcastSend(q)

\* What the event loop runs on with once an answer is there.
Resume(q) ==
  \/ BroadcastLog(q) \/ SendLog(q) \/ RemindLog(q) \/ MenuAnswered(q) \/ AnswerRaises(q)
  \/ AnnounceTo(q) \/ RemindTo(q) \/ ListDone(q)

Next ==
  \/ MemberChanges \/ DateFallsDue \/ MonthEnds \/ DayEnds \/ Crash
  \/ \E q \in Requests :
       \/ Start(q) \/ Broadcast(q) \/ Resume(q) \/ Answer(q)
       \/ BroadcastCount(q) \/ LockTimeout(q)

\* The provider answers or its call times out; a database call gets the row when
\* it is free and is given up when it has waited for long, whoever held the row
\* meanwhile; the event loop runs what is ready in the order it became so.
Fairness ==
  \A q \in Requests :
    /\ WF_vars(Answer(q)) /\ WF_vars(BroadcastCount(q))
    /\ WF_vars(pc[q] = "waiting" /\ Broadcast(q))
    /\ SF_vars(LockTimeout(q)) /\ SF_vars(Resume(q))

Spec == Init /\ [][Next]_vars
FairSpec == Spec /\ Fairness

-----------------------------------------------------------------------------
(* Properties *)

\* On one process, and when no subscription date falls due, no more messages
\* are broadcast in a month than the plan allows (broadcast_sms holds the row
\* from the count to the answer).  A message whose answer is lost or cannot be
\* read is not counted.
QuotaHeld ==
  env \cap {"instances", "lapse", "crash", "lost_answer", "unreadable"} = {} /\ PaidQuota # 0 =>
    broadcasted <= PaidQuota

\* Nobody is written to who does not consent when the provider is called.
\* Announcements are the exception: their list is read once, before the first
\* message, while members may withdraw.
ConsentRespected == {"announce", "consent"} \subseteq env \/ unasked = {}

\* Every message the provider delivered is logged or about to be, also one
\* whose answer was lost.  communication_logs leaves out the announcements that
\* the phone menu sends, and what was on its way when the process died or when
\* an answer could not be read.
AuditComplete ==
  /\ \A q \in unlogged : pc[q] \in Answered
  /\ env \cap {"crash", "unreadable"} = {} => missing \subseteq {"menu"}

\* What CommunicationsService says of itself (communications_service.py:4-5):
\* every outbound message is in the log.  The phone menu refutes it
\* (Messaging_menu.cfg).
EveryMessageLogged == missing = {}

\* A borrower gets one reminder a day, however often the job is run, unless
\* runs overlap or an answer is lost or unreadable or a process dies between
\* message and row.
RemindOnce ==
  env \cap {"overlap", "instances", "crash", "lost_answer", "unreadable"} = {} =>
    \A m \in Members : reminded[m] <= 1

\* No request hangs: one that waits for the row keeps its whole process from
\* the answer that would free it, so the wait itself must end.
EveryRequestEnds == \A q \in Requests : pc[q] # "idle" ~> pc[q] = "idle"
=============================================================================
