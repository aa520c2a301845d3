-------------------------- MODULE Messaging_proofs --------------------------
(***************************************************************************)
(* What Messaging promises for every number of members and requests, every *)
(* quota and every mix of events.                                          *)
(***************************************************************************)
EXTENDS Messaging, FiniteSetTheorems, TLAPS

-----------------------------------------------------------------------------
(* Types *)

LEMMA TypeInit == Init => TypeOK
<1> SUFFICES ASSUME Init PROVE TypeOK
  OBVIOUS
<1>1. /\ active \subseteq Members /\ consent \subseteq Members
      /\ status \in SubscriptionStatus /\ due \in BOOLEAN
      /\ used \in Nat /\ month \in Nat /\ marker \in 0..month
      /\ daysLeft \in Int /\ broadcasted \in Nat
      /\ unasked \subseteq Members /\ unlogged \subseteq Requests /\ missing \subseteq Ops
      /\ env \in Environments
  <2>1. status \in SubscriptionStatus /\ due \in BOOLEAN
    BY DEF Init, SubscriptionStatus
  <2>2. used \in Nat /\ month \in Nat /\ marker \in 0..month /\ daysLeft \in Int /\ broadcasted \in Nat
    BY DaysAssumption DEF Init
  <2>3. /\ active \subseteq Members /\ consent \subseteq Members
        /\ unasked \subseteq Members /\ unlogged \subseteq Requests /\ missing \subseteq Ops
      /\ env \in Environments
    BY DEF Init
  <2> QED
    BY <2>1, <2>2, <2>3
<1>2. lock \in Requests \cup {NoRequest} /\ loop \in [Processes -> Requests \cup {NoRequest}]
  BY DEF Init
<1>3. /\ pc \in [Requests -> Phase] /\ op \in [Requests -> Ops]
      /\ todo \in [Requests -> SUBSET Members] /\ audience \in [Requests -> SUBSET Members]
  BY DEF Init, Phase, Answered, Ops
<1>4. /\ new_total \in [Requests -> Nat] /\ rolled \in [Requests -> BOOLEAN]
      /\ asked \in [Requests -> 0..month]
  BY DEF Init
<1>5. reminder \in [Members -> ReminderStatus] /\ reminded \in [Members -> Nat]
  BY DEF Init, ReminderStatus
<1> QED
  BY <1>1, <1>2, <1>3, <1>4, <1>5 DEF TypeOK

LEMMA HostIsProcess == \A q \in Requests : Host(q) \in Processes
BY DEF Host, Processes

\* What is typed of the rows and requests a step may write.
RequestsTyped ==
  /\ lock \in Requests \cup {NoRequest}
  /\ loop \in [Processes -> Requests \cup {NoRequest}]
  /\ pc \in [Requests -> Phase]
  /\ op \in [Requests -> Ops]
  /\ todo \in [Requests -> SUBSET Members]
  /\ audience \in [Requests -> SUBSET Members]
  /\ new_total \in [Requests -> Nat]
  /\ rolled \in [Requests -> BOOLEAN]
  /\ asked \in [Requests -> 0..month]

LEMMA EndTyped ==
  ASSUME TypeOK, NEW q \in Requests, End(q), month' = month
  PROVE  RequestsTyped'
BY HostIsProcess DEF TypeOK, RequestsTyped, End, Phase, Answered, Ops

LEMMA CountsAreNat ==
  ASSUME TypeOK
  PROVE  /\ CountBase \in Nat
         /\ \A S \in SUBSET Members : IsFiniteSet(S) /\ Cardinality(S) \in Nat
         /\ CountBase + Cardinality(active) \in Nat
<1>1. CountBase \in Nat
  BY DEF TypeOK, CountBase
<1>2. \A S \in SUBSET Members : IsFiniteSet(S) /\ Cardinality(S) \in Nat
  BY FiniteAssumption, FS_Subset, FS_CardinalityType
<1>3. active \in SUBSET Members
  BY DEF TypeOK
<1> QED
  BY <1>1, <1>2, <1>3

LEMMA LeastIsNat == \A a, b \in Nat : Least(a, b) \in Nat /\ Least(a, b) <= a /\ Least(a, b) <= b
BY DEF Least

LEMMA DueTyped ==
  ASSUME TypeOK, CommitDue
  PROVE  /\ status' \in SubscriptionStatus /\ due' \in BOOLEAN
         /\ used' \in Nat /\ marker' \in 0..month
<1>1. status' \in SubscriptionStatus /\ due' \in BOOLEAN
  BY DEF TypeOK, CommitDue, Reconciled, SubscriptionStatus
<1>2. CASE due
  BY <1>1, <1>2, CountsAreNat DEF TypeOK, CommitDue
<1>3. CASE ~due
  BY <1>1, <1>3 DEF TypeOK, CommitDue
<1> QED
  BY <1>2, <1>3

LEMMA CallTyped ==
  ASSUME TypeOK, NEW q \in Requests, NEW group \in SUBSET Members, Call(q, group)
  PROVE  audience' \in [Requests -> SUBSET Members] /\ unasked' \subseteq Members
BY DEF TypeOK, Call

LEMMA BeginTyped ==
  ASSUME TypeOK, NEW q \in Requests, NEW kind \in Ops, NEW phase \in Phase, Begin(q, kind, phase)
  PROVE  pc' \in [Requests -> Phase] /\ op' \in [Requests -> Ops]
BY DEF TypeOK, Begin

LEMMA ClockTyped ==
  TypeOK /\ (MemberChanges \/ DateFallsDue \/ MonthEnds \/ DayEnds \/ Crash) => TypeOK'
<1> SUFFICES ASSUME TypeOK, MemberChanges \/ DateFallsDue \/ MonthEnds \/ DayEnds \/ Crash
             PROVE  TypeOK'
  OBVIOUS
<1> USE DEF memberVars, planVars, requestVars, historyVars, dayVars
<1>1. CASE MemberChanges
  BY <1>1 DEF MemberChanges, TypeOK
<1>2. CASE DateFallsDue
  BY <1>2 DEF DateFallsDue, TypeOK
<1>3. CASE MonthEnds
  <2>1. month' \in Nat /\ 0..month \subseteq 0..month'
    BY <1>3 DEF MonthEnds, TypeOK
  <2>2. asked' \in [Requests -> 0..month']
    BY <1>3, <2>1 DEF MonthEnds, TypeOK
  <2> QED
    BY <1>3, <2>1, <2>2 DEF MonthEnds, TypeOK
<1>4. CASE DayEnds
  BY <1>4 DEF DayEnds, TypeOK, ReminderStatus
<1>5. CASE Crash
  <2>1. \A q \in Requests : Forgotten(q) \subseteq Ops
    BY DEF Forgotten, TypeOK
  <2>2. missing' \subseteq Ops /\ unlogged' \subseteq Requests
    BY <1>5, <2>1 DEF Crash, TypeOK
  <2>3. RequestsTyped'
    BY <1>5 DEF Crash, RequestsTyped, TypeOK, Phase, Ops
  <2> QED
    BY <1>5, <2>2, <2>3 DEF Crash, RequestsTyped, TypeOK
<1> QED
  BY <1>1, <1>2, <1>3, <1>4, <1>5

LEMMA RequestTyped ==
  ASSUME TypeOK, NEW q \in Requests,
         \/ Start(q) \/ Broadcast(q) \/ Resume(q) \/ Answer(q)
         \/ BroadcastCount(q) \/ LockTimeout(q)
  PROVE  TypeOK'
<1> USE DEF memberVars, planVars, requestVars, historyVars, dayVars
<1>0. active \in SUBSET Members /\ active \cap consent \in SUBSET Members
  BY DEF TypeOK
<1>1. CASE BroadcastWait(q)
  <2>1. pc' \in [Requests -> Phase] /\ op' \in [Requests -> Ops]
    BY <1>1, BeginTyped DEF BroadcastWait, Phase, Answered, Ops
  <2> QED
    BY <1>1, <2>1, HostIsProcess DEF BroadcastWait, TypeOK
<1>2. CASE BroadcastRefused(q)
  <2>1. RequestsTyped'
    BY <1>2, EndTyped DEF BroadcastRefused
  <2>2. /\ status' \in SubscriptionStatus /\ due' \in BOOLEAN
        /\ used' \in Nat /\ marker' \in 0..month
    BY <1>2, DueTyped DEF BroadcastRefused
  <2> QED
    BY <1>2, <2>1, <2>2 DEF BroadcastRefused, TypeOK, RequestsTyped
<1>3. CASE BroadcastToNobody(q)
  <2>1. RequestsTyped'
    BY <1>3, EndTyped DEF BroadcastToNobody
  <2>2. status' \in SubscriptionStatus /\ used' \in Nat /\ marker' \in 0..month'
    <3>1. status' \in SubscriptionStatus
      BY <1>3 DEF BroadcastToNobody, Reconciled, TypeOK, SubscriptionStatus
    <3>2. used' \in Nat /\ marker' = month /\ month' = month
      BY <1>3, CountsAreNat DEF BroadcastToNobody
    <3> QED
      BY <3>1, <3>2 DEF TypeOK
  <2> QED
    BY <1>3, <2>1, <2>2 DEF BroadcastToNobody, TypeOK, RequestsTyped
<1>4. CASE BroadcastSend(q)
  <2>1. pc' \in [Requests -> Phase] /\ op' \in [Requests -> Ops]
    BY <1>4, BeginTyped DEF BroadcastSend, Phase, Answered, Ops
  <2>2. audience' \in [Requests -> SUBSET Members] /\ unasked' \subseteq Members
    BY <1>0, <1>4, CallTyped DEF BroadcastSend
  <2>3. /\ status' \in SubscriptionStatus /\ due' \in BOOLEAN
        /\ used' \in Nat /\ marker' \in 0..month'
    BY <1>4, DueTyped DEF BroadcastSend
  <2>4. new_total' \in [Requests -> Nat]
    BY <1>4, CountsAreNat DEF BroadcastSend, TypeOK
  <2>5. /\ rolled' \in [Requests -> BOOLEAN] /\ asked' \in [Requests -> 0..month']
        /\ lock' \in Requests \cup {NoRequest}
        /\ loop' \in [Processes -> Requests \cup {NoRequest}]
    BY <1>4, HostIsProcess DEF BroadcastSend, TypeOK
  <2> QED
    BY <1>4, <2>1, <2>2, <2>3, <2>4, <2>5 DEF BroadcastSend, TypeOK
<1>5. CASE BroadcastLog(q)
  <2>1. used' \in Nat /\ marker' \in 0..month
    BY <1>5 DEF BroadcastLog, TypeOK
  <2>2. RequestsTyped'
    <3>1. CASE pc[q] = "refused"
      BY <1>5, <3>1, EndTyped DEF BroadcastLog
    <3>2. CASE pc[q] # "refused"
      BY <1>5, <3>2, HostIsProcess DEF BroadcastLog, TypeOK, RequestsTyped, Phase, Answered
    <3> QED
      BY <3>1, <3>2
  <2> QED
    BY <1>5, <2>1, <2>2 DEF BroadcastLog, TypeOK, RequestsTyped
<1>6. CASE BroadcastCount(q)
  <2>1. RequestsTyped'
    BY <1>6, EndTyped DEF BroadcastCount
  <2> QED
    BY <1>6, <2>1 DEF BroadcastCount, TypeOK, RequestsTyped
<1>7. CASE LockTimeout(q)
  <2>1. RequestsTyped'
    BY <1>7, EndTyped DEF LockTimeout
  <2> QED
    BY <1>7, <2>1 DEF LockTimeout, TypeOK, RequestsTyped
<1>8. CASE DuesReminder(q)
  <2>1. pc' \in [Requests -> Phase] /\ op' \in [Requests -> Ops]
    BY <1>8, BeginTyped DEF DuesReminder, Phase, Answered, Ops
  <2>2. audience' \in [Requests -> SUBSET Members] /\ unasked' \subseteq Members
    BY <1>0, <1>8, CallTyped DEF DuesReminder
  <2> QED
    BY <1>8, <2>1, <2>2 DEF DuesReminder, TypeOK
<1>9. CASE \E m \in Members : SendToMember(q, m)
  <2> PICK m \in Members : SendToMember(q, m)
    BY <1>9
  <2>1. pc' \in [Requests -> Phase] /\ op' \in [Requests -> Ops]
    BY BeginTyped DEF SendToMember, MenuAnnouncement, Phase, Answered, Ops
  <2>2. audience' \in [Requests -> SUBSET Members] /\ unasked' \subseteq Members
    BY CallTyped DEF SendToMember
  <2> QED
    BY <2>1, <2>2 DEF SendToMember, MenuAnnouncement, TypeOK
<1>90. CASE \E m \in Members : MenuAnnouncement(q, m)
  <2> PICK m \in Members : MenuAnnouncement(q, m)
    BY <1>90
  <2>1. pc' \in [Requests -> Phase] /\ op' \in [Requests -> Ops]
    BY BeginTyped DEF MenuAnnouncement, Phase, Answered, Ops
  <2>2. audience' \in [Requests -> SUBSET Members] /\ unasked' \subseteq Members
    BY CallTyped DEF MenuAnnouncement
  <2> QED
    BY <2>1, <2>2 DEF MenuAnnouncement, TypeOK
<1>10. CASE Announce(q)
  <2>1. pc' \in [Requests -> Phase] /\ op' \in [Requests -> Ops]
    BY <1>10, BeginTyped DEF Announce, Phase, Answered, Ops
  <2> QED
    BY <1>10, <2>1 DEF Announce, TypeOK
<1>11. CASE AnnounceTo(q)
  <2> PICK m \in todo[q] :
        /\ todo' = [todo EXCEPT ![q] = @ \ {m}]
        /\ pc' = [pc EXCEPT ![q] = "sending"]
        /\ Call(q, {m})
    BY <1>11 DEF AnnounceTo
  <2>1. {m} \in SUBSET Members
    BY DEF TypeOK
  <2>2. audience' \in [Requests -> SUBSET Members] /\ unasked' \subseteq Members
    BY <2>1, CallTyped
  <2> QED
    BY <1>11, <2>2 DEF AnnounceTo, TypeOK, Phase, Answered
<1>12. CASE ListDone(q)
  <2>1. RequestsTyped'
    BY <1>12, EndTyped DEF ListDone
  <2> QED
    BY <1>12, <2>1 DEF ListDone, TypeOK, RequestsTyped
<1>13. CASE Answer(q)
  <2>0. audience[q] \in SUBSET Members
    BY DEF TypeOK
  <2>1. pc' \in [Requests -> Phase]
    BY <1>13 DEF Answer, TypeOK, Phase, Answered
  <2>2. unlogged' \subseteq Requests
    BY <1>13 DEF Answer, TypeOK
  <2>3. broadcasted' \in Nat
    <3>1. broadcasted + Cardinality(audience[q]) \in Nat /\ broadcasted \in Nat
      BY <2>0, CountsAreNat DEF TypeOK
    <3>2. Least(broadcasted + Cardinality(audience[q]), MaxSent) \in Nat
      BY <3>1, LeastIsNat, QuotaAssumption
    <3> QED
      BY <1>13, <3>1, <3>2 DEF Answer
  <2>4. reminded' \in [Members -> Nat]
    <3>1. \A m \in Members : Least(reminded[m] + 1, 2) \in Nat /\ reminded[m] \in Nat
      BY DEF TypeOK, Least
    <3>2. CASE reminded' = reminded
      BY <3>2 DEF TypeOK
    <3>3. CASE reminded' = [m \in Members |->
                              IF op[q] = "remind" /\ m \in audience[q]
                              THEN Least(reminded[m] + 1, 2) ELSE reminded[m]]
      BY <3>1, <3>3
    <3> QED
      BY <1>13, <3>2, <3>3 DEF Answer
  <2> QED
    BY <1>13, <2>1, <2>2, <2>3, <2>4 DEF Answer, TypeOK
<1>14. CASE SendLog(q)
  <2>1. RequestsTyped'
    <3>1. CASE op[q] = "announce"
      BY <1>14, <3>1 DEF SendLog, TypeOK, RequestsTyped, Phase, Answered
    <3>2. CASE op[q] # "announce"
      BY <1>14, <3>2, EndTyped DEF SendLog
    <3> QED
      BY <3>1, <3>2
  <2> QED
    BY <1>14, <2>1 DEF SendLog, TypeOK, RequestsTyped
<1>141. CASE MenuAnswered(q)
  <2>1. RequestsTyped'
    BY <1>141, EndTyped DEF MenuAnswered
  <2>2. missing' \subseteq Ops /\ unlogged' \subseteq Requests
    BY <1>141 DEF MenuAnswered, Forgotten, TypeOK
  <2> QED
    BY <1>141, <2>1, <2>2 DEF MenuAnswered, TypeOK, RequestsTyped
<1>142. CASE AnswerRaises(q)
  <2>1. RequestsTyped'
    <3>1. CASE op[q] = "remind"
      BY <1>142, <3>1 DEF AnswerRaises, TypeOK, RequestsTyped, Phase
    <3>2. CASE op[q] # "remind"
      BY <1>142, <3>2, EndTyped DEF AnswerRaises
    <3> QED
      BY <3>1, <3>2
  <2>2. missing' \subseteq Ops /\ unlogged' \subseteq Requests
    BY <1>142 DEF AnswerRaises, Forgotten, TypeOK
  <2> QED
    BY <1>142, <2>1, <2>2 DEF AnswerRaises, TypeOK, RequestsTyped
<1>15. CASE RemindStart(q)
  <2>1. pc' \in [Requests -> Phase] /\ op' \in [Requests -> Ops]
    BY <1>15, BeginTyped DEF RemindStart, Phase, Answered, Ops
  <2> QED
    BY <1>15, <2>1 DEF RemindStart, TypeOK
<1>16. CASE RemindTo(q)
  <2> PICK m \in todo[q] :
        /\ todo' = [todo EXCEPT ![q] = @ \ {m}]
        /\ \/ reminder[m] = "sent" /\ UNCHANGED <<reminder, pc, audience, unasked>>
           \/ /\ reminder[m] # "sent" /\ m \notin consent
              /\ reminder' = [reminder EXCEPT ![m] = "skipped_no_consent"]
              /\ UNCHANGED <<pc, audience, unasked>>
           \/ /\ reminder[m] # "sent" /\ m \in consent
              /\ reminder' = [reminder EXCEPT ![m] = IF @ = "none" THEN "pending" ELSE @]
              /\ pc' = [pc EXCEPT ![q] = "sending"]
              /\ Call(q, {m})
    BY <1>16 DEF RemindTo
  <2>1. m \in Members /\ {m} \in SUBSET Members
    BY DEF TypeOK
  <2>2. audience' \in [Requests -> SUBSET Members] /\ unasked' \subseteq Members
    BY <2>1, CallTyped DEF TypeOK
  <2>3. reminder' \in [Members -> ReminderStatus] /\ pc' \in [Requests -> Phase]
    BY <2>1 DEF TypeOK, ReminderStatus, Phase, Answered
  <2> QED
    BY <1>16, <2>2, <2>3 DEF RemindTo, TypeOK
<1>17. CASE RemindLog(q)
  BY <1>17 DEF RemindLog, TypeOK, ReminderStatus, Phase, Answered
<1> QED
  BY <1>1, <1>2, <1>3, <1>4, <1>5, <1>6, <1>7, <1>8, <1>9, <1>90, <1>10, <1>11, <1>12, <1>13,
     <1>14, <1>141, <1>142, <1>15, <1>16, <1>17 DEF Start, Broadcast, Resume

LEMMA TypeStep == TypeOK /\ [Next]_vars => TypeOK'
<1> SUFFICES ASSUME TypeOK, [Next]_vars PROVE TypeOK'
  OBVIOUS
<1>1. CASE UNCHANGED vars
  BY <1>1 DEF vars, memberVars, planVars, requestVars, historyVars, dayVars, TypeOK
<1> QED
  BY <1>1, ClockTyped, RequestTyped DEF Next

\* Every variable keeps its type; the counter never counts a month to come.
THEOREM TypeCorrect == Spec => []TypeOK
BY TypeInit, TypeStep, PTL DEF Spec

-----------------------------------------------------------------------------
(* A step of one request leaves the others where they are *)

RequestStep(q) ==
  \/ Start(q) \/ Broadcast(q) \/ Resume(q) \/ Answer(q)
  \/ BroadcastCount(q) \/ LockTimeout(q)

WorldStep == MemberChanges \/ DateFallsDue \/ MonthEnds \/ DayEnds

OthersKept(q) ==
  \A r \in Requests \ {q} :
    /\ pc'[r] = pc[r] /\ op'[r] = op[r]
    /\ todo'[r] = todo[r] /\ audience'[r] = audience[r]
    /\ new_total'[r] = new_total[r] /\ rolled'[r] = rolled[r] /\ asked'[r] = asked[r]

LEMMA Steps ==
  Next <=> WorldStep \/ Crash \/ \E q \in Requests : RequestStep(q)
BY DEF Next, WorldStep, RequestStep

LEMMA EnvKept == [Next]_vars => env' = env
BY Steps DEF WorldStep, MemberChanges, DateFallsDue, MonthEnds, DayEnds, Crash,
   RequestStep, Start, Broadcast, Resume, BroadcastWait, DuesReminder, Announce,
   RemindStart, SendToMember, MenuAnnouncement, BroadcastRefused, BroadcastToNobody, BroadcastSend,
   BroadcastLog, SendLog, RemindLog, MenuAnswered, AnswerRaises, AnnounceTo, RemindTo, ListDone, Answer,
   BroadcastCount, LockTimeout, vars

LEMMA OneMoves ==
  ASSUME TypeOK, NEW q \in Requests, RequestStep(q)
  PROVE  OthersKept(q)
<1>1. CASE End(q)
  BY <1>1 DEF TypeOK, End, OthersKept
<1> DEFINE Pc == \A r \in Requests \ {q} : pc'[r] = pc[r]
           Op == \A r \in Requests \ {q} : op'[r] = op[r]
           Rest == \A r \in Requests \ {q} :
                     /\ todo'[r] = todo[r] /\ audience'[r] = audience[r]
                     /\ new_total'[r] = new_total[r] /\ rolled'[r] = rolled[r]
                     /\ asked'[r] = asked[r]
<1>2. \A kind \in Ops, phase \in Phase : Begin(q, kind, phase) => Pc /\ Op
  BY DEF TypeOK, Begin
<1>3. \A group \in SUBSET Members :
        Call(q, group) => \A r \in Requests \ {q} : audience'[r] = audience[r]
  BY DEF TypeOK, Call
<1> USE DEF memberVars, planVars, requestVars, historyVars, dayVars
<1>4. CASE BroadcastWait(q) \/ Announce(q) \/ RemindStart(q)
  <2>1. Pc /\ Op
    BY <1>2, <1>4 DEF BroadcastWait, Announce, RemindStart, Ops, Phase, Answered
  <2>2. Rest
    BY <1>4 DEF BroadcastWait, Announce, RemindStart, TypeOK
  <2> QED
    BY <2>1, <2>2 DEF OthersKept
<1>5. CASE DuesReminder(q) \/ \E m \in Members : SendToMember(q, m) \/ MenuAnnouncement(q, m)
  <2>1. Pc /\ Op
    BY <1>2, <1>5 DEF DuesReminder, SendToMember, MenuAnnouncement, Ops, Phase, Answered
  <2>2. Rest
    BY <1>5, <1>3 DEF DuesReminder, SendToMember, MenuAnnouncement, TypeOK
  <2> QED
    BY <2>1, <2>2 DEF OthersKept
<1>6. CASE BroadcastSend(q)
  <2>1. Pc /\ Op
    BY <1>2, <1>6 DEF BroadcastSend, Ops, Phase, Answered
  <2>2. Rest
    BY <1>6, <1>3 DEF BroadcastSend, TypeOK
  <2> QED
    BY <2>1, <2>2 DEF OthersKept
<1>7. CASE Answer(q)
  <2>1. Pc
    BY <1>7 DEF Answer, TypeOK
  <2> QED
    BY <1>7, <2>1 DEF Answer, OthersKept
<1>8. CASE (BroadcastLog(q) \/ SendLog(q) \/ RemindLog(q) \/ AnswerRaises(q)) /\ ~End(q)
  BY <1>8 DEF BroadcastLog, SendLog, RemindLog, AnswerRaises, OthersKept, TypeOK
<1>9. CASE AnnounceTo(q) \/ RemindTo(q)
  BY <1>9 DEF AnnounceTo, RemindTo, Call, OthersKept, TypeOK
<1> QED
  BY <1>1, <1>4, <1>5, <1>6, <1>7, <1>8, <1>9
     DEF RequestStep, Start, Broadcast, Resume, BroadcastRefused, BroadcastToNobody, ListDone,
         MenuAnswered, BroadcastCount, LockTimeout

\* Without unreadable answers no request has one.
Readable == "unreadable" \in env \/ \A q \in Requests : pc[q] # "unreadable"

LEMMA ReadableStep == TypeOK /\ Readable /\ [Next]_vars => Readable'
<1> SUFFICES ASSUME TypeOK, Readable, [Next]_vars, "unreadable" \notin env
             PROVE  \A q \in Requests : pc'[q] # "unreadable"
  BY EnvKept DEF Readable
<1> USE DEF memberVars, planVars, requestVars, historyVars, dayVars
<1>0. \A q \in Requests : pc[q] # "unreadable"
  BY DEF Readable
<1>1. CASE WorldStep \/ UNCHANGED vars
  BY <1>0, <1>1 DEF WorldStep, MemberChanges, DateFallsDue, MonthEnds, DayEnds, vars
<1>2. CASE Crash
  BY <1>2 DEF Crash
<1>3. ASSUME NEW q \in Requests, RequestStep(q) PROVE pc'[q] # "unreadable"
  <2>1. CASE End(q)
    BY <2>1 DEF End, TypeOK
  <2>2. CASE Answer(q)
    BY <2>2 DEF Answer, TypeOK
  <2>3. CASE Start(q) \/ BroadcastSend(q) \/ AnnounceTo(q) \/ RemindTo(q)
    BY <1>0, <2>3 DEF Start, BroadcastWait, DuesReminder, Announce, RemindStart, SendToMember,
       MenuAnnouncement, BroadcastSend, AnnounceTo, RemindTo, Begin, TypeOK
  <2>4. CASE (BroadcastLog(q) \/ SendLog(q) \/ RemindLog(q) \/ AnswerRaises(q)) /\ ~End(q)
    BY <2>4 DEF BroadcastLog, SendLog, RemindLog, AnswerRaises, TypeOK
  <2> QED
    BY <1>3, <2>1, <2>2, <2>3, <2>4
       DEF RequestStep, Broadcast, Resume, BroadcastRefused, BroadcastToNobody, MenuAnswered,
           ListDone, BroadcastCount, LockTimeout
<1>4. ASSUME NEW q \in Requests, RequestStep(q) PROVE \A r \in Requests : pc'[r] # "unreadable"
  BY <1>0, <1>3, <1>4, OneMoves DEF OthersKept
<1> QED
  BY <1>1, <1>2, <1>4, Steps

LEMMA AllReadable == Spec => []Readable
<1>1. Init => Readable
  BY DEF Init, Readable
<1> QED
  BY <1>1, TypeCorrect, ReadableStep, PTL DEF Spec

LEMMA NothingRaises ==
  ASSUME Readable, "unreadable" \notin env
  PROVE  \A q \in Requests : ~AnswerRaises(q)
BY DEF Readable, AnswerRaises

-----------------------------------------------------------------------------
(* What was delivered is logged *)

LEMMA AuditStep == TypeOK /\ Readable /\ AuditComplete /\ [Next]_vars => AuditComplete'
<1> SUFFICES ASSUME TypeOK, Readable, AuditComplete, [Next]_vars PROVE AuditComplete'
  OBVIOUS
<1> USE DEF memberVars, planVars, requestVars, historyVars, dayVars
<1>0. env' = env
  BY EnvKept
<1>1. CASE WorldStep \/ UNCHANGED vars
  BY <1>1 DEF WorldStep, MemberChanges, DateFallsDue, MonthEnds, DayEnds, AuditComplete, vars
<1>2. CASE Crash
  BY <1>2 DEF Crash, AuditComplete
<1>3. ASSUME NEW q \in Requests, RequestStep(q) PROVE AuditComplete'
  <2>1. OthersKept(q)
    BY <1>3, OneMoves
  <2>2. \A r \in unlogged' : pc'[r] \in Answered
    <3>1. unlogged' \subseteq unlogged \cup {q}
      BY <1>3 DEF RequestStep, Start, Broadcast, Resume, BroadcastWait, DuesReminder, Announce,
         RemindStart, SendToMember, MenuAnnouncement, BroadcastRefused, BroadcastToNobody,
         BroadcastSend, BroadcastLog, SendLog, RemindLog, MenuAnswered, AnswerRaises,
         AnnounceTo, RemindTo, ListDone, Answer, BroadcastCount, LockTimeout
    <3>2. \A r \in unlogged' \ {q} : pc'[r] \in Answered
      BY <2>1, <3>1 DEF AuditComplete, OthersKept, TypeOK
    <3>3. q \in unlogged' => pc'[q] \in Answered
      <4>1. CASE Answer(q)
        BY <4>1 DEF Answer, Answered, TypeOK
      <4>2. CASE BroadcastLog(q) \/ SendLog(q) \/ RemindLog(q) \/ MenuAnswered(q)
                 \/ AnswerRaises(q)
        BY <4>2 DEF BroadcastLog, SendLog, RemindLog, MenuAnswered, AnswerRaises
      <4>3. CASE ~(Answer(q) \/ BroadcastLog(q) \/ SendLog(q) \/ RemindLog(q)
                   \/ MenuAnswered(q) \/ AnswerRaises(q))
        <5>1. unlogged' = unlogged /\ pc[q] \notin Answered
          BY <1>3, <4>3 DEF RequestStep, Start, Broadcast, Resume, BroadcastWait, DuesReminder,
             Announce, RemindStart, SendToMember, MenuAnnouncement, BroadcastRefused,
             BroadcastToNobody, BroadcastSend, AnnounceTo, RemindTo, ListDone, BroadcastCount,
             LockTimeout, Free, Asked, Call, Answered
        <5> QED
          BY <5>1 DEF AuditComplete
      <4> QED
        BY <4>1, <4>2, <4>3
    <3> QED
      BY <3>2, <3>3
  <2>3. ASSUME env \cap {"crash", "unreadable"} = {} PROVE missing' \subseteq {"menu"}
    <3>1. ~AnswerRaises(q)
      BY <2>3, NothingRaises
    <3>2. CASE MenuAnswered(q)
      BY <2>3, <3>2 DEF MenuAnswered, Forgotten, AuditComplete
    <3>3. CASE ~MenuAnswered(q)
      <4>1. missing' = missing
        BY <1>3, <3>1, <3>3 DEF RequestStep, Start, Broadcast, Resume, BroadcastWait,
           DuesReminder, Announce, RemindStart, SendToMember, MenuAnnouncement,
           BroadcastRefused, BroadcastToNobody, BroadcastSend, BroadcastLog, SendLog, RemindLog,
           AnnounceTo, RemindTo, ListDone, Answer, BroadcastCount, LockTimeout
      <4> QED
        BY <2>3, <4>1 DEF AuditComplete
    <3> QED
      BY <3>2, <3>3
  <2> QED
    BY <1>0, <2>2, <2>3 DEF AuditComplete
<1> QED
  BY <1>1, <1>2, <1>3, Steps

\* A delivered message is logged or about to be, also when its answer was lost
\* and however many requests overlap; only the announcements sent by the phone
\* menu are never logged, and what was under way when a process died or when an
\* answer could not be read.
THEOREM DeliveredIsLogged == Spec => []AuditComplete
<1>1. Init => AuditComplete
  BY DEF Init, AuditComplete
<1> QED
  BY <1>1, TypeCorrect, AllReadable, AuditStep, PTL DEF Spec

-----------------------------------------------------------------------------
(* Who is written to consents *)

ListsConsent ==
  \A q \in Requests : op[q] = "announce" =>
    "announce" \in env /\ ("consent" \in env \/ todo[q] \subseteq consent)

ConsentInv == ListsConsent /\ ConsentRespected

LEMMA ConsentStep == TypeOK /\ ConsentInv /\ [Next]_vars => ConsentInv'
<1> SUFFICES ASSUME TypeOK, ConsentInv, [Next]_vars PROVE ConsentInv'
  OBVIOUS
<1> USE DEF memberVars, planVars, requestVars, historyVars, dayVars
<1>1. CASE UNCHANGED vars
  BY <1>1 DEF vars, ConsentInv, ListsConsent, ConsentRespected
<1>2. CASE WorldStep
  BY <1>2 DEF WorldStep, MemberChanges, DateFallsDue, MonthEnds, DayEnds, ConsentInv,
     ListsConsent, ConsentRespected
<1>3. CASE Crash
  BY <1>3 DEF Crash, ConsentInv, ListsConsent, ConsentRespected
<1>4. ASSUME NEW q \in Requests, RequestStep(q) PROVE ConsentInv'
  <2>1. OthersKept(q)
    BY <1>4, OneMoves
  <2>2. env' = env /\ consent' = consent
    BY <1>4 DEF RequestStep, Start, Broadcast, Resume, BroadcastWait, DuesReminder, Announce,
       RemindStart, SendToMember, MenuAnnouncement, BroadcastRefused, BroadcastToNobody, BroadcastSend,
       BroadcastLog, SendLog, RemindLog, MenuAnswered, AnswerRaises, AnnounceTo, RemindTo, ListDone, Answer,
       BroadcastCount, LockTimeout
  <2>3. op'[q] = "announce" =>
          "announce" \in env /\ ("consent" \in env \/ todo'[q] \subseteq consent)
    <3>1. CASE End(q)
      BY <3>1 DEF End, TypeOK
    <3>2. CASE Announce(q)
      BY <3>2 DEF Announce, Begin, TypeOK
    <3>3. CASE BroadcastWait(q) \/ DuesReminder(q) \/ RemindStart(q) \/ BroadcastSend(q)
               \/ \E m \in Members : SendToMember(q, m) \/ MenuAnnouncement(q, m)
      BY <3>3 DEF BroadcastWait, DuesReminder, RemindStart, BroadcastSend, SendToMember, MenuAnnouncement, Begin,
         TypeOK
    <3>4. CASE (BroadcastLog(q) \/ SendLog(q) \/ RemindLog(q) \/ AnswerRaises(q) \/ Answer(q))
               /\ ~End(q)
      BY <3>4 DEF BroadcastLog, SendLog, RemindLog, AnswerRaises, Answer, ConsentInv, ListsConsent
    <3>5. CASE AnnounceTo(q) \/ RemindTo(q)
      BY <3>5 DEF AnnounceTo, RemindTo, ConsentInv, ListsConsent, TypeOK
    <3> QED
      BY <1>4, <3>1, <3>2, <3>3, <3>4, <3>5
         DEF RequestStep, Start, Broadcast, Resume, BroadcastRefused, BroadcastToNobody,
             ListDone, MenuAnswered, BroadcastCount, LockTimeout
  <2>4. ConsentRespected'
    <3>1. CASE DuesReminder(q) \/ BroadcastSend(q) \/ \E m \in Members : SendToMember(q, m) \/ MenuAnnouncement(q, m)
      BY <2>2, <3>1 DEF DuesReminder, BroadcastSend, SendToMember, MenuAnnouncement, Call, ConsentInv,
         ConsentRespected
    <3>2. CASE AnnounceTo(q) \/ RemindTo(q)
      BY <2>2, <3>2 DEF AnnounceTo, RemindTo, Call, ConsentInv, ListsConsent, ConsentRespected
    <3>3. CASE ~(DuesReminder(q) \/ BroadcastSend(q) \/ AnnounceTo(q) \/ RemindTo(q)
                 \/ \E m \in Members : SendToMember(q, m) \/ MenuAnnouncement(q, m))
      <4>1. unasked' = unasked
        BY <1>4, <3>3 DEF RequestStep, Start, Broadcast, Resume, BroadcastWait, Announce,
           RemindStart, BroadcastRefused, BroadcastToNobody, BroadcastLog, SendLog, RemindLog,
           MenuAnswered, AnswerRaises, ListDone, Answer, BroadcastCount, LockTimeout
      <4> QED
        BY <2>2, <4>1 DEF ConsentInv, ConsentRespected
    <3> QED
      BY <3>1, <3>2, <3>3
  <2> QED
    BY <2>1, <2>2, <2>3, <2>4 DEF ConsentInv, ListsConsent, OthersKept
<1> QED
  BY <1>1, <1>2, <1>3, <1>4, Steps

\* Nobody is written to against their will, whatever overlaps or dies, but for
\* an announcement whose list was read before a consent was withdrawn.
THEOREM ConsentHeld == Spec => []ConsentRespected
<1>1. Init => ConsentInv
  BY DEF Init, ConsentInv, ListsConsent, ConsentRespected
<1>2. ConsentInv => ConsentRespected
  BY DEF ConsentInv
<1> QED
  BY <1>1, <1>2, TypeCorrect, ConsentStep, PTL DEF Spec

-----------------------------------------------------------------------------
(* One reminder a day *)

\* One request at a time, and what the provider did is what it answered.
OneRun == env \cap {"overlap", "instances", "crash", "lost_answer", "unreadable"} = {}

OneAtATime == \A q, s \in Requests : pc[q] # "idle" /\ pc[s] # "idle" => q = s

Reminds(q, m) == op[q] = "remind" /\ m \in audience[q]

\* A reminder the borrower got is on today's row, or its request is about to
\* say so; one on its way, or refused, was not got.
RowFollows(m) ==
  /\ reminded[m] <= 1
  /\ reminded[m] = 1 =>
       \/ reminder[m] = "sent"
       \/ \E q \in Requests : Reminds(q, m) /\ pc[q] = "delivered"
  /\ \A q \in Requests : Reminds(q, m) /\ pc[q] \in {"sending", "refused"} => reminded[m] = 0

RemindInv == OneRun => OneAtATime /\ \A m \in Members : RowFollows(m)

LEMMA BusyOrFree ==
  ASSUME NEW q \in Requests, RequestStep(q)
  PROVE  pc[q] # "idle" \/ Free(q)
BY DEF RequestStep, Start, Broadcast, Resume, BroadcastWait, DuesReminder, Announce,
   RemindStart, SendToMember, MenuAnnouncement, BroadcastRefused, BroadcastToNobody, BroadcastSend,
   BroadcastLog, SendLog, RemindLog, MenuAnswered, AnswerRaises, AnnounceTo, RemindTo, ListDone, Answer,
   BroadcastCount, LockTimeout, Asked

LEMMA RemindStep == TypeOK /\ Readable /\ RemindInv /\ [Next]_vars => RemindInv'
<1> SUFFICES ASSUME TypeOK, Readable, RemindInv, [Next]_vars, OneRun'
             PROVE  (OneAtATime /\ \A m \in Members : RowFollows(m))'
  BY DEF RemindInv
<1> USE DEF memberVars, planVars, requestVars, historyVars, dayVars
<1>0. env' = env
  BY EnvKept
<1>01. OneAtATime /\ OneRun /\ \A m \in Members : RowFollows(m)
  BY <1>0 DEF RemindInv, OneRun
<1>1. CASE UNCHANGED vars
  BY <1>01, <1>1 DEF vars, OneAtATime, RowFollows, Reminds
<1>2. CASE MemberChanges \/ DateFallsDue \/ MonthEnds
  BY <1>01, <1>2 DEF MemberChanges, DateFallsDue, MonthEnds, OneAtATime, RowFollows, Reminds
<1>3. CASE DayEnds
  <2>1. OneAtATime'
    BY <1>01, <1>3 DEF DayEnds, OneAtATime
  <2>2. ASSUME NEW m \in Members PROVE RowFollows(m)'
    BY <1>3 DEF DayEnds, RowFollows
  <2> QED
    BY <2>1, <2>2
<1>4. ~Crash
  BY <1>01 DEF Crash, OneRun
<1>5. ASSUME NEW q \in Requests, RequestStep(q)
      PROVE  (OneAtATime /\ \A m \in Members : RowFollows(m))'
  <2>1. OthersKept(q)
    BY <1>5, OneMoves
  <2>2. \A r \in Requests \ {q} : pc[r] = "idle" /\ pc'[r] = "idle"
    BY <1>01, <1>5, <2>1, BusyOrFree DEF Free, OneRun, OneAtATime, OthersKept
  <2>3. OneAtATime'
    BY <2>2 DEF OneAtATime
  <2> SUFFICES ASSUME NEW m \in Members PROVE RowFollows(m)'
    BY <2>3
  <2>4. RowFollows(m) /\ reminded[m] \in Nat /\ reminder \in [Members -> ReminderStatus]
    BY <1>01 DEF TypeOK
  <2>5. ASSUME reminded'[m] = reminded[m], reminder'[m] = reminder[m],
               ~(op[q] = "remind" /\ pc[q] = "delivered"),
               ~(op'[q] = "remind" /\ pc'[q] \in {"sending", "refused", "delivered"})
        PROVE  RowFollows(m)'
    BY <2>1, <2>2, <2>4, <2>5 DEF RowFollows, Reminds, OthersKept
  <2>6. CASE Start(q) \/ BroadcastSend(q)
    <3>1. /\ reminded' = reminded /\ reminder' = reminder /\ pc[q] # "delivered"
          /\ ~(op'[q] = "remind" /\ pc'[q] \in {"sending", "refused", "delivered"})
      BY <2>6 DEF Start, BroadcastWait, DuesReminder, Announce, RemindStart, SendToMember, MenuAnnouncement,
         BroadcastSend, Begin, Free, Asked, TypeOK
    <3> QED
      BY <2>5, <3>1
  <2>7. CASE BroadcastRefused(q) \/ BroadcastToNobody(q) \/ ListDone(q) \/ BroadcastCount(q)
             \/ LockTimeout(q)
    <3>1. /\ reminded' = reminded /\ reminder' = reminder /\ pc[q] # "delivered"
          /\ pc'[q] = "idle"
      BY <2>7 DEF BroadcastRefused, BroadcastToNobody, ListDone, BroadcastCount, LockTimeout, End,
         Free, Asked, TypeOK
    <3> QED
      BY <2>5, <3>1
  <2>8. CASE BroadcastLog(q) \/ SendLog(q) \/ MenuAnswered(q)
    <3>1. /\ reminded' = reminded /\ reminder' = reminder /\ op[q] # "remind"
          /\ op'[q] # "remind"
      BY <2>8 DEF BroadcastLog, SendLog, MenuAnswered, End, TypeOK
    <3> QED
      BY <2>5, <3>1
  <2>9. CASE AnnounceTo(q)
    <3>1. /\ reminded' = reminded /\ reminder' = reminder /\ op[q] # "remind"
          /\ op'[q] # "remind"
      BY <2>9 DEF AnnounceTo
    <3> QED
      BY <2>5, <3>1
  <2>10. CASE RemindTo(q)
    <3>1. /\ reminded' = reminded /\ op' = op /\ op[q] = "remind" /\ pc[q] = "list"
      BY <2>10 DEF RemindTo
    <3> PICK n \in todo[q] :
          \/ reminder[n] = "sent" /\ UNCHANGED <<reminder, pc, audience, unasked>>
          \/ /\ reminder[n] # "sent" /\ n \notin consent
             /\ reminder' = [reminder EXCEPT ![n] = "skipped_no_consent"]
             /\ UNCHANGED <<pc, audience, unasked>>
          \/ /\ reminder[n] # "sent" /\ n \in consent
             /\ reminder' = [reminder EXCEPT ![n] = IF @ = "none" THEN "pending" ELSE @]
             /\ pc' = [pc EXCEPT ![q] = "sending"]
             /\ Call(q, {n})
      BY <2>10 DEF RemindTo
    <3>2. \A p \in Requests : pc[p] # "delivered"
      BY <2>2, <3>1
    <3>3. reminded[m] = 0 \/ reminder[m] = "sent"
      BY <2>4, <3>2 DEF RowFollows
    <3>4. reminded[m] <= 1
      BY <2>4 DEF RowFollows
    <3>5. CASE reminder[n] = "sent" /\ UNCHANGED <<reminder, pc, audience, unasked>>
      BY <2>5, <3>1, <3>5
    <3>6. CASE /\ reminder[n] # "sent" /\ n \notin consent
               /\ reminder' = [reminder EXCEPT ![n] = "skipped_no_consent"]
               /\ UNCHANGED <<pc, audience, unasked>>
      <4>1. reminder[m] = "sent" => reminder'[m] = "sent"
        BY <2>4, <3>6
      <4>2. \A p \in Requests : pc'[p] \notin {"sending", "refused", "delivered"}
        BY <2>2, <3>1, <3>6
      <4> QED
        BY <2>4, <3>1, <3>3, <3>4, <4>1, <4>2 DEF RowFollows
    <3>7. CASE /\ reminder[n] # "sent" /\ n \in consent
               /\ reminder' = [reminder EXCEPT ![n] = IF @ = "none" THEN "pending" ELSE @]
               /\ pc' = [pc EXCEPT ![q] = "sending"]
               /\ Call(q, {n})
      <4>1. reminder[m] = "sent" => reminder'[m] = "sent"
        BY <2>4, <3>7
      <4>2. pc'[q] = "sending" /\ audience'[q] = {n}
        BY <3>7 DEF Call, TypeOK
      <4>3. \A p \in Requests : Reminds(p, m)' /\ pc'[p] \in {"sending", "refused"} => m = n
        BY <2>2, <4>2 DEF Reminds
      <4>4. m = n => reminded[m] = 0
        BY <3>3, <3>7
      <4> QED
        BY <2>4, <3>1, <3>3, <3>4, <4>1, <4>3, <4>4 DEF RowFollows
    <3> QED
      BY <3>5, <3>6, <3>7
  <2>11. CASE Answer(q)
    <3>1. /\ op' = op /\ audience' = audience /\ reminder' = reminder /\ pc[q] = "sending"
          /\ pc'[q] \in {"delivered", "refused"}
      BY <1>01, <2>11 DEF Answer, OneRun, TypeOK
    <3>2. CASE op[q] # "remind"
      <4>1. reminded'[m] = reminded[m]
        BY <2>11, <3>2 DEF Answer
      <4> QED
        BY <2>5, <3>1, <3>2, <4>1
    <3>3. CASE op[q] = "remind" /\ m \notin audience[q]
      <4>1. reminded'[m] = reminded[m]
        BY <2>11, <3>3 DEF Answer
      <4>2. \A p \in Requests : pc[p] # "delivered"
        BY <2>2, <3>1
      <4>3. \A p \in Requests : ~(Reminds(p, m)' /\ pc'[p] \in {"sending", "refused"})
        BY <2>2, <3>1, <3>3 DEF Reminds
      <4> QED
        BY <2>4, <3>1, <4>1, <4>2, <4>3 DEF RowFollows
    <3>4. CASE op[q] = "remind" /\ m \in audience[q]
      <4>1. reminded[m] = 0
        BY <2>4, <3>1, <3>4 DEF RowFollows, Reminds
      <4>2. \/ pc'[q] = "delivered" /\ reminded'[m] = Least(0 + 1, 2)
            \/ pc'[q] = "refused" /\ reminded'[m] = 0
        BY <1>01, <2>11, <3>4, <4>1 DEF Answer, TypeOK, OneRun
      <4>3. Least(0 + 1, 2) = 1
        BY DEF Least
      <4>4. \A p \in Requests : pc'[p] \in {"sending", "refused"} => p = q
        BY <2>2
      <4>5. Reminds(q, m)'
        BY <3>1, <3>4 DEF Reminds
      <4> QED
        BY <4>2, <4>3, <4>4, <4>5 DEF RowFollows
    <3> QED
      BY <3>2, <3>3, <3>4
  <2>12. CASE RemindLog(q)
    <3>1. /\ op[q] = "remind" /\ pc[q] \in {"delivered", "refused"} /\ reminded' = reminded
          /\ pc'[q] = "list"
          /\ reminder'[m] = IF m \in audience[q]
                            THEN IF pc[q] = "delivered" THEN "sent" ELSE "failed"
                            ELSE reminder[m]
      BY <2>12 DEF RemindLog, TypeOK
    <3>2. \A p \in Requests : pc'[p] \notin {"sending", "refused"}
      BY <2>2, <3>1
    <3>3. reminded[m] = 1 => reminder'[m] = "sent"
      BY <2>2, <2>4, <3>1 DEF RowFollows, Reminds
    <3>4. reminded[m] <= 1
      BY <2>4 DEF RowFollows
    <3> QED
      BY <3>1, <3>2, <3>3, <3>4 DEF RowFollows
  <2>13. ~AnswerRaises(q)
    BY <1>01, NothingRaises DEF OneRun
  <2> QED
    BY <1>5, <2>6, <2>7, <2>8, <2>9, <2>10, <2>11, <2>12, <2>13 DEF RequestStep, Broadcast, Resume
<1> QED
  BY <1>1, <1>2, <1>3, <1>4, <1>5, Steps DEF WorldStep

\* However often the job runs in a day, a borrower is reminded once, unless
\* runs overlap or a process or an answer is lost before the row is written.
THEOREM OneReminder == Spec => []RemindOnce
<1>1. Init => RemindInv
  BY DEF Init, RemindInv, OneAtATime, RowFollows, Reminds
<1>2. RemindInv => RemindOnce
  BY DEF RemindInv, RemindOnce, RowFollows, OneRun
<1> QED
  BY <1>1, <1>2, TypeCorrect, AllReadable, RemindStep, PTL DEF Spec

-----------------------------------------------------------------------------
(* The quota *)

\* One process that does not die, no date that falls due, a paid plan with a
\* limit: the conditions of QuotaHeld.
Metered == env \cap {"instances", "lapse", "crash", "lost_answer", "unreadable"} = {} /\ PaidQuota # 0

Broadcasts(q) == op[q] = "broadcast" /\ pc[q] \in {"sending", "delivered", "refused"}

\* The row is held from the count to the log.
RowHeld == \A q \in Requests : Broadcasts(q) <=> lock = q

\* Who waits for the row, or writes the count, keeps the event loop.
LoopHeld ==
  \A q \in Requests :
    /\ pc[q] \in {"waiting", "logged"} => loop[Server] = q
    /\ pc[q] = "waiting" => lock # NoRequest
    /\ pc[q] = "logged" => lock = NoRequest

PlanKept == status = "active" /\ ~due /\ used <= PaidQuota

\* The total a broadcast is about to write covers what was counted when it
\* began and what it has sent.
TotalKnown(q) ==
  Broadcasts(q) \/ pc[q] = "logged" =>
    /\ new_total[q] <= PaidQuota
    /\ marker <= asked[q]
    /\ pc[q] = "logged" => marker = asked[q]
    /\ pc[q] # "logged" => rolled[q] = (marker # asked[q])
    /\ asked[q] = month =>
         /\ CountBase <= new_total[q]
         /\ pc[q] = "sending" => CountBase + Cardinality(audience[q]) <= new_total[q]

ToBeCounted(q) ==
  /\ op[q] = "broadcast" \/ pc[q] = "logged"
  /\ pc[q] \in {"delivered", "logged"}
  /\ asked[q] = month

\* What was sent this month is counted, or in the total of the broadcast under way.
SentCounted ==
  broadcasted <= CountBase \/ \E q \in Requests : ToBeCounted(q) /\ broadcasted <= new_total[q]

QuotaInv ==
  Metered =>
    RowHeld /\ LoopHeld /\ PlanKept /\ SentCounted /\ \A q \in Requests : TotalKnown(q)

LEMMA QuotaInit == Init => QuotaInv
<1> SUFFICES ASSUME Init PROVE QuotaInv
  OBVIOUS
<1>1. \A q \in Requests : pc[q] = "idle" /\ op[q] = "none" /\ lock # q
  BY NamesAssumption DEF Init
<1>2. RowHeld /\ LoopHeld /\ \A q \in Requests : TotalKnown(q)
  BY <1>1 DEF RowHeld, LoopHeld, TotalKnown, Broadcasts
<1>3. PlanKept /\ SentCounted
  BY QuotaAssumption DEF Init, PlanKept, SentCounted, CountBase
<1> QED
  BY <1>2, <1>3 DEF QuotaInv

LEMMA QuotaOfTheMonth == TypeOK /\ QuotaInv => QuotaHeld
<1> SUFFICES ASSUME TypeOK, QuotaInv, Metered PROVE broadcasted <= PaidQuota
  BY DEF QuotaHeld, Metered
<1>1. CountBase <= PaidQuota /\ CountBase \in Nat
  BY QuotaAssumption DEF QuotaInv, PlanKept, CountBase, TypeOK
<1>2. CASE broadcasted <= CountBase
  BY <1>1, <1>2, QuotaAssumption DEF TypeOK
<1>3. CASE \E q \in Requests : ToBeCounted(q) /\ broadcasted <= new_total[q]
  <2> PICK q \in Requests : ToBeCounted(q) /\ broadcasted <= new_total[q]
    BY <1>3
  <2>1. new_total[q] <= PaidQuota /\ new_total[q] \in Nat
    BY DEF QuotaInv, TotalKnown, ToBeCounted, Broadcasts, TypeOK
  <2> QED
    BY <2>1, QuotaAssumption DEF TypeOK
<1> QED
  BY <1>2, <1>3 DEF QuotaInv, SentCounted

\* What a step of a request may assume of the others.
LEMMA Alone ==
  ASSUME TypeOK, Metered, RowHeld, LoopHeld, NEW q \in Requests, RequestStep(q)
  PROVE  \/ Answer(q)
         \/ \A r \in Requests \ {q} : pc[r] \notin {"waiting", "logged"}
<1>1. Host(q) = Server
  BY DEF Host, Metered
<1>2. \/ Answer(q) \/ Awake(q) \/ pc[q] \in {"waiting", "logged"}
  BY DEF RequestStep, Start, Broadcast, Resume, BroadcastWait, DuesReminder, Announce,
   RemindStart, SendToMember, MenuAnnouncement, BroadcastRefused, BroadcastToNobody, BroadcastSend,
   BroadcastLog, SendLog, RemindLog, MenuAnswered, AnswerRaises, AnnounceTo, RemindTo, ListDone, Answer,
   BroadcastCount, LockTimeout, Asked, Free
<1> QED
  BY <1>1, <1>2, NamesAssumption DEF Awake, LoopHeld

\* The cases of a step: what it does to the row, the loop and the count.
Aside(q) ==
  /\ UNCHANGED <<used, marker, month, lock, loop, status, due, broadcasted>>
  /\ ~Broadcasts(q) /\ ~Broadcasts(q)'
  /\ pc[q] \notin {"waiting", "logged"} /\ pc'[q] \notin {"waiting", "logged"}

LEMMA Apart ==
  ASSUME TypeOK, Metered, RowHeld, LoopHeld, PlanKept, NEW q \in Requests,
         \/ DuesReminder(q) \/ Announce(q) \/ RemindStart(q)
         \/ \E m \in Members : SendToMember(q, m) \/ MenuAnnouncement(q, m)
         \/ SendLog(q) \/ RemindLog(q) \/ MenuAnswered(q) \/ AnnounceTo(q) \/ RemindTo(q) \/ ListDone(q)
         \/ BroadcastRefused(q) /\ pc[q] = "idle"
         \/ Answer(q) /\ op[q] # "broadcast"
  PROVE  Aside(q)
<1> USE DEF memberVars, planVars, requestVars, historyVars, dayVars
<1>0. lock # q <=> ~Broadcasts(q)
  BY DEF RowHeld
<1>00. Host(q) = Server
  BY DEF Host, Metered
<1>1. ASSUME End(q), Awake(q), lock # q PROVE UNCHANGED <<lock, loop>> /\ pc'[q] = "idle"
  BY <1>00, <1>1, NamesAssumption DEF End, Holds, Awake, TypeOK, Processes
<1>2. CASE DuesReminder(q) \/ Announce(q) \/ RemindStart(q) \/ \E m \in Members : SendToMember(q, m) \/ MenuAnnouncement(q, m)
  BY <1>2 DEF DuesReminder, Announce, RemindStart, SendToMember, MenuAnnouncement, Begin, Call, Free, Aside,
     Broadcasts, TypeOK
<1>3. CASE (SendLog(q) /\ op[q] # "announce") \/ MenuAnswered(q)
  <2>1. lock # q
    BY <1>0, <1>3 DEF SendLog, MenuAnswered, Broadcasts
  <2> QED
    BY <1>1, <1>3, <2>1 DEF SendLog, MenuAnswered, Aside, Broadcasts
<1>4. CASE SendLog(q) /\ op[q] = "announce"
  BY <1>4 DEF SendLog, Aside, Broadcasts, TypeOK
<1>5. CASE RemindLog(q)
  BY <1>5 DEF RemindLog, Aside, Broadcasts, TypeOK
<1>6. CASE AnnounceTo(q) \/ RemindTo(q)
  BY <1>6 DEF AnnounceTo, RemindTo, Call, Aside, Broadcasts, TypeOK
<1>7. CASE ListDone(q)
  <2>1. lock # q
    BY <1>0, <1>7 DEF ListDone, Broadcasts
  <2> QED
    BY <1>1, <1>7, <2>1 DEF ListDone, Aside, Broadcasts
<1>8. CASE BroadcastRefused(q) /\ pc[q] = "idle"
  <2>1. lock # q /\ Awake(q)
    BY <1>0, <1>8 DEF BroadcastRefused, Broadcasts, Asked, Free
  <2>2. UNCHANGED <<used, marker, status, due>>
    BY <1>8 DEF BroadcastRefused, CommitDue, Reconciled, PlanKept, TypeOK
  <2> QED
    BY <1>1, <1>8, <2>1, <2>2 DEF BroadcastRefused, Aside, Broadcasts
<1>9. CASE Answer(q) /\ op[q] # "broadcast"
  BY <1>9 DEF Answer, Aside, Broadcasts, TypeOK
<1> QED
  BY <1>2, <1>3, <1>4, <1>5, <1>6, <1>7, <1>8, <1>9

LEMMA QuotaAside ==
  ASSUME TypeOK, Metered, QuotaInv, NEW q \in Requests, OthersKept(q), Aside(q), TypeOK'
  PROVE  QuotaInv'
<1>1. RowHeld /\ LoopHeld /\ PlanKept /\ SentCounted /\ \A r \in Requests : TotalKnown(r)
  BY DEF QuotaInv
<1>2. \A r \in Requests \ {q} : (Broadcasts(r) <=> Broadcasts(r)') /\ (ToBeCounted(r) => ToBeCounted(r)')
  BY DEF OthersKept, Broadcasts, ToBeCounted, Aside
<1>3. RowHeld'
  BY <1>1, <1>2 DEF RowHeld, Aside
<1>4. LoopHeld'
  BY <1>1 DEF LoopHeld, Aside, OthersKept
<1>5. PlanKept'
  BY <1>1 DEF PlanKept, Aside
<1>6. SentCounted'
  <2>1. ~ToBeCounted(q)
    BY DEF ToBeCounted, Aside, Broadcasts
  <2> QED
    BY <1>1, <1>2, <2>1 DEF SentCounted, Aside, CountBase, OthersKept
<1>7. ASSUME NEW r \in Requests PROVE TotalKnown(r)'
  <2>1. CASE r = q
    BY <2>1 DEF TotalKnown, Aside
  <2>2. CASE r # q
    BY <1>1, <1>2, <2>2 DEF TotalKnown, Aside, CountBase, OthersKept
  <2> QED
    BY <2>1, <2>2
<1> QED
  BY <1>3, <1>4, <1>5, <1>6, <1>7 DEF QuotaInv

\* A broadcast waits: the count and the row are left alone.
LEMMA QuotaWait ==
  ASSUME TypeOK, Metered, QuotaInv, NEW q \in Requests, OthersKept(q), BroadcastWait(q)
  PROVE  QuotaInv'
<1> USE DEF memberVars, planVars, requestVars, historyVars, dayVars
<1>0. RowHeld /\ LoopHeld /\ PlanKept /\ SentCounted /\ \A r \in Requests : TotalKnown(r)
  BY DEF QuotaInv
<1>1. /\ UNCHANGED <<used, marker, month, lock, status, due, broadcasted>>
      /\ pc[q] = "idle" /\ pc'[q] = "waiting" /\ lock # NoRequest
      /\ Host(q) = Server /\ loop[Server] = NoRequest
      /\ loop'[Server] = q
  BY DEF BroadcastWait, Begin, Free, Awake, Host, Metered, TypeOK, Processes
<1>2. \A r \in Requests \ {q} : (Broadcasts(r) <=> Broadcasts(r)') /\ (ToBeCounted(r) => ToBeCounted(r)')
  BY <1>1 DEF OthersKept, Broadcasts, ToBeCounted
<1>3. RowHeld'
  BY <1>0, <1>1, <1>2 DEF RowHeld, Broadcasts
<1>4. \A r \in Requests : pc[r] \notin {"waiting", "logged"}
  BY <1>0, <1>1, NamesAssumption DEF LoopHeld
<1>5. LoopHeld'
  BY <1>1, <1>4 DEF LoopHeld, OthersKept
<1>6. PlanKept'
  BY <1>0, <1>1 DEF PlanKept
<1>7. SentCounted'
  BY <1>0, <1>1, <1>2 DEF SentCounted, ToBeCounted, CountBase, OthersKept
<1>8. ASSUME NEW r \in Requests PROVE TotalKnown(r)'
  <2>1. CASE r = q
    BY <1>1, <2>1 DEF TotalKnown, Broadcasts
  <2>2. CASE r # q
    BY <1>0, <1>1, <1>2, <2>2 DEF TotalKnown, CountBase, OthersKept
  <2> QED
    BY <2>1, <2>2
<1> QED
  BY <1>3, <1>5, <1>6, <1>7, <1>8 DEF QuotaInv

\* Nothing is under way when a broadcast gets the row from an idle loop.
LEMMA NothingUnderWay ==
  ASSUME TypeOK, Metered, QuotaInv, NEW q \in Requests, RequestStep(q),
         lock = NoRequest, Asked(q), pc'[q] # "delivered"
  PROVE  /\ \A r \in Requests : ~Broadcasts(r) /\ pc[r] \notin {"waiting", "logged"}
         /\ broadcasted <= CountBase
<1>0. RowHeld /\ LoopHeld /\ SentCounted
  BY DEF QuotaInv
<1>1. pc[q] = "idle"
  BY <1>0 DEF Asked, Free, LoopHeld
<1>2. \A r \in Requests : ~Broadcasts(r)
  BY <1>0, NamesAssumption DEF RowHeld
<1>3. \A r \in Requests : pc[r] \notin {"waiting", "logged"}
  BY <1>0, <1>1, Alone DEF Answer
<1>4. \A r \in Requests : ~ToBeCounted(r)
  BY <1>2, <1>3 DEF ToBeCounted, Broadcasts
<1> QED
  BY <1>0, <1>2, <1>3, <1>4 DEF SentCounted

LEMMA QuotaToNobody ==
  ASSUME TypeOK, Metered, QuotaInv, NEW q \in Requests, OthersKept(q), BroadcastToNobody(q)
  PROVE  QuotaInv'
<1> USE DEF memberVars, planVars, requestVars, historyVars, dayVars
<1>0. RowHeld /\ LoopHeld /\ PlanKept /\ SentCounted /\ \A r \in Requests : TotalKnown(r)
  BY DEF QuotaInv
<1>1. /\ \A r \in Requests : ~Broadcasts(r) /\ pc[r] \notin {"waiting", "logged"}
      /\ broadcasted <= CountBase
  BY NothingUnderWay DEF BroadcastToNobody, RequestStep, Broadcast, End, TypeOK
<1>2. /\ UNCHANGED <<month, broadcasted>> /\ pc'[q] = "idle"
      /\ used' = CountBase + Cardinality(active) /\ marker' = month
      /\ lock = NoRequest /\ lock' = NoRequest /\ status' = "active" /\ due' = FALSE
      /\ CountBase + Cardinality(active) <= PaidQuota
  BY <1>0 DEF BroadcastToNobody, End, Holds, Reconciled, PlanKept, WithinQuota, Quota, Metered, TypeOK
<1>3. CountBase' = CountBase + Cardinality(active) /\ CountBase <= CountBase'
  <2>1. CountBase \in Nat /\ Cardinality(active) \in Nat
    BY CountsAreNat DEF TypeOK
  <2>2. CountBase' = used'
    BY <1>2 DEF CountBase
  <2> QED
    BY <1>2, <2>1, <2>2
<1>4. \A r \in Requests : ~Broadcasts(r)' /\ pc'[r] \notin {"waiting", "logged"}
  BY <1>1, <1>2 DEF OthersKept, Broadcasts
<1>5. RowHeld' /\ LoopHeld' /\ \A r \in Requests : TotalKnown(r)'
  BY <1>2, <1>4, NamesAssumption DEF RowHeld, LoopHeld, TotalKnown
<1>6. PlanKept'
  BY <1>2 DEF PlanKept
<1>7. SentCounted'
  <2>1. CountBase \in Nat /\ CountBase' \in Nat /\ broadcasted \in Nat
    BY <1>3, CountsAreNat DEF TypeOK
  <2> QED
    BY <1>1, <1>2, <1>3, <2>1 DEF SentCounted
<1> QED
  BY <1>5, <1>6, <1>7 DEF QuotaInv

LEMMA QuotaSend ==
  ASSUME TypeOK, Metered, QuotaInv, NEW q \in Requests, OthersKept(q), BroadcastSend(q)
  PROVE  QuotaInv'
<1> USE DEF memberVars, planVars, requestVars, historyVars, dayVars
<1>0. RowHeld /\ LoopHeld /\ PlanKept /\ SentCounted /\ \A r \in Requests : TotalKnown(r)
  BY DEF QuotaInv
<1>1. /\ \A r \in Requests : ~Broadcasts(r) /\ pc[r] \notin {"waiting", "logged"}
      /\ broadcasted <= CountBase
  <2>1. pc'[q] # "delivered"
    BY DEF BroadcastSend, Begin, TypeOK
  <2> QED
    BY <2>1, NothingUnderWay DEF BroadcastSend, RequestStep, Broadcast
<1>2. /\ UNCHANGED <<month, broadcasted, used, marker>>
      /\ status' = "active" /\ due' = FALSE
      /\ CountBase + Cardinality(active) <= PaidQuota
  BY <1>0 DEF BroadcastSend, CommitDue, Reconciled, PlanKept, WithinQuota, Quota, Metered, TypeOK
<1>3. /\ pc'[q] = "sending" /\ op'[q] = "broadcast" /\ lock' = q
      /\ audience'[q] = active \cap consent /\ asked'[q] = month
      /\ new_total'[q] = CountBase + Cardinality(active) /\ rolled'[q] = (marker # month)
  BY <1>0 DEF BroadcastSend, Begin, Call, PlanKept, TypeOK
<1>4. CountBase' = CountBase
  BY <1>2 DEF CountBase
<1>5. /\ CountBase \in Nat /\ Cardinality(active) \in Nat
      /\ Cardinality(active \cap consent) \in Nat
      /\ Cardinality(active \cap consent) <= Cardinality(active)
  <2>1. active \in SUBSET Members /\ active \cap consent \in SUBSET Members
    BY DEF TypeOK
  <2>2. Cardinality(active \cap consent) <= Cardinality(active)
    BY <2>1, CountsAreNat, FS_Subset
  <2> QED
    BY <2>1, <2>2, CountsAreNat
<1>6. \A r \in Requests \ {q} : ~Broadcasts(r)' /\ pc'[r] \notin {"waiting", "logged"}
  BY <1>1 DEF OthersKept, Broadcasts
<1>7. RowHeld' /\ LoopHeld'
  BY <1>3, <1>6 DEF RowHeld, LoopHeld, Broadcasts
<1>8. PlanKept'
  BY <1>0, <1>2 DEF PlanKept
<1>9. SentCounted'
  BY <1>1, <1>2, <1>4 DEF SentCounted
<1>10. ASSUME NEW r \in Requests PROVE TotalKnown(r)'
  <2>1. CASE r = q
    <3>1. marker <= month
      BY DEF TypeOK
    <3>2. /\ new_total'[q] <= PaidQuota /\ marker' <= asked'[q] /\ pc'[q] # "logged"
          /\ rolled'[q] = (marker' # asked'[q])
      BY <1>2, <1>3, <3>1
    <3>3. /\ CountBase' <= new_total'[q]
          /\ CountBase' + Cardinality(audience'[q]) <= new_total'[q]
      <4> DEFINE all == Cardinality(active)
                 some == Cardinality(active \cap consent)
      <4>1. /\ CountBase \in Nat /\ all \in Nat /\ some \in Nat /\ some <= all
            /\ new_total'[q] = CountBase + all /\ Cardinality(audience'[q]) = some
        BY <1>3, <1>5
      <4> HIDE DEF all, some
      <4> QED
        BY <1>4, <4>1
    <3> QED
      BY <2>1, <3>2, <3>3 DEF TotalKnown
  <2>2. CASE r # q
    BY <1>6, <2>2 DEF TotalKnown
  <2> QED
    BY <2>1, <2>2
<1> QED
  BY <1>7, <1>8, <1>9, <1>10 DEF QuotaInv

\* A broadcast that holds the row is the only one.
LEMMA OnlyBroadcast ==
  ASSUME Metered, QuotaInv, NEW q \in Requests, Broadcasts(q)
  PROVE  \A r \in Requests \ {q} : ~Broadcasts(r) /\ pc[r] # "logged" /\ ~ToBeCounted(r)
BY NamesAssumption DEF QuotaInv, RowHeld, LoopHeld, ToBeCounted, Broadcasts

LEMMA QuotaAnswer ==
  ASSUME TypeOK, Metered, QuotaInv, NEW q \in Requests, OthersKept(q), Answer(q),
         op[q] = "broadcast"
  PROVE  QuotaInv'
<1> USE DEF memberVars, planVars, requestVars, historyVars, dayVars
<1>0. RowHeld /\ LoopHeld /\ PlanKept /\ SentCounted /\ \A r \in Requests : TotalKnown(r)
  BY DEF QuotaInv
<1>1. /\ UNCHANGED <<used, marker, month, lock, loop, status, due>>
      /\ UNCHANGED <<op, audience, new_total, rolled, asked>>
      /\ pc[q] = "sending" /\ pc'[q] \in {"delivered", "refused"}
  BY DEF Answer, Metered, TypeOK
<1>2. Broadcasts(q) /\ Broadcasts(q)'
  BY <1>1 DEF Broadcasts
<1>3. \A r \in Requests \ {q} :
        ~Broadcasts(r) /\ pc[r] # "logged" /\ ~ToBeCounted(r) /\ ~Broadcasts(r)' /\ pc'[r] # "logged"
  BY <1>2, OnlyBroadcast DEF OthersKept, Broadcasts
<1>4. RowHeld' /\ LoopHeld' /\ PlanKept'
  <2>1. RowHeld'
    BY <1>0, <1>1, <1>2, <1>3 DEF RowHeld
  <2>2. LoopHeld'
    BY <1>0, <1>1 DEF LoopHeld, OthersKept
  <2>3. PlanKept'
    BY <1>0, <1>1 DEF PlanKept
  <2> QED
    BY <2>1, <2>2, <2>3
<1>5. CountBase' = CountBase /\ CountBase \in Nat
  BY <1>1, CountsAreNat DEF CountBase
<1>6. \A r \in Requests : TotalKnown(r)'
  BY <1>0, <1>1, <1>2, <1>3, <1>5 DEF TotalKnown
<1>7. broadcasted <= CountBase
  <2>1. ~ToBeCounted(q)
    BY <1>1 DEF ToBeCounted
  <2> QED
    BY <1>0, <1>3, <2>1 DEF SentCounted
<1>8. SentCounted'
  <2>1. CASE broadcasted' = broadcasted
    BY <1>5, <1>7, <2>1 DEF SentCounted
  <2>2. CASE broadcasted' # broadcasted
    <3>1. /\ pc'[q] = "delivered" /\ asked[q] = month
          /\ broadcasted' = Least(broadcasted + Cardinality(audience[q]), MaxSent)
      BY <2>2 DEF Answer, TypeOK, Metered
    <3>2. Cardinality(audience[q]) \in Nat /\ broadcasted \in Nat /\ new_total[q] \in Nat
      BY CountsAreNat DEF TypeOK
    <3>3. broadcasted + Cardinality(audience[q]) \in Nat
      BY <3>2
    <3>4. broadcasted' <= broadcasted + Cardinality(audience[q]) /\ broadcasted' \in Nat
      BY <3>1, <3>3, LeastIsNat, QuotaAssumption
    <3>5. CountBase + Cardinality(audience[q]) <= new_total[q]
      BY <1>0, <1>1, <1>2, <3>1 DEF TotalKnown
    <3>6. broadcasted' <= new_total'[q]
      BY <1>1, <1>5, <1>7, <3>2, <3>4, <3>5
    <3>7. ToBeCounted(q)'
      BY <1>1, <3>1 DEF ToBeCounted
    <3> QED
      BY <3>6, <3>7 DEF SentCounted
  <2> QED
    BY <2>1, <2>2
<1> QED
  BY <1>4, <1>6, <1>8 DEF QuotaInv

\* The log gives the row back; with it goes a reset of a month that is over, or
\* in which nothing was counted yet.
LEMMA QuotaLog ==
  ASSUME TypeOK, Metered, QuotaInv, NEW q \in Requests, OthersKept(q), BroadcastLog(q)
  PROVE  QuotaInv'
<1> USE DEF memberVars, planVars, requestVars, historyVars, dayVars
<1>0. RowHeld /\ LoopHeld /\ PlanKept /\ SentCounted /\ \A r \in Requests : TotalKnown(r)
  BY DEF QuotaInv
<1>1. Broadcasts(q) /\ lock = q /\ Host(q) = Server /\ loop[Server] = NoRequest
  BY <1>0 DEF BroadcastLog, Broadcasts, RowHeld, Host, Metered, Awake
<1>2. /\ UNCHANGED <<month, status, due, broadcasted>> /\ lock' = NoRequest
      /\ pc[q] \in {"delivered", "refused"} /\ op[q] = "broadcast"
      /\ used' = (IF rolled[q] THEN 0 ELSE used)
      /\ marker' = (IF rolled[q] THEN asked[q] ELSE marker)
      /\ pc[q] = "refused" => pc'[q] = "idle"
      /\ pc[q] = "delivered" =>
           pc'[q] = "logged" /\ new_total' = new_total /\ asked' = asked /\ loop'[Server] = q
  BY <1>1 DEF BroadcastLog, End, Holds, TypeOK, Processes
<1>3. \A r \in Requests \ {q} :
        /\ ~Broadcasts(r) /\ pc[r] \notin {"waiting", "logged"} /\ ~ToBeCounted(r)
        /\ ~Broadcasts(r)' /\ pc'[r] \notin {"waiting", "logged"}
  BY <1>0, <1>1, OnlyBroadcast, NamesAssumption DEF OthersKept, Broadcasts, LoopHeld
<1>4. TotalKnown(q) /\ rolled[q] = (marker # asked[q]) /\ marker <= asked[q]
  BY <1>0, <1>1, <1>2 DEF TotalKnown
<1>5. /\ asked[q] \in Nat /\ asked[q] <= month /\ month \in Nat
      /\ marker \in Nat /\ marker <= month /\ used \in Nat /\ new_total[q] \in Nat
      /\ rolled[q] \in BOOLEAN
  BY DEF TypeOK
<1>6. CountBase' = CountBase /\ marker' = asked[q]
  <2>1. CASE rolled[q]
    <3>1. used' = 0 /\ marker' = asked[q] /\ marker # asked[q] /\ month' = month
      BY <1>2, <1>4, <2>1
    <3>2. marker # month
      BY <1>4, <1>5, <3>1
    <3> QED
      BY <3>1, <3>2 DEF CountBase
  <2>2. CASE ~rolled[q]
    <3>1. used' = used /\ marker' = marker /\ marker = asked[q] /\ month' = month
      BY <1>2, <1>4, <2>2
    <3> QED
      BY <3>1 DEF CountBase
  <2> QED
    BY <2>1, <2>2
<1>7. RowHeld' /\ LoopHeld'
  BY <1>2, <1>3, NamesAssumption DEF RowHeld, LoopHeld, Broadcasts
<1>8. PlanKept'
  BY <1>0, <1>2, QuotaAssumption DEF PlanKept
<1>9. ASSUME NEW r \in Requests PROVE TotalKnown(r)'
  <2>1. CASE r # q \/ pc[q] = "refused"
    BY <1>2, <1>3, <2>1 DEF TotalKnown, Broadcasts
  <2>2. CASE r = q /\ pc[q] = "delivered"
    <3>1. /\ new_total[q] <= PaidQuota /\ (asked[q] = month => CountBase <= new_total[q])
      BY <1>1, <1>4, <2>2 DEF TotalKnown
    <3> QED
      BY <1>2, <1>5, <1>6, <2>2, <3>1 DEF TotalKnown
  <2> QED
    BY <1>2, <2>1, <2>2
<1>10. SentCounted'
  <2>1. CASE broadcasted <= CountBase
    BY <1>2, <1>6, <2>1 DEF SentCounted
  <2>2. CASE ToBeCounted(q) /\ broadcasted <= new_total[q]
    <3>1. pc[q] = "delivered" /\ asked[q] = month
      BY <2>2, <1>2 DEF ToBeCounted
    <3>2. ToBeCounted(q)'
      BY <1>2, <3>1 DEF ToBeCounted
    <3> QED
      BY <1>2, <2>2, <3>1, <3>2 DEF SentCounted
  <2> QED
    BY <1>0, <1>3, <2>1, <2>2 DEF SentCounted
<1> QED
  BY <1>7, <1>8, <1>9, <1>10 DEF QuotaInv

\* The count is written by the only one who could, for the month it was asked in.
LEMMA QuotaCount ==
  ASSUME TypeOK, Metered, QuotaInv, NEW q \in Requests, OthersKept(q), BroadcastCount(q)
  PROVE  QuotaInv'
<1> USE DEF memberVars, planVars, requestVars, historyVars, dayVars
<1>0. RowHeld /\ LoopHeld /\ PlanKept /\ SentCounted /\ \A r \in Requests : TotalKnown(r)
  BY DEF QuotaInv
<1>1. /\ UNCHANGED <<month, status, due, broadcasted, marker>>
      /\ lock = NoRequest /\ lock' = NoRequest
      /\ pc[q] = "logged" /\ pc'[q] = "idle" /\ used' = new_total[q]
  BY NamesAssumption DEF BroadcastCount, End, Holds, TypeOK
<1>2. \A r \in Requests \ {q} :
        /\ ~Broadcasts(r) /\ pc[r] \notin {"waiting", "logged"} /\ ~ToBeCounted(r)
        /\ ~Broadcasts(r)' /\ pc'[r] \notin {"waiting", "logged"}
  BY <1>0, <1>1, NamesAssumption
     DEF OthersKept, Broadcasts, LoopHeld, RowHeld, ToBeCounted
<1>3. /\ new_total[q] <= PaidQuota /\ marker = asked[q]
      /\ asked[q] = month => CountBase <= new_total[q]
  BY <1>0, <1>1 DEF TotalKnown
<1>4. RowHeld' /\ LoopHeld' /\ \A r \in Requests : TotalKnown(r)'
  BY <1>1, <1>2, NamesAssumption DEF RowHeld, LoopHeld, TotalKnown, Broadcasts
<1>5. PlanKept'
  BY <1>0, <1>1, <1>3 DEF PlanKept
<1>6. SentCounted'
  <2>0. CountBase \in Nat /\ new_total[q] \in Nat /\ broadcasted \in Nat
    BY CountsAreNat DEF TypeOK
  <2>1. CountBase' = IF marker # month THEN 0 ELSE new_total[q]
    BY <1>1 DEF CountBase
  <2>2. broadcasted <= CountBase \/ (asked[q] = month /\ broadcasted <= new_total[q])
    BY <1>0, <1>2 DEF SentCounted, ToBeCounted
  <2>3. marker # month => CountBase = 0
    BY DEF CountBase
  <2>4. broadcasted <= CountBase'
    BY <1>3, <2>0, <2>1, <2>2, <2>3
  <2> QED
    BY <1>1, <2>4 DEF SentCounted
<1> QED
  BY <1>4, <1>5, <1>6 DEF QuotaInv

LEMMA QuotaTimeout ==
  ASSUME TypeOK, Metered, QuotaInv, NEW q \in Requests, OthersKept(q), LockTimeout(q)
  PROVE  QuotaInv'
<1> USE DEF memberVars, planVars, requestVars, historyVars, dayVars
<1>0. RowHeld /\ LoopHeld /\ PlanKept /\ SentCounted /\ \A r \in Requests : TotalKnown(r)
  BY DEF QuotaInv
<1>1. /\ UNCHANGED <<month, status, due, broadcasted, used, marker>>
      /\ pc[q] = "waiting" /\ pc'[q] = "idle" /\ loop[Server] = q
      /\ lock # q /\ lock # NoRequest
  BY <1>0 DEF LockTimeout, LoopHeld, RowHeld, Broadcasts, End, TypeOK
<1>2. lock' = lock
  BY <1>1 DEF LockTimeout, End, Holds
<1>3. \A r \in Requests \ {q} : pc[r] \notin {"waiting", "logged"}
  BY <1>0, <1>1 DEF LoopHeld
<1>4. \A r \in Requests \ {q} : (Broadcasts(r) <=> Broadcasts(r)') /\ (ToBeCounted(r) => ToBeCounted(r)')
  BY <1>1 DEF OthersKept, Broadcasts, ToBeCounted
<1>5. RowHeld' /\ LoopHeld'
  BY <1>0, <1>1, <1>2, <1>3, <1>4 DEF RowHeld, LoopHeld, OthersKept, Broadcasts
<1>6. PlanKept'
  BY <1>0, <1>1 DEF PlanKept
<1>7. CountBase' = CountBase
  BY <1>1 DEF CountBase
<1>8. SentCounted'
  BY <1>0, <1>1, <1>4, <1>7 DEF SentCounted, ToBeCounted, OthersKept
<1>9. ASSUME NEW r \in Requests PROVE TotalKnown(r)'
  <2>1. CASE r = q
    BY <1>1, <2>1 DEF TotalKnown, Broadcasts
  <2>2. CASE r # q
    BY <1>0, <1>1, <1>4, <1>7, <2>2 DEF TotalKnown, OthersKept
  <2> QED
    BY <2>1, <2>2
<1> QED
  BY <1>5, <1>6, <1>8, <1>9 DEF QuotaInv

LEMMA QuotaWorld ==
  ASSUME TypeOK, Metered, QuotaInv, WorldStep \/ UNCHANGED vars
  PROVE  QuotaInv'
<1> USE DEF memberVars, planVars, requestVars, historyVars, dayVars
<1>0. RowHeld /\ LoopHeld /\ PlanKept /\ SentCounted /\ \A r \in Requests : TotalKnown(r)
  BY DEF QuotaInv
<1>1. /\ UNCHANGED <<lock, loop, pc, op, todo, audience, new_total, rolled, asked>>
      /\ UNCHANGED <<used, marker, status, due>>
  BY DEF WorldStep, MemberChanges, DateFallsDue, MonthEnds, DayEnds, vars, Metered
<1>2. RowHeld' /\ LoopHeld' /\ PlanKept'
  BY <1>0, <1>1 DEF RowHeld, LoopHeld, PlanKept, Broadcasts
<1>3. CASE MonthEnds
  <2>1. broadcasted' = 0 /\ month' = month + 1
    BY <1>3 DEF MonthEnds
  <2>2. \A r \in Requests : asked[r] \in Nat /\ asked[r] <= month
    BY DEF TypeOK
  <2>3. CountBase' = 0 /\ \A r \in Requests : asked'[r] # month'
    BY <1>1, <2>1, <2>2 DEF CountBase, TypeOK
  <2>4. \A r \in Requests : TotalKnown(r)'
    BY <1>0, <1>1, <2>3 DEF TotalKnown, Broadcasts
  <2> QED
    BY <1>2, <2>1, <2>3, <2>4 DEF QuotaInv, SentCounted
<1>4. CASE ~MonthEnds
  <2>1. UNCHANGED <<month, broadcasted>>
    BY <1>4 DEF WorldStep, MemberChanges, DateFallsDue, DayEnds, vars
  <2>2. CountBase' = CountBase
    BY <1>1, <2>1 DEF CountBase
  <2>3. SentCounted' /\ \A r \in Requests : TotalKnown(r)'
    BY <1>0, <1>1, <2>1, <2>2 DEF SentCounted, ToBeCounted, TotalKnown, Broadcasts
  <2> QED
    BY <1>2, <2>3 DEF QuotaInv
<1> QED
  BY <1>3, <1>4

LEMMA QuotaStep == TypeOK /\ Readable /\ QuotaInv /\ [Next]_vars => QuotaInv'
<1> SUFFICES ASSUME TypeOK, Readable, QuotaInv, [Next]_vars, Metered'
             PROVE  QuotaInv'
  BY DEF QuotaInv
<1>1. Metered
  BY EnvKept DEF Metered
<1>2. CASE WorldStep \/ UNCHANGED vars
  BY <1>1, <1>2, QuotaWorld
<1>3. ~Crash
  BY <1>1 DEF Crash, Metered
<1>4. ASSUME NEW q \in Requests, RequestStep(q) PROVE QuotaInv'
  <2>1. OthersKept(q) /\ TypeOK'
    BY <1>4, OneMoves, TypeStep, Steps
  <2>2. RowHeld /\ LoopHeld /\ PlanKept
    BY <1>1 DEF QuotaInv
  <2>3. BroadcastRefused(q) => pc[q] = "idle"
    BY <2>2 DEF BroadcastRefused, Asked, Free, LoopHeld
  <2>31. ~AnswerRaises(q)
    BY <1>1, NothingRaises DEF Metered
  <2>4. CASE BroadcastWait(q) \/ BroadcastToNobody(q) \/ BroadcastSend(q) \/ BroadcastLog(q)
             \/ BroadcastCount(q) \/ LockTimeout(q) \/ (Answer(q) /\ op[q] = "broadcast")
    BY <1>1, <2>1, <2>4, QuotaWait, QuotaToNobody, QuotaSend, QuotaLog, QuotaCount,
       QuotaTimeout, QuotaAnswer
  <2>5. CASE ~(BroadcastWait(q) \/ BroadcastToNobody(q) \/ BroadcastSend(q) \/ BroadcastLog(q)
               \/ BroadcastCount(q) \/ LockTimeout(q) \/ (Answer(q) /\ op[q] = "broadcast"))
    <3>1. \/ DuesReminder(q) \/ Announce(q) \/ RemindStart(q)
          \/ \E m \in Members : SendToMember(q, m) \/ MenuAnnouncement(q, m)
          \/ SendLog(q) \/ RemindLog(q) \/ MenuAnswered(q) \/ AnnounceTo(q) \/ RemindTo(q) \/ ListDone(q)
          \/ BroadcastRefused(q) /\ pc[q] = "idle"
          \/ Answer(q) /\ op[q] # "broadcast"
      BY <1>4, <2>3, <2>31, <2>5 DEF RequestStep, Start, Broadcast, Resume
    <3>2. Aside(q)
      BY <1>1, <2>2, <3>1, Apart
    <3> QED
      BY <1>1, <2>1, <3>2, QuotaAside
  <2> QED
    BY <2>4, <2>5
<1> QED
  BY <1>2, <1>3, <1>4, Steps

\* On one process, and while no subscription date falls due, no more messages
\* are broadcast in a month than the plan allows, for every quota, every number
\* of members who join, leave and change their consent, and every number of
\* broadcasts.
THEOREM QuotaRespected == Spec => []QuotaHeld
BY QuotaInit, QuotaStep, QuotaOfTheMonth, TypeCorrect, AllReadable, PTL DEF Spec

=============================================================================
