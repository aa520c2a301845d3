------------------------- MODULE Subscription_proofs -------------------------
(***************************************************************************)
(* Proofs about Subscription, for any requests, links, plans and periods.  *)
(* No request can lengthen a period, however stale the row it decides on.  *)
(* The meaning of the row's columns is kept until a decision on an         *)
(* outdated copy is written (stale): a write whose copy is the row         *)
(* replaces the row by what the rules make of it.                          *)
(***************************************************************************)
EXTENDS Subscription, TLAPS

LEMMA ReconciledType ==
  ASSUME TypeOK, NEW r \in Rows
  PROVE  Reconciled(r) \in Rows
BY DEF TypeOK, Rows, Reconciled, FreeRow, Plans, Statuses, Times, NoExpiry

LEMMA CancelledType ==
  ASSUME NEW r \in Rows, NEW immediately \in BOOLEAN
  PROVE  Cancelled(r, immediately) \in Rows
BY DEF Rows, Cancelled, FreeRow, Plans, Statuses, Times, NoExpiry

LEMMA RenewedType ==
  ASSUME TypeOK, NEW r \in Rows, NEW p \in PaidPlans
  PROVE  Renewed(r, p) \in Rows
BY DaysAssumption DEF TypeOK, Rows, Renewed, Plans, Statuses, Times, NoExpiry

\* A write of typed columns leaves typed columns.
LEMMA WriteType ==
  ASSUME TypeOK, NEW q \in Requests, NEW new \in Rows, Write(q, new)
  PROVE  /\ plan' \in Plans /\ status' \in Statuses /\ expires' \in Times
         /\ stale' \in BOOLEAN
BY DEF TypeOK, Rows, Write

LEMMA DecisionType ==
  ASSUME NEW op \in {"idle"} \cup Operations \cup Decisions \cup Reloads
  PROVE  /\ DecisionOf(op) \in {"idle"} \cup Decisions
         /\ ReloadOf(op) \in {"idle"} \cup Reloads
BY DEF DecisionOf, ReloadOf, Decisions, Reloads, Operations

-----------------------------------------------------------------------------
(* Type correctness *)

LEMMA InitType == Init => TypeOK
<1> SUFFICES ASSUME Init PROVE TypeOK
  OBVIOUS
<1>1. stale \in BOOLEAN
  BY DEF Init
<1>2. plan \in Plans /\ status \in Statuses /\ expires \in Times
  BY DaysAssumption, PlansAssumption
     DEF Init, FreeRow, Plans, Statuses, Times, NoExpiry
<1>3. FreeRow \in Rows
  BY DEF FreeRow, Rows, Plans, Statuses, Times
<1>4. now \in Nat /\ link \in [Links -> LinkStatus] /\ sold \in [Links -> PaidPlans]
  BY DEF Init, LinkStatus
<1>5. copy \in [Requests -> Rows]
  BY <1>3 DEF Init
<1>6. pc \in [Requests -> {"idle"} \cup Operations \cup Decisions \cup Reloads]
  BY DEF Init
<1> QED
  BY <1>1, <1>2, <1>4, <1>5, <1>6 DEF TypeOK

LEMMA TypeStep == TypeOK /\ [Next]_vars => TypeOK'
<1> SUFFICES ASSUME TypeOK, [Next]_vars PROVE TypeOK'
  OBVIOUS
<1>0. Row \in Rows
  BY DEF TypeOK, Row, Rows
<1>1. CASE Tick
  BY <1>1 DEF Tick, TypeOK, row
<1>2. ASSUME NEW i \in Links, Activate(i) PROVE TypeOK'
  <2>1. Renewed(Row, sold[i]) \in Rows
    BY <1>0, RenewedType DEF TypeOK
  <2>2. plan' \in Plans /\ status' \in Statuses /\ expires' \in Times
    BY <1>2, <2>1 DEF Activate, Rows
  <2> QED
    BY <1>2, <2>2 DEF Activate, TypeOK, LinkStatus
<1>3. ASSUME NEW i \in Links, CreateCheckout(i) PROVE TypeOK'
  BY <1>3 DEF CreateCheckout, TypeOK, LinkStatus, row
<1>4. ASSUME NEW q \in Requests, Load(q) PROVE TypeOK'
  BY <1>0, <1>4 DEF Load, TypeOK, Goto, row, Operations, Decisions
<1>5. ASSUME NEW q \in Requests, Reconcile(q) PROVE TypeOK'
  <2>1. Reconciled(copy[q]) \in Rows
    BY ReconciledType DEF TypeOK
  <2>2. /\ plan' \in Plans /\ status' \in Statuses /\ expires' \in Times
        /\ stale' \in BOOLEAN
    BY <1>5, <2>1, WriteType DEF Reconcile
  <2>3. pc' \in [Requests -> {"idle"} \cup Operations \cup Decisions \cup Reloads]
    BY <1>5, DecisionType DEF Reconcile, Goto, TypeOK
  <2> QED
    BY <1>5, <2>2, <2>3 DEF Reconcile, TypeOK
<1>6. ASSUME NEW q \in Requests, Reload(q) PROVE TypeOK'
  BY <1>0, <1>6, DecisionType DEF Reload, TypeOK, Goto, row
<1>7. ASSUME NEW q \in Requests, Cancel(q) PROVE TypeOK'
  <2>1. Cancelled(copy[q], pc[q] = "do_cancel_now") \in Rows
    BY CancelledType DEF TypeOK
  <2>2. /\ plan' \in Plans /\ status' \in Statuses /\ expires' \in Times
        /\ stale' \in BOOLEAN
    BY <1>7, <2>1, WriteType DEF Cancel, TypeOK, row, Keep
  <2> QED
    BY <1>7, <2>2 DEF Cancel, TypeOK, Goto
<1>8. ASSUME NEW q \in Requests, Resume(q) PROVE TypeOK'
  <2>1. [copy[q] EXCEPT !.status = "active"] \in Rows
    BY DEF TypeOK, Rows, Statuses
  <2>2. /\ plan' \in Plans /\ status' \in Statuses /\ expires' \in Times
        /\ stale' \in BOOLEAN
    BY <1>8, <2>1, WriteType DEF Resume, TypeOK, row, Keep
  <2> QED
    BY <1>8, <2>2 DEF Resume, TypeOK, Goto
<1>9. ASSUME NEW q \in Requests, Downgrade(q) PROVE TypeOK'
  <2>1. FreeRow \in Rows
    BY DEF FreeRow, Rows, Plans, Statuses, Times
  <2>2. /\ plan' \in Plans /\ status' \in Statuses /\ expires' \in Times
        /\ stale' \in BOOLEAN
    BY <1>9, <2>1, WriteType DEF Downgrade, TypeOK, row, Keep
  <2> QED
    BY <1>9, <2>2 DEF Downgrade, TypeOK, Goto
<1>10. ASSUME NEW q \in Requests, Renew(q) PROVE TypeOK'
  <2>1. link' \in [Links -> LinkStatus] /\ pc' \in [Requests -> {"idle"} \cup Operations \cup Decisions \cup Reloads]
    BY <1>10 DEF Renew, TypeOK, Goto, LinkStatus
  <2>2. sold' \in [Links -> PaidPlans]
    BY <1>10 DEF Renew, TypeOK, Rows, Plans
  <2> QED
    BY <1>10, <2>1, <2>2 DEF Renew, TypeOK, row
<1>11. ASSUME NEW q \in Requests, Abandon(q) PROVE TypeOK'
  BY <1>11 DEF Abandon, TypeOK, Goto, row
<1>12. CASE UNCHANGED vars
  BY <1>12 DEF vars, TypeOK
<1> QED
  BY <1>1, <1>2, <1>3, <1>4, <1>5, <1>6, <1>7, <1>8, <1>9, <1>10, <1>11, <1>12
     DEF Next, ActivateFromIntent, LegacyUpgrade

\* Every reachable state has its type, in particular every status written is
\* one of VALID_STATUSES.
THEOREM TypeCorrect == Spec => []TypeOK
BY InitType, TypeStep, PTL DEF Spec

-----------------------------------------------------------------------------
(* Who can lengthen a period *)

\* What a write of a decision does to the period when the decision leaves it
\* alone or drops it.
LEMMA WriteExpires ==
  ASSUME TypeOK, NEW q \in Requests, NEW new \in Rows, Write(q, new),
         new.expires \in {copy[q].expires, NoExpiry}
  PROVE  expires' <= expires
BY DEF TypeOK, Write, Times, NoExpiry, Rows

LEMMA ExtensionStep ==
  ASSUME TypeOK, [Next]_vars, expires' > expires
  PROVE  /\ \E i \in Links : link[i] = "pending" /\ link'[i] = "consumed"
         /\ expires' <= (IF expires > now THEN expires ELSE now) + PeriodDays
<1>1. CASE \E i \in Links : Activate(i)
  <2>1. PICK i \in Links : Activate(i)
    BY <1>1
  <2>2. link[i] = "pending" /\ link'[i] = "consumed"
    BY <2>1 DEF Activate, TypeOK
  <2>3. expires' <= (IF expires > now THEN expires ELSE now) + PeriodDays
    BY <2>1, DaysAssumption DEF Activate, Renewed, Row, TypeOK, Times, NoExpiry
  <2> QED
    BY <2>2, <2>3
<1>2. ASSUME NEW q \in Requests, Reconcile(q) PROVE FALSE
  <2>1. /\ Reconciled(copy[q]) \in Rows
        /\ Reconciled(copy[q]).expires \in {copy[q].expires, NoExpiry}
    BY ReconciledType DEF TypeOK, Reconciled, FreeRow, Rows
  <2>2. expires' <= expires
    BY <1>2, <2>1, WriteExpires DEF Reconcile
  <2> QED
    BY <2>2, TypeStep DEF TypeOK, Times, NoExpiry
<1>3. ASSUME NEW q \in Requests, Cancel(q) PROVE FALSE
  <2> DEFINE new == Cancelled(copy[q], pc[q] = "do_cancel_now")
  <2>1. new \in Rows /\ new.expires \in {copy[q].expires, NoExpiry}
    BY CancelledType DEF TypeOK, Cancelled, FreeRow, Rows
  <2>2. Write(q, new) \/ UNCHANGED row
    BY <1>3 DEF Cancel, Keep
  <2>3. expires' <= expires
    BY <2>1, <2>2, WriteExpires DEF row, TypeOK, Times, NoExpiry
  <2> QED
    BY <2>3, TypeStep DEF TypeOK, Times, NoExpiry
<1>4. ASSUME NEW q \in Requests, Resume(q) PROVE FALSE
  <2> DEFINE new == [copy[q] EXCEPT !.status = "active"]
  <2>1. new \in Rows /\ new.expires \in {copy[q].expires, NoExpiry}
    BY DEF TypeOK, Rows, Statuses
  <2>2. Write(q, new) \/ UNCHANGED row
    BY <1>4 DEF Resume, Keep
  <2> HIDE DEF new
  <2>3. expires' <= expires
    BY <2>1, <2>2, WriteExpires DEF row, TypeOK, Times, NoExpiry
  <2> QED
    BY <2>3, TypeStep DEF TypeOK, Times, NoExpiry
<1>5. ASSUME NEW q \in Requests, Downgrade(q) PROVE FALSE
  <2>1. FreeRow \in Rows /\ FreeRow.expires = NoExpiry
    BY DEF FreeRow, Rows, Plans, Statuses, Times
  <2>2. Write(q, FreeRow) \/ UNCHANGED row
    BY <1>5 DEF Downgrade, Keep
  <2>3. expires' <= expires
    BY <2>1, <2>2, WriteExpires DEF row, TypeOK, Times, NoExpiry
  <2> QED
    BY <2>3, TypeStep DEF TypeOK, Times, NoExpiry
<1>6. CASE UNCHANGED expires
  BY <1>6 DEF TypeOK, Times, NoExpiry
<1> QED
  BY <1>1, <1>2, <1>3, <1>4, <1>5, <1>6
     DEF Next, vars, row, Tick, ActivateFromIntent, LegacyUpgrade, CreateCheckout,
         Load, Reload, Renew, Abandon

\* However requests and webhooks overlap, the period gets longer only by the
\* first delivery of a link's payment, and by one period at most.
THEOREM ExtensionPaid == Spec => ExtensionIsPaid
<1>1. TypeOK /\ [Next]_vars =>
        [expires' > expires =>
           /\ \E i \in Links : link[i] = "pending" /\ link'[i] = "consumed"
           /\ expires' <= (IF expires > now THEN expires ELSE now) + PeriodDays]_vars
  BY ExtensionStep
<1> QED
  BY <1>1, TypeCorrect, PTL DEF Spec, ExtensionIsPaid

-----------------------------------------------------------------------------
(* What the columns mean, while no outdated decision has been written *)

\* The columns agree with each other and with the clock: the conjuncts the
\* invariants need, on a row.
GoodRow(r) ==
  /\ r.status = "expired" => r.expires <= now
  /\ r.plan # FreePlan => r.expires # NoExpiry
  /\ r.status = "trial" => r.plan = FreePlan

RowInv == TypeOK /\ (~stale => GoodRow(Row))

LEMMA ReconciledGood ==
  ASSUME TypeOK, NEW r \in Rows, GoodRow(r)
  PROVE  GoodRow(Reconciled(r))
BY DaysAssumption DEF TypeOK, Rows, Times, NoExpiry, GoodRow, Reconciled, FreeRow, FreePlan

LEMMA CancelledGood ==
  ASSUME TypeOK, NEW r \in Rows, GoodRow(r), NEW immediately \in BOOLEAN
  PROVE  GoodRow(Cancelled(r, immediately))
BY DEF TypeOK, Rows, Times, NoExpiry, GoodRow, Cancelled, FreeRow, FreePlan

LEMMA RenewedGood ==
  ASSUME TypeOK, NEW r \in Rows, NEW p \in PaidPlans
  PROVE  GoodRow(Renewed(r, p))
BY DaysAssumption DEF TypeOK, Rows, Times, NoExpiry, GoodRow, Renewed

\* A write by a request whose copy is the row replaces the row.
LEMMA FreshWrite ==
  ASSUME NEW q \in Requests, NEW new \in Rows, copy[q] = Row, Write(q, new)
  PROVE  Row' = new
BY DEF Write, Row, Rows

LEMMA RowInit == Init => RowInv
<1> SUFFICES ASSUME Init PROVE RowInv
  OBVIOUS
<1>1. GoodRow(Row)
  BY DaysAssumption, PlansAssumption DEF Init, GoodRow, Row, FreeRow, FreePlan, NoExpiry
<1> QED
  BY <1>1, InitType DEF RowInv

LEMMA RowStep ==
  ASSUME RowInv, [Next]_vars
  PROVE  RowInv'
<1> SUFFICES ASSUME ~stale' PROVE GoodRow(Row)'
  BY TypeStep DEF RowInv
<1>0. TypeOK /\ Row \in Rows
  BY DEF RowInv, TypeOK, Row, Rows
<1>1. ASSUME UNCHANGED row, now' >= now, ~stale PROVE GoodRow(Row)'
  <2>1. Row' = Row /\ GoodRow(Row)
    BY <1>1 DEF RowInv, Row, row
  <2> QED
    BY <1>0, <1>1, <2>1, TypeStep DEF GoodRow, Rows, Times, NoExpiry, TypeOK
<1>2. ASSUME NEW i \in Links, Activate(i) PROVE GoodRow(Row)'
  <2>1. Row' = Renewed(Row, sold[i])
    BY <1>0, <1>2 DEF Activate, Row, Renewed
  <2>2. GoodRow(Row')
    BY <1>0, <2>1, RenewedGood DEF TypeOK
  <2> QED
    BY <1>2, <2>2 DEF Activate, GoodRow
<1>3. ASSUME NEW q \in Requests, NEW new \in Rows, Write(q, new), UNCHANGED now,
             GoodRow(copy[q]) => GoodRow(new)
      PROVE  GoodRow(Row)'
  <2>1. copy[q] = Row /\ ~stale
    BY <1>3 DEF Write
  <2>2. Row' = new /\ GoodRow(new)
    BY <1>3, <2>1, FreshWrite DEF RowInv
  <2> QED
    BY <1>3, <2>2 DEF GoodRow
<1>4. ASSUME NEW q \in Requests, Reconcile(q) PROVE GoodRow(Row)'
  <2> DEFINE new == Reconciled(copy[q])
  <2>1. copy[q] \in Rows /\ new \in Rows /\ Write(q, new) /\ UNCHANGED now
    BY <1>0, <1>4, ReconciledType DEF Reconcile, TypeOK
  <2>2. GoodRow(copy[q]) => GoodRow(new)
    BY <1>0, <2>1, ReconciledGood
  <2> HIDE DEF new
  <2> QED
    BY <1>3, <2>1, <2>2
<1>5. ASSUME NEW q \in Requests, Cancel(q) PROVE GoodRow(Row)'
  <2> DEFINE new == Cancelled(copy[q], pc[q] = "do_cancel_now")
  <2>1. copy[q] \in Rows /\ new \in Rows
    BY <1>0, CancelledType DEF TypeOK
  <2>2. GoodRow(copy[q]) => GoodRow(new)
    BY <1>0, <2>1, CancelledGood
  <2>3. Write(q, new) \/ Keep
    BY <1>5 DEF Cancel
  <2> HIDE DEF new
  <2> QED
    BY <1>0, <1>1, <1>3, <1>5, <2>1, <2>2, <2>3 DEF Cancel, Keep, TypeOK
<1>6. ASSUME NEW q \in Requests, Resume(q) PROVE GoodRow(Row)'
  <2> DEFINE new == [copy[q] EXCEPT !.status = "active"]
  <2>1. new \in Rows /\ (GoodRow(copy[q]) => GoodRow(new))
    BY <1>0 DEF GoodRow, TypeOK, Rows, Statuses
  <2>2. Write(q, new) \/ Keep
    BY <1>6 DEF Resume
  <2> HIDE DEF new
  <2> QED
    BY <1>0, <1>1, <1>3, <1>6, <2>1, <2>2 DEF Resume, Keep, TypeOK
<1>7. ASSUME NEW q \in Requests, Downgrade(q) PROVE GoodRow(Row)'
  <2>1. FreeRow \in Rows /\ GoodRow(FreeRow)
    BY DEF FreeRow, GoodRow, Rows, Plans, Statuses, Times
  <2> QED
    BY <1>0, <1>1, <1>3, <1>7, <2>1 DEF Downgrade, Keep, TypeOK
<1>8. CASE UNCHANGED <<row, stale>> /\ now' >= now
  BY <1>1, <1>8
<1> QED
  BY <1>0, <1>2, <1>4, <1>5, <1>6, <1>7, <1>8
     DEF Next, ActivateFromIntent, LegacyUpgrade, CreateCheckout, Load, Reload, Renew,
         Abandon, Tick, vars, row, TypeOK

\* Every row but one written from an outdated copy is consistent.
THEOREM RowInvariant == Spec => []RowInv
BY RowInit, RowStep, PTL DEF Spec

LEMMA RowFacts ==
  RowInv => RowConsistent /\ PaidAccess /\ NoFreeAccess
<1> SUFFICES ASSUME RowInv, ~stale
             PROVE  RowConsistent /\ PaidAccess /\ NoFreeAccess
  BY DEF RowConsistent, PaidAccess, NoFreeAccess
<1>1. TypeOK /\ GoodRow(Row)
  BY DEF RowInv
<1>2. RowConsistent
  BY <1>1 DEF GoodRow, Row, RowConsistent, ExpiredIsLapsed, PaidPlanHasPeriod
<1>3. PaidAccess
  BY <1>1, DaysAssumption
     DEF GoodRow, Row, PaidAccess, EffectivePlan, TypeOK, Statuses, Times, NoExpiry
<1>4. NoFreeAccess
  BY <1>1, DaysAssumption
     DEF GoodRow, Row, NoFreeAccess, EffectivePlan, TypeOK, Statuses, Times, NoExpiry
<1> QED
  BY <1>2, <1>3, <1>4

\* Until an outdated decision is written: nobody is expired before the period
\* is over, a paid plan always has a period, a running period gives its plan,
\* and access to a paid plan ends with the trial or the grace period.
THEOREM AccessSafety == Spec => [](RowConsistent /\ PaidAccess /\ NoFreeAccess)
BY RowInvariant, RowFacts, PTL

\* Nobody who has not paid has access to a paid plan, until an outdated decision
\* is written over the row.
THEOREM NoFreeAccessEver == Spec => []NoFreeAccess
BY RowInvariant, RowFacts, PTL

\* renew adds a period to a running period of the same plan.
LEMMA RenewedExtends ==
  ASSUME TypeOK, NEW r \in Rows, r.expires # NoExpiry, r.expires > now,
         r.status \in {"active", "cancelled", "past_due"}
  PROVE  Renewed(r, r.plan).expires = r.expires + PeriodDays
BY DaysAssumption DEF TypeOK, Rows, Renewed, Times, NoExpiry

LEMMA EarlyRenewalStep ==
  ASSUME RowInv, [Next]_vars, ~stale, plan # FreePlan, expires > now, plan' = plan,
         \E i \in Links : link[i] = "pending" /\ link'[i] = "consumed"
  PROVE  expires' = expires + PeriodDays
<1>1. PICK i \in Links : Activate(i)
  BY DEF Next, vars, Tick, ActivateFromIntent, LegacyUpgrade, CreateCheckout, Load,
         Reconcile, Reload, Cancel, Resume, Downgrade, Renew, Abandon, RowInv, TypeOK
<1>2. status \in {"active", "cancelled", "past_due"}
  BY DEF RowInv, GoodRow, Row, TypeOK, Statuses, Times, NoExpiry
<1>3. /\ Row \in Rows /\ Row.status = status
      /\ Row.expires = expires /\ expires # NoExpiry
  BY DEF Row, Rows, RowInv, GoodRow, TypeOK
<1>4. sold[i] = Row.plan /\ expires' = Renewed(Row, sold[i]).expires
  BY <1>1 DEF Activate, Renewed, Row
<1> QED
  BY <1>2, <1>3, <1>4, RenewedExtends DEF RowInv

\* A payment for the plan on record, made while its period runs, adds a whole
\* period to it, cancelled or not.
THEOREM EarlyRenewal == Spec => EarlyRenewalKeepsDays
<1>1. RowInv /\ [Next]_vars =>
        [~stale /\ plan # FreePlan /\ expires > now /\ plan' = plan
           /\ (\E i \in Links : link[i] = "pending" /\ link'[i] = "consumed")
         => expires' = expires + PeriodDays]_vars
  BY EarlyRenewalStep
<1> QED
  BY <1>1, RowInvariant, PTL DEF Spec, EarlyRenewalKeepsDays

=============================================================================
