---------------------------- MODULE Subscription ----------------------------
(***************************************************************************)
(* One cooperative's subscription: the lifecycle columns of its row, the   *)
(* payment links that renew it, and the requests that apply the passage of *)
(* time or the administrator's wishes to it.                               *)
(*                                                                         *)
(* The webhook locks the row.  Every other request loads it unlocked,      *)
(* decides on the loaded copy and, when it commits, writes only the        *)
(* columns its decision changed; time and webhooks may come in between.    *)
(* A commit expires the copy, so the row is loaded again.                  *)
(***************************************************************************)
EXTENDS Integers

CONSTANTS
  Requests,      \* concurrent requests about the cooperative
  Links,         \* payment links that may be issued
  LegacyLinks,   \* links issued before intents existed
  PaidPlans,     \* the plans one can buy
  TrialPlan,     \* the plan of a trial
  PeriodDays, GraceDays, TrialDays,
  MaxTime        \* bound on the clock

FreePlan == "starter"

ASSUME PlansAssumption == TrialPlan \in PaidPlans /\ FreePlan \notin PaidPlans
ASSUME LinksAssumption == LegacyLinks \subseteq Links
ASSUME DaysAssumption ==
  /\ PeriodDays \in Nat \ {0}
  /\ GraceDays \in Nat
  /\ TrialDays \in Nat \ {0}
  /\ MaxTime \in Nat

VARIABLES
  now,       \* the clock
  plan,      \* cooperatives.subscription_plan
  status,    \* cooperatives.subscription_status
  expires,   \* cooperatives.subscription_expires_at, NoExpiry for NULL
  link,      \* the state of each payment link
  sold,      \* the plan each link sells
  pc,        \* where each request is
  copy,      \* the columns each request has loaded
  stale      \* history: a decision on an outdated copy has been written

row == <<plan, status, expires>>
vars == <<now, plan, status, expires, link, sold, pc, copy, stale>>

NoExpiry == -1
Plans == PaidPlans \cup {FreePlan}
Statuses == {"trial", "active", "past_due", "expired", "cancelled"}
Times == Nat \cup {NoExpiry}
Rows == [plan : Plans, status : Statuses, expires : Times]
LinkStatus == {"none", "pending", "consumed"}
Operations == {"check", "cancel", "cancel_now", "resume", "renew"}
Decisions == {"do_cancel", "do_cancel_now", "do_resume", "do_renew", "do_downgrade"}
Reloads == {"reload_cancel", "reload_cancel_now", "reload_resume", "reload_renew"}

DecisionOf(op) ==
  CASE op \in {"cancel", "reload_cancel"} -> "do_cancel"
    [] op \in {"cancel_now", "reload_cancel_now"} -> "do_cancel_now"
    [] op \in {"resume", "reload_resume"} -> "do_resume"
    [] op \in {"renew", "reload_renew"} -> "do_renew"
    [] OTHER -> "idle"

ReloadOf(op) ==
  CASE op = "cancel" -> "reload_cancel"
    [] op = "cancel_now" -> "reload_cancel_now"
    [] op = "resume" -> "reload_resume"
    [] op = "renew" -> "reload_renew"
    [] OTHER -> "idle"

Row == [plan |-> plan, status |-> status, expires |-> expires]
FreeRow == [plan |-> FreePlan, status |-> "active", expires |-> NoExpiry]

TypeOK ==
  /\ now \in Nat
  /\ plan \in Plans
  /\ status \in Statuses
  /\ expires \in Times
  /\ link \in [Links -> LinkStatus]
  /\ sold \in [Links -> PaidPlans]
  /\ pc \in [Requests -> {"idle"} \cup Operations \cup Decisions \cup Reloads]
  /\ copy \in [Requests -> Rows]
  /\ stale \in BOOLEAN

\* Signup: a free one starts the trial, a paid one its first period; an
\* organization's cooperative starts on the free tier.
Init ==
  /\ now = 0
  /\ \E r \in {[plan |-> FreePlan, status |-> "trial", expires |-> TrialDays], FreeRow}
            \cup [plan : PaidPlans, status : {"active"}, expires : {PeriodDays}] :
       plan = r.plan /\ status = r.status /\ expires = r.expires
  /\ link = [i \in Links |-> IF i \in LegacyLinks THEN "pending" ELSE "none"]
  /\ sold \in [Links -> PaidPlans]
  /\ pc = [q \in Requests |-> "idle"]
  /\ copy = [q \in Requests |-> FreeRow]
  /\ stale = FALSE

-----------------------------------------------------------------------------
(* The rules, on a row *)

\* Mutant: the trial is left to the next payment.
Reconciled_TrialStays(r) ==
  CASE r.status = "active" /\ r.expires # NoExpiry /\ now >= r.expires /\ r.plan # FreePlan
         -> [r EXCEPT !.status = "past_due"]
    [] r.status = "past_due" /\ now >= r.expires -> [r EXCEPT !.status = "expired"]
    [] r.status = "cancelled" -> [r EXCEPT !.status = "expired"]
    [] OTHER -> r

\* reconcile: the transition the clock makes due, or the row itself.
Reconciled(r) ==
  CASE r.status = "trial" /\ (r.expires = NoExpiry \/ now >= r.expires) -> FreeRow
    [] r.status = "active" /\ r.expires # NoExpiry /\ now >= r.expires /\ r.plan # FreePlan
         -> [r EXCEPT !.status = "past_due"]
    [] r.status = "past_due" /\ (r.expires = NoExpiry \/ now >= r.expires + GraceDays)
         -> [r EXCEPT !.status = "expired"]
    [] r.status = "cancelled" /\ (r.expires = NoExpiry \/ now >= r.expires)
         -> [r EXCEPT !.status = "expired"]
    [] OTHER -> r

\* Mutant: a period that has ended gives access until someone reconciles.
EffectivePlan_NoGraceCheck(r) ==
  IF r.status = "trial" THEN TrialPlan
  ELSE IF r.status \in {"active", "past_due", "cancelled"} THEN r.plan ELSE FreePlan

\* effective_plan_key, without an organization's plan.
EffectivePlan(r) ==
  LET before(t) == r.expires # NoExpiry /\ now < t
  IN CASE r.status = "trial" -> IF before(r.expires) THEN TrialPlan ELSE FreePlan
       [] r.status = "active" /\ (r.expires = NoExpiry \/ before(r.expires + GraceDays)) -> r.plan
       [] r.status = "past_due" /\ before(r.expires + GraceDays) -> r.plan
       [] r.status = "cancelled" /\ before(r.expires) -> r.plan
       [] OTHER -> FreePlan

\* Mutant: a cancelled plan that is paid again starts afresh.
Renewed_CancelledRestarts(r, p) ==
  [plan |-> p, status |-> "active",
   expires |-> IF r.status = "active" /\ r.expires > now THEN r.expires + PeriodDays
               ELSE now + PeriodDays]

\* renew: extends a running period of the same plan, starts one otherwise.
Renewed(r, p) ==
  LET running == /\ r.expires # NoExpiry /\ r.expires > now
                 /\ r.status \in {"active", "cancelled", "past_due"}
                 /\ r.plan = p
  IN [plan |-> p, status |-> "active",
      expires |-> (IF running THEN r.expires ELSE now) + PeriodDays]

Ended(r) == r.expires = NoExpiry \/ r.expires <= now

\* cancel refuses an expired or already cancelled paid plan.
CanCancel(r) == r.plan = FreePlan \/ r.status \in {"trial", "active", "past_due"}

\* cancel: the paid period runs out, if one is running.
Cancelled(r, immediately) ==
  IF r.plan = FreePlan \/ r.status = "trial" \/ immediately \/ Ended(r)
  THEN FreeRow
  ELSE [r EXCEPT !.status = "cancelled"]

-----------------------------------------------------------------------------
(* Payments *)

\* Mutant: the consumed mark is not looked at.
Activate_EveryDelivery(i) ==
  /\ link[i] # "none"
  /\ link' = [link EXCEPT ![i] = "consumed"]
  /\ LET new == Renewed(Row, sold[i])
     IN plan' = new.plan /\ status' = new.status /\ expires' = new.expires
  /\ UNCHANGED <<now, sold, pc, copy, stale>>

\* A verified payment of a link activates its plan once, under the locks of
\* the link and the row.  Deliveries after the first, and payments of the
\* wrong amount, change nothing.
Activate(i) ==
  /\ link[i] = "pending"
  /\ link' = [link EXCEPT ![i] = "consumed"]
  /\ LET new == Renewed(Row, sold[i])
     IN plan' = new.plan /\ status' = new.status /\ expires' = new.expires
  /\ UNCHANGED <<now, sold, pc, copy, stale>>

ActivateFromIntent(i) == i \notin LegacyLinks /\ Activate(i)

\* A legacy reference is consumed by its recorded webhook event.
LegacyUpgrade(i) == i \in LegacyLinks /\ Activate(i)

\* POST /subscriptions/checkout: the intent of any paid plan.
CreateCheckout(i) ==
  /\ link[i] = "none"
  /\ link' = [link EXCEPT ![i] = "pending"]
  /\ \E p \in PaidPlans : sold' = [sold EXCEPT ![i] = p]
  /\ UNCHANGED <<now, row, pc, copy, stale>>

-----------------------------------------------------------------------------
(* Requests *)

\* The commit updates the columns in which the decision differs from the copy.
Write(q, new) ==
  /\ plan' = IF new.plan # copy[q].plan THEN new.plan ELSE plan
  /\ status' = IF new.status # copy[q].status THEN new.status ELSE status
  /\ expires' = IF new.expires # copy[q].expires THEN new.expires ELSE expires
  /\ stale' = (stale \/ copy[q] # Row)

Keep == UNCHANGED <<row, stale>>

Goto(q, phase) == pc' = [pc EXCEPT ![q] = phase]

Load(q) ==
  /\ pc[q] = "idle"
  /\ copy' = [copy EXCEPT ![q] = Row]
  /\ \E phase \in Operations \cup {"do_downgrade"} : Goto(q, phase)
  /\ UNCHANGED <<now, row, link, sold, stale>>

\* reconcile_and_commit: a transition that is due is committed, and the row
\* loaded again before the operation goes on.
Reconcile(q) ==
  /\ pc[q] \in Operations
  /\ Write(q, Reconciled(copy[q]))
  /\ Goto(q, IF Reconciled(copy[q]) # copy[q] THEN ReloadOf(pc[q]) ELSE DecisionOf(pc[q]))
  /\ UNCHANGED <<now, link, sold, copy>>

Reload(q) ==
  /\ pc[q] \in Reloads
  /\ copy' = [copy EXCEPT ![q] = Row]
  /\ Goto(q, DecisionOf(pc[q]))
  /\ UNCHANGED <<now, row, link, sold, stale>>

\* cancel, or HTTP 409.
Cancel(q) ==
  /\ pc[q] \in {"do_cancel", "do_cancel_now"}
  /\ IF CanCancel(copy[q])
     THEN Write(q, Cancelled(copy[q], pc[q] = "do_cancel_now"))
     ELSE Keep
  /\ Goto(q, "idle")
  /\ UNCHANGED <<now, link, sold, copy>>

Resume(q) ==
  /\ pc[q] = "do_resume"
  /\ IF copy[q].status = "cancelled" /\ ~Ended(copy[q])
     THEN Write(q, [copy[q] EXCEPT !.status = "active"])
     ELSE Keep
  /\ Goto(q, "idle")
  /\ UNCHANGED <<now, link, sold, copy>>

\* PUT /cooperatives/{id}: only growth can be downgraded.
Downgrade(q) ==
  /\ pc[q] = "do_downgrade"
  /\ IF copy[q].plan = TrialPlan THEN Write(q, FreeRow) ELSE Keep
  /\ Goto(q, "idle")
  /\ UNCHANGED <<now, link, sold, copy>>

\* POST /subscriptions/renew: an intent for the plan on record, or HTTP 400.
Renew(q) ==
  /\ pc[q] = "do_renew"
  /\ IF copy[q].plan = FreePlan \/ copy[q].status = "trial"
     THEN UNCHANGED <<link, sold>>
     ELSE \E i \in Links :
            /\ link[i] = "none"
            /\ link' = [link EXCEPT ![i] = "pending"]
            /\ sold' = [sold EXCEPT ![i] = copy[q].plan]
  /\ Goto(q, "idle")
  /\ UNCHANGED <<now, row, copy, stale>>

\* The provider gives no payment link, or the request fails.
Abandon(q) ==
  /\ pc[q] # "idle"
  /\ Goto(q, "idle")
  /\ UNCHANGED <<now, row, link, sold, copy, stale>>

Tick ==
  /\ now < MaxTime
  /\ now' = now + 1
  /\ UNCHANGED <<row, link, sold, pc, copy, stale>>

-----------------------------------------------------------------------------
Next ==
  \/ Tick
  \/ \E i \in Links : ActivateFromIntent(i) \/ LegacyUpgrade(i) \/ CreateCheckout(i)
  \/ \E q \in Requests :
       Load(q) \/ Reconcile(q) \/ Reload(q) \/ Cancel(q) \/ Resume(q) \/ Downgrade(q)
         \/ Renew(q) \/ Abandon(q)

Spec == Init /\ [][Next]_vars

-----------------------------------------------------------------------------
(* Properties *)

\* The period is extended only by a payment, by one link that has never
\* extended it before, and by no more than a period.
ExtensionIsPaid ==
  [][expires' > expires =>
       /\ \E i \in Links : link[i] = "pending" /\ link'[i] = "consumed"
       /\ expires' <= (IF expires > now THEN expires ELSE now) + PeriodDays]_vars

\* A subscription is expired only when its period is over.
ExpiredIsLapsed == status = "expired" => expires <= now

\* A paid plan has a period that ends: NULL is for the free tier.
PaidPlanHasPeriod == plan # FreePlan => expires # NoExpiry

\* The three columns agree with each other and with the clock, as long as no
\* decision on an outdated row has been written.
RowConsistent == ~stale => ExpiredIsLapsed /\ PaidPlanHasPeriod

\* While the period of a paid plan runs, the cooperative is entitled to it,
\* whatever has been cancelled, resumed, renewed or reconciled.
PaidAccess ==
  ~stale /\ plan # FreePlan /\ now < expires => EffectivePlan(Row) = plan

\* Nobody is entitled to a paid plan beyond the trial or the grace period,
\* even when no request has reconciled the row.
NoFreeAccess ==
  ~stale /\ EffectivePlan(Row) # FreePlan =>
    /\ expires # NoExpiry
    /\ now < expires + (IF status \in {"trial", "cancelled"} THEN 0 ELSE GraceDays)

\* Paying early for the plan on record loses no day of it.
EarlyRenewalKeepsDays ==
  [][~stale /\ plan # FreePlan /\ expires > now /\ plan' = plan
       /\ (\E i \in Links : link[i] = "pending" /\ link'[i] = "consumed")
     => expires' = expires + PeriodDays]_vars

=============================================================================
