------------------------------- MODULE Payroll -------------------------------
(***************************************************************************)
(* A solo farm's labour: the worker register under the plan's size band,   *)
(* logged shifts, and the wage payouts that are approved for a period and  *)
(* disbursed through the payment provider.                                 *)
(*                                                                         *)
(* Nothing is locked between a check and the insert it guards, and no      *)
(* payout row stays locked while the provider is awaited.                  *)
(***************************************************************************)
EXTENDS Naturals, FiniteSets, Functions

CONSTANTS
  Workers, Days, Requests,
  Periods,       \* payroll periods, as sets of days
  MaxShifts,     \* bound on the shifts of a worker on one day
  MaxApprovals,  \* bound on the approvals of one period
  MaxPayouts,    \* bound on the payouts there are
  Capacity,      \* workers the recorded size band allows, 0 when it is custom
  Environments   \* the sets of events (of AllEvents) that are considered

\* overlap: two requests work on the same thing at a time.
\* any_period: a period may cover days of another approved one.
\* lapse: the subscription lapses and is renewed.  leave: a worker leaves.
\* reactivate: a worker is set active again by an update.
\* crash: the process dies.  lost_answer: the provider's answer does not arrive.
AllEvents ==
  {"overlap", "any_period", "lapse", "leave", "reactivate", "crash", "lost_answer"}

ASSUME PeriodsAssumption == Periods \subseteq SUBSET Days
ASSUME BoundsAssumption ==
  MaxShifts \in Nat \ {0} /\ MaxApprovals \in Nat \ {0} /\ MaxPayouts \in Nat /\ Capacity \in Nat
ASSUME EnvironmentsAssumption == Environments \subseteq SUBSET AllEvents
ASSUME FiniteAssumption == IsFiniteSet(Workers) /\ IsFiniteSet(Days)

Approvals == 1..MaxApprovals
Payouts == Periods \X Workers \X Approvals   \* a row per worker and approval
PeriodOf(p) == p[1]
WorkerOf(p) == p[2]
NoPayout == <<0>>

VARIABLES
  plan,      \* the effective plan: "solo", or "free" once the subscription lapsed
  worker,    \* workers.status
  shifts,    \* attendance rows per worker and day
  hours,     \* hours on those rows; a row may carry none
  payout,    \* wage_payouts.status
  paidHours, \* wage_payouts.total_hours
  ref,       \* wage_payouts.provider_payment_ref
  sent,      \* the references under which the provider was asked to pay a payout
  accepted,  \* the payouts the provider has paid
  told,      \* the payouts whose worker was told of the payment
  pc, at, todo, cur, external_ref, news,
             \* the requests: place, subject, payouts left, the one being paid
             \* and its reference, payments to announce
  env        \* the events that may happen, fixed for a behaviour

registerVars == <<plan, worker, shifts, hours>>
payoutVars == <<payout, paidHours, ref>>
providerVars == <<sent, accepted, told>>
requestVars == <<pc, at, todo, cur, external_ref, news>>
vars == <<registerVars, payoutVars, providerVars, requestVars, env>>

WorkerStatus == {"none", "active", "inactive"}
PayoutStatus == {"none", "approved", "paid", "failed"}
Phase == {"idle", "creating", "approving", "disburse", "sending",
          "accepted", "refused"}
Subject == {<<>>} \cup {<<w>> : w \in Workers} \cup {<<p>> : p \in Periods}

TypeOK ==
  /\ plan \in {"solo", "free"}
  /\ worker \in [Workers -> WorkerStatus]
  /\ shifts \in [Workers \X Days -> 0..MaxShifts]
  /\ hours \in [Workers \X Days -> 0..MaxShifts]
  /\ \A w \in Workers, d \in Days : hours[w, d] <= shifts[w, d]
  /\ payout \in [Payouts -> PayoutStatus]
  /\ paidHours \in [Payouts -> Nat]
  /\ ref \in [Payouts -> {"none", "own", "provider"}]
  /\ sent \in [Payouts -> SUBSET {"none", "own", "provider"}]
  /\ accepted \subseteq Payouts
  /\ told \subseteq Payouts
  /\ pc \in [Requests -> Phase]
  /\ at \in [Requests -> Subject]
  /\ todo \in [Requests -> SUBSET Payouts]
  /\ cur \in [Requests -> Payouts \cup {NoPayout}]
  /\ external_ref \in [Requests -> {"none", "own", "provider"}]
  /\ news \in [Requests -> SUBSET Payouts]
  /\ env \in Environments

Init ==
  /\ plan = "solo"
  /\ worker = [w \in Workers |-> "none"]
  /\ shifts = [s \in Workers \X Days |-> 0]
  /\ hours = [s \in Workers \X Days |-> 0]
  /\ payout = [p \in Payouts |-> "none"]
  /\ paidHours = [p \in Payouts |-> 0]
  /\ ref = [p \in Payouts |-> "none"]
  /\ sent = [p \in Payouts |-> {}]
  /\ accepted = {} /\ told = {}
  /\ pc = [q \in Requests |-> "idle"]
  /\ at = [q \in Requests |-> <<>>]
  /\ todo = [q \in Requests |-> {}]
  /\ cur = [q \in Requests |-> NoPayout]
  /\ external_ref = [q \in Requests |-> "none"]
  /\ news = [q \in Requests |-> {}]
  /\ env \in Environments

Free(q) ==
  /\ pc[q] = "idle"
  /\ "overlap" \in env \/ \A s \in Requests : pc[s] = "idle"

Begin(q, phase, subject) ==
  /\ pc' = [pc EXCEPT ![q] = phase]
  /\ at' = [at EXCEPT ![q] = subject]

End(q) ==
  /\ pc' = [pc EXCEPT ![q] = "idle"]
  /\ at' = [at EXCEPT ![q] = <<>>]
  /\ todo' = [todo EXCEPT ![q] = {}]
  /\ cur' = [cur EXCEPT ![q] = NoPayout]
  /\ external_ref' = [external_ref EXCEPT ![q] = "none"]
  /\ news' = [news EXCEPT ![q] = {}]

-----------------------------------------------------------------------------
(* The register of workers *)

\* The effective plan falls to the free tier and comes back with a renewal.
PlanChanges ==
  /\ "lapse" \in env
  /\ plan' = IF plan = "solo" THEN "free" ELSE "solo"
  /\ UNCHANGED <<worker, shifts, hours, payoutVars, providerVars, requestVars, env>>

ActiveWorkers == {w \in Workers : worker[w] = "active"}

\* Mutant: the cap is compared with the workers there are, not those there would be.
WithinLimit_OffByOne(n) ==
  plan = "solo" /\ (Capacity = 0 \/ Cardinality(ActiveWorkers) <= Capacity)

\* assert_within_limit for max_workers: the free tier has no worker module.
WithinLimit(n) ==
  plan = "solo" /\ (Capacity = 0 \/ Cardinality(ActiveWorkers) + n <= Capacity)

CreateWorkerCheck(q, w) ==
  /\ Free(q)
  /\ WithinLimit(1)
  /\ worker[w] = "none"
  /\ Begin(q, "creating", <<w>>)
  /\ UNCHANGED <<registerVars, payoutVars, providerVars, todo, cur, external_ref, news, env>>

\* The unique constraint on the phone rejects the second of two inserts.
CreateWorkerInsert(q) ==
  /\ pc[q] = "creating"
  /\ worker' = IF worker[at[q][1]] = "none" THEN [worker EXCEPT ![at[q][1]] = "active"] ELSE worker
  /\ End(q)
  /\ UNCHANGED <<plan, shifts, hours, payoutVars, providerVars, env>>

\* PATCH sets any status and looks at no limit; DELETE only deactivates.
UpdateWorker(w) ==
  /\ worker[w] # "none"
  /\ \/ "leave" \in env /\ worker' = [worker EXCEPT ![w] = "inactive"]
     \/ "reactivate" \in env /\ worker' = [worker EXCEPT ![w] = "active"]
  /\ UNCHANGED <<plan, shifts, hours, payoutVars, providerVars, requestVars, env>>

-----------------------------------------------------------------------------
(* Shifts *)

Registered == {w \in Workers : worker[w] # "none"}

\* A shift may be logged for a worker who has left, and without hours.
LogAttendance(w, d) ==
  /\ w \in Registered
  /\ shifts[w, d] < MaxShifts
  /\ shifts' = [shifts EXCEPT ![<<w, d>>] = @ + 1]
  /\ \E h \in {0, 1} : hours' = [hours EXCEPT ![<<w, d>>] = @ + h]
  /\ UNCHANGED <<plan, worker, payoutVars, providerVars, requestVars, env>>

-----------------------------------------------------------------------------
(* Approving the payroll of a period *)

HoursIn(w, period) == SumFunctionOnSet([d \in Days |-> hours[w, d]], period)
Attended(w, period) == \E d \in period : shifts[w, d] > 0

ApprovedPeriods == {PeriodOf(p) : p \in {x \in Payouts : payout[x] # "none"}}

\* Mutant: only payouts still waiting to be paid count.
ApproveCheck_Waiting(q, period) ==
  /\ Free(q)
  /\ plan = "solo"
  /\ \A p \in Payouts : PeriodOf(p) = period => payout[p] # "approved"
  /\ "any_period" \in env \/ \A r \in ApprovedPeriods : r = period \/ r \cap period = {}
  /\ Begin(q, "approving", <<period>>)
  /\ UNCHANGED <<registerVars, payoutVars, providerVars, todo, cur, external_ref, news, env>>

\* 409 when the very same period has a payout; overlapping ones are not looked for.
ApproveCheck(q, period) ==
  /\ Free(q)
  /\ plan = "solo"
  /\ period \notin ApprovedPeriods
  /\ "any_period" \in env \/ \A r \in ApprovedPeriods : r \cap period = {}
  /\ Begin(q, "approving", <<period>>)
  /\ UNCHANGED <<registerVars, payoutVars, providerVars, todo, cur, external_ref, news, env>>

\* One approved payout for every worker with a shift in the period.
ApproveInsert(q) ==
  /\ pc[q] = "approving"
  /\ LET period == at[q][1]
         n == 1 + Cardinality({k \in Approvals : \E w \in Workers : payout[period, w, k] # "none"})
         new == {p \in Payouts : p[1] = period /\ p[3] = n /\ Attended(WorkerOf(p), period)}
     IN /\ n <= MaxApprovals
        /\ Cardinality(new \cup {p \in Payouts : payout[p] # "none"}) <= MaxPayouts
        /\ payout' = [p \in Payouts |-> IF p \in new THEN "approved" ELSE payout[p]]
        /\ paidHours' = [p \in Payouts |->
                           IF p \in new THEN HoursIn(WorkerOf(p), period) ELSE paidHours[p]]
  /\ End(q)
  /\ UNCHANGED <<registerVars, ref, providerVars, env>>

-----------------------------------------------------------------------------
(* Disbursing it *)

DisburseSelect(q, period) ==
  /\ Free(q)
  /\ plan = "solo"
  /\ LET due == {p \in Payouts : PeriodOf(p) = period /\ payout[p] = "approved"}
     IN due # {} /\ todo' = [todo EXCEPT ![q] = due]
  /\ Begin(q, "disburse", <<period>>)
  /\ UNCHANGED <<registerVars, payoutVars, providerVars, cur, external_ref, news, env>>

\* Mutant: the reference is not committed before the transfer.
DisburseClaim_Uncommitted(q) ==
  /\ pc[q] = "disburse"
  /\ \E p \in todo[q] :
       /\ todo' = [todo EXCEPT ![q] = @ \ {p}]
       /\ payout[p] = "approved"
       /\ external_ref' = [external_ref EXCEPT ![q] = "own"]
       /\ cur' = [cur EXCEPT ![q] = p]
       /\ pc' = [pc EXCEPT ![q] = "sending"]
  /\ UNCHANGED <<registerVars, payoutVars, providerVars, at, news, env>>

\* Under the row lock: a payout that is still approved gets its reference,
\* which is committed; one that another request has finished is passed over.
\* A payout's worker always exists: workers are only deactivated.
DisburseClaim(q) ==
  /\ pc[q] = "disburse"
  /\ \E p \in todo[q] :
       /\ todo' = [todo EXCEPT ![q] = @ \ {p}]
       /\ IF payout[p] = "approved"
          THEN /\ ref' = [ref EXCEPT ![p] = IF @ = "none" THEN "own" ELSE @]
               /\ external_ref' = [external_ref EXCEPT ![q] = ref'[p]]
               /\ cur' = [cur EXCEPT ![q] = p]
               /\ pc' = [pc EXCEPT ![q] = "sending"]
          ELSE UNCHANGED <<ref, external_ref, cur, pc>>
  /\ UNCHANGED <<registerVars, payout, paidHours, providerVars, at, news, env>>

\* initiate_transfer under the payout's reference.  The provider pays a
\* reference at most once and refuses a second transfer under it.
DisburseSend(q) ==
  /\ pc[q] = "sending"
  /\ LET p == cur[q]
     IN /\ sent' = [sent EXCEPT ![p] = @ \cup {external_ref[q]}]
        /\ \/ pc' = [pc EXCEPT ![q] = "refused"] /\ UNCHANGED accepted
           \/ /\ p \notin accepted
              /\ accepted' = accepted \cup {p}
              /\ pc' \in {[pc EXCEPT ![q] = "accepted"]} \cup
                   (IF "lost_answer" \in env THEN {[pc EXCEPT ![q] = "refused"]} ELSE {})
  /\ UNCHANGED <<registerVars, payoutVars, told, at, todo, cur, external_ref, news, env>>

\* Mutant: the answer's success is not looked at.
DisburseRecord_AlwaysPaid(q) ==
  /\ pc[q] \in {"accepted", "refused"}
  /\ payout' = [payout EXCEPT ![cur[q]] = "paid"]
  /\ ref' = [ref EXCEPT ![cur[q]] = "provider"]
  /\ news' = [news EXCEPT ![q] = @ \cup {cur[q]}]
  /\ cur' = [cur EXCEPT ![q] = NoPayout]
  /\ external_ref' = [external_ref EXCEPT ![q] = "none"]
  /\ pc' = [pc EXCEPT ![q] = "disburse"]
  /\ UNCHANGED <<registerVars, paidHours, providerVars, at, todo, env>>

\* The answer is written over whatever the row says by now.
DisburseRecord(q) ==
  /\ pc[q] \in {"accepted", "refused"}
  /\ IF pc[q] = "accepted"
     THEN /\ payout' = [payout EXCEPT ![cur[q]] = "paid"]
          /\ ref' = [ref EXCEPT ![cur[q]] = "provider"]
          /\ news' = [news EXCEPT ![q] = @ \cup {cur[q]}]
     ELSE payout' = [payout EXCEPT ![cur[q]] = "failed"] /\ UNCHANGED <<ref, news>>
  /\ cur' = [cur EXCEPT ![q] = NoPayout]
  /\ external_ref' = [external_ref EXCEPT ![q] = "none"]
  /\ pc' = [pc EXCEPT ![q] = "disburse"]
  /\ UNCHANGED <<registerVars, paidHours, providerVars, at, todo, env>>

\* Every payout visited: the workers who were paid get a message.
DisburseFinish(q) ==
  /\ pc[q] = "disburse"
  /\ todo[q] = {}
  /\ told' = told \cup news[q]
  /\ End(q)
  /\ UNCHANGED <<registerVars, payoutVars, sent, accepted, env>>

\* The process dies: what was committed stays, the requests are gone.
Crash ==
  /\ "crash" \in env
  /\ \E q \in Requests : pc[q] # "idle"
  /\ pc' = [q \in Requests |-> "idle"]
  /\ at' = [q \in Requests |-> <<>>]
  /\ todo' = [q \in Requests |-> {}]
  /\ cur' = [q \in Requests |-> NoPayout]
  /\ external_ref' = [q \in Requests |-> "none"]
  /\ news' = [q \in Requests |-> {}]
  /\ UNCHANGED <<registerVars, payoutVars, providerVars, env>>

-----------------------------------------------------------------------------
DisburseStep(q) == DisburseClaim(q) \/ DisburseSend(q) \/ DisburseRecord(q) \/ DisburseFinish(q)

RequestNext(q) ==
  \/ \E w \in Workers : CreateWorkerCheck(q, w)
  \/ CreateWorkerInsert(q)
  \/ \E period \in Periods : ApproveCheck(q, period) \/ DisburseSelect(q, period)
  \/ ApproveInsert(q)
  \/ DisburseStep(q)

Next ==
  \/ PlanChanges
  \/ \E w \in Workers : UpdateWorker(w) \/ \E d \in Days : LogAttendance(w, d)
  \/ \E q \in Requests : RequestNext(q)
  \/ Crash

Spec == Init /\ [][Next]_vars

-----------------------------------------------------------------------------
(* Safety *)

\* A payout's transfers all carry the reference its row had before the first
\* of them, whatever crashed or overlapped: the provider can tell a retry.
StableReference ==
  \A p \in Payouts : sent[p] # {} => sent[p] = {"own"} /\ ref[p] # "none"

\* A payout is paid, and its worker told so, only when the provider paid it.
PaidIsSent ==
  \A p \in Payouts : payout[p] = "paid" \/ p \in told => p \in accepted

PayoutHours(w) == SumFunctionOnSet(paidHours, {p \in Payouts : WorkerOf(p) = w})

\* Requests one at a time and periods that do not overlap: no logged hour is
\* in two payouts (the 409 of approve_payroll).
HourPaidOnce ==
  env \cap {"overlap", "any_period"} = {} =>
    \A w \in Workers : PayoutHours(w) <= HoursIn(w, Days)
=============================================================================
