------------------------------- MODULE Members --------------------------------
(***************************************************************************)
(* A cooperative's wallet, its register of members under the plan's size   *)
(* band, the records kept about a member, and the trust score computed     *)
(* from them.                                                              *)
(*                                                                         *)
(* Nothing is locked: an admission checks the cap and inserts later, and a *)
(* calculation reads four kinds of records one query after the other       *)
(* before it writes the score.                                             *)
(***************************************************************************)
EXTENDS Naturals, FiniteSets

CONSTANTS
  Farmers, Handlers,
  Scored,        \* the farmers whose records and score are followed
  MaxRows,       \* bound on a member's records of one kind
  MaxScored,     \* the same bound where calculations happen
  Capacity,      \* active members the paid plan's band allows, 0 without a cap
  FreeCapacity,  \* active members the free plan allows
  MaxAccounts,   \* bound on the accounts opened at the provider
  MaxClears,     \* bound on how often the staff clear the wallet
  Environments   \* the sets of events (of AllEvents) that are considered

Kinds == {"dues", "production", "loans", "attendance"}

\* The kinds: records of that kind change.  register: members come and go.
\* score: calculations happen.  overlap: two requests run at a time.
\* lapse: the subscription lapses and is renewed.  reactivate: a member is set
\* active again.  silent: a payment, loan or deduction is settled by a path that
\* calculates nothing.  year: records leave the twelve months that count.
\* wallet: the wallet is provisioned.  update: the staff enter an account of the
\* cooperative or clear it.  lost_answer: an answer of the provider does not
\* arrive.  crash: the process dies.
AllEvents ==
  Kinds \cup {"register", "score", "overlap", "lapse", "reactivate", "silent", "year",
            "wallet", "update", "lost_answer", "crash"}

\* The members there are to begin with fit the band.
ASSUME ScoredAssumption ==
  /\ Scored \subseteq Farmers /\ IsFiniteSet(Farmers)
  /\ Capacity > 0 => Cardinality(Scored) <= Capacity
ASSUME HandlersAssumption == Handlers # {} /\ IsFiniteSet(Handlers)
ASSUME BoundsAssumption ==
  /\ MaxRows \in Nat \ {0} /\ MaxScored \in 1..MaxRows
  /\ MaxAccounts \in Nat /\ MaxClears \in Nat
  /\ Capacity \in Nat /\ FreeCapacity \in Nat \ {0}
ASSUME EnvironmentsAssumption == Environments \subseteq SUBSET AllEvents

VARIABLES
  wallet,  \* cooperatives.wallet_account_id, 0 when there is none
  accounts,\* the accounts the provider has opened for the cooperative
  cleared, \* how often the staff have taken its wallet away
  plan,    \* the effective plan: "growth", or "starter" once the subscription lapsed
  member,  \* cooperative_memberships.membership_status
  records, \* a member's records of each kind: see Records
  score,   \* cooperative_memberships.trust_score, in hundredths
  counted, \* what the latest snapshot was computed from
  tasks,   \* post-payment tasks waiting in memory
  pc, at, seen, old, account,
           \* the requests: place, farmer, records read so far, score when it
           \* began, account the provider answered with
  env      \* the events that may happen, fixed for a behaviour

walletVars == <<wallet, accounts, cleared>>
registerVars == <<plan, member>>
scoreVars == <<score, counted>>
handlerVars == <<pc, at, seen, old, account>>
membersVars == <<walletVars, registerVars, records, scoreVars, tasks, handlerVars, env>>

\* open: a due not paid, a cycle without a date, a loan not repaid, a meeting
\* missed.  good: the others.  output: the good ones that report a yield.
NoRecords == [open |-> 0, good |-> 0, output |-> 0]
Rows(r) == r.open + r.good
Records ==
  {r \in [open : 0..MaxRows, good : 0..MaxRows, output : 0..MaxRows] :
     Rows(r) <= MaxRows /\ r.output <= r.good}
Unread == [open |-> MaxRows, good |-> MaxRows, output |-> 0]
Nobody == "nobody"
Entered == MaxAccounts + 1  \* an account of its own that the cooperative entered

\* The pc of a calculation names the kind it reads next.
Place == {"idle", "provisioning", "opened", "admitting", "save"} \cup Kinds
\* The order in which a calculation reads.
After(k) ==
  CASE k = "dues" -> "production"
    [] k = "production" -> "loans"
    [] k = "loans" -> "attendance"
    [] k = "attendance" -> "save"

MembersTypeOK ==
  /\ accounts \in 0..MaxAccounts
  /\ wallet \in 0..accounts \cup {Entered}
  /\ cleared \in 0..MaxClears
  /\ plan \in {"growth", "starter"}
  /\ member \in [Farmers -> {"none", "active", "inactive", "suspended"}]
  /\ records \in [Scored -> [Kinds -> Records]]
  /\ score \in [Scored -> 0..10000]
  /\ counted \in [Scored -> [Kinds -> Records]]
  /\ tasks \in [Scored -> Nat]
  /\ pc \in [Handlers -> Place]
  /\ at \in [Handlers -> Farmers \cup {Nobody}]
  /\ seen \in [Handlers -> [Kinds -> Records \cup {Unread}]]
  /\ old \in [Handlers -> 0..10000]
  /\ account \in [Handlers -> 0..accounts]
  /\ env \in Environments

MembersInit ==
  /\ wallet = 0 /\ accounts = 0 /\ cleared = 0
  /\ plan = "growth"
  /\ env \in Environments
  /\ member = [f \in Farmers |->
                 IF "register" \notin env /\ f \in Scored THEN "active" ELSE "none"]
  /\ records = [f \in Scored |-> [k \in Kinds |-> NoRecords]]
  /\ score = [f \in Scored |-> 0]
  /\ counted = [f \in Scored |-> [k \in Kinds |-> NoRecords]]
  /\ tasks = [f \in Scored |-> 0]
  /\ pc = [q \in Handlers |-> "idle"]
  /\ at = [q \in Handlers |-> Nobody]
  /\ seen = [q \in Handlers |-> [k \in Kinds |-> Unread]]
  /\ old = [q \in Handlers |-> 0]
  /\ account = [q \in Handlers |-> 0]

Free(q) ==
  /\ pc[q] = "idle"
  /\ "overlap" \in env \/ \A s \in Handlers : pc[s] = "idle"

End(q) ==
  /\ pc' = [pc EXCEPT ![q] = "idle"]
  /\ at' = [at EXCEPT ![q] = Nobody]
  /\ seen' = [seen EXCEPT ![q] = [k \in Kinds |-> Unread]]
  /\ old' = [old EXCEPT ![q] = 0]
  /\ account' = [account EXCEPT ![q] = 0]

-----------------------------------------------------------------------------
(* The wallet *)

\* Mutant: a cooperative that has a wallet may ask for another.
ProvisionStart_Again(q) ==
  /\ "wallet" \in env
  /\ Free(q)
  /\ pc' = [pc EXCEPT ![q] = "provisioning"]
  /\ UNCHANGED <<walletVars, registerVars, records, scoreVars, tasks, at, seen, old, account, env>>

\* provision_wallet up to the provider's create_account, which it awaits.
ProvisionStart(q) ==
  /\ "wallet" \in env
  /\ Free(q)
  /\ wallet = 0
  /\ pc' = [pc EXCEPT ![q] = "provisioning"]
  /\ UNCHANGED <<walletVars, registerVars, records, scoreVars, tasks, at, seen, old, account, env>>

\* create_account opens an account each time it is asked, for it carries no
\* reference, and _post asks up to three times until an answer arrives.  A
\* refusal, or a third answer that is lost, ends the request with 400.
CreateAccount(q) ==
  /\ pc[q] = "provisioning"
  /\ \E opened \in IF "lost_answer" \in env THEN 0..3 ELSE 0..1 :
       /\ accounts + opened <= MaxAccounts
       /\ accounts' = accounts + opened
       /\ \/ /\ opened > 0
             /\ pc' = [pc EXCEPT ![q] = "opened"]
             /\ account' = [account EXCEPT ![q] = accounts']
             /\ UNCHANGED <<at, seen, old>>
          \/ /\ opened = 0 \/ "lost_answer" \in env
             /\ End(q)
  /\ UNCHANGED <<wallet, cleared, registerVars, records, scoreVars, tasks, env>>

\* The rest of provision_wallet, which does not look at the wallet again.
ProvisionRecord(q) ==
  /\ pc[q] = "opened"
  /\ wallet' = account[q]
  /\ End(q)
  /\ UNCHANGED <<accounts, cleared, registerVars, records, scoreVars, tasks, env>>

\* update_cooperative writes any account the staff send; an empty one clears it.
UpdateCooperative ==
  /\ "update" \in env
  /\ "overlap" \in env \/ \A q \in Handlers : pc[q] = "idle"
  /\ wallet' \in 0..accounts \cup {Entered}
  /\ wallet' # wallet
  /\ IF wallet' = 0
     THEN cleared < MaxClears /\ cleared' = cleared + 1
     ELSE cleared' = cleared
  /\ UNCHANGED <<accounts, registerVars, records, scoreVars, tasks, handlerVars, env>>

-----------------------------------------------------------------------------
(* The register *)

PlanChanges ==
  /\ "lapse" \in env
  /\ plan' = IF plan = "growth" THEN "starter" ELSE "growth"
  /\ UNCHANGED <<walletVars, member, records, scoreVars, tasks, handlerVars, env>>

ActiveMembers == {f \in Farmers : member[f] = "active"}

\* Mutant: the members there are are compared with the cap, not those there would be.
WithinLimit_OffByOne ==
  IF plan = "growth" THEN Capacity = 0 \/ Cardinality(ActiveMembers) <= Capacity
                     ELSE Cardinality(ActiveMembers) <= FreeCapacity

\* assert_within_limit for max_members, on the effective plan: the band wins on
\* the paid plan, and only a capacity of None lifts the cap.
WithinLimit ==
  IF plan = "growth" THEN Capacity = 0 \/ Cardinality(ActiveMembers) + 1 <= Capacity
                     ELSE Cardinality(ActiveMembers) + 1 <= FreeCapacity

\* create_farmer up to the cap, which is looked at before anything is written.
AdmitCheck(q, f) ==
  /\ "register" \in env
  /\ Free(q)
  /\ WithinLimit
  /\ pc' = [pc EXCEPT ![q] = "admitting"]
  /\ at' = [at EXCEPT ![q] = f]
  /\ UNCHANGED <<walletVars, registerVars, records, scoreVars, tasks, seen, old, account, env>>

\* The rest of create_farmer.  Whoever holds the phone number is found or created,
\* and one who is a member already, in whatever state, answers 409: by the query
\* or, when two requests pass it together, by uq_farmer_cooperative.
AdmitInsert(q) ==
  /\ pc[q] = "admitting"
  /\ member' = IF member[at[q]] = "none" THEN [member EXCEPT ![at[q]] = "active"] ELSE member
  /\ End(q)
  /\ UNCHANGED <<walletVars, plan, records, scoreVars, tasks, env>>

\* deactivate_farmer, and update_farmer with a status: it may set any, and setting
\* a member active again asks no one about the cap.
SetStatus(f, s) ==
  /\ "register" \in env
  /\ member[f] # "none"
  /\ s = "active" => "reactivate" \in env \/ member[f] = "active"
  /\ member' = [member EXCEPT ![f] = s]
  /\ UNCHANGED <<walletVars, plan, records, scoreVars, tasks, handlerVars, env>>

-----------------------------------------------------------------------------
(* What is recorded about a member *)

\* Whether a member's records of a kind may change, and to what.
Put(f, k, r) ==
  /\ k \in env
  /\ member[f] # "none"
  /\ r \in Records
  /\ "score" \in env => Rows(r) <= MaxScored
  /\ records' = [records EXCEPT ![f][k] = r]

Opened(r) == [r EXCEPT !.open = @ + 1]
Turned(r) == [r EXCEPT !.open = @ - 1, !.good = @ + 1]

\* A task is queued for every payment event of the provider that was processed.
Queue(f) == tasks' = IF "score" \in env THEN [tasks EXCEPT ![f] = @ + 1] ELSE tasks

\* A due starts as a pending payment, which counts against the member at once.
DuesStarted(f) ==
  /\ Put(f, "dues", Opened(records[f]["dues"]))
  /\ UNCHANGED <<walletVars, registerVars, scoreVars, tasks, handlerVars, env>>

\* Mutant: the task after a payment is forgotten.
DuesPaid_NoTask(f) ==
  /\ records[f]["dues"].open > 0
  /\ Put(f, "dues", Turned(records[f]["dues"]))
  /\ UNCHANGED <<walletVars, registerVars, scoreVars, tasks, handlerVars, env>>

\* The provider reports a due paid.  process_payment_event asks for a method
\* TrustScoreService does not have and logs the error, so that the task that
\* _process_payment_event queues is the only calculation.
DuesPaid(f) ==
  /\ records[f]["dues"].open > 0
  /\ Put(f, "dues", Turned(records[f]["dues"]))
  /\ Queue(f)
  /\ UNCHANGED <<walletVars, registerVars, scoreVars, handlerVars, env>>

\* A due confirmed by asking the provider instead (reconcile_transaction, the
\* member's own inquiry, reconcile_stale_customer_actions): no task follows.
DuesPaidSilently(f) ==
  /\ "silent" \in env
  /\ records[f]["dues"].open > 0
  /\ Put(f, "dues", Turned(records[f]["dues"]))
  /\ UNCHANGED <<walletVars, registerVars, scoreVars, tasks, handlerVars, env>>

\* A loan counts from the moment it is paid out, by an answer or by an event.
LoanPaidOut(f) ==
  /\ Put(f, "loans", Opened(records[f]["loans"]))
  /\ tasks' = tasks \/ Queue(f)
  /\ UNCHANGED <<walletVars, registerVars, scoreVars, handlerVars, env>>

\* A repayment the provider reports.
LoanRepaid(f) ==
  /\ records[f]["loans"].open > 0
  /\ Put(f, "loans", Turned(records[f]["loans"]))
  /\ Queue(f)
  /\ UNCHANGED <<walletVars, registerVars, scoreVars, handlerVars, env>>

\* A loan closed by a settlement deduction or a stale repayment that turned out
\* to be collected.
LoanClosedSilently(f) ==
  /\ "silent" \in env
  /\ records[f]["loans"].open > 0
  /\ Put(f, "loans", Turned(records[f]["loans"]))
  /\ UNCHANGED <<walletVars, registerVars, scoreVars, tasks, handlerVars, env>>

\* create_production: a cycle with no date yet, one with a date, one with a yield.
\* A planted date stands in for a production date that is not given.
ProductionLogged(f) ==
  LET r == records[f]["production"] IN
  /\ \/ Put(f, "production", Opened(r))
     \/ Put(f, "production", [r EXCEPT !.good = @ + 1])
     \/ Put(f, "production", [r EXCEPT !.good = @ + 1, !.output = @ + 1])
  /\ UNCHANGED <<walletVars, registerVars, scoreVars, tasks, handlerVars, env>>

\* update_production: a date arrives, with or without a yield, a yield arrives, or
\* is set to zero.  A date cannot be taken back: null values are not updates.
ProductionUpdated(f) ==
  LET r == records[f]["production"] IN
  /\ \/ /\ r.open > 0
        /\ \E n \in 0..1 : Put(f, "production", [Turned(r) EXCEPT !.output = @ + n])
     \/ /\ r.output < r.good
        /\ Put(f, "production", [r EXCEPT !.output = @ + 1])
     \/ /\ r.output > 0
        /\ Put(f, "production", [r EXCEPT !.output = @ - 1])
  /\ UNCHANGED <<walletVars, registerVars, scoreVars, tasks, handlerVars, env>>

\* A record that counts no longer.
Dropped(f, k) ==
  LET r == records[f][k] IN
  \/ r.open > 0 /\ Put(f, k, [r EXCEPT !.open = @ - 1])
  \/ r.good > r.output /\ Put(f, k, [r EXCEPT !.good = @ - 1])
  \/ r.output > 0 /\ Put(f, k, [r EXCEPT !.good = @ - 1, !.output = @ - 1])

\* delete_production.
ProductionDeleted(f) ==
  /\ Dropped(f, "production")
  /\ UNCHANGED <<walletVars, registerVars, scoreVars, tasks, handlerVars, env>>

\* record_attendance, for a meeting attended or missed.
AttendanceRecorded(f) ==
  LET r == records[f]["attendance"] IN
  /\ Put(f, "attendance", Opened(r)) \/ Put(f, "attendance", [r EXCEPT !.good = @ + 1])
  /\ UNCHANGED <<walletVars, registerVars, scoreVars, tasks, handlerVars, env>>

\* Production and attendance of more than a year ago count no longer.
YearPasses(f) ==
  /\ "year" \in env
  /\ Dropped(f, "production") \/ Dropped(f, "attendance")
  /\ UNCHANGED <<walletVars, registerVars, scoreVars, tasks, handlerVars, env>>

-----------------------------------------------------------------------------
(* The trust score *)

\* The weights, in percent.
Weight(k) ==
  CASE k = "dues" -> 40 [] k = "production" -> 25 [] k = "loans" -> 20 [] k = "attendance" -> 15

\* The percentage that stands for no records.
Default(k) == IF k = "loans" THEN 75 ELSE 50

\* The points a member has on top of the completion rate: for two cycles, for
\* four, and for a complete one with a yield.
ProductionBonus(r) ==
  (IF Rows(r) >= 2 THEN 5 ELSE 0) + (IF Rows(r) >= 4 THEN 5 ELSE 0) + (IF r.output > 0 THEN 5 ELSE 0)

\* Percentages are fractions: a numerator and a denominator.
Plus(p, q) == <<p[1] * q[2] + q[1] * p[2], p[2] * q[2]>>
Times(w, p) == <<w * p[1], p[2]>>
Rounded(p) == (2 * p[1] + p[2]) \div (2 * p[2])

Least(a, b) == IF a <= b THEN a ELSE b

\* Mutant: the loans still owed are counted instead of those repaid.
Percentage_Owed(k, r) ==
  IF Rows(r) = 0 THEN <<Default(k), 1>>
  ELSE LET counts == IF k = "loans" THEN r.open ELSE r.good
           bonus == IF k = "production" THEN ProductionBonus(r) ELSE 0
       IN <<Least(100 * counts + bonus * Rows(r), 100 * Rows(r)), Rows(r)>>

\* The percentage of a kind: the share of good records and the bonus, at most
\* 100.  Every kind ends at 100, so that the clamp on the total never bites.
Percentage(k, r) ==
  IF Rows(r) = 0 THEN <<Default(k), 1>>
  ELSE LET bonus == IF k = "production" THEN ProductionBonus(r) ELSE 0
       IN <<Least(100 * r.good + bonus * Rows(r), 100 * Rows(r)), Rows(r)>>

\* The weighted score in hundredths, rounded half up.  Where the score falls on
\* half a hundredth the floats of the program may round it down.
Score(all) ==
  LET Part(k) == Times(Weight(k), Percentage(k, all[k]))
  IN Rounded(Plus(Plus(Part("dues"), Part("production")), Plus(Part("loans"), Part("attendance"))))

\* calculate_trust_score reads the membership, and with it the score it has.
Begin(q, f) ==
  /\ "score" \in env
  /\ Free(q)
  /\ pc' = [pc EXCEPT ![q] = "dues"]
  /\ at' = [at EXCEPT ![q] = f]
  /\ old' = [old EXCEPT ![q] = score[f]]
  /\ UNCHANGED <<seen, account>>

\* recalculate_trust_score, by an admin.
Recalculate(q, f) ==
  /\ member[f] # "none"
  /\ Begin(q, f)
  /\ UNCHANGED <<walletVars, registerVars, records, scoreVars, tasks, env>>

\* _post_payment_tasks.
PostPayment(q, f) ==
  /\ tasks[f] > 0
  /\ Begin(q, f)
  /\ tasks' = [tasks EXCEPT ![f] = @ - 1]
  /\ UNCHANGED <<walletVars, registerVars, records, scoreVars, env>>

\* A repayment the provider confirms when asked: finalize_repayment commits the
\* loan first and calculates then.
RepaymentFinalized(q, f) ==
  /\ records[f]["loans"].open > 0
  /\ Put(f, "loans", Turned(records[f]["loans"]))
  /\ Begin(q, f)
  /\ UNCHANGED <<walletVars, registerVars, scoreVars, tasks, env>>

\* One of _payment_compliance, _production_history, _loan_repayment, _attendance:
\* each sees what is committed when its own query runs.
ReadKind(q) ==
  /\ pc[q] \in Kinds
  /\ seen' = [seen EXCEPT ![q][pc[q]] = records[at[q]][pc[q]]]
  /\ pc' = [pc EXCEPT ![q] = After(pc[q])]
  /\ UNCHANGED <<walletVars, registerVars, records, scoreVars, tasks, at, old, account, env>>

\* The snapshot and the member's score are committed together.  The score is only
\* written when it differs from the one that was read with the member.
Save(q) ==
  /\ pc[q] = "save"
  /\ counted' = [counted EXCEPT ![at[q]] = seen[q]]
  /\ score' = [score EXCEPT ![at[q]] = IF Score(seen[q]) = old[q] THEN @ ELSE Score(seen[q])]
  /\ End(q)
  /\ UNCHANGED <<walletVars, registerVars, records, tasks, env>>

-----------------------------------------------------------------------------

\* The process dies: the requests and the tasks in memory are gone.
Crash ==
  /\ "crash" \in env
  /\ pc' = [q \in Handlers |-> "idle"]
  /\ at' = [q \in Handlers |-> Nobody]
  /\ seen' = [q \in Handlers |-> [k \in Kinds |-> Unread]]
  /\ old' = [q \in Handlers |-> 0]
  /\ account' = [q \in Handlers |-> 0]
  /\ tasks' = [f \in Scored |-> 0]
  /\ UNCHANGED <<walletVars, registerVars, records, scoreVars, env>>

PaymentStep(f) ==
  \/ DuesStarted(f) \/ DuesPaid(f) \/ DuesPaidSilently(f)
  \/ LoanPaidOut(f) \/ LoanRepaid(f) \/ LoanClosedSilently(f)

RecordStep(f) ==
  ProductionLogged(f) \/ ProductionUpdated(f) \/ ProductionDeleted(f) \/ AttendanceRecorded(f)

WalletStep(q) == ProvisionStart(q) \/ CreateAccount(q) \/ ProvisionRecord(q)

ScoreStep(q) ==
  \/ ReadKind(q) \/ Save(q)
  \/ \E f \in Scored : Recalculate(q, f) \/ PostPayment(q, f) \/ RepaymentFinalized(q, f)

MembersNext ==
  \/ PlanChanges \/ UpdateCooperative
  \/ \E q \in Handlers : WalletStep(q) \/ AdmitInsert(q) \/ ScoreStep(q)
  \/ \E f \in Farmers :
       \/ \E q \in Handlers : AdmitCheck(q, f)
       \/ \E s \in {"active", "inactive", "suspended"} : SetStatus(f, s)
  \/ \E f \in Scored : PaymentStep(f) \/ RecordStep(f) \/ YearPasses(f)
  \/ Crash

MembersSpec == MembersInit /\ [][MembersNext]_membersVars

-----------------------------------------------------------------------------
(* Properties *)

\* Between two times the staff clear the wallet, provision_wallet opens at most
\* one account for each request that found none before another recorded one: one
\* when requests do not overlap.  Lost answers and crashes leave accounts nobody
\* refers to.
OneAccount ==
  env \cap {"lost_answer", "crash"} = {} =>
    accounts <= (IF "overlap" \in env THEN Cardinality(Handlers) ELSE 1) * (1 + cleared)

\* While the plan stands and no one is set active again, a cooperative has at
\* most as many active members over its cap as there are requests that looked at
\* the cap before another one inserted: none when requests do not overlap.
WithinCap ==
  env \cap {"lapse", "reactivate"} = {} /\ Capacity > 0 =>
    Cardinality(ActiveMembers) <=
      Capacity + (IF "overlap" \in env THEN Cardinality(Handlers) - 1 ELSE 0)

\* What a member does that can only speak for them: more of the good records of
\* some kind and no fewer of any, and no more of the open ones.
Better(before, after) ==
  /\ after # before
  /\ \A k \in Kinds :
       /\ after[k].good >= before[k].good
       /\ after[k].output >= before[k].output
       /\ after[k].open <= before[k].open
       /\ Rows(after[k]) >= Rows(before[k])

\* Paying a due, repaying a loan, bringing in a harvest or attending a meeting
\* never lowers the score that the formula gives, through all its defaults,
\* bonuses and caps.
GoodDeedsCount ==
  [][\A f \in Scored :
       Better(records[f], records'[f]) => Score(records'[f]) >= Score(records[f])]_membersVars

\* Once nothing is under way for a member, the last score counts every due that
\* was paid and every loan that was repaid, unless a crash took the task away,
\* calculations overlapped, or the payment was settled by a path that calculates
\* nothing.
PaidIsCounted ==
  env \cap {"crash", "overlap", "silent"} = {} /\ "score" \in env =>
    \A f \in Scored :
      tasks[f] = 0 /\ (\A q \in Handlers : at[q] # f) =>
        \A k \in {"dues", "loans"} : counted[f][k].good = records[f][k].good

=============================================================================
