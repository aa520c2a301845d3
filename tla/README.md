# AgroOS verification project

AgroOS is a FastAPI and Postgres backend for farming cooperatives in Ghana:
farmers join, borrow, deliver produce and are paid over mobile money through one
payment provider (Moolre); the cooperative itself pays a subscription. This
directory holds TLA+ models of the parts of `backend/app` in which money and
state meet concurrency, TLC configurations that check them on small instances,
and proofs that TLAPS checks for every instance.

Paths below are relative to `backend/app/` unless they start with `docs/`.

## 1. The system

### How it runs

* Synchronous routes run in a thread pool, `async` ones on one event loop that
  switches at every `await` of the provider. There are several server processes.
  Any two requests can therefore overlap.
* Each request has one SQLAlchemy session (`autoflush=False`, rows expire at
  commit) on Postgres READ COMMITTED. Three consequences shape every model:
  1. A `SELECT ... FOR UPDATE` block, up to its commit, is atomic with respect
     to other such blocks on the row: it is **one action**.
  2. Locking a row **the session already holds does not reload it**. The locks
     are taken, and the check that follows is about the copy loaded earlier,
     unless a commit or `db.expire_all()` came in between.
  3. An UPDATE writes **only the columns that changed against the copy**, so a
     decision taken on a stale row can leave a row nobody decided on.
* The provider client (`services/moolre_service.py:385-401`) tries three times
  and then answers `{"success": False}`: a lost answer looks like a refusal.
  `transfer_status` maps an unknown reference and any error to `pending`. An
  answer with a good status that is no JSON raises instead (line 392), after the
  provider has acted.
* Nothing is resumed after a crash: what a request left half done is found
  again by the operator's reconcile buttons, by webhooks, or not at all. Tasks
  that follow a webhook live in the process's memory.
* A database call inside an `async` handler blocks the event loop of its
  process, and gives up after `lock_timeout` (10 s, `database/db.py:32`).

### Components

| component | state | operations | talks to |
|---|---|---|---|
| Loan payout (`routes/loans.py`, `services/loan_disbursement_service.py`) | `loans.status`, payout rows of `transactions` | approve, reject, cancel, disburse, disbursement status | provider, ledger |
| Settlement (`services/settlement_service.py`, `routes/settlements.py`) | runs, lines, deductions, payout batches and their transactions | calculate, submit, approve, disburse, retry failed, reconcile | provider, sales, loans |
| Subscription (`services/subscription_lifecycle.py`, `services/subscription_service.py`) | plan, status and expiry columns of `cooperatives`, `upgrade_intents` | checkout, payment webhook, renew, cancel, resume, downgrade, lazy reconcile | webhooks, entitlements |
| Market (`routes/intake.py`, `aggregation.py`, `sales.py`) | intakes, batches, sales, buyer receipts | record and accept deliveries, batch, close, sell, verify funds | settlement |
| Loan repayment (`services/loan_repayment_service.py`, `customer_action_service.py`) | repayment transactions, their prompts and deadlines | start, OTP, finalize, expire, webhook | provider, loans |
| Dues (`services/dues_service.py`, `customer_action_service.py`) | dues transactions, their prompts and deadlines | collect, send the code, expire, ask again | provider, ledger, phone menu |
| USSD (`services/ussd_application.py`, adapters) | `ussd_sessions`: one stored state per session and phone | the menu, the hook gateway's calls | dues, repayments, loan requests, messages |
| Loan requests (`services/loan_request_service.py`) | new loans | request from the phone | subscription, trust score |
| Ledger and webhooks (`routes/webhooks.py`, `routes/transactions.py`, `services/payment_service.py`) | `transactions`, webhook events, tasks in memory | payment event, reconcile one transaction | all payment flows |
| Payroll (`routes/payroll.py`), workers and attendance | workers, shifts, wage payouts | hire, log, approve, disburse | provider, entitlements |
| Communications, announcements, reminder job | SMS counters, logs, `loan_reminders` | broadcast, remind, announce | SMS provider, entitlements |
| Staff and sessions (`services/auth_service.py`, `routes/auth.py`), organizations | users, refresh tokens, checkouts, organizations | sign up, add, invite, change, log in, exchange, log out, switch | all |
| Members (`routes/farmers.py`, `production.py`, `cooperatives.py`), trust score | memberships, wallet, production cycles, scores | admit, update, record, provision, score | provider, entitlements, webhooks |
| Entitlements (`services/entitlements.py`) | none of its own | caps and quotas | subscription |
| Tasks, reports, rate limiter, agro-AI, frontend | little or none | | |

### What is hard in it

* **Overlap.** Two disburse requests for one loan; a cancellation while a payout
  looks up its wallet; an operator reconciling a batch that another request is
  still sending; two administrators demoting each other; a phone session whose
  next key arrives while the last one is still at the provider.
* **Stale reads.** A row that is locked after it was loaded; a session state
  written back after an await; a list of recipients read before the first of
  many messages; a refresh token read before it is revoked.
* **The provider.** A transfer accepted whose answer never comes back; a status
  that is late; a webhook that comes twice, or before the request that caused it
  has finished; a settled amount that differs.
* **Crashes** between the committed attempt row and its transfer, in the middle
  of a batch, between a message and its log, between a webhook and its task, or
  between the end of a run and the settlement of its sale.
* **Time.** Subscriptions are reconciled lazily by whichever request looks at
  them, and that reconciliation **commits**: it gives back every lock the
  request holds.

### What makes each component correct

* Money out (loan payouts, settlements, wages): nobody is paid twice for one
  thing; nothing is called paid that the provider did not pay; no money moves
  without a committed row; what was sent is settled in the end, where the status
  call asks for it as the provider knows it.
* Money in (dues, repayments): no prompt without a row; a payment is final when
  it is said to be; a second prompt goes out only when the first was given up;
  a fee is taken once.
* Settlement and market: one active run per sale, each line paid at most once; a
  settlement exists only for a fully verified price and divides it exactly; no
  more is sold than there is.
* Subscription: only a payment, once, lengthens the period; no paid day is lost
  by renewing early; no access beyond what was paid for and the grace period.
* Phone: a session acts on its own member's payments; a code is used by one
  request; one loan request waits at a time.
* Staff: a workspace always has an active administrator; a paid checkout opens
  one; sessions of somebody deactivated end; only a replayed token ends the
  others.
* Members and messages: caps and quotas hold; who did not consent is not written
  to; what was sent is logged, from whichever screen; the score counts what was
  paid and a good deed never lowers it.

## 2. Modules

| module | contents |
|---|---|
| `LedgerContract` | what the ledger promises about any payment: the abstract specification |
| `LoanPayout` | one loan up to its payout, any number of concurrent requests |
| `Settlement` | the settlement runs and payouts of one sale |
| `Subscription` | one cooperative's subscription, with time |
| `LoanRepayment` | the repayment attempts of one loan |
| `Market`, `SettlementMath` | deliveries, batches, sales, receipts, up to an approved settlement; its arithmetic |
| `Dues`, `Ussd` | dues payments, for any caller; the phone menu, the hook gateway and the staff as callers |
| `Payroll` | workers, shifts, approved periods and their wage payouts |
| `Messaging` | every way a message leaves the system |
| `Access` | accounts, sessions, roles, sign-up and organizations |
| `Members` | the wallet, the register, the records of a member and the score |
| `..._proofs` | inductive invariants and theorems of the module, or the two modules, they are named after |
| `MC...` | symmetry and structured constants of each instance; the rest is in the `.cfg` files |

How they meet:

* `Ussd` EXTENDS `Dues` and composes it with sessions, memberships, consent and
  the lock of loan requests: every action of `Ussd` is an action of `Dues`
  together with what the menu does, or leaves the dues alone.
* `LoanPayout`, `LoanRepayment` and `Dues` each implement `LedgerContract`
  (`KeepsLedger == Ledger!Spec`, an INSTANCE with `LedgerRow` and `LedgerMoney`).
* A loan that `Ussd` has requested is where `LoanPayout` begins; one it has
  disbursed is where `LoanRepayment` begins and what `Settlement` may deduct;
  `Market` ends with the approved run that `Settlement` starts to pay.
  `FarmerRepays`, `MemberRepays`, `PayoutCompletes` and `LoanDecided` are the
  places where one module stands in for another.

Two modules of proofs are about a pair of components that share no variable:
`Market_Payroll_proofs`, because both need the same lemmas about sums, and
`LoanRepayment_Members_proofs`, which only share the place. So that one module
can extend both, the specifications of `Market` and `Members` are called
`MarketSpec` and `MembersSpec` (`MarketInit`, `MembersTypeOK` and so on), and the
requests of `Members` are its `Handlers`.

Definitions whose comment begins with `Mutant:` are plausible bugs, used only to
see that the properties notice them; nothing refers to them.

**Environments.** Most modules have a variable `env`, one of the constant
`Environments` and fixed for a behaviour: the set of events that may happen. An
instance lists the combinations it explores, each with its own state space, and
a property that needs an event to be absent names it, so that what it depends on
can be read off its statement.

### 2.1 LoanPayout

State: `loan` is `loans.status`; `tx[a]` the status of the payout transaction of
attempt `a`, numbered in order of creation, `last` the newest; `prov[a]` what
the provider did with that attempt's transfer. Every request `r` has a program
counter `pc[r]`, the loan status cached in its session `seen[r]` and the attempt
`att[r]` it works on. `lost` is history: the attempts whose answer was lost.
References are fresh random strings per attempt in the code, so an attempt
number is its reference.

| code | actions |
|---|---|
| `approve_loan` (`routes/loans.py`): the first load of the row locks it | `ApproveLoan` |
| `reject_loan`: unlocked check, later write | `RejectRead`, `RejectCommit` |
| `cancel_loan`: check, then lock, stale loan status and fresh payout | `CancelRead`, `CancelCommit` |
| `disburse_loan`: route check, load, wallet lookup, locked check, poll of an open attempt, second locked check, committed attempt, transfer, its answer, status | `DisburseCheck` ... `DisburseConfirm` |
| `reconcile_disbursement` | `ReconcileRead`, `ReconcileLatest`, `ReconcileApply` |
| `apply_disbursement_status` | the operator `ApplyDisbursementStatus` |
| `POST /transactions/{id}/reconcile` | `ReconcileTransaction` |
| provider, farmer, process | `ProviderSettles`, `FarmerRepays`, `RequestDies` |

`LockedLoanStatus(r) == seen[r]` marks the two places where the lock is taken on
a row the session has already loaded. A status poll and its application are one
step: the provider's final answers never change and `pending` changes nothing,
so a poll answered early acts like one answered late.

The row keeps our own reference as the provider's (`provider_transfer_ref`, line
259), and every later poll asks for it with id type "2", which the client's
comment reserves for the provider's ids (`moolre_service.py:505`). Whether the
provider finds it is not in the code, so both are modelled: `StoredStatus` is
what such a poll hears, the real status or, under the fault `unknown_id`,
`pending` for ever. `DisburseConfirm`, the sender's own status call, asks with
the default type. No liveness is claimed of a payout (section 5, row 8).

`LedgerRow` and `LedgerMoney` read the payouts as rows of `LedgerContract`
(2.11), and `KeepsLedger` says that every step is one of its steps.

### 2.2 Settlement

State: `run[r]`, `line[r, m]`, `loan[m]`, `sale` are the status columns; `cut`
the lines with a loan deduction; `batches[r]` the number of disbursement batches;
`tx` and `prov` as above per line and attempt. A request has the run it works on
(`at`), the payouts it still has to visit (`todo`), the one whose answer it holds
(`cur`) and whether it has a batch to roll up (`touched`).

| code | actions |
|---|---|
| `calculate`, `submit_settlement`, `approve_settlement`, each under its lock | `Calculate`, `SubmitSettlement`, `ApproveSettlement` |
| `disburse` and `retry_failed`: a committed batch, then per line the transfer and the locked record of its answer, then `_refresh_rollups` | `DisburseStart`, `DisburseSend`, `DisburseRecord`, `DisburseFinish` |
| `reconcile`: the pending transactions, one poll each, then roll-up | `ReconcileStart`, `ReconcilePoll`, `ReconcileFinish`, `ReconcileNothing` |
| the reconcile route's later transaction that settles the sale | `SettleSale` |
| webhook or ledger reconciliation of a payout's transaction | `LedgerSettles` |

The sum of money in a line is abstracted to what the control depends on: whether
nothing is left to pay (such a line is born `paid`) and whether a loan is
deducted. Two facts the model shows and no document judges: a line born paid
never closes the loan deducted from it, and a run made only of such lines stays
`approved` for ever, because `disburse` finds nothing eligible.

`env`, one of `Environments` and fixed for a behaviour, is the set of events that
may happen: `crash`, `overlap` (two requests on one run), `lost_answer`,
`client_error` (the client raises, the line stays open) and `ledger_only` (a
webhook or `POST /transactions/{id}/reconcile` settles the transaction). What the
provider pays may be another amount (`mispaid`): that is decided once, and every
poll of the line meets the same mismatch and leaves it open. A
property that needs an event to be absent says so, and the instance of a run
says which combinations it explores.

### 2.3 Subscription

State: the clock `now`; the columns `plan`, `status`, `expires` (-1 for NULL);
per payment link whether it is pending or consumed and which plan it sells; per
request its place and the `copy` of the row it has loaded. `Reconciled`,
`EffectivePlan`, `Renewed`, `Cancelled` and `CanCancel` are the functions of
`subscription_lifecycle.py` on a row, unchanged in every comparison with `now`.

| code | actions |
|---|---|
| `activate_from_intent`, under the locks of intent and cooperative | `ActivateFromIntent` |
| the legacy reference path, guarded by the recorded webhook event | `LegacyUpgrade` |
| checkout and renew | `CreateCheckout`, `Renew` |
| any other request: load, `reconcile_and_commit`, reload, operation | `Load`, `Reconcile`, `Reload`, `Cancel`, `Resume`, `Downgrade` |
| provider gives no link, request fails | `Abandon` |

`Write` is the column-wise UPDATE. `stale` is history: a request has written over
a row that changed after it was loaded. What that can lead to is told in section
5; the row properties are stated for rows no stale copy was written over.

### 2.4 LoanRepayment

State: `loan`; per attempt `tx` (status), `action` (`customer_action`), whether
its deadline has `elapsed`, and `col`, the provider's collection, which may be of
an `other` amount (every poll then finds the same mismatch and changes nothing);
`last`;
`loanLock`, the request that holds the loan's row over a poll. A request is a
record: where it is, its attempt, the answer it holds. `why` is history: the
reasons for which the ledger gave an attempt up without the provider's word, or
wrote over it.

| code | actions |
|---|---|
| `start_farmer_loan_repayment`: status check, expiry of old prompts, then under the loan's lock one of: return the open prompt, poll it, retire a row of the old kind, create an attempt | `StartCheck`, `StartExpire`, `StartReturns`, `StartPolls`, `StartRetires`, `StartAfterRetiring`, `StartCreates` |
| `initiate_payment` and the record of its answer | `Initiate`, `RecordStart` |
| `finalize_repayment`: poll and apply under both locks | `Finalize` |
| `resume_loan_repayment_customer_action`: the farmer types the code | `ResumeLoad`, `ResumeExpired`, `ResumeRefused`, `ResumeLock`, `Resend`, `RecordResume` |
| `reconcile_stale_customer_actions` | `StaleRead`, `StaleApply` |
| `expire_customer_actions` from `pending_customer_actions` | `ListPending` |
| payment event, `POST /transactions/{id}/reconcile` | `Webhook`, `ReconcileTransaction` |
| farmer and provider, deadline, process | `FarmerSettles`, `TimePasses`, `RequestDies` |

The faults are crashes, lost answers, and `legacy`: the loan starts with a
pending row from before prompts had an explicit action. `KeepsLedger` is stated
as in 2.1, until a decision on an outdated row has been written (`overwritten`).

### 2.5 Market and SettlementMath

State: the rows of deliveries (`intake`), batches, sales, buyer receipts and the
latest settlement run of each sale, with its `lines`; `done` are the sales one of
whose runs has been paid out. A batch has at most one sale, so a sale and its run
bear the batch's name. Every handler of `routes/intake.py`, `aggregation.py` and
`sales.py` that writes, and the submit and approve handlers of
`settlements.py`, is one action: it locks what it decides on and commits once.
`PayoutCompletes` stands for module `Settlement`, which refines what happens
between approval and completion; `SettleSale` is the reconcile route's second
commit.

`SettlementMath` holds the arithmetic of `calculate`: `_allocate` (round down,
residue to the last member), the weights of the lines (round half up, difference
to the last), the chain of deductions. Amounts are naturals in the smallest unit,
so every `quantize` is an integer division; `Scale` is the number of weight units
a unit price is for (1000 in the code, grams to a kilogram; 3 in the run, so that
prices do round). Totals are sums of functions over finite sets of rows
(`SumFunctionOnSet` of the community modules), here and in `Payroll`, which is
the form the proofs reason about.

### 2.6 Payroll

State: `worker`; the hours of each `shift`; per payout (a worker, a period and
the approval that made it) its status, the hours it pays and its reference
`ref`; at the provider, the references under which it was `sent` and whether it
was `accepted`; who was `told`. A wage is the hours it pays: the rate is left out.

| code | actions |
|---|---|
| `create_worker`: the cap, then the insert | `CreateWorkerCheck`, `CreateWorkerInsert` |
| `update_worker`, `delete_worker` | `UpdateWorker` |
| `log_attendance` | `LogAttendance` |
| `approve_payroll`: the 409, then one row per worker with hours | `ApproveCheck`, `ApproveInsert` |
| `disburse_payroll`: select; per payout the locked, committed claim of a reference, the transfer, the record; the messages | `DisburseSelect` ... `DisburseFinish` |
| the lapse and renewal of the plan, the process | `PlanChanges`, `Crash` |

### 2.7 Messaging

State: who is `active` and gave `consent`; the plan's `status` and whether a
transition is `due`; the counter `used` with the month it counts; the row `lock`;
per process the request its event `loop` is stuck in; the requests with their
list, the count they are about to write and a reset of the window that is not
committed; today's `reminder` rows. `broadcasted`, `unasked`, `unlogged`, `missing`
and `reminded` are history: `unlogged` are the requests whose delivered message
is not in `communication_logs`, `missing` the kinds of message that never will be.

| code | actions |
|---|---|
| `broadcast_sms`: wait for the row, quota, send, log (which commits and thereby frees the row), count | `Broadcast` (`BroadcastWait`, `BroadcastRefused`, `BroadcastToNobody`, `BroadcastSend`), `Answer`, `BroadcastLog`, `BroadcastCount` |
| `send_dues_reminder...`, messages to one member, `create_announcement` | `DuesReminder`, `SendToMember`, `Announce`, `AnnounceTo`, `ListDone` |
| `jobs/send_loan_reminders.py` | `RemindStart`, `RemindTo`, `RemindLog` |
| the phone menu's announcements, sent as SMS without a log (`ussd_application.py:315`, `1316`) | `MenuAnnouncement`, `MenuAnswered` |
| an answer that cannot be read raises before the log; only the reminder job goes on with its list | `AnswerRaises` |
| a lock wait that ends | `LockTimeout` |

A handler of the event loop runs until it awaits the SMS provider; waiting for a
row lock is no await, so it stops its whole process (`loop`). The messages payroll
and task assignments send to workers go to no member and are not in this module.
A message whose answer is lost is sent up to three times by the client; the model
delivers it once, and no property speaks of copies of one message.

### 2.8 Dues and Ussd

`Dues`: per payment its row (`payer`, `status`, `action`, `overdue`), what the
provider made of it (`charge`), whether a task follows its webhook (`tasks`) and
how often a fee was taken (`swept`). A call is a request's place, its payment,
whether it carries a code, and the answer it holds.

| code | actions of `Dues` |
|---|---|
| `run_dues_collect`: the committed row, the call, the locked record | `CollectStart`, `CollectAgain`, `CollectCall`, `CollectRecord`, `Return` |
| `resume_dues_customer_action`: the conditional UPDATE | `ResumeStart` |
| `expire_customer_actions`, `pending_customer_actions` | `Expire`, `PendingList`, `PendingCode` |
| `reconcile_stale_customer_actions` | `StaleStart`, `StaleNext`, `AskProvider`, `StaleApply` |
| `POST /transactions/{id}/reconcile` | `AuditStart`, `AskProvider`, `AuditApply` |
| webhook and its task | `Webhook`, `PostPayment` |

`Ussd` adds what is stored per session and phone (`state`: the step of the
menu, the membership, a payment, a list), the phone and the memberships of a
person (`phoneOf`, `active`), `consent`, the requests a member has `requested`
and the membership's row `lock`. A key that is answered at once is one action
(`Key`); one whose handler waits leaves a `visit` with the state it read, which
the reply writes back whatever the session has become (`WaitingKey`, `Reply`).
Keys of one session come one after the other on one instance and may be repeated
by the gateway on another (`overlap`). `HookCall` is the gateway that keeps its
own menu and names members and payments itself.

### 2.9 Access

State: the rows of users, cooperatives, checkouts and refresh tokens; a request
is the place it is at, who calls, whom or what it is about, and the change asked
for. `founded`, `left` and `exchanged` are history. A handler reads in one
action and writes in a later one; what it holds locked meanwhile (a sign-up its
checkout, a change of a user the cooperative) follows from its place. `Next` is
grouped the same way: a request `Arrives`, or it `Proceeds` to a lock or a commit.

| code | actions |
|---|---|
| `create_pre_checkout`, its webhook, `signup` over the provider's call | `PreCheckout`, `ProcessPreCheckout`, `Signup`, `SignupCommit` |
| `register`, `invite_user`, `accept_invite` | `Register`, `InviteUser`, `AddCommit`, `AcceptInvite`, `AcceptCommit` |
| `update_user` | `UpdateUser`, `UpdateLock`, `UpdateCommit` |
| `login`, `rotate_refresh_token`, `logout` | `Login`, `IssueSession`, `Refresh`, `ExchangeCommit`, `RevokeCommit`, `Logout`, `LogoutAll`, `EndCommit` |
| passwords | `PasswordResetRequest`, `PasswordReset`, `ChangePassword`, `PasswordCommit` |
| organizations | `CreateOrganization`, `OrganizationCommit`, `CreateOrganizationCooperative`, `SwitchActiveCooperative`, `SwitchCommit` |

### 2.10 Members

State: the `wallet`, the `accounts` the provider opened and how often the staff
have `cleared` the wallet; the plan and the
status of each member; `records`, a member's rows of each of the four kinds the
score reads (good, open, with a yield); the `score` and what it was `counted`
from; tasks in memory; the handlers, which read one kind after the other and
whose `Place` is where they are. An environment with admissions and crashes alone
explores an admission cut short between its check and its insert.
`Score` is the formula of `trust_score_service.py` with its weights, defaults,
bonuses and caps, in exact fractions of naturals that are rounded at the end.

| code | actions |
|---|---|
| `provision_wallet`, `create_account` with its retries | `ProvisionStart`, `CreateAccount`, `ProvisionRecord` |
| `update_cooperative`, as far as it writes the wallet: an account the staff enter (`Entered`, or one opened before), or the empty text that clears it | `UpdateCooperative` |
| `create_farmer`, `update_farmer` | `AdmitCheck`, `AdmitInsert`, `SetStatus` |
| what the ledger, production and meetings do to the records | `DuesPaid`, `LoanRepaid`, `ProductionLogged`, `AttendanceRecorded`, ... |
| `calculate_trust_score` and what triggers it | `Recalculate`, `PostPayment`, `RepaymentFinalized`, `ReadKind`, `Save` |

### 2.11 LedgerContract

One `row` and the `money` behind it per payment. A row exists before the provider
is asked; it is called paid only when the money moved; paid is the end of it; a
row that was given up may still turn out to be paid. Several rows may step at
once, because expiry does that. The three modules about payments map their state
to it by `LedgerRow` and `LedgerMoney` and state `KeepsLedger`: the contract's
whole specification as a property.

## 3. Runs

`CHECK_DEADLOCK FALSE` in every run but `access`: a loan, a sale, a bounded clock
or a bounded count really comes to an end, after which nothing has to happen.
Each module's `TypeOK` is proved or was checked along the way; the runs check
what could be wrong otherwise.

| run | instance | shows |
|---|---|---|
| `payout` | 2 requests, 2 attempts, crashes and lost answers; 30 thousand states | one open attempt at a time; at most one live transfer unless an answer was lost; a cancellation looks at the payout; the ledger's contract |
| `settlement_runs` | 2 requests, 2 runs, 2 attempts; crashes, overlap, or everything overlap can meet; 7.5 million | paid is backed by the provider; one live transfer per line unless an answer was lost; without overlap one active run |
| `settlement_lines` | 1 request, 2 members, 2 attempts, fair; requests die, or the client raises; 214 thousand | a payout concludes, or is stranded in one of the ways `Stranded` names |
| `subscription` | 1 request beside payments, 3 links, time to 8; 1.6 million | only the first delivery of a payment lengthens the period; access follows payment; early renewal loses nothing |
| `repayment` | 2 requests, 2 attempts, every fault; 2.7 million | loan and payment close together on collected money; a second live reference only when the ledger gave the first up; the ledger's contract |
| `repayment_live` | 1 request, 2 attempts, every fault, fair; 47 thousand | without a webhook, phone sessions close every attempt the provider has heard of, but for one whose request died and of which another amount was collected |
| `market` | 2 members, 2 batches, 2 receipts, 2 deduction settings; 2.2 million | batches weigh what they hold; settlements are fully funded and divide the price exactly |
| `payroll` | 2 workers, 2 days, periods that overlap, 2 requests; 2.4 million | one reference per payout, committed before its transfer; paid and told only when the provider paid; each hour paid once |
| `messaging` | 2 requests on one process or two, 2 members, 2 months, fair; 159 thousand | quota, consent, daily reminders; the log, but for the phone menu's announcements; every request ends |
| `ussd` | a person with 2 memberships, 2 phones, 2 payments, 2 handlers; 474 thousand | sessions act on their own member's payments; a code is sent by one request; one open loan request; one fee; the ledger's contract |
| `access` | 3 accounts, 2 workspaces, 1 organization, 3 tokens, 2 requests; 753 thousand | an administrator is always left; a checkout opens one workspace; deactivation ends sessions; only a replay revokes |
| `members` | 4 farmers, cap 2, up to 4 records of a kind, 2 requests, 1 clearing of the wallet; 231 thousand | accounts bounded by overlap and clearings, the cap by overlap; good deeds never lower the score; what was paid is counted |

### Bounds and why they are enough

* Two requests are enough for every race of two about one row. Larger instances
  explored once, without error: three attempts of `LoanPayout` (580 thousand
  states) and of `LoanRepayment` (the first 22 million states), three deliveries
  of two members to one batch in `Market` (3.4 million). Every invariant and
  action property of the runs is also proved for all numbers (section 4); the
  bounds matter for liveness and for what TLC explores of the transitions.
* Two attempts give one retry after one failure, which is where a reused or
  forgotten attempt would show.
* Two members in a settlement let one line fail, or be deducted, while the other
  is paid; attempts of different lines share only the run's status. In `Market`
  two members with unequal weights give a share with a residue.
* Period 3, grace 2, trial 2: different from each other, so that taking one for
  another shows, and long enough for an instant strictly inside each of them.
  `MaxTime` 8 reaches the end of two paid periods with grace after the first.
* One legacy link and two plain ones: the same plan renewed twice, or one plan
  replaced by the other, with a legacy payment in between.
* Deadlines of prompts are not counted but elapse at any moment, which includes
  every choice of the time-to-live settings.
* Payroll: a period inside another is the smallest that pays a day twice; one
  worker over the cap shows what the check misses.
* Messaging: quota 3 and 2 members, so that one broadcast fits, two do not, and
  the counter passes the quota only if it is not looked at; loans fall due after
  2 days and are overdue after 3, so each kind of reminder comes up.
* Ussd: one session id that both phones use, as gateways reuse them; two
  memberships, so that a session can be about the wrong one; two payments, so
  that a list has something to choose from.
* Access: three accounts give two administrators and one more; three tokens one
  exchange and one replay beside a second session.
* Settlement's liveness with lost answers was explored once with one attempt and
  every pair of crash, lost answer and raising client (68 thousand states); two
  attempts with lost answers are beyond the time of a run.
* Members: four records pass both bonuses for the number of cycles; one clearing
  lets a second account be opened in sequence, and five accounts are one more
  than two requests and one clearing can open; four farmers exceed the cap of
  two by more than the two requests.

### Fairness

* `WF` on a request's next step: the server finishes what it accepted. A crash
  ends the request instead, and the step is then no longer enabled.
* `WF` on `ProviderSettles` and `FarmerSettles`: a transfer or prompt the
  provider accepted comes to an end there. `WF` on `TimePasses`: deadlines pass.
* `SF` on a reconciliation that gets the final answer, and on starting one: a
  status call may fail any number of times, but an operator, or a farmer who
  keeps dialling, gets through. Nothing in the code polls on its own, so this is
  the assumption under which its reconcile buttons and its lazy reconciliation
  on each phone session are of use. It is assumed only where such a call can get
  the answer. A settlement's reconciliation asks by the provider's own id, or by
  our reference with the type for references (`settlement_service.py:620-627`),
  and a repayment by its reference; a payout's later polls do not, and nothing is
  claimed there. An amount that differs is no transient answer: it is fixed by
  the provider, so `PayoutConcludes` and `OpenAttemptCloses` name the rows it
  leaves open (`Stranded`, `Mismatched`). `OpenAttemptCloses` needs no webhook.
* `Messaging`: `WF` on `Answer` (the provider's call answers or times out), on
  `BroadcastCount` and on a waiting broadcast that could get the row; `SF` on
  `LockTimeout`, which the database does on its own after `lock_timeout`
  (`database/db.py:32`) whoever held the row in the meantime, and on `Resume`,
  because an event loop runs what is ready in order. Without `LockTimeout`
  `EveryRequestEnds` is false: the handler that waits for the row keeps its
  process from the answer that would free it.

## 4. Proofs

Every invariant and every action property of the runs is stated by a theorem,
for all values of the constants. The assumptions are named in the modules that
declare the constants:

* bounds are natural numbers (positive where zero would be an empty range), and
  the faults and environments are among the known ones;
* the value that stands for "none" is no row or request (`Nobody`, `Nothing`,
  `NoBatch`, `NoRequest`, `NoSession`, `NoPayment`, `Server`), and no two farmers
  share their first phone;
* what is counted or summed is finite: users, tokens and requests of `Access`,
  members of `Messaging`, farmers and handlers of `Members`, workers and days of
  `Payroll`, deliveries and receipts of `Market`;
* `Subscription` orders its periods, `Market`'s quantities, amounts and prices are
  positive, `Members` has at least one handler and starts with no more members
  than the cap admits. Its bound on the records of a kind is any number.

### LoanPayout_proofs

`SafetyInvariant`: `SafetyInv` is inductive under every fault. The properties
`OnlyLatestOpen`, `DisbursedMeansPaid` and `RecordedBeforeSent` are not inductive
alone: one needs that rows are numbered without gaps (`AttemptsNumbered`), that a
request holds a recorded attempt (`WorksOnRecorded`) and that an attempt about to
be sent is open, unknown to the provider and held by one sender
(`SenderOwnsAttempt`). `TypeCorrect`, `LatestOpen`, `DisbursedPaid` and
`SentIsRecorded` follow. `GivenUpInvariant` (an attempt given up is dead at the
provider unless its answer was lost) gives `PaidOnce` and `CancelSafe`.
`PayoutKeepsLedger` is the refinement of `LedgerContract`: the initial state
maps to an initial state, and each action is shown, attempt by attempt, to be a
step of the contract or a stutter, from the invariant.

### Subscription_proofs

`TypeCorrect` and `ExtensionPaid` hold for arbitrary overlap. `RowInvariant` adds
which combinations of plan, status and expiry occur and that a request that will
write holds the row as it is, or a row whose due transition has become due since,
as long as no stale copy was written. `AccessSafety` (consistent rows, paid
access, no free access), `NoFreeAccessEver` and `EarlyRenewal` follow.

### Settlement_proofs

Three invariants; the second and the third are each inductive together with the first.

1. `BooksInv` holds in every environment. A batch is committed before its first
   transfer and gets a number no batch had, so what a request is about to send is
   recorded (`WorkRecorded`), unknown to the provider (`UnsentIsAbsent`) and on
   nobody else's list (`OneSender`), and a crash or an overlap cannot separate
   the ledger from the provider: `TypeCorrect`, `SentRecorded`, `PaidBacked`.
2. `SerialInv` holds when each run has one request at a time. Then an open payout
   is the latest of its line and the line says "processing" (`OpenIsLatest`),
   which is what keeps a late answer from being written over a line that is
   already judged: `ActiveRunUnique`, `CompletedPaid`, `PaidKept`.
3. `RetryInv` needs `BooksInv` only and holds under every overlap, when no answer
   is lost: a failed payout is dead at the provider (`FailedIsDead`), what is
   still to be sent is open and in one request's hands (`UnsentIsOpen`,
   `SentOnce`), and a line has at most one payout that is open or completed
   (`OneLive`): `PaidOncePerLine`. Overlap disturbs what lines and runs say, never
   how often a farmer is paid.

The conditions are the properties' own, and needed: TLC breaks `OneActiveRun`,
`CompletedIsPaid` and `PaidStaysPaid` under `overlap` (a reconciliation beside the
sending request) and `LinePaidOnce` under `lost_answer` (a retry of a transfer
that was accepted).

### Ussd_proofs: the dues

The first theorems are about `DuesSpec`, the dues under **any** caller: every action of
`Dues` may be taken for every member and payment at any time its own guard
allows. `DuesInvariant` is inductive: a row is there before its charge
(`RowBeforeCharge`), calls are about rows that are there and hold answers that
stay true (`CallIsKnown`), and only a final payment was followed up
(`FollowedUpIsFinal`), which is why an event that comes again finds a final row
and no second fee is taken: `FeeTakenOnce`. `CallsExclusive` rests on
`CallIsMarked`: the payment of a call at the provider is final or marked
"initiating" or "processing_otp", so the conditional update cannot claim its code
for a second request. `DuesKeepLedger` is the refinement of `LedgerContract`:
`Kept(t)` says what a step may do to one payment, each action is shown to keep
every payment, and a kept payment takes a step of the contract.

### Ussd_proofs: the phone

`UssdInvariant` adds to the invariant of the dues that every state stored for a
session, and every state a waiting handler holds, is `Known`: where a step of the
menu needs a member there is one, and the payments it names are that member's. A
handler that has created a payment holds it until its answer (`VisitKnown`),
which is why writing its state back after the await cannot name somebody else's
payment, whatever the session has become: a payment never changes its payer
(`PayersKept`). `PhoneImplementsDues` is the refinement: with the invariant, each
key, call and reply is an action of `Dues` with a member and a payment that
exist, or leaves the dues alone. Through it `FeeTakenOnce`, `CallsExclusive` and
`DuesKeepLedger` hold of the phone menu's own specification; `SessionsOwnPayments`
follows from the invariant.

`OneRequest` (one open loan request per membership, `OneOpenRequest`) has an
invariant of its own, `RequestsApart`: a handler that asks for a loan holds the
membership's lock, and one that found no request waiting is still right. It is
false where the reconciliation of a subscription gives the lock back, the
exception the property names.

### LoanRepayment_Members_proofs: repayments

`SafetyInvariant`: `SafetyInv` is `TypeOK`, what requests hold (`RequestInv`) and
what the ledger says (`LedgerInv`), again under every fault. The key facts are
`UnsentIsOpen` (until it is sent an attempt is open and "initiating", so neither
expiry nor resumption can touch it), `OneSender`, `FailureIsKnown` (a failure
about to be recorded is the provider's or its answer was lost) and
`RetiredFirst`. The steps are grouped by what they do to the ledger: `MoveOn`,
`Stay`, `Relabelled`, `Failed` and `Completed` are lemmas about the kinds of
writes, and each action is shown to be one of them. `RepaidIsCollected`,
`PromptIsRecorded`, `LatestOpen`, `FailuresAreDead` and `CollectedOnce` are
consequences; `CompletedKept` is the action property. `RepaymentKeepsLedger` is
the refinement of `LedgerContract`; `Stay`, `Relabelled`, `Failed` and
`Completed` are already steps of the contract seen from the model.

### LoanRepayment_Members_proofs: members

`MembersKnown` is the type invariant with what a handler knows at its place: the
member it is about, an account that exists, the kinds it has read; `OneAtATime`
says that one handler is busy where they do not overlap. Three properties are
about numbers that other handlers change between a check and a write, so each of
their invariants counts the handlers that are on their way:

* `OneAccount` from `WalletHeld`: the accounts there are and those still `ToCome`
  are at most one per handler (or one in all, `LoneToCome`) for each time the
  wallet was clear. Without a wallet every handler may still ask that does not
  hold an account already; with one, only those that have asked. Recording an
  account can only take from what is to come, and clearing the wallet adds one
  for each.
* `WithinCap` from `CapHeld`: active members plus handlers about to insert one
  are at most the cap and the handlers but one. The handler that looks at the cap
  is not among those it has to fear.
* `PaidIsCounted` from `CountHeld`: a payment not yet in the score has a task
  waiting, or a calculation that has not read its kind, or one that read it.

`GoodDeedsAreCounted` is arithmetic: the step lemmas say that a good deed changes
one kind's records, and `Score` is shown monotone in them for any number of
records. Percentages are fractions compared crosswise (`AtMost`): a share of good
records grows with the good and shrinks with the open ones (`SharesGrow`), the
first record of a kind replaces a default and must not be worse, bonuses and caps
keep the order (`PercentageIsMonotone`), and so do weighted sums and the rounding
(`WeightedIsMonotone`, `RoundedIsMonotone`).

### Access_proofs

`AccessKnown`: beside the types, accounts are in cooperatives that are open, and a
request names people, tokens and places that exist, whichever step others took
since it read them. The lemmas are about kinds of writes (tokens only, people
only, a person who is added, a workspace that opens), and each commit is shown
to be of some kinds. `ReplayIsOfExchanged` is an action property from it.

* `CheckoutOpensOne`: a sign-up at work holds its checkout's row, so the status
  it has read is still the status there.
* `InactiveSessions`: `SessionsCounted` counts the live sessions of an inactive
  user with the requests that are still to issue him one; together they are fewer
  than the requests, because the request that deactivated him issues none.
* `WorkspaceGoverned`: `AdminKept` is inductive with `Governed`. That another
  administrator was seen under the lock stays true up to the commit
  (`DecidingCounted`) only if the person concerned is in the locked cooperative
  (`DecidingHome`), no other decision on it is under way (`DecidingAlone`), and
  nobody is carried in or out of it by founding an organization (`OrgHome`,
  `FoundingHome`) or by switching (`SwitchingAway`). The last three hold only of
  workspaces that nobody has switched away from, which is the exception
  `AdminKept` states: `switch_active_cooperative` looks at no administrator.

### Messaging_proofs

`TypeCorrect` needs nothing stronger, `DeliveredIsLogged` only that answers are
unreadable in no environment but their own (`Readable`). `ConsentHeld` needs
that whoever is left on the list of an announcement consents, where consent is
not withdrawn meanwhile (`ListsConsent`); `OneReminder` that a reminder was sent
only if its row says so or the run at work is about to write it (`RowFollows`).
`QuotaRespected` is the longest: the row is held from the count to the log
(`RowHeld`), the one process's event loop is kept by whoever waits for the row or
is about to write the count (`LoopHeld`), so between the log, which gives the row
back, and the count nobody else gets in; the total to be written covers what was
counted before and what has been sent (`TotalKnown`); and what was sent this
month is counted or in the total of the broadcast at work (`SentCounted`). With a
second process somebody does get in, which is why `QuotaHeld` is stated for one.

### Market_Payroll_proofs: sums

A sum is a fold over a set, and the induction theorems of the library cannot be
used. Two facts replace them. The fold's recursive function exists because the
sets are finite and is unique (`SumIsUnfolding`, `UnfoldingUnique`), so a sum is
one term plus the sum of the rest (`SumUnfolds` for the fold's own choice,
`SumSplit` for any term). And where a statement about all subsets of a finite set
fails, it fails for a smallest one (`MinimalSubset`, from the well-foundedness of
strict inclusion), whose parts are no counterexamples: that is an induction
without an operator parameter. So are proved that sums are naturals, that the sum
over a disjoint union is the sum of the sums, how a sum changes with one term,
that it is monotone (`SumMonotone`), and that quantities that each fit in a part
of their own fit together in the whole (`DisjointParts`).

### Market_Payroll_proofs: the market

`AllocateExact`: `_allocate` gives naturals that add up to the total, whatever the
weights, as long as one of them counts; the residue of the last share is not
negative because every other share is rounded down. `LineExact` and
`LinesOfSale`: the chain of deductions neither goes below zero nor loses a unit.
`MarketKnown` carries `Exact`: the place of every row in the workflow (`Known`),
batches whose total is the weight of their lot (`TotalsKept`), `FundsCoverSale`
and `LinesExact`; `StockCovered`, `FundsCovered` and `LinesAreExact` follow.
`Calculate` is the one step that writes lines, and every other step leaves a run's
batch, sale and lot alone, because each of them asks for a status that a sale with
a run no longer has.

### Market_Payroll_proofs: payroll

`PayrollKnown`: types, what a request's place says, one busy request where there
is no overlap (`OneBusy`), and approvals of a period numbered without gaps
(`InOrder`), so that an approval writes rows nobody has written.

* `ReferencesStable`: a row has its own reference before the first transfer and
  none of its steps takes it back, and what a request is about to send is that
  reference (`References`). Neither crash nor lost answer nor overlap matters.
* `PaidWasSent`: an answer that says paid stays true while it is written late
  (`Believed`), because the provider takes nothing back.
* `HoursPaidOnce`: no payout is for more hours than its period has
  (`WithinHours`), no two payouts of a worker share a day (`Apart`), and the period
  being approved shares none with one that was (`ApprovesApart`, the 409 seen
  between the check and the insert). With `DisjointParts` the hours of all payouts
  of a worker fit in the hours logged. `HoursGrow` is why later shifts do no harm.

### Only model-checked

Liveness (`PayoutConcludes`, `OpenAttemptCloses`, `EveryRequestEnds`): the
prover does no fairness reasoning. That the transitions are all reachable, and
that each property can be violated by a plausible bug, is also TLC's to show.

Some properties are proved and in no run, because a run's property implies them
or TLC checked them on the way: `DisbursedMeansPaid` and `RecordedBeforeSent` of
`LoanPayout`; `CompletedIsCollected`,
`RecordedBeforePrompted`, `OnlyLatestOpen`, `FailedIsDead` and `CompletedStays`
of `LoanRepayment`; `SentIsRecorded`, `PaidStaysPaid` and `CompletedIsPaid` of
`Settlement`; `ExpiredIsLapsed` and `RowConsistent` of `Subscription`; the
`TypeOK` of these modules.

## 5. Where code and documentation disagree

The models take each of these steps as the code does, and the properties the
runs checks are stated with the exception. For the first nine rows the promise
itself is a definition too, and TLC finds it violated within seconds. These
nine are kept outside the listed runs, whose places go to what must hold;
`tlc -config <config>.cfg <module>` reproduces each of them.

| row | config | module | refuted property |
|---|---|---|---|
| 1 | `LoanPayout_stale_cancel` | `MCLoanPayout` | `CancelledHasNoPayout`: a cancelled loan has an open payout |
| 2 | `Settlement_webhook` | `MCSettlement` | `ProcessingIsOpen`: a line stays in processing without a pending transaction |
| 3 | `Settlement_twice` | `MCSettlement` | `FundsPaidOnce`: two runs of one sale pay the same farmer |
| 4 | `Subscription_stale_expiry` | `MCSubscription` | `ExpiredIsLapsed`: expired while the paid period runs |
| 5 | `LoanRepayment_again` | `MCLoanRepayment` | `AttemptsOnlyOwed`: an attempt for a loan already repaid |
| 6 | `Ussd_failed_fee` | `MCUssd` | `FeeOnlyIfPaid`: the fee is taken for a declined payment |
| 7 | `Ussd_stop_starts` | `MCUssd` | `StopStops`: the key that stops messages turns them on |
| 8 | `LoanPayout_unknown_id` | `MCLoanPayout` | `SentPayoutSettles`: an open payout the provider has paid is never settled by a poll |
| 9 | `Messaging_menu` | `MCMessaging` | `EveryMessageLogged`: an announcement sent from the phone menu is in no log |

The other rows were met while modelling and have no such run.

| the code | what it contradicts |
|---|---|
| `loan_disbursement_service.py:178`: the locked re-read returns the row loaded at 170, so a loan cancelled during the wallet lookup is paid out | the message at 182; `loans.py:314` |
| `payment_service.py:42`: a webhook settles a payout's transaction and leaves its line alone | `docs/moolre-setup.md:166` |
| `routes/settlements.py:299`: the sale is settled after its run is completed; a second run fits in between | "Verified buyer funds no longer cover this settlement", `settlements.py:184` |
| `subscription_lifecycle.py:327`: an expiry decided on an unlocked copy ends a period just paid for | `docs/billing.md:26` |
| `loan_repayment_service.py:126`: the loan is locked and its status not looked at again; a start that waited prompts for a loan already repaid | "Cannot repay loan in ... state", line 118 |
| `webhooks.py:177`: the task that thanks the payer and takes the fee also follows the news of a failure | "after a successful payment webhook", `webhooks.py:251` |
| `ussd_application.py:445`: the key 1 turns the stored consent the other way, not to what the screen offered | "1. Stop SMS alerts", line 54 |
| `loan_disbursement_service.py:259`: the row keeps our own reference, and later polls (147-151, 201-205, `transactions.py:249-254`) ask for it with id type "2"; an unknown id is answered as pending, and a payout left open after its sender's status call is then neither settled nor retried | "Reconcile it before retrying", `loan_disbursement_service.py:243`; the id types at `moolre_service.py:505` |
| `ussd_application.py:315` and `1316`: the menu sends its announcements by SMS and writes no log | "persists all outbound messages", `communications_service.py:4` |
| `announcements.py:60`: consent is read once for the whole list | "Every outbound SMS path checks `sms_consent`", `models.py:342` |
| `payment_service.py:56`: calls `TrustScoreService.recalculate_for_farmer`, which does not exist; the error is logged. Only the webhook's task computes a score, a crash loses it, and payments confirmed by polling compute none | `backend/README.md:330`, `docs/scoring-systems.md:45` |
| `loan_request_service.py:66`: `reconcile_and_commit` gives back the lock taken at 46 when a date has passed | "Serialize requests for the same membership before checking", line 46 |
| `auth_service.py:77`: a refresh token is read without a lock, so two exchanges at a time both succeed | "Each token is single-use", `models.py:179` |

Further observations, seen in the models and reproducible by removing the
exception each property names:

* An answer lost after three tries is recorded as a failure by all money flows
  (`loan_disbursement_service.py:277`, `settlement_service.py:532`,
  `loan_repayment_service.py:200`, `dues_service.py:161`); the next attempt moves
  money a second time. A payment given up and confirmed later is a "duplicate" to
  the webhook; only the staff's reconciliation takes it from failed to completed.
* A crash between a committed attempt and its transfer leaves a payout that can
  be neither settled nor retried, and a repayment whose "initiating" deadline
  every poll renews.
* A crash after the last record of a batch and before its roll-up leaves the run
  in processing for ever: nothing is pending, so a reconciliation has nothing to
  do and a retry is refused. A line the client raised about before the provider
  heard of it (`settlement_service.py:507`), and one paid with another amount
  (`settlement_service.py:643`), keep their run there too.
* A repayment whose request died and of which another amount was collected stays
  open: each poll finds the mismatch and renews the deadline
  (`customer_action_service.py:93-106`, `loan_repayment_service.py:80-85`).
* An unreadable answer raises between a message and its log
  (`moolre_service.py:392`); a broadcast cut short like that is not counted.
* An empty text in `PUT /cooperatives/{id}` clears the wallet, after which another
  account may be provisioned; the first stays open at the provider.
* `reject_loan` checks without a lock, so a rejection can overwrite an approval.
  A payout that is found completed sets the loan to disbursed from an outdated
  copy, even when it has been repaid (`loan_disbursement_service.py:125`).
* A transfer's late answer is written over a reconciliation that has already paid
  the line (`settlement_service.py:529`); in payroll the answer is written over
  any status.
* A stale end of trial can leave a paid plan without an end
  (`subscription_lifecycle.py:274` writes only the changed columns).
* `ResumeExpired`: a copy with an outdated deadline fails a repayment that has
  been completed since (`loan_repayment_service.py:267`).
* Two starts that retire the same old row both create an attempt.
* A line born paid never closes the loan deducted from it; two draft runs can
  deduct one loan. The weight of the last line can become negative when many
  shares round up.
* Payout references keep ids modulo 10000 (`settlement_service.py:459`); an
  upgrade reference of an unknown intent takes the legacy path although its
  docstring says new links never do.
* A key that the gateway repeats while `pay_amount` awaits the provider starts a
  second collection under a new reference.
* `approve_payroll` looks for the very same period only, and its check and insert
  are apart; setting a worker or member active again looks at no cap.
* A broadcast awaits the SMS provider while it holds the cooperative's row; the
  log's commit gives the row back before the count is written.
* `create_account` carries no reference and is retried, so lost answers open
  several accounts; `provision_wallet` does not look again after its await.
* An invited administrator who never accepted counts as active; of two
  administrators who found an organization at once, the first keeps one without
  its cooperative (`organizations.py:179`); switching away can leave a
  cooperative without an administrator (`organizations.py:295`); an exchange
  under way when a password changes outlives "Other devices holding refresh
  tokens must sign in again".
* `schemas.py:374` gives a planted, unharvested cycle its planting date as
  production date, so that it counts as complete in the score. Of two overlapping
  calculations the older can be written last.
* A status code of a payment event other than 1 is read as a failure
  (`payment_normalization.py:35`).

## 6. Not modelled

* Listing, searching, reports, formatting and the text of messages; profile
  edits; the buyer directory and the uniqueness of batch codes and receipt
  references; migrations, seeds and configuration.
* The provider client's HTTP, signatures and retries as such: what they amount
  to, an answer, a refusal or a lost answer, is in every module that calls it.
* `collect_dues` and the payment-link route of `routes/transactions.py`, which
  refuse everybody outside of tests ("unreachable by policy"), and the status
  PATCH, which production answers with 404.
* Tasks and assignments: single-row writes no other part reads. Their SMS are
  sent one by one after the commit, without a record of who was told.
* The rate limiter: a sliding window in the memory of each process.
* The trained model of agro-AI: numeric code over read-only data.
* The frontend and the earlier Supabase schema, which hold no state the server
  relies on.
* Roles and permissions beyond administrator and staff, the plan's table of
  features, e-mail and the format of tokens.

`PROJECT.json` names the reason for each component.

## 7. Plan

Done: all modules of section 2, and a theorem for every safety property of the
runs. Next, most important first:

1. `Settlement` as an implementation of `LedgerContract`: its rows are per line
   and attempt, and a late answer written over a reconciliation is the exception
   to state.
2. Organizations whose plan member cooperatives inherit, as part of
   `Subscription`.
3. The rate limiter, and the messages of task assignments.
