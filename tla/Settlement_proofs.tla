-------------------------- MODULE Settlement_proofs --------------------------
(***************************************************************************)
(* Proofs about Settlement, for any numbers of requests, members, runs and *)
(* attempts.                                                               *)
(*                                                                         *)
(* BooksInv holds whatever happens: a payout about to be sent is recorded, *)
(* unknown to the provider and held by one request, so neither a crash nor *)
(* an overlap separates the ledger from the provider.  SerialInv holds     *)
(* when each run has one request at a time: then a line with an open       *)
(* payout is "processing", a retry finds nothing open, and runs, lines and *)
(* payouts move together.  RetryInv holds when no answer is lost: then a   *)
(* failed payout is dead at the provider and can be sent again.            *)
(***************************************************************************)
EXTENDS Settlement, TLAPS

Sending(q) == pc[q] \in {"disburse", "accepted", "refused"}
Holds(q) == pc[q] \in {"accepted", "refused"}

\* Attempts beyond the last batch do not exist yet.
Unborn == \A p \in Payouts : p[3] > batches[p[1]] => tx[p] = "none" /\ prov[p] = "absent"

\* What a request will visit, or has sent, is recorded.
WorkRecorded ==
  \A q \in Requests :
    /\ \A p \in todo[q] : tx[p] # "none"
    /\ Holds(q) => cur[q] \in Payouts /\ tx[cur[q]] # "none"

\* What a request will send is unknown to the provider, and nobody else sends it.
UnsentIsAbsent == \A q \in Requests : Sending(q) => \A p \in todo[q] : prov[p] = "absent"

OneSender ==
  \A q, s \in Requests :
    Sending(q) /\ Sending(s) /\ q # s => todo[q] \cap todo[s] = {}

Uncalculated == \A r \in Runs : run[r] = "none" => batches[r] = 0

BooksInv ==
  /\ TypeOK
  /\ Uncalculated
  /\ Unborn
  /\ WorkRecorded
  /\ UnsentIsAbsent
  /\ OneSender
  /\ SentIsRecorded
  /\ PaidIsBacked

-----------------------------------------------------------------------------
(* Without overlap *)

\* A run has at most one request, which visits payouts of that run only.
Exclusive ==
  /\ \A q \in Requests : pc[q] = "idle" <=> at[q] = 0
  /\ \A q, s \in Requests : at[q] = at[s] /\ at[q] # 0 => q = s
  /\ \A q \in Requests : \A p \in todo[q] : p[1] = at[q]

\* Only a run whose payout has started has batches and requests.
Started ==
  /\ \A r \in Runs :
       run[r] \in {"none", "draft", "pending_approval", "approved"} => batches[r] = 0
  /\ \A r \in Runs : run[r] = "none" => \A m \in Members : line[r, m] = "none"
  /\ \A q \in Requests : at[q] # 0 => batches[at[q]] > 0

\* A sending request works on the latest batch of a run under way.
SendsLatest ==
  \A q \in Requests :
    Sending(q) =>
      /\ run[at[q]] = "processing"
      /\ \A p \in todo[q] : p[3] = batches[at[q]] /\ line[LineOf(p)] = "processing"
      /\ Holds(q) =>
           /\ cur[q][1] = at[q] /\ cur[q][3] = batches[at[q]] /\ cur[q] \notin todo[q]
           /\ line[LineOf(cur[q])] = "processing"

\* An open payout is the latest of its line, and the line says "processing".
OpenIsLatest ==
  \A p \in Payouts :
    tx[p] = "pending" =>
      /\ line[LineOf(p)] = "processing"
      /\ \A s \in Payouts : LineOf(s) = LineOf(p) /\ tx[s] # "none" => s[3] <= p[3]

CompletedRun == \A r \in Runs : run[r] = "completed" => LineStatuses(r) = {"paid"}

ActiveOnce == \A r, s \in Runs : ActiveRun(r) /\ ActiveRun(s) => r = s

Serial ==
  /\ Exclusive
  /\ Started
  /\ SendsLatest
  /\ OpenIsLatest
  /\ CompletedRun
  /\ ActiveOnce

SerialInv == "overlap" \notin env => Serial

-----------------------------------------------------------------------------
(* Without lost answers *)

\* What one request has sent, nobody else will send or has sent.
SentOnce ==
  \A q, s \in Requests :
    /\ Holds(q) /\ Sending(s) => cur[q] \notin todo[s]
    /\ Holds(q) /\ Holds(s) /\ q # s => cur[q] # cur[s]

\* A failed payout is dead at the provider, one not yet sent is open, and a
\* line has at most one payout that is neither failed nor still to come.
FailedIsDead == \A p \in Payouts : tx[p] = "failed" => prov[p] \in {"absent", "reversed"}

UnsentIsOpen ==
  \A q \in Requests :
    /\ Sending(q) => \A p \in todo[q] : tx[p] = "pending"
    /\ pc[q] = "refused" => tx[cur[q]] = "pending" /\ prov[cur[q]] = "absent"

Live(p) == tx[p] \in {"pending", "completed"}

OneLive ==
  /\ \A p \in Payouts : Live(p) => line[LineOf(p)] \in {"processing", "paid"}
  /\ \A p, s \in Payouts : LineOf(p) = LineOf(s) /\ Live(p) /\ Live(s) => p = s

Retry == SentOnce /\ FailedIsDead /\ UnsentIsOpen /\ OneLive

RetryInv == "lost_answer" \notin env => Retry

-----------------------------------------------------------------------------
(* Payouts and lines are tuples *)

LEMMA PayoutTuple ==
  ASSUME NEW p \in Payouts
  PROVE  /\ p = <<p[1], p[2], p[3]>>
         /\ p[1] \in Runs /\ p[2] \in Members /\ p[3] \in Attempts
         /\ LineOf(p) \in Lines
         /\ LineOf(p)[1] = p[1] /\ LineOf(p)[2] = p[2]
BY DEF Payouts, LineOf, Lines

LEMMA LineTuple ==
  ASSUME NEW l \in Lines
  PROVE  /\ l = <<l[1], l[2]>>
         /\ l[1] \in Runs /\ l[2] \in Members
         /\ \A a \in Attempts : <<l[1], l[2], a>> \in Payouts /\ LineOf(<<l[1], l[2], a>>) = l
BY DEF Payouts, LineOf, Lines

-----------------------------------------------------------------------------
(* BooksInv is inductive *)

LEMMA BooksInit == Init => BooksInv
<1> SUFFICES ASSUME Init PROVE BooksInv
  OBVIOUS
<1> USE BoundsAssumption DEF Init
<1>1. TypeOK
  BY DEF TypeOK, SettlementStatus, LineStatus, TxStatus, LoanStatus, Transfer, Phase
<1>2. Uncalculated /\ Unborn
  BY PayoutTuple DEF Uncalculated, Unborn
<1>3. WorkRecorded /\ UnsentIsAbsent /\ OneSender
  BY DEF WorkRecorded, UnsentIsAbsent, OneSender, Sending, Holds
<1>4. SentIsRecorded
  BY DEF SentIsRecorded
<1>5. PaidIsBacked
  BY LineTuple DEF PaidIsBacked
<1>6. QED
  BY <1>1, <1>2, <1>3, <1>4, <1>5 DEF BooksInv

\* A step that writes runs, the sale, deductions or loans only.
LEMMA BooksPaperwork ==
  ASSUME BooksInv, TypeOK', Uncalculated',
         UNCHANGED <<line, batches, tx, prov, pc, todo, cur>>
  PROVE  BooksInv'
BY DEF BooksInv, TypeOK, Uncalculated, Unborn, WorkRecorded, UnsentIsAbsent, OneSender,
   SentIsRecorded, PaidIsBacked, Sending, Holds

\* A request that ends.
LEMMA BooksDone ==
  ASSUME BooksInv, TypeOK', Uncalculated', NEW q \in Requests, Done(q),
         UNCHANGED <<line, batches, tx, prov>>
  PROVE  BooksInv'
<1> USE DEF Done
<1>1. WorkRecorded'
  BY DEF BooksInv, TypeOK, WorkRecorded, Holds
<1>2. UnsentIsAbsent' /\ OneSender'
  BY DEF BooksInv, TypeOK, UnsentIsAbsent, OneSender, Sending
<1>3. QED
  BY <1>1, <1>2 DEF BooksInv, Unborn, SentIsRecorded, PaidIsBacked

\* A new run's lines may be born paid: none of them has a payout.
LEMMA BackedCalculate ==
  ASSUME PaidIsBacked, UNCHANGED <<tx, prov>>, NEW r \in Runs,
         \A m \in Members, a \in Attempts : tx[r, m, a] = "none",
         NEW zero,
         line' = [l \in Lines |-> IF l[1] # r THEN line[l]
                                  ELSE IF l[2] \in zero THEN "paid" ELSE "pending"]
  PROVE  PaidIsBacked'
<1> SUFFICES ASSUME NEW l \in Lines, line'[l] = "paid",
                    NEW b \in Attempts, tx[l[1], l[2], b] # "none"
             PROVE  \E c \in Attempts : tx[l[1], l[2], c] = "completed"
  BY DEF PaidIsBacked
<1>1. l[1] # r
  <2>1. l[2] \in Members
    BY LineTuple
  <2>2. QED
    BY <2>1
<1>2. line[l] = "paid"
  BY <1>1
<1>3. QED
  BY <1>2 DEF PaidIsBacked

LEMMA BooksCalculate ==
  ASSUME BooksInv, NEW r \in Runs, Calculate(r)
  PROVE  BooksInv'
<1> USE DEF Calculate, requestVars
<1>1. TypeOK'
  <2>1. run' \in [Runs -> SettlementStatus]
    BY DEF BooksInv, TypeOK, SettlementStatus
  <2>2. line' \in [Lines -> LineStatus]
    BY DEF BooksInv, TypeOK, LineStatus
  <2>3. cut' \subseteq Lines
    BY DEF BooksInv, TypeOK, Lines
  <2>4. QED
    BY <2>1, <2>2, <2>3 DEF BooksInv, TypeOK
<1>2. Uncalculated'
  BY DEF BooksInv, TypeOK, Uncalculated
<1>3. WorkRecorded' /\ UnsentIsAbsent' /\ OneSender'
  BY DEF BooksInv, WorkRecorded, UnsentIsAbsent, OneSender, Sending, Holds
<1>4. Unborn' /\ SentIsRecorded'
  BY DEF BooksInv, Unborn, SentIsRecorded
<1>5. \A m \in Members, a \in Attempts : tx[r, m, a] = "none"
  <2> SUFFICES ASSUME NEW m \in Members, NEW a \in Attempts PROVE tx[r, m, a] = "none"
    OBVIOUS
  <2>1. <<r, m, a>> \in Payouts
    BY DEF Payouts
  <2>2. batches[r] = 0 /\ a > 0
    BY DEF BooksInv, Uncalculated, Attempts
  <2>3. QED
    BY <2>1, <2>2 DEF BooksInv, Unborn
<1>6. PaidIsBacked'
  BY <1>5, BackedCalculate DEF BooksInv
<1>7. QED
  BY <1>1, <1>2, <1>3, <1>4, <1>6 DEF BooksInv

LEMMA BooksDisburseStart ==
  ASSUME BooksInv, NEW q \in Requests, NEW r \in Runs, DisburseStart(q, r)
  PROVE  BooksInv'
<1> DEFINE a == batches[r] + 1
           sent == {r} \X Eligible(r) \X {a}
<1>0. /\ Free(q, r) /\ batches[r] < MaxAttempts /\ run[r] \in {"approved", "partially_paid"}
      /\ tx' = [p \in Payouts |-> IF p \in sent THEN "pending" ELSE tx[p]]
      /\ todo' = [todo EXCEPT ![q] = sent]
      /\ line' = [l \in Lines |-> IF l[1] = r /\ l[2] \in Eligible(r) THEN "processing" ELSE line[l]]
      /\ batches' = [batches EXCEPT ![r] = a]
      /\ run' = [run EXCEPT ![r] = "processing"]
      /\ pc' = [pc EXCEPT ![q] = "disburse"]
      /\ at' = [at EXCEPT ![q] = r]
      /\ UNCHANGED <<sale, cut, loan, prov, cur, touched, env>>
  BY DEF DisburseStart
<1>1. batches[r] \in Nat /\ a \in Attempts /\ batches[r] \in 0..MaxAttempts
  BY <1>0, BoundsAssumption DEF BooksInv, TypeOK, Attempts
<1>2. sent \subseteq Payouts /\ \A p \in sent : p[1] = r /\ p[2] \in Eligible(r) /\ p[3] = a
  BY <1>1 DEF Payouts, Eligible
<1>3. \A p \in sent : tx[p] = "none" /\ prov[p] = "absent"
  BY <1>1, <1>2 DEF BooksInv, Unborn
<1> HIDE DEF sent
<1>4. TypeOK'
  <2>1. run' \in [Runs -> SettlementStatus]
    BY <1>0 DEF BooksInv, TypeOK, SettlementStatus
  <2>2. line' \in [Lines -> LineStatus]
    BY <1>0 DEF BooksInv, TypeOK, LineStatus
  <2>3. batches' \in [Runs -> 0..MaxAttempts]
    BY <1>0, <1>1 DEF BooksInv, TypeOK, Attempts
  <2>4. tx' \in [Payouts -> TxStatus]
    BY <1>0 DEF BooksInv, TypeOK, TxStatus
  <2>5. pc' \in [Requests -> Phase] /\ at' \in [Requests -> 0..MaxRuns]
    BY <1>0, BoundsAssumption DEF BooksInv, TypeOK, Phase, Runs
  <2>6. todo' \in [Requests -> SUBSET Payouts]
    BY <1>0, <1>2 DEF BooksInv, TypeOK
  <2>7. QED
    BY <1>0, <2>1, <2>2, <2>3, <2>4, <2>5, <2>6 DEF BooksInv, TypeOK
<1>5. Uncalculated'
  BY <1>0 DEF BooksInv, TypeOK, Uncalculated
<1>6. Unborn'
  <2> SUFFICES ASSUME NEW p \in Payouts, p[3] > batches'[p[1]]
               PROVE  tx'[p] = "none" /\ prov'[p] = "absent"
    BY DEF Unborn
  <2>1. p[1] \in Runs /\ p[3] \in Nat /\ batches[p[1]] \in Nat
    BY PayoutTuple DEF BooksInv, TypeOK, Attempts
  <2>2. p[3] > batches[p[1]] /\ p \notin sent
    BY <2>1, <1>0, <1>1, <1>2 DEF BooksInv, TypeOK
  <2>3. QED
    BY <2>2, <1>0 DEF BooksInv, Unborn
<1>7. WorkRecorded'
  <2>1. \A p \in Payouts : tx[p] # "none" => tx'[p] # "none"
    BY <1>0
  <2>2. \A p \in todo'[q] : tx'[p] # "none"
    BY <1>0, <1>2 DEF BooksInv, TypeOK
  <2>3. QED
    BY <1>0, <2>1, <2>2 DEF BooksInv, TypeOK, WorkRecorded, Holds
<1>8. UnsentIsAbsent'
  BY <1>0, <1>3 DEF BooksInv, TypeOK, UnsentIsAbsent, Sending
<1>9. OneSender'
  <2>1. \A s \in Requests : todo[s] \cap sent = {}
    BY <1>3 DEF BooksInv, WorkRecorded
  <2>2. QED
    BY <1>0, <2>1 DEF BooksInv, TypeOK, OneSender, Sending
<1>10. SentIsRecorded'
  BY <1>0 DEF BooksInv, SentIsRecorded
<1>11. PaidIsBacked'
  <2>1. \A p \in Payouts : tx'[p] = "completed" <=> tx[p] = "completed"
    BY <1>0, <1>3
  <2>2. ASSUME NEW l \in Lines, line'[l] = "paid", NEW b \in Attempts, tx'[l[1], l[2], b] # "none"
        PROVE  \E c \in Attempts : tx'[l[1], l[2], c] = "completed"
    <3>1. line[l] = "paid" /\ ~(l[1] = r /\ l[2] \in Eligible(r))
      BY <2>2, <1>0
    <3>2. <<l[1], l[2], b>> \in Payouts /\ <<l[1], l[2], b>> \notin sent
      BY <3>1, <1>2, LineTuple
    <3>3. tx[l[1], l[2], b] # "none"
      BY <3>2, <2>2, <1>0
    <3>4. PICK c \in Attempts : tx[l[1], l[2], c] = "completed"
      BY <3>1, <3>3 DEF BooksInv, PaidIsBacked
    <3>5. QED
      BY <3>4, <2>1, LineTuple
  <2>3. QED
    BY <2>1, <2>2, <1>0 DEF BooksInv, PaidIsBacked
<1>12. QED
  BY <1>4, <1>5, <1>6, <1>7, <1>8, <1>9, <1>10, <1>11 DEF BooksInv

\* One payout is sent, or not quite; it leaves the request's list.
LEMMA BooksSend ==
  ASSUME BooksInv, NEW q \in Requests, DisburseSend(q)
  PROVE  BooksInv'
<1>1. PICK p \in todo[q] :
        /\ todo' = [todo EXCEPT ![q] = @ \ {p}]
        /\ prov' \in {prov, [prov EXCEPT ![p] = "processing"]}
        /\ \/ /\ cur' = [cur EXCEPT ![q] = p]
              /\ pc' \in {[pc EXCEPT ![q] = "accepted"], [pc EXCEPT ![q] = "refused"]}
           \/ UNCHANGED <<cur, pc>>
  BY DEF DisburseSend
<1>2. pc[q] = "disburse" /\ UNCHANGED <<sale, run, line, cut, loan, batches, tx, at, touched, env>>
  BY DEF DisburseSend, bookVars
<1>3. p \in Payouts /\ tx[p] # "none" /\ prov[p] = "absent"
  BY <1>2 DEF BooksInv, TypeOK, WorkRecorded, UnsentIsAbsent, Sending
<1>4. \A s \in Requests : Sending(s) /\ s # q => p \notin todo[s]
  BY <1>2 DEF BooksInv, OneSender, Sending
<1>5. \A s \in Payouts : s # p => prov'[s] = prov[s]
  BY <1>1, <1>3 DEF BooksInv, TypeOK
<1>6. \A s \in Requests : Sending(s)' <=> Sending(s)
  BY <1>1, <1>2 DEF BooksInv, TypeOK, Sending
<1>7. TypeOK'
  <2>1. prov' \in [Payouts -> Transfer]
    BY <1>1, <1>3 DEF BooksInv, TypeOK, Transfer
  <2>2. todo' \in [Requests -> SUBSET Payouts]
    BY <1>1 DEF BooksInv, TypeOK
  <2>3. cur' \in [Requests -> Payouts \cup {NoPayout}] /\ pc' \in [Requests -> Phase]
    BY <1>1, <1>3 DEF BooksInv, TypeOK, Phase
  <2>4. QED
    BY <1>2, <2>1, <2>2, <2>3 DEF BooksInv, TypeOK
<1>8. Uncalculated'
  BY <1>2 DEF BooksInv, Uncalculated
<1>9. Unborn' /\ SentIsRecorded'
  BY <1>2, <1>3, <1>5 DEF BooksInv, Unborn, SentIsRecorded
<1>10. WorkRecorded'
  BY <1>1, <1>2, <1>3 DEF BooksInv, TypeOK, WorkRecorded, Holds
<1>11. UnsentIsAbsent'
  <2> SUFFICES ASSUME NEW s \in Requests, Sending(s)', NEW b \in todo'[s]
               PROVE  prov'[b] = "absent"
    BY DEF UnsentIsAbsent
  <2>1. Sending(s) /\ b \in todo[s] /\ b # p
    BY <1>1, <1>4, <1>6 DEF BooksInv, TypeOK
  <2>2. b \in Payouts /\ prov[b] = "absent"
    BY <2>1 DEF BooksInv, TypeOK, UnsentIsAbsent
  <2>3. QED
    BY <2>1, <2>2, <1>5
<1>12. OneSender'
  BY <1>1, <1>6 DEF BooksInv, TypeOK, OneSender
<1>13. PaidIsBacked'
  BY <1>2, <1>3, <1>5 DEF BooksInv, PaidIsBacked, TypeOK
<1>14. QED
  BY <1>7, <1>8, <1>9, <1>10, <1>11, <1>12, <1>13 DEF BooksInv

\* A verdict on one payout that is recorded: its transaction becomes t, its
\* line the status v.
LEMMA BackedVerdict ==
  ASSUME TypeOK, PaidIsBacked, UNCHANGED prov, NEW p \in Payouts, tx[p] # "none",
         NEW t \in {"failed", "completed"}, NEW v \in {"failed", "paid"},
         t = "completed" => prov[p] \in {"paid", "mispaid"},
         v = "paid" <=> t = "completed",
         tx' = [tx EXCEPT ![p] = t], line' = [line EXCEPT ![LineOf(p)] = v]
  PROVE  PaidIsBacked'
<1>1. \A s \in Payouts : tx'[s] = "completed" => prov'[s] \in {"paid", "mispaid"}
  BY DEF TypeOK, PaidIsBacked
<1>2. ASSUME NEW l \in Lines, line'[l] = "paid", NEW b \in Attempts, tx'[l[1], l[2], b] # "none"
      PROVE  \E c \in Attempts : tx'[l[1], l[2], c] = "completed"
  <2>1. CASE l = LineOf(p)
    <3>1. v = "paid" /\ t = "completed"
      BY <2>1, <1>2 DEF TypeOK
    <3>2. p = <<l[1], l[2], p[3]>> /\ p[3] \in Attempts
      BY <2>1, PayoutTuple
    <3>3. tx'[p] = "completed"
      BY <3>1 DEF TypeOK
    <3>4. QED
      BY <3>2, <3>3
  <2>2. CASE l # LineOf(p)
    <3>1. line[l] = "paid"
      BY <2>2, <1>2, PayoutTuple DEF TypeOK
    <3>2. \A c \in Attempts : tx'[l[1], l[2], c] = tx[l[1], l[2], c]
      <4> SUFFICES ASSUME NEW c \in Attempts PROVE tx'[l[1], l[2], c] = tx[l[1], l[2], c]
        OBVIOUS
      <4>1. <<l[1], l[2], c>> \in Payouts /\ <<l[1], l[2], c>> # p
        BY <2>2, LineTuple
      <4>2. QED
        BY <4>1 DEF TypeOK
    <3>3. QED
      BY <3>1, <3>2, <1>2 DEF PaidIsBacked
  <2>3. QED
    BY <2>1, <2>2
<1>3. QED
  BY <1>1, <1>2 DEF PaidIsBacked

\* A line that is not paid needs no backing.
LEMMA BackedUnpaid ==
  ASSUME TypeOK, PaidIsBacked, UNCHANGED <<tx, prov>>, NEW l \in Lines, NEW v, v # "paid",
         line' = [line EXCEPT ![l] = v]
  PROVE  PaidIsBacked'
BY DEF TypeOK, PaidIsBacked

LEMMA BooksRecord ==
  ASSUME BooksInv, NEW q \in Requests, DisburseRecord(q)
  PROVE  BooksInv'
<1> DEFINE p == cur[q]
<1>1. /\ pc[q] \in {"accepted", "refused"}
      /\ \/ line' = [line EXCEPT ![LineOf(p)] = "processing"] /\ UNCHANGED tx
         \/ line' = [line EXCEPT ![LineOf(p)] = "failed"] /\ tx' = [tx EXCEPT ![p] = "failed"]
      /\ cur' = [cur EXCEPT ![q] = NoPayout]
      /\ pc' = [pc EXCEPT ![q] = "disburse"]
      /\ UNCHANGED <<sale, run, cut, loan, batches, prov, at, todo, touched, env>>
  BY DEF DisburseRecord
<1>2. p \in Payouts /\ tx[p] # "none"
  BY <1>1 DEF BooksInv, WorkRecorded, Holds
<1>3. LineOf(p) \in Lines
  BY <1>2, PayoutTuple
<1> HIDE DEF p
<1>4. \A s \in Payouts : tx'[s] = "none" <=> tx[s] = "none"
  BY <1>1, <1>2 DEF BooksInv, TypeOK
<1>5. \A s \in Requests : Sending(s)' <=> Sending(s)
  BY <1>1 DEF BooksInv, TypeOK, Sending
<1>6. TypeOK'
  <2>1. tx' \in [Payouts -> TxStatus]
    BY <1>1, <1>2 DEF BooksInv, TypeOK, TxStatus
  <2>2. line' \in [Lines -> LineStatus]
    BY <1>1, <1>3 DEF BooksInv, TypeOK, LineStatus
  <2>3. cur' \in [Requests -> Payouts \cup {NoPayout}] /\ pc' \in [Requests -> Phase]
    BY <1>1 DEF BooksInv, TypeOK, Phase
  <2>4. QED
    BY <1>1, <2>1, <2>2, <2>3 DEF BooksInv, TypeOK
<1>7. Uncalculated'
  BY <1>1 DEF BooksInv, Uncalculated
<1>8. Unborn' /\ SentIsRecorded'
  BY <1>1, <1>4 DEF BooksInv, Unborn, SentIsRecorded
<1>9. WorkRecorded'
  BY <1>1, <1>4 DEF BooksInv, TypeOK, WorkRecorded, Holds
<1>10. UnsentIsAbsent' /\ OneSender'
  BY <1>1, <1>5 DEF BooksInv, UnsentIsAbsent, OneSender
<1>11. PaidIsBacked'
  <2>1. CASE line' = [line EXCEPT ![LineOf(p)] = "processing"] /\ UNCHANGED tx
    BY <2>1, <1>1, <1>3, BackedUnpaid DEF BooksInv
  <2>2. CASE line' = [line EXCEPT ![LineOf(p)] = "failed"] /\ tx' = [tx EXCEPT ![p] = "failed"]
    BY <2>2, <1>1, <1>2, BackedVerdict DEF BooksInv
  <2>3. QED
    BY <2>1, <2>2, <1>1
<1>12. QED
  BY <1>6, <1>7, <1>8, <1>9, <1>10, <1>11 DEF BooksInv

LEMMA BooksPoll ==
  ASSUME BooksInv, NEW q \in Requests, ReconcilePoll(q)
  PROVE  BooksInv'
<1>0. PICK p \in todo[q] :
        /\ todo' = [todo EXCEPT ![q] = @ \ {p}]
        /\ \E answer \in TransferStatus(p) :
             /\ IF tx[p] = "pending" /\ answer \in {"completed", "failed"}
                THEN Adopt(p, answer) ELSE UNCHANGED <<tx, line, loan>>
             /\ touched' = [touched EXCEPT ![q] =
                  touched[q] \/ (tx[p] = "pending" /\ answer # "amount_mismatch")]
  BY DEF ReconcilePoll
<1>1. PICK answer \in TransferStatus(p) :
        /\ IF tx[p] = "pending" /\ answer \in {"completed", "failed"}
           THEN Adopt(p, answer) ELSE UNCHANGED <<tx, line, loan>>
        /\ touched' = [touched EXCEPT ![q] =
             touched[q] \/ (tx[p] = "pending" /\ answer # "amount_mismatch")]
  BY <1>0
<1>2. pc[q] = "reconcile" /\ UNCHANGED <<sale, run, cut, batches, prov, pc, at, cur, env>>
  BY DEF ReconcilePoll
<1>3. p \in Payouts /\ LineOf(p) \in Lines /\ p[2] \in Members /\ tx[p] # "none"
  BY PayoutTuple DEF BooksInv, TypeOK, WorkRecorded
<1>4. answer = "completed" => prov[p] \in {"paid", "mispaid"}
  BY DEF TransferStatus
<1>5. \/ UNCHANGED <<tx, line, loan>>
      \/ /\ answer \in {"completed", "failed"}
         /\ tx' = [tx EXCEPT ![p] = answer]
         /\ line' = [line EXCEPT ![LineOf(p)] = IF answer = "completed" THEN "paid" ELSE "failed"]
         /\ loan' \in {loan, [loan EXCEPT ![p[2]] = "repaid"]}
  BY <1>1 DEF Adopt
<1>6. \A s \in Payouts : tx'[s] = "none" <=> tx[s] = "none"
  BY <1>3, <1>5 DEF BooksInv, TypeOK
<1>7. TypeOK'
  <2>1. tx' \in [Payouts -> TxStatus]
    BY <1>5 DEF BooksInv, TypeOK, TxStatus
  <2>2. line' \in [Lines -> LineStatus]
    BY <1>5 DEF BooksInv, TypeOK, LineStatus
  <2>3. loan' \in [Members -> LoanStatus]
    BY <1>5 DEF BooksInv, TypeOK, LoanStatus
  <2>4. todo' \in [Requests -> SUBSET Payouts]
    BY <1>0 DEF BooksInv, TypeOK
  <2>5. touched' \in [Requests -> BOOLEAN]
    BY <1>1 DEF BooksInv, TypeOK
  <2>6. QED
    BY <1>2, <2>1, <2>2, <2>3, <2>4, <2>5 DEF BooksInv, TypeOK
<1>8. Uncalculated'
  BY <1>2 DEF BooksInv, Uncalculated
<1>9. Unborn' /\ SentIsRecorded'
  BY <1>2, <1>6 DEF BooksInv, Unborn, SentIsRecorded
<1>10. WorkRecorded'
  BY <1>0, <1>2, <1>6 DEF BooksInv, TypeOK, WorkRecorded, Holds
<1>11. UnsentIsAbsent' /\ OneSender'
  BY <1>0, <1>2 DEF BooksInv, TypeOK, UnsentIsAbsent, OneSender, Sending
<1>12. PaidIsBacked'
  <2>1. CASE UNCHANGED <<tx, line>>
    BY <2>1, <1>2 DEF BooksInv, PaidIsBacked
  <2>2. CASE /\ answer \in {"completed", "failed"}
             /\ tx' = [tx EXCEPT ![p] = answer]
             /\ line' = [line EXCEPT ![LineOf(p)] = IF answer = "completed" THEN "paid" ELSE "failed"]
    BY <2>2, <1>2, <1>3, <1>4, BackedVerdict DEF BooksInv
  <2>3. QED
    BY <2>1, <2>2, <1>5
<1>13. QED
  BY <1>7, <1>8, <1>9, <1>10, <1>11, <1>12 DEF BooksInv

LEMMA BooksLedger ==
  ASSUME BooksInv, NEW p \in Payouts, LedgerSettles(p)
  PROVE  BooksInv'
<1>1. /\ UNCHANGED <<sale, run, line, cut, loan, batches, prov, pc, at, todo, cur, touched, env>>
      /\ tx[p] \in {"pending", "failed"}
      /\ \/ tx' = [tx EXCEPT ![p] = "completed"] /\ prov[p] \in {"paid", "mispaid"}
         \/ tx' = [tx EXCEPT ![p] = "failed"]
  BY DEF LedgerSettles, requestVars
<1>2. TypeOK'
  <2>1. tx' \in [Payouts -> TxStatus]
    BY <1>1 DEF BooksInv, TypeOK, TxStatus
  <2>2. QED
    BY <1>1, <2>1 DEF BooksInv, TypeOK
<1>3. \A s \in Payouts : /\ tx'[s] = "none" <=> tx[s] = "none"
                         /\ tx[s] = "completed" => tx'[s] = "completed"
                         /\ tx'[s] = "completed" => prov[s] \in {"paid", "mispaid"}
  BY <1>1 DEF BooksInv, TypeOK, PaidIsBacked
<1>4. Uncalculated' /\ Unborn' /\ SentIsRecorded'
  BY <1>1, <1>3 DEF BooksInv, Uncalculated, Unborn, SentIsRecorded
<1>5. WorkRecorded' /\ UnsentIsAbsent' /\ OneSender'
  BY <1>1, <1>3 DEF BooksInv, TypeOK, WorkRecorded, UnsentIsAbsent, OneSender, Sending, Holds
<1>6. PaidIsBacked'
  <2>1. ASSUME NEW l \in Lines, line[l] = "paid", NEW b \in Attempts, tx'[l[1], l[2], b] # "none"
        PROVE  \E c \in Attempts : tx'[l[1], l[2], c] = "completed"
    <3>1. tx[l[1], l[2], b] # "none"
      BY <2>1, <1>3, LineTuple
    <3>2. PICK c \in Attempts : tx[l[1], l[2], c] = "completed"
      BY <2>1, <3>1 DEF BooksInv, PaidIsBacked
    <3>3. QED
      BY <3>2, <1>3, LineTuple
  <2>2. QED
    BY <2>1, <1>1, <1>3 DEF PaidIsBacked
<1>7. QED
  BY <1>2, <1>4, <1>5, <1>6 DEF BooksInv

\* The provider moves on with a transfer it already has.
LEMMA BooksProvider ==
  ASSUME BooksInv, NEW p \in Payouts, ProviderSettles(p)
  PROVE  BooksInv'
<1>1. /\ UNCHANGED <<sale, run, line, cut, loan, batches, tx, pc, at, todo, cur, touched, env>>
      /\ prov[p] = "processing"
      /\ prov' \in {[prov EXCEPT ![p] = "paid"], [prov EXCEPT ![p] = "mispaid"],
                   [prov EXCEPT ![p] = "reversed"]}
  BY DEF ProviderSettles, bookVars, requestVars
<1>2. prov' \in [Payouts -> Transfer]
  BY <1>1 DEF BooksInv, TypeOK, Transfer
<1>3. \A s \in Payouts : /\ prov'[s] = "absent" <=> prov[s] = "absent"
                         /\ prov[s] \in {"paid", "mispaid"} => prov'[s] \in {"paid", "mispaid"}
  BY <1>1 DEF BooksInv, TypeOK
<1>4. TypeOK' /\ Uncalculated' /\ Unborn' /\ SentIsRecorded' /\ PaidIsBacked'
  BY <1>1, <1>2, <1>3 DEF BooksInv, TypeOK, Uncalculated, Unborn, SentIsRecorded, PaidIsBacked
<1>5. WorkRecorded' /\ UnsentIsAbsent' /\ OneSender'
  BY <1>1, <1>3 DEF BooksInv, TypeOK, WorkRecorded, UnsentIsAbsent, OneSender, Sending, Holds
<1>6. QED
  BY <1>4, <1>5 DEF BooksInv

\* A request that dies may leave one transfer behind it.
LEMMA BooksDies ==
  ASSUME BooksInv, NEW q \in Requests, RequestDies(q)
  PROVE  BooksInv'
<1>1. Done(q) /\ UNCHANGED <<sale, run, line, cut, loan, batches, tx, env>>
  BY DEF RequestDies, bookVars
<1>2. \A s \in Requests : Sending(s)' => Sending(s) /\ s # q
  BY <1>1 DEF BooksInv, TypeOK, Done, Sending
<1>3. \/ prov' = prov
      \/ /\ Sending(q)
         /\ \E p \in todo[q] : prov' = [prov EXCEPT ![p] = "processing"]
  BY DEF RequestDies, Sending
<1>4. TypeOK'
  <2>1. prov' \in [Payouts -> Transfer]
    BY <1>3 DEF BooksInv, TypeOK, Transfer
  <2>2. QED
    BY <1>1, <2>1, BoundsAssumption DEF BooksInv, TypeOK, Done, Phase
<1>5. CASE prov' = prov
  BY <1>1, <1>4, <1>5, BooksDone DEF BooksInv, Uncalculated
<1>6. ASSUME Sending(q), NEW p \in todo[q], prov' = [prov EXCEPT ![p] = "processing"]
      PROVE  BooksInv'
  <2>1. p \in Payouts /\ tx[p] # "none" /\ prov[p] = "absent"
    BY <1>6 DEF BooksInv, TypeOK, WorkRecorded, UnsentIsAbsent
  <2>2. \A s \in Payouts : s # p => prov'[s] = prov[s]
    BY <1>6 DEF BooksInv, TypeOK
  <2>3. \A s \in Requests : Sending(s) /\ s # q => p \notin todo[s]
    BY <1>6 DEF BooksInv, OneSender
  <2>4. \A s \in Requests : s # q => todo'[s] = todo[s] /\ cur'[s] = cur[s] /\ pc'[s] = pc[s]
    BY <1>1 DEF BooksInv, TypeOK, Done
  <2>5. WorkRecorded'
    BY <1>1 DEF BooksInv, TypeOK, WorkRecorded, Holds, Done
  <2>6. UnsentIsAbsent'
    <3> SUFFICES ASSUME NEW s \in Requests, Sending(s)', NEW b \in todo'[s]
                 PROVE  prov'[b] = "absent"
      BY DEF UnsentIsAbsent
    <3>1. Sending(s) /\ b \in todo[s] /\ b # p
      BY <1>2, <2>3, <2>4
    <3>2. b \in Payouts /\ prov[b] = "absent"
      BY <3>1 DEF BooksInv, TypeOK, UnsentIsAbsent
    <3>3. QED
      BY <3>1, <3>2, <2>2
  <2>7. OneSender'
    BY <1>2, <2>4 DEF BooksInv, OneSender
  <2>8. Uncalculated' /\ Unborn' /\ SentIsRecorded' /\ PaidIsBacked'
    BY <1>1, <2>1, <2>2 DEF BooksInv, TypeOK, Uncalculated, Unborn, SentIsRecorded, PaidIsBacked
  <2>9. QED
    BY <1>4, <2>5, <2>6, <2>7, <2>8 DEF BooksInv
<1>7. QED
  BY <1>3, <1>5, <1>6

LEMMA BooksNext == BooksInv /\ [Next]_vars => BooksInv'
<1> SUFFICES ASSUME BooksInv, [Next]_vars PROVE BooksInv'
  OBVIOUS
<1>1. ASSUME NEW r \in Runs,
             SubmitSettlement(r) \/ ApproveSettlement(r) \/ ReconcileNothing(r)
      PROVE  BooksInv'
  <2>1. TypeOK' /\ Uncalculated' /\ UNCHANGED <<line, batches, tx, prov, pc, todo, cur>>
    BY <1>1 DEF SubmitSettlement, ApproveSettlement, ReconcileNothing, requestVars,
       BooksInv, TypeOK, SettlementStatus, Uncalculated
  <2>2. QED
    BY <2>1, BooksPaperwork
<1>2. ASSUME NEW m \in Members, MemberRepays(m) PROVE BooksInv'
  <2>1. TypeOK' /\ Uncalculated' /\ UNCHANGED <<line, batches, tx, prov, pc, todo, cur>>
    BY <1>2 DEF MemberRepays, requestVars, BooksInv, TypeOK, LoanStatus, Uncalculated
  <2>2. QED
    BY <2>1, BooksPaperwork
<1>3. ASSUME NEW q \in Requests, NEW r \in Runs, ReconcileStart(q, r) PROVE BooksInv'
  <2>1. /\ pc' = [pc EXCEPT ![q] = "reconcile"] /\ at' = [at EXCEPT ![q] = r]
        /\ todo' = [todo EXCEPT ![q] = PendingOf(r)]
        /\ UNCHANGED <<sale, run, line, cut, loan, batches, tx, prov, cur, touched, env>>
    BY <1>3 DEF ReconcileStart, bookVars
  <2>2. PendingOf(r) \subseteq Payouts /\ \A p \in PendingOf(r) : tx[p] # "none"
    BY DEF PendingOf
  <2>3. TypeOK'
    BY <2>1, <2>2, BoundsAssumption DEF BooksInv, TypeOK, Phase, Runs
  <2>4. WorkRecorded' /\ UnsentIsAbsent' /\ OneSender'
    BY <2>1, <2>2 DEF BooksInv, TypeOK, WorkRecorded, UnsentIsAbsent, OneSender, Sending, Holds
  <2>5. QED
    BY <2>1, <2>3, <2>4 DEF BooksInv, Uncalculated, Unborn, SentIsRecorded, PaidIsBacked
<1>4. ASSUME NEW q \in Requests, DisburseFinish(q) PROVE BooksInv'
  <2>1. /\ run' = [run EXCEPT ![at[q]] = Rollup(at[q])] /\ Done(q)
        /\ UNCHANGED <<sale, line, cut, loan, batches, tx, prov, env>>
    BY <1>4 DEF DisburseFinish
  <2>2. TypeOK' /\ Uncalculated'
    <3>1. Rollup(at[q]) \in SettlementStatus \ {"none"}
      BY DEF Rollup, SettlementStatus
    <3>2. run' \in [Runs -> SettlementStatus]
      BY <2>1, <3>1 DEF BooksInv, TypeOK
    <3>3. Uncalculated'
      BY <2>1, <3>1 DEF BooksInv, TypeOK, Uncalculated
    <3>4. QED
      BY <2>1, <3>2, <3>3, BoundsAssumption DEF BooksInv, TypeOK, Done, Phase
  <2>3. QED
    BY <2>1, <2>2, BooksDone
<1>5. ASSUME NEW q \in Requests, ReconcileFinish(q) PROVE BooksInv'
  <2>1. /\ run' = [run EXCEPT ![at[q]] = IF touched[q] THEN Rollup(at[q]) ELSE run[at[q]]]
        /\ pc' = [pc EXCEPT ![q] = "settle"] /\ pc[q] = "reconcile"
        /\ UNCHANGED <<sale, line, cut, loan, batches, tx, prov, at, todo, cur, touched, env>>
    BY <1>5 DEF ReconcileFinish
  <2>2. TypeOK' /\ Uncalculated'
    BY <2>1 DEF BooksInv, TypeOK, Phase, Rollup, SettlementStatus, Uncalculated
  <2>3. WorkRecorded' /\ UnsentIsAbsent' /\ OneSender'
    BY <2>1 DEF BooksInv, TypeOK, WorkRecorded, UnsentIsAbsent, OneSender, Sending, Holds
  <2>4. QED
    BY <2>1, <2>2, <2>3 DEF BooksInv, Unborn, SentIsRecorded, PaidIsBacked
<1>6. ASSUME NEW q \in Requests, SettleSale(q) PROVE BooksInv'
  <2>1. /\ sale' \in {"settled", sale} /\ Done(q)
        /\ UNCHANGED <<run, line, cut, loan, batches, tx, prov, env>>
    BY <1>6 DEF SettleSale
  <2>2. TypeOK' /\ Uncalculated'
    BY <2>1, BoundsAssumption DEF BooksInv, TypeOK, Done, Phase, Uncalculated
  <2>3. QED
    BY <2>1, <2>2, BooksDone
<1>7. CASE UNCHANGED vars
  <2>1. TypeOK' /\ Uncalculated' /\ UNCHANGED <<line, batches, tx, prov, pc, todo, cur>>
    BY <1>7 DEF vars, state, BooksInv, TypeOK, Uncalculated
  <2>2. QED
    BY <2>1, BooksPaperwork
<1>8. QED
  BY <1>1, <1>2, <1>3, <1>4, <1>5, <1>6, <1>7, BooksCalculate, BooksDisburseStart, BooksSend,
     BooksRecord, BooksPoll, BooksLedger, BooksProvider, BooksDies DEF Next, RequestStep

\* Whatever dies, overlaps or is lost, what is about to be sent is recorded,
\* unknown to the provider and held by one request.
THEOREM BooksInvariant == Spec => []BooksInv
<1>1. QED
  BY BooksInit, BooksNext, PTL DEF Spec

\* The statuses never leave their enumerations.
THEOREM TypeCorrect == Spec => []TypeOK
<1>1. BooksInv => TypeOK
  BY DEF BooksInv
<1>2. QED
  BY <1>1, BooksInvariant, PTL

\* The provider never holds a transfer of a line without a transaction row:
\* the batch is committed before the first call.
THEOREM SentRecorded == Spec => []SentIsRecorded
<1>1. BooksInv => SentIsRecorded
  BY DEF BooksInv
<1>2. QED
  BY <1>1, BooksInvariant, PTL

\* A line shown as paid by a payout was paid by the provider.
THEOREM PaidBacked == Spec => []PaidIsBacked
<1>1. BooksInv => PaidIsBacked
  BY DEF BooksInv
<1>2. QED
  BY <1>1, BooksInvariant, PTL

-----------------------------------------------------------------------------
(* Serial is preserved when each run has one request at a time *)

\* What BooksInv says about the attempts of a payout that exists.
LEMMA AttemptsBound ==
  ASSUME BooksInv, NEW p \in Payouts, tx[p] # "none"
  PROVE  p[3] <= batches[p[1]] /\ batches[p[1]] > 0 /\ p[3] \in Nat /\ batches[p[1]] \in Nat
<1>1. p[1] \in Runs /\ p[3] \in Attempts
  BY PayoutTuple
<1>2. batches[p[1]] \in Nat /\ p[3] \in Nat /\ p[3] > 0
  BY <1>1, BoundsAssumption DEF BooksInv, TypeOK, Attempts
<1>3. ~(p[3] > batches[p[1]])
  BY DEF BooksInv, Unborn
<1>4. QED
  BY <1>2, <1>3

\* What a request visits belongs to the run it is at.
LEMMA AtRun ==
  ASSUME BooksInv, Serial, NEW q \in Requests, pc[q] # "idle"
  PROVE  /\ at[q] \in Runs
         /\ \A s \in Requests : s # q => at[s] # at[q]
BY BoundsAssumption DEF BooksInv, TypeOK, Serial, Exclusive, Runs

\* Two payouts of one line that are open or the latest are the same.
LEMMA SameAttempt ==
  ASSUME NEW p \in Payouts, NEW s \in Payouts, LineOf(p) = LineOf(s), p[3] = s[3]
  PROVE  p = s
BY PayoutTuple DEF LineOf

LEMMA SerialInit == Init => Serial
<1> SUFFICES ASSUME Init PROVE Serial
  OBVIOUS
<1> USE DEF Init
<1>1. Exclusive
  BY DEF Exclusive
<1>2. Started
  BY LineTuple DEF Started, Lines
<1>3. SendsLatest
  BY DEF SendsLatest, Sending
<1>4. OpenIsLatest
  BY DEF OpenIsLatest
<1>5. CompletedRun /\ ActiveOnce
  BY DEF CompletedRun, ActiveOnce, ActiveRun
<1>6. QED
  BY <1>1, <1>2, <1>3, <1>4, <1>5 DEF Serial

\* A step of one run that touches no request and no payout: its status moves
\* on before its payout, and its lines may be written.
LEMMA SerialEarly ==
  ASSUME BooksInv, Serial, NEW r \in Runs,
         run[r] \in {"none", "draft", "pending_approval"},
         NEW v \in {"draft", "pending_approval", "approved"},
         run' = [run EXCEPT ![r] = v],
         \A l \in Lines : l[1] # r => line'[l] = line[l],
         \A s \in Runs : s # r /\ run[r] = "none" => ~ActiveRun(s),
         UNCHANGED <<batches, tx, pc, at, todo, cur>>
  PROVE  Serial'
<1>1. batches[r] = 0
  BY DEF Serial, Started
<1>2. \A q \in Requests : at[q] # r
  <2> SUFFICES ASSUME NEW q \in Requests, at[q] = r PROVE FALSE
    OBVIOUS
  <2>1. r # 0
    BY BoundsAssumption DEF Runs
  <2>2. batches[at[q]] > 0
    BY <2>1 DEF Serial, Started
  <2>3. QED
    BY <1>1, <2>2
<1>3. \A s \in Runs : run'[s] = IF s = r THEN v ELSE run[s]
  BY DEF BooksInv, TypeOK
<1>4. \A p \in Payouts : tx[p] # "none" => p[1] # r /\ line'[LineOf(p)] = line[LineOf(p)]
  BY <1>1, AttemptsBound, PayoutTuple
<1>5. Exclusive'
  BY DEF Serial, Exclusive
<1>6. Started'
  <2>1. \A s \in Runs, m \in Members : s # r => line'[s, m] = line[s, m]
    BY LineTuple DEF Lines
  <2>2. \A s \in Runs : run'[s] = "none" => s # r /\ run[s] = "none"
    BY <1>3
  <2>3. \A s \in Runs : run'[s] = "none" => \A m \in Members : line'[s, m] = "none"
    <3>1. \A s \in Runs : run[s] = "none" => \A m \in Members : line[s, m] = "none"
      BY DEF Serial, Started
    <3>2. QED
      BY <2>1, <2>2, <3>1, Zenon
  <2>4. \A s \in Runs : run'[s] \in {"none", "draft", "pending_approval", "approved"} =>
                        batches'[s] = 0
    BY <1>1, <1>3 DEF Serial, Started
  <2>5. QED
    BY <2>3, <2>4 DEF Serial, Started
<1>7. SendsLatest'
  <2> SUFFICES ASSUME NEW q \in Requests, Sending(q)
               PROVE  /\ run'[at[q]] = "processing"
                      /\ \A p \in todo[q] : p[3] = batches[at[q]] /\ line'[LineOf(p)] = "processing"
                      /\ Holds(q) =>
                           /\ cur[q][1] = at[q] /\ cur[q][3] = batches[at[q]] /\ cur[q] \notin todo[q]
                           /\ line'[LineOf(cur[q])] = "processing"
    BY DEF SendsLatest, Sending, Holds
  <2>1. at[q] \in Runs
    BY AtRun DEF Sending
  <2>2. run'[at[q]] = "processing"
    BY <2>1, <1>2, <1>3 DEF Serial, SendsLatest
  <2>3. \A p \in todo[q] : line'[LineOf(p)] = line[LineOf(p)]
    BY <1>4 DEF BooksInv, TypeOK, WorkRecorded
  <2>4. Holds(q) => line'[LineOf(cur[q])] = line[LineOf(cur[q])]
    BY <1>4 DEF BooksInv, WorkRecorded
  <2>5. QED
    BY <2>2, <2>3, <2>4 DEF Serial, SendsLatest
<1>8. OpenIsLatest'
  BY <1>4 DEF Serial, OpenIsLatest
<1>9. CompletedRun'
  <2>1. \A s \in Runs, m \in Members : s # r => line'[s, m] = line[s, m]
    BY LineTuple DEF Lines
  <2>2. \A s \in Runs : s # r => LineStatuses(s)' = LineStatuses(s)
    BY <2>1 DEF LineStatuses
  <2>3. QED
    BY <1>3, <2>2 DEF Serial, CompletedRun
<1>10. ActiveOnce'
  BY <1>3 DEF Serial, ActiveOnce, ActiveRun
<1>11. QED
  BY <1>5, <1>6, <1>7, <1>8, <1>9, <1>10 DEF Serial

\* A request that moves on to phase v or ends, and may roll its run up.
LEMMA SerialRollup ==
  ASSUME BooksInv, Serial, NEW q \in Requests, pc[q] # "idle",
         run' \in {run, [run EXCEPT ![at[q]] = Rollup(at[q])]},
         \/ UNCHANGED <<at, todo>> /\ pc' = [pc EXCEPT ![q] = "settle"] /\ pc[q] # "idle"
         \/ /\ at' = [at EXCEPT ![q] = 0] /\ todo' = [todo EXCEPT ![q] = {}]
            /\ pc' = [pc EXCEPT ![q] = "idle"],
         cur' \in {cur, [cur EXCEPT ![q] = NoPayout]},
         UNCHANGED <<line, batches, tx>>
  PROVE  Serial'
<1>1. at[q] \in Runs /\ \A s \in Requests : s # q => at[s] # at[q]
  BY AtRun
<1>2. /\ Rollup(at[q]) \in {"completed", "partially_paid", "processing"}
      /\ Rollup(at[q]) = "completed" <=> LineStatuses(at[q]) = {"paid"}
  BY DEF Rollup
<1>3. \A r \in Runs : r # at[q] => run'[r] = run[r]
  BY DEF BooksInv, TypeOK
<1>4. run'[at[q]] \in {run[at[q]], Rollup(at[q])}
  BY <1>1 DEF BooksInv, TypeOK
<1>5. batches[at[q]] > 0
  <2>1. at[q] # 0
    BY <1>1, BoundsAssumption DEF Runs
  <2>2. QED
    BY <2>1 DEF Serial, Started
<1>6. batches[at[q]] # 0
  BY <1>1, <1>5 DEF BooksInv, TypeOK
<1>7. run[at[q]] \notin {"none", "draft", "pending_approval", "approved"}
  BY <1>1, <1>6 DEF Serial, Started
<1>8. Exclusive'
  BY DEF BooksInv, TypeOK, Serial, Exclusive
<1>9. Started'
  <2>1. run'[at[q]] \notin {"none", "draft", "pending_approval", "approved"}
    BY <1>2, <1>4, <1>7
  <2>2. \A r \in Runs : run'[r] \in {"none", "draft", "pending_approval", "approved"} =>
                        run'[r] = run[r]
    BY <1>3, <2>1
  <2>3. \A s \in Requests : at'[s] # 0 => at'[s] = at[s]
    BY DEF BooksInv, TypeOK
  <2>4. QED
    BY <2>2, <2>3 DEF Serial, Started
<1>10. SendsLatest'
  <2>1. \A s \in Requests : Sending(s)' => Sending(s) /\ s # q
    BY DEF BooksInv, TypeOK, Sending
  <2>2. \A s \in Requests : s # q => /\ at'[s] = at[s] /\ todo'[s] = todo[s] /\ cur'[s] = cur[s]
                                     /\ pc'[s] = pc[s]
    BY DEF BooksInv, TypeOK
  <2>3. \A s \in Requests : Sending(s) /\ s # q => run'[at[s]] = run[at[s]]
    BY <1>1, <1>3, AtRun DEF Sending
  <2>4. QED
    BY <2>1, <2>2, <2>3 DEF Serial, SendsLatest, Holds
<1>11. OpenIsLatest'
  BY DEF Serial, OpenIsLatest
<1>12. CompletedRun'
  <2>1. \A r \in Runs : LineStatuses(r)' = LineStatuses(r)
    BY DEF LineStatuses
  <2>2. QED
    BY <1>1, <1>2, <1>3, <1>4, <2>1 DEF Serial, CompletedRun
<1>13. ActiveOnce'
  <2>1. \A r \in Runs : ActiveRun(r)' => ActiveRun(r)
    BY <1>1, <1>2, <1>3, <1>4, <1>7 DEF Serial, CompletedRun, ActiveRun
  <2>2. QED
    BY <2>1 DEF Serial, ActiveOnce
<1>14. QED
  BY <1>8, <1>9, <1>10, <1>11, <1>12, <1>13 DEF Serial

\* A new batch is the latest one of a run with no other request.
LEMMA SerialDisburseStart ==
  ASSUME BooksInv, BooksInv', Serial, NEW q \in Requests, NEW r \in Runs,
         DisburseStart(q, r), \A s \in Requests : at[s] # r
  PROVE  Serial'
<1> DEFINE a == batches[r] + 1
           sent == {r} \X Eligible(r) \X {a}
<1>0. /\ pc[q] = "idle" /\ batches[r] < MaxAttempts /\ run[r] \in {"approved", "partially_paid"}
      /\ tx' = [p \in Payouts |-> IF p \in sent THEN "pending" ELSE tx[p]]
      /\ todo' = [todo EXCEPT ![q] = sent]
      /\ line' = [l \in Lines |-> IF l[1] = r /\ l[2] \in Eligible(r) THEN "processing" ELSE line[l]]
      /\ batches' = [batches EXCEPT ![r] = a]
      /\ run' = [run EXCEPT ![r] = "processing"]
      /\ pc' = [pc EXCEPT ![q] = "disburse"]
      /\ at' = [at EXCEPT ![q] = r]
      /\ UNCHANGED <<sale, cut, loan, prov, cur, touched, env>>
  BY DEF DisburseStart, Free
<1>1. batches[r] \in Nat /\ a \in Nat /\ a > 0 /\ r # 0
  BY BoundsAssumption DEF BooksInv, TypeOK, Runs
<1>2. sent \subseteq Payouts /\ \A p \in sent : p[1] = r /\ p[2] \in Eligible(r) /\ p[3] = a
  <2>1. a \in Attempts
    BY <1>0, <1>1, BoundsAssumption DEF Attempts
  <2>2. QED
    BY <2>1 DEF Payouts, Eligible
<1>3. \A s \in Runs : /\ s # r => run'[s] = run[s] /\ batches'[s] = batches[s]
                      /\ run'[r] = "processing" /\ batches'[r] = a
  BY <1>0 DEF BooksInv, TypeOK
<1>4. /\ at'[q] = r /\ pc'[q] = "disburse" /\ todo'[q] = sent
      /\ \A s \in Requests : s # q => pc'[s] = pc[s] /\ at'[s] = at[s] /\ todo'[s] = todo[s]
  BY <1>0 DEF BooksInv, TypeOK
<1>5. \A l \in Lines : l[1] # r => line'[l] = line[l]
  BY <1>0
<1>6. \A l \in Lines : line[l] = "processing" => line'[l] = "processing"
  BY <1>0
<1>7. \A p \in sent : line'[LineOf(p)] = "processing"
  BY <1>0, <1>2, PayoutTuple
<1> HIDE DEF sent, a
<1>8. Exclusive'
  <2>1. \A s \in Requests : pc'[s] = "idle" <=> at'[s] = 0
    BY <1>1, <1>4 DEF Serial, Exclusive
  <2>2. \A s, t \in Requests : at'[s] = at'[t] /\ at'[s] # 0 => s = t
    BY <1>4 DEF Serial, Exclusive
  <2>3. \A s \in Requests : \A p \in todo'[s] : p[1] = at'[s]
    BY <1>2, <1>4 DEF Serial, Exclusive
  <2>4. QED
    BY <2>1, <2>2, <2>3 DEF Exclusive
<1>9. Started'
  <2>1. \A s \in Runs : run'[s] \in {"none", "draft", "pending_approval", "approved"} =>
                        batches'[s] = 0
    BY <1>3 DEF Serial, Started
  <2>2. \A s \in Runs : run'[s] = "none" => \A m \in Members : line'[s, m] = "none"
    <3>1. \A s \in Runs : run'[s] = "none" => s # r /\ run[s] = "none"
      BY <1>3
    <3>2. \A s \in Runs, m \in Members : s # r => line'[s, m] = line[s, m]
      BY <1>5, LineTuple DEF Lines
    <3>3. \A s \in Runs : run[s] = "none" => \A m \in Members : line[s, m] = "none"
      BY DEF Serial, Started
    <3>4. QED
      BY <3>1, <3>2, <3>3, Zenon
  <2>3. \A s \in Requests : at'[s] # 0 => batches'[at'[s]] > 0
    <3>1. batches'[at'[q]] > 0
      BY <1>1, <1>3, <1>4
    <3>2. ASSUME NEW s \in Requests, s # q, at[s] # 0 PROVE batches'[at[s]] > 0
      <4>1. at[s] \in Runs /\ at[s] # r
        BY <3>2, BoundsAssumption DEF BooksInv, TypeOK, Runs
      <4>2. QED
        BY <4>1, <3>2, <1>3 DEF Serial, Started
    <3>3. QED
      BY <3>1, <3>2, <1>4
  <2>4. QED
    BY <2>1, <2>2, <2>3 DEF Started
<1>10. SendsLatest'
  <2>1. ASSUME NEW s \in Requests, s # q, Sending(s)
        PROVE  /\ run'[at[s]] = "processing" /\ batches'[at[s]] = batches[at[s]]
               /\ \A p \in todo[s] : line'[LineOf(p)] = line[LineOf(p)]
               /\ Holds(s) => line'[LineOf(cur[s])] = line[LineOf(cur[s])]
    <3>1. at[s] \in Runs /\ at[s] # r
      BY <2>1, AtRun DEF Sending
    <3>2. \A p \in todo[s] : p \in Payouts /\ p[1] = at[s]
      BY DEF BooksInv, TypeOK, Serial, Exclusive
    <3>3. Holds(s) => cur[s] \in Payouts /\ cur[s][1] = at[s]
      BY <2>1 DEF BooksInv, WorkRecorded, Serial, SendsLatest
    <3>4. QED
      BY <2>1, <3>1, <3>2, <3>3, <1>3, <1>5, PayoutTuple DEF Serial, SendsLatest
  <2>2. \A s \in Requests : s # q => (Sending(s)' <=> Sending(s)) /\ (Holds(s)' <=> Holds(s))
    BY <1>4 DEF Sending, Holds
  <2>3. ~Holds(q)'
    BY <1>4 DEF Holds
  <2>4. cur' = cur
    BY <1>0
  <2>5. QED
    BY <2>1, <2>2, <2>3, <2>4, <1>1, <1>2, <1>3, <1>4, <1>7 DEF Serial, SendsLatest
<1>11. OpenIsLatest'
  <2> SUFFICES ASSUME NEW p \in Payouts, tx'[p] = "pending"
               PROVE  /\ line'[LineOf(p)] = "processing"
                      /\ \A s \in Payouts : LineOf(s) = LineOf(p) /\ tx'[s] # "none" => s[3] <= p[3]
    BY DEF OpenIsLatest
  <2>1. CASE p \in sent
    <3>1. p[1] = r /\ p[3] = a /\ line'[LineOf(p)] = "processing"
      BY <2>1, <1>2, <1>7
    <3>2. ASSUME NEW s \in Payouts, LineOf(s) = LineOf(p), tx'[s] # "none" PROVE s[3] <= a
      <4>1. s[1] = r
        BY <3>1, <3>2, PayoutTuple
      <4>2. CASE s \in sent
        BY <4>2, <1>1, <1>2
      <4>3. CASE s \notin sent
        <5>1. s[3] <= batches[r] /\ s[3] \in Nat
          BY <4>1, <4>3, <3>2, <1>0, AttemptsBound
        <5>2. QED
          BY <5>1, <1>1 DEF a
      <4>4. QED
        BY <4>2, <4>3
    <3>3. QED
      BY <3>1, <3>2
  <2>2. CASE p \notin sent
    <3>1. tx[p] = "pending"
      BY <2>2, <1>0
    <3>2. line[LineOf(p)] = "processing" /\ LineOf(p) \in Lines
      BY <3>1, PayoutTuple DEF Serial, OpenIsLatest
    <3>3. ASSUME NEW s \in sent, LineOf(s) = LineOf(p) PROVE FALSE
      <4>1. p[1] = r /\ p[2] \in Eligible(r)
        BY <3>3, <1>2, PayoutTuple
      <4>2. LineOf(p) = <<r, p[2]>>
        BY <4>1 DEF LineOf
      <4>3. QED
        BY <4>1, <4>2, <3>2 DEF Eligible
    <3>4. \A s \in Payouts : LineOf(s) = LineOf(p) => tx'[s] = tx[s]
      BY <3>3, <1>0
    <3>5. QED
      BY <3>1, <3>2, <3>4, <1>6 DEF Serial, OpenIsLatest
  <2>3. QED
    BY <2>1, <2>2
<1>12. CompletedRun'
  <2>1. \A s \in Runs : s # r => LineStatuses(s)' = LineStatuses(s)
    <3>1. \A s \in Runs, m \in Members : s # r => line'[s, m] = line[s, m]
      BY <1>5, LineTuple DEF Lines
    <3>2. QED
      BY <3>1 DEF LineStatuses
  <2>2. QED
    BY <1>3, <2>1 DEF Serial, CompletedRun
<1>13. ActiveOnce'
  BY <1>0, <1>3 DEF Serial, ActiveOnce, ActiveRun
<1>14. QED
  BY <1>8, <1>9, <1>10, <1>11, <1>12, <1>13 DEF Serial

LEMMA SerialSend ==
  ASSUME BooksInv, Serial, NEW q \in Requests, DisburseSend(q)
  PROVE  Serial'
<1>1. PICK p \in todo[q] :
        /\ todo' = [todo EXCEPT ![q] = @ \ {p}]
        /\ \/ /\ cur' = [cur EXCEPT ![q] = p]
              /\ pc' \in {[pc EXCEPT ![q] = "accepted"], [pc EXCEPT ![q] = "refused"]}
           \/ UNCHANGED <<cur, pc>>
  BY DEF DisburseSend
<1>2. pc[q] = "disburse" /\ UNCHANGED <<sale, run, line, cut, loan, batches, tx, at, touched, env>>
  BY DEF DisburseSend, bookVars
<1>3. Exclusive'
  BY <1>1, <1>2 DEF BooksInv, TypeOK, Serial, Exclusive
<1>4. Started' /\ OpenIsLatest' /\ ActiveOnce'
  BY <1>2 DEF Serial, Started, OpenIsLatest, ActiveOnce, ActiveRun
<1>5. CompletedRun'
  <2>1. \A r \in Runs : LineStatuses(r)' = LineStatuses(r)
    BY <1>2 DEF LineStatuses
  <2>2. QED
    BY <1>2, <2>1 DEF Serial, CompletedRun
<1>6. SendsLatest'
  <2>1. \A s \in Requests : Sending(s)' <=> Sending(s)
    BY <1>1, <1>2 DEF BooksInv, TypeOK, Sending
  <2>2. \A s \in Requests :
          /\ todo'[s] \subseteq todo[s]
          /\ s # q => cur'[s] = cur[s] /\ (Holds(s)' <=> Holds(s))
    BY <1>1 DEF BooksInv, TypeOK, Holds
  <2>3. Holds(q)' => cur'[q] = p /\ p \notin todo'[q]
    BY <1>1, <1>2 DEF BooksInv, TypeOK, Holds
  <2>4. p[1] = at[q] /\ p[3] = batches[at[q]] /\ line[LineOf(p)] = "processing"
    BY <1>2 DEF Serial, Exclusive, SendsLatest, Sending
  <2>5. QED
    BY <1>2, <2>1, <2>2, <2>3, <2>4 DEF Serial, SendsLatest
<1>7. QED
  BY <1>3, <1>4, <1>5, <1>6 DEF Serial

LEMMA SameStatuses ==
  ASSUME NEW r \in Runs, \A m \in Members : line'[r, m] = line[r, m]
  PROVE  LineStatuses(r)' = LineStatuses(r)
BY DEF LineStatuses

\* A verdict v on an open line of a run that is not completed.
LEMMA SerialVerdict ==
  ASSUME BooksInv, Serial, NEW q \in Requests, pc[q] # "idle",
         NEW p \in Payouts, p[1] = at[q], tx[p] # "none",
         line[LineOf(p)] = "processing",
         NEW v \in {"failed", "paid"}, line' = [line EXCEPT ![LineOf(p)] = v],
         \A s \in Payouts : /\ tx'[s] = "pending" => tx[s] = "pending" /\ LineOf(s) # LineOf(p)
                            /\ tx'[s] = "none" <=> tx[s] = "none",
         Sending(q) => \A s \in todo[q] : LineOf(s) # LineOf(p),
         ~Holds(q)', Sending(q)' <=> Sending(q),
         \A s \in Requests : todo'[s] \subseteq todo[s],
         \A s \in Requests : s # q => cur'[s] = cur[s] /\ pc'[s] = pc[s],
         pc'[q] # "idle", UNCHANGED <<run, batches, at>>
  PROVE  Serial'
<1>1. LineOf(p) \in Lines /\ LineOf(p)[1] = at[q]
  BY PayoutTuple
<1>2. \A l \in Lines : l # LineOf(p) => line'[l] = line[l]
  BY DEF BooksInv, TypeOK
<1>3. \A s \in Requests : s # q => at[s] # at[q]
  BY AtRun
<1>4. Exclusive'
  BY DEF Serial, Exclusive
<1>5. at[q] \in Runs /\ run[at[q]] \notin {"none", "completed"}
  <2>1. at[q] \in Runs
    BY AtRun
  <2>2. LineOf(p) = <<at[q], p[2]>> /\ p[2] \in Members
    BY PayoutTuple DEF LineOf
  <2>3. "processing" \in LineStatuses(at[q])
    <3>1. line[at[q], p[2]] = "processing"
      BY <2>2
    <3>2. QED
      BY <2>2, <3>1 DEF LineStatuses
  <2>4. run[at[q]] # "none"
    BY <2>1, <2>2 DEF Serial, Started
  <2>5. QED
    BY <2>1, <2>3, <2>4 DEF Serial, CompletedRun
<1>6. \A s \in Runs, m \in Members : s # at[q] => line'[s, m] = line[s, m]
  <2> SUFFICES ASSUME NEW s \in Runs, NEW m \in Members, s # at[q]
               PROVE  line'[s, m] = line[s, m]
    OBVIOUS
  <2>1. <<s, m>> \in Lines /\ <<s, m>> # LineOf(p)
    BY <1>1 DEF Lines
  <2>2. QED
    BY <2>1, <1>2
<1>7. Started'
  <2>1. \A s \in Runs : run[s] = "none" => \A m \in Members : line[s, m] = "none"
    BY DEF Serial, Started
  <2>2. \A s \in Runs : run[s] = "none" => s # at[q]
    BY <1>5
  <2>3. \A s \in Runs : run[s] = "none" => \A m \in Members : line'[s, m] = "none"
    BY <1>6, <2>1, <2>2, Zenon
  <2>4. QED
    BY <2>3 DEF Serial, Started
<1>8. CompletedRun'
  <2>1. ASSUME NEW s \in Runs, s # at[q] PROVE LineStatuses(s)' = LineStatuses(s)
    <3>1. \A m \in Members : line'[s, m] = line[s, m]
      BY <2>1, <1>6
    <3>2. QED
      BY <3>1, SameStatuses
  <2>2. QED
    BY <1>5, <2>1 DEF Serial, CompletedRun
<1>9. ActiveOnce'
  BY DEF Serial, ActiveOnce, ActiveRun
<1>10. OpenIsLatest'
  <2>1. \A s \in Payouts : tx'[s] = "pending" => line'[LineOf(s)] = "processing"
    BY <1>2, PayoutTuple DEF Serial, OpenIsLatest
  <2>2. QED
    BY <2>1 DEF Serial, OpenIsLatest
<1>11. SendsLatest'
  <2>1. \A s \in Requests : Sending(s)' <=> Sending(s)
    BY DEF Sending
  <2>2. ASSUME NEW s \in Requests, Sending(s), NEW b \in todo[s]
        PROVE  line'[LineOf(b)] = "processing"
    <3>1. b \in Payouts /\ b[1] = at[s] /\ line[LineOf(b)] = "processing"
      BY <2>2 DEF BooksInv, TypeOK, Serial, Exclusive, SendsLatest
    <3>2. LineOf(b) # LineOf(p)
      BY <2>2, <3>1, <1>1, <1>3, PayoutTuple
    <3>3. QED
      BY <3>1, <3>2, <1>2, PayoutTuple
  <2>3. ASSUME NEW s \in Requests, s # q, Sending(s), Holds(s)
        PROVE  line'[LineOf(cur[s])] = "processing"
    <3>1. cur[s] \in Payouts /\ cur[s][1] = at[s] /\ line[LineOf(cur[s])] = "processing"
      BY <2>3 DEF BooksInv, WorkRecorded, Serial, SendsLatest
    <3>2. LineOf(cur[s]) # LineOf(p)
      BY <2>3, <3>1, <1>1, <1>3, PayoutTuple
    <3>3. QED
      BY <3>1, <3>2, <1>2, PayoutTuple
  <2>4. \A s \in Requests : s # q => (Holds(s)' <=> Holds(s))
    BY DEF Holds
  <2>5. QED
    BY <2>1, <2>2, <2>3, <2>4 DEF Serial, SendsLatest
<1>12. QED
  BY <1>4, <1>7, <1>8, <1>9, <1>10, <1>11 DEF Serial

\* A step that starts nothing and judges no line.
LEMMA SerialQuiet ==
  ASSUME Serial, UNCHANGED <<run, line, batches, at>>,
         \A p \in Payouts : /\ tx'[p] = "pending" => tx[p] = "pending"
                            /\ tx'[p] = "none" <=> tx[p] = "none",
         \A q \in Requests : /\ todo'[q] \subseteq todo[q]
                             /\ pc'[q] = "idle" <=> pc[q] = "idle"
                             /\ Sending(q)' => Sending(q)
                             /\ Holds(q)' => Holds(q) /\ cur'[q] = cur[q]
  PROVE  Serial'
<1>1. Exclusive'
  BY DEF Serial, Exclusive
<1>2. Started' /\ ActiveOnce' /\ OpenIsLatest'
  BY DEF Serial, Started, ActiveOnce, ActiveRun, OpenIsLatest
<1>3. CompletedRun'
  BY SameStatuses DEF Serial, CompletedRun
<1>4. SendsLatest'
  BY DEF Serial, SendsLatest
<1>5. QED
  BY <1>1, <1>2, <1>3, <1>4 DEF Serial

LEMMA SerialRecord ==
  ASSUME BooksInv, Serial, NEW q \in Requests, DisburseRecord(q)
  PROVE  Serial'
<1> DEFINE p == cur[q]
<1>1. /\ Holds(q)
      /\ \/ line' = [line EXCEPT ![LineOf(p)] = "processing"] /\ UNCHANGED tx
         \/ line' = [line EXCEPT ![LineOf(p)] = "failed"] /\ tx' = [tx EXCEPT ![p] = "failed"]
      /\ cur' = [cur EXCEPT ![q] = NoPayout]
      /\ pc' = [pc EXCEPT ![q] = "disburse"]
      /\ UNCHANGED <<sale, run, cut, loan, batches, prov, at, todo, touched, env>>
  BY DEF DisburseRecord, Holds
<1>2. /\ p \in Payouts /\ LineOf(p) \in Lines /\ tx[p] # "none" /\ p[1] = at[q]
      /\ p[3] = batches[at[q]] /\ p \notin todo[q] /\ line[LineOf(p)] = "processing"
  BY <1>1, PayoutTuple DEF BooksInv, WorkRecorded, Serial, SendsLatest, Sending, Holds
<1>3. Sending(q) /\ Sending(q)' /\ ~Holds(q)' /\ pc[q] # "idle" /\ pc'[q] # "idle"
  BY <1>1 DEF BooksInv, TypeOK, Sending, Holds
<1>4. \A s \in Requests : s # q => cur'[s] = cur[s] /\ pc'[s] = pc[s]
  BY <1>1 DEF BooksInv, TypeOK
<1> HIDE DEF p
<1>5. CASE line' = [line EXCEPT ![LineOf(p)] = "processing"] /\ UNCHANGED tx
  <2>1. line' = line
    BY <1>2, <1>5 DEF BooksInv, TypeOK
  <2>2. \A s \in Requests : /\ todo'[s] \subseteq todo[s]
                            /\ pc'[s] = "idle" <=> pc[s] = "idle"
                            /\ Sending(s)' => Sending(s)
                            /\ Holds(s)' => Holds(s) /\ cur'[s] = cur[s]
    BY <1>1, <1>3, <1>4 DEF Sending, Holds
  <2>3. QED
    BY <2>1, <2>2, <1>1, <1>5, SerialQuiet
<1>6. CASE line' = [line EXCEPT ![LineOf(p)] = "failed"] /\ tx' = [tx EXCEPT ![p] = "failed"]
  <2>1. \A s \in todo[q] : LineOf(s) # LineOf(p)
    <3> SUFFICES ASSUME NEW s \in todo[q], LineOf(s) = LineOf(p) PROVE FALSE
      OBVIOUS
    <3>1. s \in Payouts /\ s[3] = batches[at[q]]
      BY <1>3 DEF BooksInv, TypeOK, Serial, SendsLatest
    <3>2. QED
      BY <3>1, <1>2, SameAttempt
  <2>2. \A s \in Payouts : tx'[s] = "none" <=> tx[s] = "none"
    BY <1>2, <1>6 DEF BooksInv, TypeOK
  <2>3. ASSUME NEW s \in Payouts, tx'[s] = "pending"
        PROVE  tx[s] = "pending" /\ LineOf(s) # LineOf(p)
    <3>1. s # p /\ tx[s] = "pending"
      BY <2>3, <1>2, <1>6 DEF BooksInv, TypeOK
    <3>2. ASSUME LineOf(s) = LineOf(p) PROVE FALSE
      <4>1. p[3] <= s[3]
        BY <3>1, <3>2, <1>2 DEF Serial, OpenIsLatest
      <4>2. s[1] = at[q]
        BY <3>2, <1>2, PayoutTuple
      <4>3. s[3] <= p[3] /\ s[3] \in Nat /\ p[3] \in Nat
        BY <3>1, <4>2, <1>2, AttemptsBound
      <4>4. QED
        BY <4>1, <4>3, <3>1, <3>2, <1>2, SameAttempt
    <3>3. QED
      BY <3>1, <3>2
  <2>4. QED
    BY <2>1, <2>2, <2>3, <1>1, <1>2, <1>3, <1>4, <1>6, SerialVerdict
<1>7. QED
  BY <1>1, <1>5, <1>6 DEF p

LEMMA SerialReconcileStart ==
  ASSUME BooksInv, Serial, NEW q \in Requests, NEW r \in Runs,
         ReconcileStart(q, r), \A s \in Requests : at[s] # r
  PROVE  Serial'
<1>1. /\ pc[q] = "idle" /\ PendingOf(r) # {}
      /\ pc' = [pc EXCEPT ![q] = "reconcile"] /\ at' = [at EXCEPT ![q] = r]
      /\ todo' = [todo EXCEPT ![q] = PendingOf(r)]
      /\ UNCHANGED <<sale, run, line, cut, loan, batches, tx, prov, cur, touched, env>>
  BY DEF ReconcileStart, Free, bookVars
<1>2. batches[r] > 0 /\ r # 0
  <2>1. PICK p \in Payouts : p[1] = r /\ tx[p] = "pending"
    BY <1>1 DEF PendingOf
  <2>2. QED
    BY <2>1, AttemptsBound, BoundsAssumption DEF Runs
<1>3. /\ at'[q] = r /\ pc'[q] = "reconcile" /\ todo'[q] = PendingOf(r)
      /\ \A s \in Requests : s # q => pc'[s] = pc[s] /\ at'[s] = at[s] /\ todo'[s] = todo[s]
  BY <1>1 DEF BooksInv, TypeOK
<1>4. \A p \in PendingOf(r) : p[1] = r
  BY DEF PendingOf
<1>5. Exclusive'
  <2>1. \A s \in Requests : pc'[s] = "idle" <=> at'[s] = 0
    BY <1>2, <1>3 DEF Serial, Exclusive
  <2>2. \A s, t \in Requests : at'[s] = at'[t] /\ at'[s] # 0 => s = t
    BY <1>3 DEF Serial, Exclusive
  <2>3. \A s \in Requests : \A p \in todo'[s] : p[1] = at'[s]
    BY <1>3, <1>4 DEF Serial, Exclusive
  <2>4. QED
    BY <2>1, <2>2, <2>3 DEF Exclusive
<1>6. Started'
  <2>1. \A s \in Requests : at'[s] # 0 => batches[at'[s]] > 0
    BY <1>2, <1>3 DEF Serial, Started
  <2>2. QED
    BY <1>1, <2>1 DEF Serial, Started
<1>7. SendsLatest'
  BY <1>1, <1>3 DEF Serial, SendsLatest, Sending, Holds
<1>8. OpenIsLatest' /\ ActiveOnce'
  BY <1>1 DEF Serial, OpenIsLatest, ActiveOnce, ActiveRun
<1>9. CompletedRun'
  BY <1>1, SameStatuses DEF Serial, CompletedRun
<1>10. QED
  BY <1>5, <1>6, <1>7, <1>8, <1>9 DEF Serial

LEMMA SerialPoll ==
  ASSUME BooksInv, Serial, NEW q \in Requests, ReconcilePoll(q)
  PROVE  Serial'
<1>0. PICK p \in todo[q] :
        /\ todo' = [todo EXCEPT ![q] = @ \ {p}]
        /\ \E answer \in TransferStatus(p) :
             IF tx[p] = "pending" /\ answer \in {"completed", "failed"}
             THEN Adopt(p, answer) ELSE UNCHANGED <<tx, line, loan>>
  BY DEF ReconcilePoll
<1>1. PICK answer \in TransferStatus(p) :
        IF tx[p] = "pending" /\ answer \in {"completed", "failed"}
        THEN Adopt(p, answer) ELSE UNCHANGED <<tx, line, loan>>
  BY <1>0
<1>2. pc[q] = "reconcile" /\ UNCHANGED <<sale, run, cut, batches, prov, pc, at, cur, env>>
  BY DEF ReconcilePoll
<1>3. p \in Payouts /\ LineOf(p) \in Lines /\ tx[p] # "none" /\ p[1] = at[q]
  BY PayoutTuple DEF BooksInv, TypeOK, WorkRecorded, Serial, Exclusive
<1>4. \A s \in Requests : todo'[s] \subseteq todo[s]
  BY <1>0 DEF BooksInv, TypeOK
<1>5. ~Sending(q) /\ ~Holds(q) /\ ~Holds(q)' /\ (Sending(q)' <=> Sending(q)) /\ pc'[q] # "idle"
  BY <1>2 DEF Sending, Holds
<1>6. CASE UNCHANGED <<tx, line, loan>>
  BY <1>2, <1>4, <1>6, SerialQuiet DEF Sending, Holds
<1>7. CASE tx[p] = "pending" /\ answer \in {"completed", "failed"} /\ Adopt(p, answer)
  <2> DEFINE v == IF answer = "completed" THEN "paid" ELSE "failed"
  <2>1. tx' = [tx EXCEPT ![p] = answer] /\ line' = [line EXCEPT ![LineOf(p)] = v]
    BY <1>7 DEF Adopt
  <2>2. v \in {"failed", "paid"}
    OBVIOUS
  <2> HIDE DEF v
  <2>3. line[LineOf(p)] = "processing"
    BY <1>3, <1>7 DEF Serial, OpenIsLatest
  <2>4. \A s \in Payouts : tx'[s] = "none" <=> tx[s] = "none"
    BY <1>3, <1>7, <2>1 DEF BooksInv, TypeOK
  <2>5. ASSUME NEW s \in Payouts, tx'[s] = "pending"
        PROVE  tx[s] = "pending" /\ LineOf(s) # LineOf(p)
    <3>1. s # p /\ tx[s] = "pending"
      BY <2>1, <2>5, <1>3, <1>7 DEF BooksInv, TypeOK
    <3>2. ASSUME LineOf(s) = LineOf(p) PROVE FALSE
      <4>1. p[3] <= s[3] /\ s[3] <= p[3]
        BY <3>1, <3>2, <1>3, <1>7 DEF Serial, OpenIsLatest
      <4>2. s[3] \in Nat /\ p[3] \in Nat
        BY <3>1, <1>3, AttemptsBound
      <4>3. QED
        BY <4>1, <4>2, <3>1, <3>2, <1>3, SameAttempt
    <3>3. QED
      BY <3>1, <3>2
  <2>6. QED
    BY <2>1, <2>2, <2>3, <2>4, <2>5, <1>2, <1>3, <1>4, <1>5, SerialVerdict
<1>8. QED
  BY <1>1, <1>6, <1>7

LEMMA SerialNext ==
  ASSUME BooksInv, BooksInv', Serial, [Next]_vars, "overlap" \notin env
  PROVE  Serial'
<1>1. ASSUME NEW r \in Runs, Calculate(r) PROVE Serial'
  <2>1. /\ run[r] = "none" /\ \A s \in Runs : ~ActiveRun(s)
        /\ run' = [run EXCEPT ![r] = "draft"]
        /\ UNCHANGED <<batches, tx, pc, at, todo, cur>>
    BY <1>1 DEF Calculate, requestVars
  <2>2. \A l \in Lines : l[1] # r => line'[l] = line[l]
    BY <1>1 DEF Calculate
  <2>3. QED
    BY <2>1, <2>2, SerialEarly
<1>2. ASSUME NEW r \in Runs, SubmitSettlement(r) PROVE Serial'
  <2>1. /\ run[r] = "draft" /\ run' = [run EXCEPT ![r] = "pending_approval"]
        /\ UNCHANGED <<line, batches, tx, pc, at, todo, cur>>
    BY <1>2 DEF SubmitSettlement, requestVars
  <2>2. QED
    BY <2>1, SerialEarly
<1>3. ASSUME NEW r \in Runs, ApproveSettlement(r) PROVE Serial'
  <2>1. /\ run[r] = "pending_approval" /\ run' = [run EXCEPT ![r] = "approved"]
        /\ UNCHANGED <<line, batches, tx, pc, at, todo, cur>>
    BY <1>3 DEF ApproveSettlement, requestVars
  <2>2. QED
    BY <2>1, SerialEarly
<1>4. CASE \/ \E r \in Runs : ReconcileNothing(r)
           \/ \E p \in Payouts : ProviderSettles(p)
           \/ \E m \in Members : MemberRepays(m)
           \/ UNCHANGED vars
  <2>1. UNCHANGED <<run, line, batches, tx, pc, at, todo, cur>>
    BY <1>4 DEF ReconcileNothing, ProviderSettles, MemberRepays, bookVars, requestVars, vars, state
  <2>2. QED
    BY <2>1, SerialQuiet DEF Sending, Holds
<1>5. ASSUME NEW p \in Payouts, LedgerSettles(p) PROVE Serial'
  <2>1. UNCHANGED <<run, line, batches, pc, at, todo, cur>>
    BY <1>5 DEF LedgerSettles, requestVars
  <2>2. \A s \in Payouts : /\ tx'[s] = "pending" => tx[s] = "pending"
                           /\ tx'[s] = "none" <=> tx[s] = "none"
    BY <1>5 DEF LedgerSettles, BooksInv, TypeOK
  <2>3. QED
    BY <2>1, <2>2, SerialQuiet DEF Sending, Holds
<1>6. ASSUME NEW q \in Requests, NEW r \in Runs, DisburseStart(q, r) PROVE Serial'
  <2>1. \A s \in Requests : at[s] # r
    BY <1>6 DEF DisburseStart, Free
  <2>2. QED
    BY <2>1, <1>6, SerialDisburseStart
<1>7. ASSUME NEW q \in Requests, NEW r \in Runs, ReconcileStart(q, r) PROVE Serial'
  <2>1. \A s \in Requests : at[s] # r
    BY <1>7 DEF ReconcileStart, Free
  <2>2. QED
    BY <2>1, <1>7, SerialReconcileStart
<1>8. ASSUME NEW q \in Requests, DisburseFinish(q) PROVE Serial'
  <2>1. /\ pc[q] # "idle" /\ run' = [run EXCEPT ![at[q]] = Rollup(at[q])]
        /\ at' = [at EXCEPT ![q] = 0] /\ todo' = [todo EXCEPT ![q] = {}]
        /\ pc' = [pc EXCEPT ![q] = "idle"] /\ cur' = [cur EXCEPT ![q] = NoPayout]
        /\ UNCHANGED <<line, batches, tx>>
    BY <1>8 DEF DisburseFinish, Done
  <2>2. QED
    BY <2>1, SerialRollup
<1>9. ASSUME NEW q \in Requests, ReconcileFinish(q) PROVE Serial'
  <2>1. /\ pc[q] # "idle" /\ pc' = [pc EXCEPT ![q] = "settle"]
        /\ run' = [run EXCEPT ![at[q]] = IF touched[q] THEN Rollup(at[q]) ELSE run[at[q]]]
        /\ UNCHANGED <<line, batches, tx, at, todo, cur>>
    BY <1>9 DEF ReconcileFinish
  <2>2. run' \in {run, [run EXCEPT ![at[q]] = Rollup(at[q])]}
    BY <2>1 DEF BooksInv, TypeOK
  <2>3. QED
    BY <2>1, <2>2, SerialRollup
<1>10. ASSUME NEW q \in Requests, SettleSale(q) \/ RequestDies(q) PROVE Serial'
  <2>1. /\ pc[q] # "idle" /\ run' = run
        /\ at' = [at EXCEPT ![q] = 0] /\ todo' = [todo EXCEPT ![q] = {}]
        /\ pc' = [pc EXCEPT ![q] = "idle"] /\ cur' = [cur EXCEPT ![q] = NoPayout]
        /\ UNCHANGED <<line, batches, tx>>
    BY <1>10 DEF SettleSale, RequestDies, Done, bookVars
  <2>2. QED
    BY <2>1, SerialRollup
<1>11. QED
  BY <1>1, <1>2, <1>3, <1>4, <1>5, <1>6, <1>7, <1>8, <1>9, <1>10, SerialSend, SerialRecord,
     SerialPoll DEF Next, RequestStep

LEMMA EnvKept == [Next]_vars => env' = env
BY DEF Next, RequestStep, vars, state, bookVars, requestVars, Calculate, SubmitSettlement,
   ApproveSettlement, ReconcileNothing, DisburseStart, ReconcileStart, DisburseSend,
   DisburseRecord, DisburseFinish, ReconcilePoll, Adopt, ReconcileFinish, SettleSale,
   RequestDies, LedgerSettles, ProviderSettles, MemberRepays

\* With one request at a time on each run, runs, lines and payouts move together.
THEOREM SerialInvariant == Spec => [](BooksInv /\ SerialInv)
<1>1. Init => BooksInv /\ SerialInv
  BY BooksInit, SerialInit DEF SerialInv
<1>2. BooksInv /\ SerialInv /\ [Next]_vars => (BooksInv /\ SerialInv)'
  BY BooksNext, SerialNext, EnvKept DEF SerialInv
<1>3. QED
  BY <1>1, <1>2, PTL DEF Spec

\* A sale has at most one run under way.
THEOREM ActiveRunUnique == Spec => []OneActiveRun
<1>1. SerialInv => OneActiveRun
  BY DEF SerialInv, Serial, ActiveOnce, OneActiveRun
<1>2. QED
  BY <1>1, SerialInvariant, PTL

\* A completed run has paid all of its lines.
THEOREM CompletedPaid == Spec => []CompletedIsPaid
<1>1. SerialInv => CompletedIsPaid
  BY DEF SerialInv, Serial, CompletedRun, LineStatuses, CompletedIsPaid
<1>2. QED
  BY <1>1, SerialInvariant, PTL

\* A line is judged only while it is "processing".
LEMMA PaidStep ==
  ASSUME BooksInv, SerialInv, [Next]_vars, "overlap" \notin env,
         NEW l \in Lines, line[l] = "paid"
  PROVE  line'[l] = "paid"
<1>0. Serial
  BY DEF SerialInv
<1>1. ASSUME NEW r \in Runs, Calculate(r) PROVE line'[l] = "paid"
  <2>1. run[r] = "none" /\ (l[1] # r => line'[l] = line[l])
    BY <1>1 DEF Calculate
  <2>2. line[l] = line[l[1], l[2]] /\ l[2] \in Members
    BY LineTuple
  <2>3. l[1] # r
    BY <2>1, <2>2, <1>0 DEF Serial, Started
  <2>4. QED
    BY <2>1, <2>3
<1>2. ASSUME NEW q \in Requests, NEW r \in Runs, DisburseStart(q, r) PROVE line'[l] = "paid"
  <2>1. ~(l[1] = r /\ l[2] \in Eligible(r))
    BY LineTuple DEF Eligible
  <2>2. QED
    BY <1>2, <2>1 DEF DisburseStart
<1>3. ASSUME NEW q \in Requests, DisburseRecord(q) PROVE line'[l] = "paid"
  <2>1. line[LineOf(cur[q])] = "processing"
    BY <1>3, <1>0 DEF DisburseRecord, Serial, SendsLatest, Sending, Holds
  <2>2. line' \in {[line EXCEPT ![LineOf(cur[q])] = "processing"],
                   [line EXCEPT ![LineOf(cur[q])] = "failed"]}
    BY <1>3 DEF DisburseRecord
  <2>3. QED
    BY <2>1, <2>2 DEF BooksInv, TypeOK
<1>4. ASSUME NEW q \in Requests, ReconcilePoll(q) PROVE line'[l] = "paid"
  <2>1. PICK p \in todo[q] : line' = line \/ (tx[p] = "pending" /\ \E v : line' = [line EXCEPT ![LineOf(p)] = v])
    BY <1>4 DEF ReconcilePoll, Adopt
  <2>2. p \in Payouts
    BY DEF BooksInv, TypeOK
  <2>3. tx[p] = "pending" => line[LineOf(p)] = "processing"
    BY <2>2, <1>0 DEF Serial, OpenIsLatest
  <2>4. QED
    BY <2>1, <2>3 DEF BooksInv, TypeOK
<1>5. ASSUME NEW q \in Requests, DisburseSend(q) \/ DisburseFinish(q) \/ ReconcileFinish(q)
               \/ SettleSale(q) \/ RequestDies(q)
      PROVE  line' = line
  BY <1>5 DEF DisburseSend, DisburseFinish, ReconcileFinish, SettleSale, RequestDies, bookVars
<1>6. ASSUME \/ \E r \in Runs : SubmitSettlement(r) \/ ApproveSettlement(r) \/ ReconcileNothing(r)
             \/ \E q \in Requests, r \in Runs : ReconcileStart(q, r)
             \/ \E p \in Payouts : LedgerSettles(p) \/ ProviderSettles(p)
             \/ \E m \in Members : MemberRepays(m)
             \/ UNCHANGED vars
      PROVE  line' = line
  BY <1>6 DEF SubmitSettlement, ApproveSettlement, ReconcileNothing, ReconcileStart,
     LedgerSettles, ProviderSettles, MemberRepays, bookVars, vars, state
<1>7. QED
  BY <1>1, <1>2, <1>3, <1>4, <1>5, <1>6 DEF Next, RequestStep

\* A paid line stays paid.
THEOREM PaidKept == Spec => PaidStaysPaid
<1>1. BooksInv /\ SerialInv /\ [Next]_vars =>
        [\A l \in Lines : "overlap" \notin env /\ line[l] = "paid" => line'[l] = "paid"]_vars
  BY PaidStep
<1>2. QED
  BY <1>1, SerialInvariant, PTL DEF Spec, PaidStaysPaid

-----------------------------------------------------------------------------
(* Retry is preserved when no answer is lost *)

\* A step that leaves payouts and judged lines alone.
LEMMA RetryQuiet ==
  ASSUME Retry, UNCHANGED <<tx, prov>>,
         \A p \in Payouts : Live(p) => line'[LineOf(p)] \in {"processing", line[LineOf(p)]},
         \A q \in Requests : /\ Sending(q)' => Sending(q) /\ todo'[q] \subseteq todo[q]
                             /\ Holds(q)' => Holds(q) /\ cur'[q] = cur[q]
                             /\ pc'[q] = "refused" => pc[q] = "refused"
  PROVE  Retry'
<1>1. SentOnce' /\ FailedIsDead'
  BY DEF Retry, SentOnce, FailedIsDead
<1>2. UnsentIsOpen'
  BY DEF Retry, UnsentIsOpen, Holds
<1>3. OneLive'
  BY DEF Retry, OneLive, Live
<1>4. QED
  BY <1>1, <1>2, <1>3 DEF Retry

LEMMA RetryDisburseStart ==
  ASSUME BooksInv, BooksInv', Retry, NEW q \in Requests, NEW r \in Runs, DisburseStart(q, r)
  PROVE  Retry'
<1> DEFINE a == batches[r] + 1
           sent == {r} \X Eligible(r) \X {a}
<1>0. /\ tx' = [p \in Payouts |-> IF p \in sent THEN "pending" ELSE tx[p]]
      /\ todo' = [todo EXCEPT ![q] = sent]
      /\ line' = [l \in Lines |-> IF l[1] = r /\ l[2] \in Eligible(r) THEN "processing" ELSE line[l]]
      /\ pc' = [pc EXCEPT ![q] = "disburse"]
      /\ UNCHANGED <<prov, cur>>
  BY DEF DisburseStart
<1>1. /\ todo'[q] = sent /\ pc'[q] = "disburse" /\ sent \subseteq Payouts
      /\ \A s \in Requests : s # q => todo'[s] = todo[s] /\ pc'[s] = pc[s]
  BY <1>0 DEF BooksInv, TypeOK
<1>2. \A p \in sent : p[1] = r /\ p[2] \in Eligible(r) /\ p[3] = a
  OBVIOUS
<1> HIDE DEF sent, a
<1>3. \A p \in sent : tx[p] = "none"
  <2> SUFFICES ASSUME NEW p \in sent, tx[p] # "none" PROVE FALSE
    OBVIOUS
  <2>1. p[3] <= batches[r] /\ batches[r] \in Nat
    BY <1>1, <1>2, AttemptsBound
  <2>2. QED
    BY <2>1, <1>2 DEF a
<1>4. \A p \in sent : line[LineOf(p)] \in {"pending", "failed"}
  <2> SUFFICES ASSUME NEW p \in sent PROVE line[LineOf(p)] \in {"pending", "failed"}
    OBVIOUS
  <2>1. LineOf(p) = <<r, p[2]>> /\ p[2] \in Eligible(r)
    BY <1>2 DEF LineOf
  <2>2. QED
    BY <2>1 DEF Eligible
<1>5. \A s \in Requests : /\ s # q => (Sending(s)' <=> Sending(s)) /\ (Holds(s)' <=> Holds(s))
                          /\ ~Holds(q)'
                          /\ Holds(s) => cur[s] \in Payouts /\ cur[s] \notin sent
  BY <1>1, <1>3 DEF BooksInv, WorkRecorded, Sending, Holds
<1>6. SentOnce' /\ FailedIsDead'
  BY <1>0, <1>1, <1>5 DEF Retry, SentOnce, FailedIsDead
<1>7. UnsentIsOpen'
  <2>1. \A p \in Payouts : tx[p] = "pending" => tx'[p] = "pending"
    BY <1>0
  <2>2. \A p \in sent : tx'[p] = "pending"
    BY <1>0, <1>1
  <2>3. ASSUME NEW s \in Requests, pc'[s] = "refused"
        PROVE  tx'[cur[s]] = "pending" /\ prov[cur[s]] = "absent"
    <3>1. pc[s] = "refused" /\ cur[s] \in Payouts
      BY <2>3, <1>1, <1>5 DEF Holds
    <3>2. QED
      BY <3>1, <2>1 DEF Retry, UnsentIsOpen
  <2>4. \A s \in Requests : todo[s] \subseteq Payouts
    BY DEF BooksInv, TypeOK
  <2>5. QED
    BY <1>0, <1>1, <1>5, <2>1, <2>2, <2>3, <2>4 DEF Retry, UnsentIsOpen
<1>8. OneLive'
  <2>1. \A p \in Payouts : Live(p)' => p \in sent \/ Live(p)
    BY <1>0 DEF Live
  <2>2. \A p \in Payouts : Live(p)' => line'[LineOf(p)] \in {"processing", "paid"}
    <3>1. \A p \in sent : line'[LineOf(p)] = "processing"
      BY <1>0, <1>1, <1>2, PayoutTuple
    <3>2. \A l \in Lines : line'[l] \in {"processing", line[l]}
      BY <1>0
    <3>3. QED
      BY <2>1, <3>1, <3>2, PayoutTuple DEF Retry, OneLive
  <2>3. ASSUME NEW p \in Payouts, NEW s \in Payouts, LineOf(p) = LineOf(s), Live(p)', Live(s)'
        PROVE  p = s
    <3>1. ASSUME NEW b \in sent, NEW c \in Payouts, c \notin sent, LineOf(b) = LineOf(c), Live(c)'
          PROVE  FALSE
      <4>1. line[LineOf(c)] \in {"processing", "paid"}
        BY <3>1, <2>1 DEF Retry, OneLive
      <4>2. QED
        BY <4>1, <3>1, <1>4
    <3>2. CASE p \in sent /\ s \in sent
      BY <3>2, <2>3, <1>2, SameAttempt
    <3>3. CASE p \notin sent /\ s \notin sent
      BY <3>3, <2>1, <2>3 DEF Retry, OneLive
    <3>4. QED
      BY <3>1, <3>2, <3>3, <2>3
  <2>4. QED
    BY <2>2, <2>3 DEF OneLive
<1>9. QED
  BY <1>6, <1>7, <1>8 DEF Retry

\* A payout on some request's list gets to the provider, or is refused there.
LEMMA RetrySend ==
  ASSUME BooksInv, Retry, NEW q \in Requests, DisburseSend(q), "lost_answer" \notin env
  PROVE  Retry'
<1>1. PICK p \in todo[q] :
        /\ todo' = [todo EXCEPT ![q] = @ \ {p}]
        /\ \/ /\ prov' = [prov EXCEPT ![p] = "processing"]
              /\ cur' = [cur EXCEPT ![q] = p]
              /\ pc' = [pc EXCEPT ![q] = "accepted"]
           \/ /\ UNCHANGED prov
              /\ cur' = [cur EXCEPT ![q] = p]
              /\ pc' = [pc EXCEPT ![q] = "refused"]
           \/ /\ prov' \in {prov, [prov EXCEPT ![p] = "processing"]}
              /\ UNCHANGED <<cur, pc>>
  BY DEF DisburseSend
<1>2. pc[q] = "disburse" /\ Sending(q) /\ UNCHANGED <<line, tx>>
  BY DEF DisburseSend, bookVars, Sending
<1>3. p \in Payouts /\ tx[p] = "pending" /\ prov[p] = "absent"
  BY <1>2 DEF BooksInv, TypeOK, UnsentIsAbsent, Retry, UnsentIsOpen
<1>4. ASSUME NEW s \in Requests
      PROVE  /\ Sending(s)' <=> Sending(s)
             /\ todo'[s] \subseteq todo[s] /\ p \notin todo'[q]
             /\ s # q /\ Sending(s) => p \notin todo[s]
             /\ s # q => pc'[s] = pc[s] /\ cur'[s] = cur[s] /\ (Holds(s)' <=> Holds(s))
             /\ Holds(s) => cur[s] \in Payouts /\ cur[s] # p
  <2>1. Sending(s)' <=> Sending(s)
    BY <1>1, <1>2 DEF BooksInv, TypeOK, Sending
  <2>2. todo'[s] \subseteq todo[s] /\ p \notin todo'[q]
    BY <1>1 DEF BooksInv, TypeOK
  <2>3. s # q /\ Sending(s) => p \notin todo[s]
    BY <1>2 DEF BooksInv, OneSender
  <2>4. s # q => pc'[s] = pc[s] /\ cur'[s] = cur[s] /\ (Holds(s)' <=> Holds(s))
    BY <1>1 DEF BooksInv, TypeOK, Holds
  <2>5. Holds(s) => cur[s] \in Payouts /\ cur[s] # p
    BY <1>2 DEF BooksInv, WorkRecorded, Retry, SentOnce
  <2>6. QED
    BY <2>1, <2>2, <2>3, <2>4, <2>5
<1>5. Holds(q)' => cur'[q] = p
  BY <1>1, <1>2 DEF BooksInv, TypeOK, Holds
<1>6. SentOnce'
  <2>1. ASSUME NEW b \in Requests, NEW c \in Requests, Holds(b)', Sending(c)'
        PROVE  cur'[b] \notin todo'[c]
    <3>1. CASE b = q
      BY <3>1, <2>1, <1>4, <1>5
    <3>2. CASE b # q
      BY <3>2, <2>1, <1>4 DEF Retry, SentOnce
    <3>3. QED
      BY <3>1, <3>2
  <2>2. ASSUME NEW b \in Requests, NEW c \in Requests, Holds(b)', Holds(c)', b # c
        PROVE  cur'[b] # cur'[c]
    BY <2>2, <1>4, <1>5 DEF Retry, SentOnce
  <2>3. QED
    BY <2>1, <2>2 DEF SentOnce
<1>7. FailedIsDead'
  BY <1>1, <1>2, <1>3 DEF BooksInv, TypeOK, Retry, FailedIsDead
<1>8. OneLive'
  BY <1>2 DEF Retry, OneLive, Live
<1>9. UnsentIsOpen'
  <2>1. ASSUME NEW s \in Requests, s # q, pc'[s] = "refused"
        PROVE  tx[cur'[s]] = "pending" /\ prov'[cur'[s]] = "absent"
    <3>1. pc[s] = "refused" /\ cur'[s] = cur[s] /\ cur[s] \in Payouts /\ cur[s] # p
      BY <2>1, <1>4 DEF Holds
    <3>2. prov'[cur[s]] = prov[cur[s]]
      BY <3>1, <1>1, <1>3 DEF BooksInv, TypeOK
    <3>3. QED
      BY <3>1, <3>2 DEF Retry, UnsentIsOpen
  <2>2. pc'[q] = "refused" => cur'[q] = p /\ prov' = prov
    BY <1>1, <1>2 DEF BooksInv, TypeOK
  <2>3. QED
    BY <1>2, <1>3, <1>4, <2>1, <2>2 DEF Retry, UnsentIsOpen
<1>10. QED
  BY <1>6, <1>7, <1>8, <1>9 DEF Retry

\* An open payout is judged: t with its line, or a line left open.
LEMMA RetryVerdict ==
  ASSUME BooksInv, Retry, NEW p \in Payouts, tx[p] = "pending", UNCHANGED prov,
         NEW t \in {"failed", "completed"}, tx' = [tx EXCEPT ![p] = t],
         t = "failed" => prov[p] \in {"absent", "reversed"},
         \/ line' = [line EXCEPT ![LineOf(p)] = IF t = "completed" THEN "paid" ELSE "failed"]
         \/ line' = line,
         \A q \in Requests :
           /\ Sending(q)' => Sending(q) /\ todo'[q] \subseteq todo[q] /\ p \notin todo[q]
           /\ Holds(q)' => Holds(q) /\ cur'[q] = cur[q]
           /\ pc'[q] = "refused" => pc[q] = "refused" /\ cur[q] # p
  PROVE  Retry'
<1>1. LineOf(p) \in Lines /\ line[LineOf(p)] \in {"processing", "paid"}
  BY PayoutTuple DEF Retry, OneLive, Live
<1>2. \A s \in Payouts : s # p => tx'[s] = tx[s]
  BY DEF BooksInv, TypeOK
<1>3. tx'[p] = t
  BY DEF BooksInv, TypeOK
<1>4. SentOnce' /\ FailedIsDead'
  BY <1>2, <1>3 DEF Retry, SentOnce, FailedIsDead
<1>5. UnsentIsOpen'
  <2>1. ASSUME NEW q \in Requests, Sending(q)', NEW s \in todo'[q] PROVE tx'[s] = "pending"
    <3>1. s \in Payouts /\ s # p /\ Sending(q) /\ s \in todo[q]
      BY <2>1 DEF BooksInv, TypeOK
    <3>2. QED
      BY <3>1, <1>2 DEF Retry, UnsentIsOpen
  <2>2. ASSUME NEW q \in Requests, pc'[q] = "refused"
        PROVE  tx'[cur'[q]] = "pending" /\ prov'[cur'[q]] = "absent"
    <3>1. pc[q] = "refused" /\ cur[q] \in Payouts /\ cur'[q] = cur[q] /\ cur[q] # p
      BY <2>2 DEF BooksInv, WorkRecorded, Holds
    <3>2. QED
      BY <3>1, <1>2 DEF Retry, UnsentIsOpen
  <2>3. QED
    BY <2>1, <2>2 DEF UnsentIsOpen
<1>6. OneLive'
  <2>1. \A s \in Payouts : Live(s)' => Live(s) /\ (s = p => t = "completed")
    BY <1>2, <1>3 DEF Live
  <2>2. ASSUME NEW s \in Payouts, Live(s)' PROVE line'[LineOf(s)] \in {"processing", "paid"}
    <3>1. LineOf(s) \in Lines /\ line[LineOf(s)] \in {"processing", "paid"}
      BY <2>1, <2>2, PayoutTuple DEF Retry, OneLive
    <3>2. CASE s = p
      BY <3>1, <3>2, <2>1, <2>2 DEF BooksInv, TypeOK
    <3>3. CASE s # p
      <4>1. LineOf(s) # LineOf(p)
        BY <3>3, <2>1, <2>2 DEF Retry, OneLive, Live
      <4>2. line'[LineOf(s)] = line[LineOf(s)]
        BY <4>1, <3>1 DEF BooksInv, TypeOK
      <4>3. QED
        BY <3>1, <4>2
    <3>4. QED
      BY <3>2, <3>3
  <2>3. QED
    BY <2>1, <2>2 DEF Retry, OneLive
<1>7. QED
  BY <1>4, <1>5, <1>6 DEF Retry

LEMMA RetryRecord ==
  ASSUME BooksInv, Retry, NEW q \in Requests, DisburseRecord(q)
  PROVE  Retry'
<1> DEFINE p == cur[q]
<1>1. /\ Holds(q)
      /\ \/ line' = [line EXCEPT ![LineOf(p)] = "processing"] /\ UNCHANGED tx
         \/ /\ pc[q] = "refused"
            /\ line' = [line EXCEPT ![LineOf(p)] = "failed"] /\ tx' = [tx EXCEPT ![p] = "failed"]
      /\ cur' = [cur EXCEPT ![q] = NoPayout]
      /\ pc' = [pc EXCEPT ![q] = "disburse"]
      /\ UNCHANGED <<prov, todo>>
  BY DEF DisburseRecord, Holds
<1>2. p \in Payouts /\ LineOf(p) \in Lines
  BY <1>1, PayoutTuple DEF BooksInv, WorkRecorded
<1>3. /\ pc'[q] = "disburse"
      /\ \A s \in Requests : s # q => cur'[s] = cur[s] /\ pc'[s] = pc[s]
  BY <1>1 DEF BooksInv, TypeOK
<1>4. \A s \in Requests : /\ Sending(s)' => Sending(s) /\ todo'[s] \subseteq todo[s] /\ p \notin todo[s]
                          /\ Holds(s)' => s # q /\ Holds(s) /\ cur'[s] = cur[s]
                          /\ pc'[s] = "refused" => s # q /\ pc[s] = "refused" /\ cur[s] # p
  BY <1>1, <1>3 DEF Sending, Holds, Retry, SentOnce
<1> HIDE DEF p
<1>5. CASE line' = [line EXCEPT ![LineOf(p)] = "processing"] /\ UNCHANGED tx
  <2>1. \A s \in Payouts : line'[LineOf(s)] \in {"processing", line[LineOf(s)]}
    BY <1>5, PayoutTuple DEF BooksInv, TypeOK
  <2>2. QED
    BY <2>1, <1>1, <1>4, <1>5, RetryQuiet
<1>6. CASE /\ pc[q] = "refused"
           /\ line' = [line EXCEPT ![LineOf(p)] = "failed"] /\ tx' = [tx EXCEPT ![p] = "failed"]
  <2>1. tx[p] = "pending" /\ prov[p] = "absent"
    BY <1>6 DEF Retry, UnsentIsOpen, p
  <2>2. QED
    BY <2>1, <1>1, <1>2, <1>4, <1>6, RetryVerdict
<1>7. QED
  BY <1>1, <1>5, <1>6 DEF p

\* A payout the provider has an opinion about was sent by nobody who still has
\* to send it, and was refused to nobody.
LEMMA KnownIsSent ==
  ASSUME BooksInv, Retry, NEW p \in Payouts, prov[p] # "absent", NEW q \in Requests
  PROVE  /\ Sending(q) => p \notin todo[q]
         /\ pc[q] = "refused" => cur[q] # p
BY DEF BooksInv, UnsentIsAbsent, Retry, UnsentIsOpen

LEMMA RetryPoll ==
  ASSUME BooksInv, Retry, NEW q \in Requests, ReconcilePoll(q)
  PROVE  Retry'
<1>0. PICK p \in todo[q] :
        /\ todo' = [todo EXCEPT ![q] = @ \ {p}]
        /\ \E answer \in TransferStatus(p) :
             IF tx[p] = "pending" /\ answer \in {"completed", "failed"}
             THEN Adopt(p, answer) ELSE UNCHANGED <<tx, line, loan>>
  BY DEF ReconcilePoll
<1>1. PICK answer \in TransferStatus(p) :
        IF tx[p] = "pending" /\ answer \in {"completed", "failed"}
        THEN Adopt(p, answer) ELSE UNCHANGED <<tx, line, loan>>
  BY <1>0
<1>2. pc[q] = "reconcile" /\ UNCHANGED <<prov, pc, cur>>
  BY DEF ReconcilePoll
<1>3. p \in Payouts
  BY DEF BooksInv, TypeOK
<1>4. \A s \in Requests : /\ Sending(s)' => Sending(s) /\ todo'[s] \subseteq todo[s]
                          /\ Holds(s)' => Holds(s) /\ cur'[s] = cur[s]
                          /\ pc'[s] = "refused" => pc[s] = "refused"
  BY <1>0, <1>2 DEF BooksInv, TypeOK, Sending, Holds
<1>5. CASE UNCHANGED <<tx, line, loan>>
  BY <1>2, <1>4, <1>5, RetryQuiet
<1>6. CASE tx[p] = "pending" /\ answer \in {"completed", "failed"} /\ Adopt(p, answer)
  <2>1. /\ tx' = [tx EXCEPT ![p] = answer]
        /\ line' = [line EXCEPT ![LineOf(p)] = IF answer = "completed" THEN "paid" ELSE "failed"]
    BY <1>6 DEF Adopt
  <2>2. prov[p] # "absent" /\ (answer = "failed" => prov[p] = "reversed")
    BY <1>6 DEF TransferStatus
  <2>3. QED
    BY <2>1, <2>2, <1>2, <1>3, <1>4, <1>6, KnownIsSent, RetryVerdict
<1>7. QED
  BY <1>1, <1>5, <1>6

LEMMA RetryLedger ==
  ASSUME BooksInv, Retry, NEW p \in Payouts, LedgerSettles(p)
  PROVE  Retry'
<1>1. UNCHANGED <<line, prov, pc, todo, cur>>
  BY DEF LedgerSettles, requestVars
<1>2. tx[p] = "pending" /\ prov[p] # "absent"
  BY DEF LedgerSettles, Retry, FailedIsDead
<1>3. PICK t \in {"failed", "completed"} : tx' = [tx EXCEPT ![p] = t]
                                           /\ (t = "failed" => prov[p] = "reversed")
  BY <1>2 DEF LedgerSettles
<1>4. \A q \in Requests : (Sending(q)' <=> Sending(q)) /\ (Holds(q)' <=> Holds(q))
  BY <1>1 DEF Sending, Holds
<1>5. QED
  BY <1>1, <1>2, <1>3, <1>4, KnownIsSent, RetryVerdict

\* The provider, or a request that dies, moves a live payout on.
LEMMA RetryMoves ==
  ASSUME BooksInv, Retry, NEW p \in Payouts, tx[p] # "failed" \/ prov[p] = "processing",
         NEW v, prov' = [prov EXCEPT ![p] = v], UNCHANGED <<tx, line>>,
         \A q \in Requests : /\ Sending(q)' => Sending(q) /\ todo'[q] \subseteq todo[q]
                             /\ Holds(q)' => Holds(q) /\ cur'[q] = cur[q]
                             /\ pc'[q] = "refused" => pc[q] = "refused" /\ cur[q] # p
  PROVE  Retry'
<1>1. \A s \in Payouts : s # p => prov'[s] = prov[s]
  BY DEF BooksInv, TypeOK
<1>2. tx[p] # "failed"
  BY DEF Retry, FailedIsDead
<1>3. SentOnce' /\ FailedIsDead' /\ OneLive'
  BY <1>1, <1>2 DEF Retry, SentOnce, FailedIsDead, OneLive, Live
<1>4. \A q \in Requests : pc[q] = "refused" => cur[q] \in Payouts
  BY DEF BooksInv, WorkRecorded, Holds
<1>5. UnsentIsOpen'
  BY <1>1, <1>4 DEF Retry, UnsentIsOpen, Holds
<1>6. QED
  BY <1>3, <1>5 DEF Retry

LEMMA RetryDies ==
  ASSUME BooksInv, Retry, NEW q \in Requests, RequestDies(q)
  PROVE  Retry'
<1>1. Done(q) /\ UNCHANGED <<line, tx>>
  BY DEF RequestDies, bookVars
<1>2. \A s \in Requests : /\ Sending(s)' => Sending(s) /\ todo'[s] \subseteq todo[s]
                          /\ Holds(s)' => Holds(s) /\ cur'[s] = cur[s]
                          /\ pc'[s] = "refused" => pc[s] = "refused"
  BY <1>1 DEF BooksInv, TypeOK, Done, Sending, Holds
<1>3. CASE UNCHANGED prov
  BY <1>1, <1>2, <1>3, RetryQuiet
<1>4. ASSUME pc[q] = "disburse", NEW p \in todo[q], prov' = [prov EXCEPT ![p] = "processing"]
      PROVE  Retry'
  <2>1. p \in Payouts /\ Sending(q) /\ tx[p] = "pending"
    BY <1>4 DEF BooksInv, TypeOK, Retry, UnsentIsOpen, Sending
  <2>2. ASSUME NEW s \in Requests, pc[s] = "refused" PROVE cur[s] # p
    BY <2>1, <2>2, <1>4 DEF Retry, SentOnce, Holds
  <2>3. QED
    BY <2>1, <2>2, <1>1, <1>2, <1>4, RetryMoves
<1>5. QED
  BY <1>3, <1>4 DEF RequestDies

LEMMA RetryNext ==
  ASSUME BooksInv, BooksInv', Retry, [Next]_vars, "lost_answer" \notin env
  PROVE  Retry'
<1>1. ASSUME NEW r \in Runs, Calculate(r) PROVE Retry'
  <2>1. /\ batches[r] = 0 /\ UNCHANGED <<tx, prov, pc, todo, cur>>
        /\ \A l \in Lines : l[1] # r => line'[l] = line[l]
    BY <1>1 DEF Calculate, requestVars, BooksInv, Uncalculated
  <2>2. \A p \in Payouts : Live(p) => line'[LineOf(p)] = line[LineOf(p)]
    BY <2>1, AttemptsBound, PayoutTuple DEF Live
  <2>3. QED
    BY <2>1, <2>2, RetryQuiet DEF Sending, Holds
<1>2. CASE \/ \E r \in Runs : SubmitSettlement(r) \/ ApproveSettlement(r) \/ ReconcileNothing(r)
           \/ \E m \in Members : MemberRepays(m)
           \/ UNCHANGED vars
  <2>1. UNCHANGED <<line, tx, prov, pc, todo, cur>>
    BY <1>2 DEF SubmitSettlement, ApproveSettlement, ReconcileNothing, MemberRepays,
       requestVars, vars, state
  <2>2. QED
    BY <2>1, RetryQuiet DEF Sending, Holds
<1>3. ASSUME NEW q \in Requests, NEW r \in Runs, ReconcileStart(q, r) PROVE Retry'
  <2>1. /\ pc' = [pc EXCEPT ![q] = "reconcile"] /\ todo' = [todo EXCEPT ![q] = PendingOf(r)]
        /\ UNCHANGED <<line, tx, prov, cur>>
    BY <1>3 DEF ReconcileStart, bookVars
  <2>2. \A s \in Requests : /\ Sending(s)' => Sending(s) /\ todo'[s] \subseteq todo[s]
                            /\ Holds(s)' => Holds(s) /\ cur'[s] = cur[s]
                            /\ pc'[s] = "refused" => pc[s] = "refused"
    BY <2>1 DEF BooksInv, TypeOK, Sending, Holds
  <2>3. QED
    BY <2>1, <2>2, RetryQuiet
<1>4. ASSUME NEW q \in Requests, DisburseFinish(q) \/ ReconcileFinish(q) \/ SettleSale(q)
      PROVE  Retry'
  <2>1. UNCHANGED <<line, tx, prov>>
    BY <1>4 DEF DisburseFinish, ReconcileFinish, SettleSale
  <2>2. \A s \in Requests : /\ Sending(s)' => Sending(s) /\ todo'[s] \subseteq todo[s]
                            /\ Holds(s)' => Holds(s) /\ cur'[s] = cur[s]
                            /\ pc'[s] = "refused" => pc[s] = "refused"
    BY <1>4 DEF DisburseFinish, ReconcileFinish, SettleSale, Done, BooksInv, TypeOK, Sending, Holds
  <2>3. QED
    BY <2>1, <2>2, RetryQuiet
<1>5. ASSUME NEW p \in Payouts, ProviderSettles(p) PROVE Retry'
  <2>1. prov[p] = "processing" /\ UNCHANGED <<line, tx, pc, todo, cur>>
    BY <1>5 DEF ProviderSettles, bookVars, requestVars
  <2>2. PICK v : prov' = [prov EXCEPT ![p] = v]
    BY <1>5 DEF ProviderSettles
  <2>3. \A q \in Requests : pc[q] = "refused" => cur[q] # p
    BY <2>1, KnownIsSent
  <2>4. QED
    BY <2>1, <2>2, <2>3, RetryMoves DEF Sending, Holds
<1>6. QED
  BY <1>1, <1>2, <1>3, <1>4, <1>5, RetryDisburseStart, RetrySend, RetryRecord, RetryPoll,
     RetryLedger, RetryDies DEF Next, RequestStep

\* Whatever dies or overlaps, a failed payout is dead, unless an answer is lost.
THEOREM RetryInvariant == Spec => [](BooksInv /\ RetryInv)
<1>1. Init => BooksInv /\ RetryInv
  BY BooksInit DEF Init, RetryInv, Retry, SentOnce, FailedIsDead, UnsentIsOpen, OneLive, Live,
     Sending, Holds
<1>2. BooksInv /\ RetryInv /\ [Next]_vars => (BooksInv /\ RetryInv)'
  BY BooksNext, RetryNext, EnvKept DEF RetryInv
<1>3. QED
  BY <1>1, <1>2, PTL DEF Spec

\* At most one transfer of a line is under way or paid, however often it is
\* retried and by however many requests, unless an answer is lost.
THEOREM PaidOncePerLine == Spec => []LinePaidOnce
<1>1. BooksInv /\ RetryInv => LinePaidOnce
  <2> SUFFICES ASSUME BooksInv, Retry, NEW p \in Payouts, NEW s \in Payouts,
                      LineOf(p) = LineOf(s),
                      prov[p] \in {"processing", "paid", "mispaid"},
                      prov[s] \in {"processing", "paid", "mispaid"}
               PROVE  p = s
    BY DEF RetryInv, LinePaidOnce
  <2>1. \A b \in {p, s} : tx[b] \in TxStatus /\ tx[b] \notin {"none", "failed"}
    BY DEF BooksInv, TypeOK, SentIsRecorded, Retry, FailedIsDead
  <2>2. QED
    BY <2>1 DEF Retry, OneLive, Live, TxStatus
<1>2. QED
  BY <1>1, RetryInvariant, PTL
=============================================================================
