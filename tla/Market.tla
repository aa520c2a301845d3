------------------------------- MODULE Market -------------------------------
(***************************************************************************)
(* From the farmers' deliveries to an approved settlement: produce is      *)
(* weighed in and accepted, collected into batches, sold batch by batch,   *)
(* paid for by the buyer and divided among the farmers.                    *)
(*                                                                         *)
(* Every handler locks the rows it decides on (FOR UPDATE) and commits     *)
(* once, so every handler is one step.  A batch is sold at most once: its  *)
(* sale and the latest settlement run of that sale bear the batch's name.  *)
(***************************************************************************)
EXTENDS SettlementMath, FiniteSets

CONSTANTS
  Intakes,      \* deliveries
  MemberOf,     \* the member, a number, each delivery is from
  Batches,
  Matches,      \* which deliveries have the product, kind and unit of a batch
  Quantities,   \* weights that can be delivered and sold
  Prices,       \* unit prices
  Scale,        \* unit prices are for this many units of weight
  Receipts,
  Amounts,      \* amounts of receipts
  Actors,       \* users who may act
  System,       \* the actor when authentication is off
  Configs,      \* deductions a settlement can be calculated with
  Owed          \* each member's outstanding loan, 0 for none

Members == {MemberOf[i] : i \in Intakes}

NoBatch == "none"
NoOne == "none"

ASSUME IntakesAssumption ==
  IsFiniteSet(Intakes) /\ MemberOf \in [Intakes -> Nat] /\ Matches \subseteq Intakes \X Batches
ASSUME RowsAssumption == NoBatch \notin Batches /\ IsFiniteSet(Receipts)
ASSUME QuantitiesAssumption == Quantities \subseteq Nat \ {0} /\ Amounts \subseteq Nat \ {0}
ASSUME PricesAssumption == Prices \subseteq Nat \ {0} /\ Scale \in Nat \ {0}
ASSUME OwedAssumption == Owed \in [Members -> Nat]
ASSUME ConfigsAssumption ==
  Configs \subseteq [fee : 0..100, transport : Nat, quality : Nat,
                     manual : [Members -> Nat], loans : BOOLEAN]

VARIABLES
  intake,    \* each delivery: status, quantity, accepted net, its batch
  batch,     \* each aggregation batch: status, total quantity
  sale,      \* the sale of each batch: status, quantity, gross amount
  receipt,   \* each buyer receipt: status, sale, amount, who sent it
  run,       \* the latest settlement run of each sale: status, calculator
  lines,     \* the lines of that run, by member
  done       \* the sales one of whose runs has been paid out

marketVars == <<intake, batch, sale, receipt, run, lines, done>>

IntakeStatus == {"none", "received", "accepted", "rejected", "batched", "cancelled"}
BatchStatus == {"none", "open", "closed", "sold"}
SaleStatus == {"none", "draft", "confirmed", "funded", "settled"}
ReceiptStatus == {"none", "pending", "verified", "rejected"}
RunStatus == {"none", "draft", "pending_approval", "approved", "completed"}

LineOfRun == [quantity : Int, gross : Nat, charges : Nat, loan : Nat, net : Nat]

MarketTypeOK ==
  /\ intake \in [Intakes -> [status : IntakeStatus, quantity : Nat, net : Nat,
                             batch : Batches \cup {NoBatch}]]
  /\ batch \in [Batches -> [status : BatchStatus, total : Nat]]
  /\ sale \in [Batches -> [status : SaleStatus, quantity : Nat, amount : Nat]]
  /\ receipt \in [Receipts -> [status : ReceiptStatus, sale : Batches \cup {NoBatch},
                               amount : Nat, by : Actors \cup {NoOne}]]
  /\ run \in [Batches -> [status : RunStatus, calculator : Actors \cup {NoOne}]]
  /\ \A b \in Batches :
       DOMAIN lines[b] \subseteq Members /\ \A m \in DOMAIN lines[b] : lines[b][m] \in LineOfRun
  /\ done \subseteq Batches

NoRun == [status |-> "none", calculator |-> NoOne]
NoLines == [m \in {} |-> 0]

MarketInit ==
  /\ intake = [i \in Intakes |-> [status |-> "none", quantity |-> 0, net |-> 0, batch |-> NoBatch]]
  /\ batch = [b \in Batches |-> [status |-> "none", total |-> 0]]
  /\ sale = [b \in Batches |-> [status |-> "none", quantity |-> 0, amount |-> 0]]
  /\ receipt = [c \in Receipts |-> [status |-> "none", sale |-> NoBatch, amount |-> 0, by |-> NoOne]]
  /\ run = [b \in Batches |-> NoRun]
  /\ lines = [b \in Batches |-> NoLines]
  /\ done = {}

-----------------------------------------------------------------------------
(* Intake *)

CreateIntake(i, q) ==
  /\ intake[i].status = "none"
  /\ intake' = [intake EXCEPT ![i].status = "received", ![i].quantity = q]
  /\ UNCHANGED <<batch, sale, receipt, run, lines, done>>

\* Accepted at the net weight given, or at the gross one.
AcceptIntake(i, net) ==
  /\ intake[i].status = "received"
  /\ net <= intake[i].quantity
  /\ intake' = [intake EXCEPT ![i].status = "accepted", ![i].net = net]
  /\ UNCHANGED <<batch, sale, receipt, run, lines, done>>

RejectIntake(i) ==
  /\ intake[i].status = "received"
  /\ intake' = [intake EXCEPT ![i].status = "rejected"]
  /\ UNCHANGED <<batch, sale, receipt, run, lines, done>>

CancelIntake(i) ==
  /\ intake[i].status = "received"
  /\ intake' = [intake EXCEPT ![i].status = "cancelled"]
  /\ UNCHANGED <<batch, sale, receipt, run, lines, done>>

-----------------------------------------------------------------------------
(* Aggregation *)

CreateBatch(b) ==
  /\ batch[b].status = "none"
  /\ batch' = [batch EXCEPT ![b].status = "open"]
  /\ UNCHANGED <<intake, sale, receipt, run, lines, done>>

NetWeight(items) == SumFunctionOnSet([i \in Intakes |-> intake[i].net], items)

\* Mutant: a delivery that is already in a batch can be added again.
AddIntakes_Batched(b, items) ==
  /\ batch[b].status = "open"
  /\ \A i \in items : intake[i].status \in {"accepted", "batched"} /\ <<i, b>> \in Matches
  /\ intake' = [i \in Intakes |->
                  IF i \in items THEN [intake[i] EXCEPT !.status = "batched", !.batch = b]
                                 ELSE intake[i]]
  /\ batch' = [batch EXCEPT ![b].total = @ + NetWeight(items)]
  /\ UNCHANGED <<sale, receipt, run, lines, done>>

\* All of the items or none: any that is not available undoes the request.
AddIntakes(b, items) ==
  /\ batch[b].status = "open"
  /\ \A i \in items : intake[i].status = "accepted" /\ <<i, b>> \in Matches
  /\ intake' = [i \in Intakes |->
                  IF i \in items THEN [intake[i] EXCEPT !.status = "batched", !.batch = b]
                                 ELSE intake[i]]
  /\ batch' = [batch EXCEPT ![b].total = @ + NetWeight(items)]
  /\ UNCHANGED <<sale, receipt, run, lines, done>>

CloseBatch(b) ==
  /\ batch[b].status = "open"
  /\ batch[b].total > 0
  /\ batch' = [batch EXCEPT ![b].status = "closed"]
  /\ UNCHANGED <<intake, sale, receipt, run, lines, done>>

-----------------------------------------------------------------------------
(* Sale and receipts *)

CreateSale(b, q, price) ==
  /\ batch[b].status = "closed"
  /\ sale[b].status = "none"
  /\ q <= batch[b].total
  /\ sale' = [sale EXCEPT ![b] = [status |-> "draft", quantity |-> q,
                                  amount |-> RoundHalfUp(q * price, Scale)]]
  /\ UNCHANGED <<intake, batch, receipt, run, lines, done>>

ConfirmSale(b) ==
  /\ sale[b].status = "draft"
  /\ batch[b].status = "closed"
  /\ sale' = [sale EXCEPT ![b].status = "confirmed"]
  /\ batch' = [batch EXCEPT ![b].status = "sold"]
  /\ UNCHANGED <<intake, receipt, run, lines, done>>

SubmitReceipt(c, b, amount, actor) ==
  /\ receipt[c].status = "none"
  /\ sale[b].status \in {"confirmed", "funded"}
  /\ receipt' = [receipt EXCEPT ![c] = [status |-> "pending", sale |-> b, amount |-> amount,
                                        by |-> actor]]
  /\ UNCHANGED <<intake, batch, sale, run, lines, done>>

Verified(b) ==
  SumFunctionOnSet([c \in Receipts |-> receipt[c].amount],
                   {c \in Receipts : receipt[c].sale = b /\ receipt[c].status = "verified"})

\* The submitter does not decide, unless authentication is off.
MayDecide(c, actor) ==
  /\ receipt[c].status = "pending"
  /\ actor = System \/ receipt[c].by # actor

\* The sale's status is not looked at: only the sums keep a settled sale settled.
VerifyReceipt(c, actor) ==
  LET b == receipt[c].sale
      funds == Verified(b) + receipt[c].amount
  IN /\ MayDecide(c, actor)
     /\ funds <= sale[b].amount
     /\ receipt' = [receipt EXCEPT ![c].status = "verified"]
     /\ sale' = IF funds = sale[b].amount THEN [sale EXCEPT ![b].status = "funded"] ELSE sale
     /\ UNCHANGED <<intake, batch, run, lines, done>>

RejectReceipt(c, actor) ==
  /\ MayDecide(c, actor)
  /\ receipt' = [receipt EXCEPT ![c].status = "rejected"]
  /\ UNCHANGED <<intake, batch, sale, run, lines, done>>

-----------------------------------------------------------------------------
(* Settlement, up to its approval.  Its payout is module Settlement. *)

\* Accepted weight of each member with deliveries in the batch.
Weights(b) ==
  LET lot == {i \in Intakes : intake[i].batch = b}
  IN [m \in {MemberOf[i] : i \in lot} |-> NetWeight({i \in lot : MemberOf[i] = m})]

\* Mutant: a run is calculated as soon as any receipt is verified.
Calculate_PartFunds(b, config, actor) ==
  /\ sale[b].status \in {"confirmed", "funded"}
  /\ run[b].status \in {"none", "completed"}
  /\ Verified(b) > 0
  /\ \A m \in Members \ DOMAIN Weights(b) : config.manual[m] = 0
  /\ lines' = [lines EXCEPT ![b] =
                 SettlementLines(sale[b].quantity, sale[b].amount, Weights(b), config, Owed)]
  /\ run' = [run EXCEPT ![b] = [status |-> "draft", calculator |-> actor]]
  /\ UNCHANGED <<intake, batch, sale, receipt, done>>

\* A sale with its full price verified and no run under way; only members with
\* deliveries in it can be charged by hand.
Calculate(b, config, actor) ==
  /\ sale[b].status \in {"confirmed", "funded"}
  /\ run[b].status \in {"none", "completed"}
  /\ Verified(b) >= sale[b].amount
  /\ \A m \in Members \ DOMAIN Weights(b) : config.manual[m] = 0
  /\ lines' = [lines EXCEPT ![b] =
                 SettlementLines(sale[b].quantity, sale[b].amount, Weights(b), config, Owed)]
  /\ run' = [run EXCEPT ![b] = [status |-> "draft", calculator |-> actor]]
  /\ UNCHANGED <<intake, batch, sale, receipt, done>>

SubmitSettlement(b) ==
  /\ run[b].status = "draft"
  /\ run' = [run EXCEPT ![b].status = "pending_approval"]
  /\ UNCHANGED <<intake, batch, sale, receipt, lines, done>>

ApproveSettlement(b, actor) ==
  /\ run[b].status = "pending_approval"
  /\ actor = System \/ run[b].calculator # actor
  /\ Verified(b) >= sale[b].amount
  /\ run' = [run EXCEPT ![b].status = "approved"]
  /\ UNCHANGED <<intake, batch, sale, receipt, lines, done>>

\* The payout of the lines, as far as this module sees it.
PayoutCompletes(b) ==
  /\ run[b].status = "approved"
  /\ run' = [run EXCEPT ![b].status = "completed"]
  /\ done' = done \cup {b}
  /\ UNCHANGED <<intake, batch, sale, receipt, lines>>

\* A reconciliation of a completed run settles the sale in a second commit.
SettleSale(b) ==
  /\ b \in done
  /\ sale' = [sale EXCEPT ![b].status = "settled"]
  /\ UNCHANGED <<intake, batch, receipt, run, lines, done>>

-----------------------------------------------------------------------------
MarketNext ==
  \/ \E i \in Intakes :
       \/ \E q \in Quantities : CreateIntake(i, q) \/ AcceptIntake(i, q)
       \/ RejectIntake(i) \/ CancelIntake(i)
  \/ \E b \in Batches :
       \/ CreateBatch(b) \/ CloseBatch(b) \/ ConfirmSale(b)
       \/ \E items \in SUBSET Intakes \ {{}} : AddIntakes(b, items)
       \/ \E q \in Quantities, price \in Prices : CreateSale(b, q, price)
       \/ SubmitSettlement(b) \/ PayoutCompletes(b) \/ SettleSale(b)
       \/ \E actor \in Actors :
            ApproveSettlement(b, actor) \/ \E config \in Configs : Calculate(b, config, actor)
  \/ \E c \in Receipts, actor \in Actors :
       \/ VerifyReceipt(c, actor) \/ RejectReceipt(c, actor)
       \/ \E b \in Batches, amount \in Amounts : SubmitReceipt(c, b, amount, actor)

MarketSpec == MarketInit /\ [][MarketNext]_marketVars

-----------------------------------------------------------------------------
(* Properties *)

\* Weighed produce is counted in one batch and once: a batch's total is what
\* its deliveries weigh, and its sale never sells more than was accepted.
StockCoversSale ==
  \A b \in Batches :
    LET lot == {i \in Intakes : intake[i].batch = b}
    IN /\ \A i \in lot : intake[i].status = "batched" /\ intake[i].net <= intake[i].quantity
       /\ batch[b].total = NetWeight(lot)
       /\ sale[b].quantity <= NetWeight(lot)

\* The buyer is never credited with more than the price, a sale is "funded"
\* exactly on the full price, and no run exists for a sale without it.
FundsCoverSale ==
  \A b \in Batches :
    /\ Verified(b) <= sale[b].amount
    /\ sale[b].status \in {"funded", "settled"} \/ run[b].status # "none"
         => Verified(b) = sale[b].amount
    /\ sale[b].status = "confirmed" => Verified(b) < sale[b].amount \/ sale[b].amount = 0

\* The lines divide the sale exactly: money and weight add up to the sale's,
\* a line is its payout and deductions, and a loan is deducted whole or not at all.
LinesExact ==
  \A b \in Batches :
    run[b].status # "none" =>
      /\ SumFunction([m \in DOMAIN lines[b] |-> lines[b][m].gross]) = sale[b].amount
      /\ SumFunction([m \in DOMAIN lines[b] |-> lines[b][m].quantity]) = sale[b].quantity
      /\ \A m \in DOMAIN lines[b] :
           LET l == lines[b][m]
           IN l.gross = l.charges + l.loan + l.net /\ l.loan \in {0, Owed[m]}

=============================================================================
