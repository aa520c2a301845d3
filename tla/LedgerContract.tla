--------------------------- MODULE LedgerContract ---------------------------
(***************************************************************************)
(* What the ledger promises about money that moves outside of it: loan     *)
(* payouts, loan repayments and dues all keep it (LoanPayout,              *)
(* LoanRepayment and Dues show how).                                       *)
(*                                                                         *)
(* A row is committed before the provider is asked to move money under its *)
(* reference; it is called paid only when the money moved; and paid is the *)
(* end of it.  A row that was given up can still turn out to be paid.      *)
(***************************************************************************)

CONSTANT Payments

VARIABLES
  row,    \* the ledger: "none", "open", "paid" or "failed"
  money   \* the provider: "no", "asked", "moved" or "refused"

Init ==
  /\ row \in [Payments -> {"none", "open"}]
  /\ money \in [Payments -> {"no", "asked"}]
  /\ \A t \in Payments : money[t] # "no" => row[t] = "open"

Stays(t) == row'[t] = row[t] /\ money'[t] = money[t]

Open(t) ==
  /\ row[t] = "none" /\ row'[t] = "open"
  /\ money'[t] = money[t]

\* The provider is asked under the reference of a row, and decides.
Ask(t) ==
  /\ row[t] # "none" /\ row'[t] = row[t]
  /\ money[t] = "no" /\ money'[t] \in {"asked", "moved", "refused"}

Decide(t) ==
  /\ row'[t] = row[t]
  /\ money[t] = "asked" /\ money'[t] \in {"moved", "refused"}

Settle(t) ==
  /\ row[t] \in {"open", "failed"} /\ row'[t] = "paid"
  /\ money[t] = "moved" /\ money'[t] = money[t]

GiveUp(t) ==
  /\ row[t] = "open" /\ row'[t] = "failed"
  /\ money'[t] = money[t]

\* Several rows may take a step at once: those that expire together.
Next ==
  /\ row' = [t \in Payments |-> row'[t]]
  /\ money' = [t \in Payments |-> money'[t]]
  /\ \A t \in Payments :
       Stays(t) \/ Open(t) \/ Ask(t) \/ Decide(t) \/ Settle(t) \/ GiveUp(t)

Spec == Init /\ [][Next]_<<row, money>>
=============================================================================
