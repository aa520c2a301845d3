--------------------------- MODULE SettlementMath ---------------------------
(***************************************************************************)
(* The arithmetic of SettlementService.calculate.  Money is in cents and   *)
(* weight in the smallest unit the columns hold, so that every quantize is *)
(* a division of naturals.                                                 *)
(***************************************************************************)
EXTENDS Integers, FiniteSetsExt, Functions

\* quantize(..., ROUND_HALF_UP) of n / d.
RoundHalfUp(n, d) == (2 * n + d) \div (2 * d)

\* Mutant: every share is rounded half up, the last one too.
Allocate_Rounded(total, weight) ==
  [m \in DOMAIN weight |->
     IF total = 0 \/ SumFunction(weight) = 0 THEN 0
     ELSE RoundHalfUp(total * weight[m], SumFunction(weight))]

\* _allocate: shares rounded down, the residue goes to the last member.
Allocate(total, weight) ==
  LET whole == SumFunction(weight)
      share == [m \in DOMAIN weight |-> (total * weight[m]) \div whole]
      last == Max(DOMAIN weight)
      residue == total - SumFunctionOnSet(share, DOMAIN weight \ {last})
  IN IF total = 0 \/ whole = 0 THEN [m \in DOMAIN weight |-> 0]
                               ELSE [share EXCEPT ![last] = residue]

\* The lines' weights are rounded half up; the last one takes the difference,
\* which may be negative.
LineQuantities(sold, weight) ==
  LET share == [m \in DOMAIN weight |-> RoundHalfUp(sold * weight[m], SumFunction(weight))]
      delta == sold - SumFunction(share)
  IN [share EXCEPT ![Max(DOMAIN weight)] = @ + delta]

\* min(requested, remaining)
Deduct(requested, remaining) == IF requested <= remaining THEN requested ELSE remaining

\* One member's line: each deduction takes what is left at most, a loan only
\* when all of it fits.
Line(quantity, gross, config, transport, quality, manual, owed) ==
  LET d1 == Deduct(RoundHalfUp(gross * config.fee, 100), gross)
      d2 == Deduct(transport, gross - d1)
      d3 == Deduct(quality, gross - d1 - d2)
      d4 == Deduct(manual, gross - d1 - d2 - d3)
      left == gross - d1 - d2 - d3 - d4
      d5 == IF config.loans /\ owed <= left THEN owed ELSE 0
  IN [quantity |-> quantity, gross |-> gross,
      charges |-> d1 + d2 + d3 + d4, loan |-> d5, net |-> left - d5]

\* The lines of a sale, for the members with deliveries, by member.
SettlementLines(sold, amount, weight, config, owed) ==
  LET gross == Allocate(amount, weight)
      transport == Allocate(config.transport, gross)
      quality == Allocate(config.quality, gross)
      quantity == LineQuantities(sold, weight)
  IN [m \in DOMAIN weight |->
        Line(quantity[m], gross[m], config, transport[m], quality[m],
             config.manual[m], owed[m])]
=============================================================================
