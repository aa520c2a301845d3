------------------------------ MODULE MCMarket ------------------------------
EXTENDS Market, TLC

\* Two deliveries of two members, which fit both batches.
MCMemberOf == <<1, 2>>
MCMatches == Intakes \X Batches
MCOwed == <<1, 2>>

\* Loans alone, and charges that can eat a small line up.
MCConfigs ==
  {[fee |-> 0, transport |-> 0, quality |-> 0, manual |-> <<0, 0>>, loans |-> TRUE],
   [fee |-> 50, transport |-> 1, quality |-> 0, manual |-> <<0, 1>>, loans |-> FALSE]}

ReceiptAndBatchSymmetry == Permutations(Receipts) \cup Permutations(Batches)
=============================================================================
