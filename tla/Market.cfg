\* Two members, two batches, a weight and a price that round.
SPECIFICATION MarketSpec
CONSTANTS
  Intakes = {1, 2}
  MemberOf <- MCMemberOf
  Batches = {b1, b2}
  Matches <- MCMatches
  Quantities = {1, 2}
  Prices = {1, 5}
  Scale = 3
  Receipts = {c1, c2}
  Amounts = {1, 2}
  Actors = {u1, system}
  System = system
  Configs <- MCConfigs
  Owed <- MCOwed
SYMMETRY ReceiptAndBatchSymmetry
CHECK_DEADLOCK FALSE
INVARIANTS
  StockCoversSale
  FundsCoverSale
  LinesExact
