SPECIFICATION Spec
CONSTANTS
  Participants = {ann, bob}
  Products = {shirt}
  Keys = {k1, k2}
  AdjustKeys = {a1, a2}
  NoOne = NoOne
  NoProduct = NoProduct
  Prices = {1, 2}
  Stocks = {0, 1, 2, 3}
  MaxQty = 2
  Amounts <- SmallAmounts
SYMMETRY Interchangeable
INVARIANTS
  StockAccounting
  PointsFollowOrder
  ReservedCanBeIssued
  StatusShowsStock
  NoOverspend
PROPERTIES OrderTermsFixed
CHECK_DEADLOCK FALSE
