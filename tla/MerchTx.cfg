SPECIFICATION TxSpec
CONSTANTS
  Participants = {ann}
  Products = {1, 2}
  Keys = {k1, k2}
  AdjustKeys = {a1, a2}
  NoOne = NoOne
  NoProduct = NoProduct
  Prices = {1}
  Stocks = {1}
  MaxQty = 1
  Amounts <- SmallAmounts
  Sessions = {s1, s2}
  Nobody = Nobody
SYMMETRY Interchangeable
INVARIANTS ChecksStillHold
PROPERTIES Serialisable
CHECK_DEADLOCK FALSE
