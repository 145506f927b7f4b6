SPECIFICATION TxSpec
CONSTANTS
  Participants = {ann}
  Products = {1}
  Keys = {k1, k2}
  AdjustKeys = {a1}
  NoOne = NoOne
  NoProduct = NoProduct
  Prices = {1}
  Stocks = {2}
  MaxQty = 1
  Amounts = {2}
  Sessions = {s1, s2}
  Nobody = Nobody
INVARIANTS NoDeadlock
CHECK_DEADLOCK FALSE
