---------------------------- MODULE MerchProofs ----------------------------
(***************************************************************************)
(* What the shop keeps true for any number of participants, products and   *)
(* orders: proofs about Merch and MerchTx, checked by TLAPS.               *)
(***************************************************************************)
EXTENDS MerchTx, SumTheorems

-----------------------------------------------------------------------------
(* Types. *)

\* What a cart holds of a product.
LEMMA CartShape == ASSUME NEW cart \in Cart, NEW x \in Products
                   PROVE  cart[x] \in 0 .. MaxQty /\ cart[x] \in Nat
  BY MaxQtyNat DEF Cart

\* Ledger keys of purchases and of adjustments, and of two orders, never collide.
LEMMA EntryKeysShape ==
  /\ \A k \in Keys : PurchaseKey(k) \in EntryKeys
  /\ \A a \in AdjustKeys : AdjustmentKey(a) \in EntryKeys
  /\ \A k \in Keys, a \in AdjustKeys : PurchaseKey(k) # AdjustmentKey(a)
  /\ \A k, l \in Keys : PurchaseKey(k) = PurchaseKey(l) => k = l
  BY DEF EntryKeys, PurchaseKey, AdjustmentKey

\* The price of a cart is a number of points.
LEMMA CostNat == ASSUME TypeOK, NEW cart \in Cart PROVE Cost(cart) \in Nat
<1> DEFINE f == [x \in Products |-> product[x].price * cart[x]]
<1>1. \A x \in Products : f[x] \in Nat
  <2> SUFFICES ASSUME NEW x \in Products PROVE product[x].price * cart[x] \in Nat
    OBVIOUS
  <2>1. product[x].price \in Nat /\ cart[x] \in Nat
    BY CartShape DEF TypeOK, Row
  <2> QED BY <2>1
<1>2. DOMAIN f = Products
  OBVIOUS
<1> HIDE DEF f
<1>3. SumFunction(f) \in Nat
  BY <1>1, <1>2, ProductsFinite, SumNat DEF SumFunction
<1> QED BY <1>3 DEF f, Cost

\* The three updates of a product row, each under the check its handler makes first.
LEMMA RowShapes ==
  ASSUME NEW row \in Row, NEW q \in Nat
  PROVE  /\ ReserveUnits(row, q) \in Row
         /\ row.reserved >= q => ReleaseUnits(row, q) \in Row
         /\ row.reserved >= q /\ row.stock >= q => IssueUnits(row, q) \in Row
<1>1. /\ row.status \in ProductStatus /\ row.price \in Nat
      /\ row.stock \in Nat /\ row.reserved \in Nat
  BY DEF Row
<1>2. ReserveUnits(row, q) \in Row
  BY <1>1 DEF ReserveUnits, Row, ProductStatus
<1>3. ASSUME row.reserved >= q PROVE ReleaseUnits(row, q) \in Row
  <2>1. row.reserved - q \in Nat
    BY <1>1, <1>3
  <2> QED BY <1>1, <2>1 DEF ReleaseUnits, Row, ProductStatus
<1>4. ASSUME row.reserved >= q, row.stock >= q PROVE IssueUnits(row, q) \in Row
  <2>1. row.reserved - q \in Nat /\ row.stock - q \in Nat
    BY <1>1, <1>4
  <2> QED BY <1>1, <2>1 DEF IssueUnits, OnSale, Row, ProductStatus
<1> QED BY <1>2, <1>3, <1>4

\* Every row starts absent.
LEMMA TypeInit == Init => TypeOK
  BY MaxQtyNat DEF Init, TypeOK, Row, OrderRecord, HoldRecord, Entry, NoRow, NoOrder, NoHold, NoEntry, ProductStatus, OrderStatus,
                   HoldStatus, EmptyCart, Cart

\* The catalogue statements write one product row and nothing else.
LEMMA TypeCatalogue ==
  ASSUME TypeOK, NEW x \in Products, NEW price \in Prices, NEW stock \in Stocks,
         CreateProduct(x, price, stock) \/ UpdateProduct(x, price, stock)
  PROVE  TypeOK'
<1> USE PricesPositive, StocksNat DEF TypeOK, Row, ProductStatus
<1>1. CASE CreateProduct(x, price, stock)
  BY <1>1 DEF CreateProduct
<1>2. CASE UpdateProduct(x, price, stock)
  BY <1>2 DEF UpdateProduct, OnSale
<1> QED BY <1>1, <1>2

\* The other steps: what a participant, a cashier or the points desk does.
LEMMA TypeReserve ==
  ASSUME TypeOK, NEW k \in Keys, NEW p \in Participants, NEW cart \in Cart, NEW total \in Nat,
         WriteReservation(k, p, cart, total), UNCHANGED <<active, open>>
  PROVE  TypeOK'
<1>2. product' \in [Products -> Row]
  <2>1. ASSUME NEW x \in Products
        PROVE  (IF cart[x] = 0 THEN product[x] ELSE ReserveUnits(product[x], cart[x])) \in Row
    BY CartShape, RowShapes DEF TypeOK
  <2> QED BY <2>1 DEF WriteReservation
<1>3. order' \in [Keys -> OrderRecord] /\ hold' \in [Keys -> HoldRecord]
  BY DEF WriteReservation, TypeOK, OrderRecord, HoldRecord, OrderStatus, HoldStatus
<1> QED BY <1>2, <1>3 DEF WriteReservation, TypeOK

\* Issue keeps the types: the row count test keeps stock and reserved natural.
LEMMA TypeIssue ==
  ASSUME TypeOK, NEW k \in Keys, Issue(k)
  PROVE  TypeOK'
<1>1. order[k].items \in Cart /\ order[k].total \in Nat
      /\ order[k].owner \in Participants \cup {NoOne}
  BY DEF TypeOK, OrderRecord
<1>2. product' \in [Products -> Row]
  <2>1. ASSUME NEW x \in Products
        PROVE  (IF order[k].items[x] = 0 THEN product[x]
                ELSE IssueUnits(product[x], order[k].items[x])) \in Row
    <3>1. product[x] \in Row /\ order[k].items[x] \in Nat
      BY <1>1, CartShape DEF TypeOK
    <3>2. CASE order[k].items[x] = 0
      BY <3>1, <3>2
    <3>3. CASE order[k].items[x] # 0
      <4>1. x \in ItemsOf(order[k].items)
        BY <3>1, <3>3 DEF ItemsOf
      <4> QED BY <3>1, <3>3, <4>1, RowShapes DEF Issue, WriteIssue
    <3> QED BY <3>2, <3>3
  <2> QED BY <2>1 DEF Issue, WriteIssue
<1>3. ledger' \in [EntryKeys -> Entry]
  <2>1. [owner |-> order[k].owner, amount |-> -order[k].total] \in Entry
    BY <1>1 DEF Entry
  <2>2. ledger \in [EntryKeys -> Entry]
    BY DEF TypeOK
  <2> QED BY <2>1, <2>2 DEF Issue, WriteIssue
<1>4. order' \in [Keys -> OrderRecord] /\ hold' \in [Keys -> HoldRecord]
  BY DEF Issue, WriteIssue, TypeOK, OrderRecord, HoldRecord, OrderStatus, HoldStatus
<1> QED BY <1>2, <1>3, <1>4 DEF Issue, WriteIssue, TypeOK

\* Reject and Cancel keep the types, by the same test.
LEMMA TypeRelease ==
  ASSUME TypeOK, NEW k \in Keys, NEW outcome \in {"REJECTED", "CANCELLED"}, Release(k, outcome)
  PROVE  TypeOK'
<1>1. order[k].items \in Cart
  BY DEF TypeOK, OrderRecord
<1>2. product' \in [Products -> Row]
  <2>1. ASSUME NEW x \in Products
        PROVE  (IF order[k].items[x] = 0 THEN product[x]
                ELSE ReleaseUnits(product[x], order[k].items[x])) \in Row
    <3>1. product[x] \in Row /\ order[k].items[x] \in Nat
      BY <1>1, CartShape DEF TypeOK
    <3>2. CASE order[k].items[x] = 0
      BY <3>1, <3>2
    <3>3. CASE order[k].items[x] # 0
      <4>1. x \in ItemsOf(order[k].items)
        BY <3>1, <3>3 DEF ItemsOf
      <4> QED BY <3>1, <3>3, <4>1, RowShapes DEF Release, WriteRelease
    <3> QED BY <3>2, <3>3
  <2> QED BY <2>1 DEF Release, WriteRelease
<1>3. order' \in [Keys -> OrderRecord] /\ hold' \in [Keys -> HoldRecord]
  BY DEF Release, WriteRelease, TypeOK, OrderRecord, HoldRecord, OrderStatus, HoldStatus
<1> QED BY <1>2, <1>3 DEF Release, WriteRelease, TypeOK

\* An adjustment is an entry of the ledger.
LEMMA TypeAdjust ==
  ASSUME TypeOK, NEW p \in Participants, NEW a \in AdjustKeys, NEW amount \in Amounts,
         Adjust(p, a, amount)
  PROVE  TypeOK'
  BY EntryKeysShape, AmountsNonZero DEF Adjust, TypeOK, Entry

\* Every step keeps the types.
LEMMA TypeStep == TypeOK /\ [Next]_vars => TypeOK'
<1> SUFFICES ASSUME TypeOK, [Next]_vars PROVE TypeOK'
  OBVIOUS
<1>1. ASSUME NEW x \in Products, NEW price \in Prices, NEW stock \in Stocks,
             CreateProduct(x, price, stock) \/ UpdateProduct(x, price, stock)
      PROVE  TypeOK'
  BY <1>1, TypeCatalogue
<1>2. ASSUME NEW x \in Products, ActivateProduct(x) \/ HideProduct(x) \/ DeleteProduct(x)
      PROVE  TypeOK'
  <2> USE DEF TypeOK, Row, ProductStatus
  <2>1. CASE ActivateProduct(x)
    BY <2>1 DEF ActivateProduct, OnSale
  <2>2. CASE HideProduct(x)
    BY <2>2 DEF HideProduct
  <2>3. CASE DeleteProduct(x)
    BY <2>3 DEF DeleteProduct, NoRow
  <2> QED BY <1>2, <2>1, <2>2, <2>3
<1>3. ASSUME NEW p \in Participants, NEW x \in Products, SetSavingTarget(p, x)
      PROVE  TypeOK'
  BY <1>3 DEF SetSavingTarget, TypeOK
<1>4. ASSUME NEW p \in Participants, DeleteSavingTarget(p) \/ SetParticipantStatus(p)
      PROVE  TypeOK'
  BY <1>4 DEF DeleteSavingTarget, SetParticipantStatus, TypeOK
<1>5. ASSUME NEW p \in Participants, NEW k \in Keys, NEW cart \in Cart, Reserve(k, p, cart)
      PROVE  TypeOK'
  BY <1>5, TypeReserve, CostNat DEF Reserve
<1>6. ASSUME NEW p \in Participants, NEW a \in AdjustKeys, NEW amount \in Amounts,
             Adjust(p, a, amount)
      PROVE  TypeOK'
  BY <1>6, TypeAdjust
<1>7. ASSUME NEW k \in Keys, Issue(k) \/ Reject(k) \/ Cancel(k)
      PROVE  TypeOK'
  BY <1>7, TypeIssue, TypeRelease DEF Reject, Cancel
<1>8. CASE FinishContest
  BY <1>8 DEF FinishContest, TypeOK
<1>9. CASE UNCHANGED vars
  BY <1>9 DEF TypeOK, vars
<1> QED BY <1>1, <1>2, <1>3, <1>4, <1>5, <1>6, <1>7, <1>8, <1>9 DEF Next

\* The tables always hold rows of the declared shape: no quantity goes negative and
\* no status outside its CHECK constraint is written.
THEOREM TypeCorrect == Spec => []TypeOK
  BY TypeInit, TypeStep, PTL DEF Spec

-----------------------------------------------------------------------------
(* Units: the set UnitsHeld as a function of the table of orders, and how   *)
(* its size moves when one order starts or stops waiting.                   *)

Units(o, x) ==
  {u \in Keys \X (1 .. MaxQty) : o[u[1]].status = "RESERVED" /\ u[2] <= o[u[1]].items[x]}

UnitsOf(k, n) == {k} \X (1 .. n)

\* an order of n units of a product has n of them
LEMMA UnitsOfSize ==
  ASSUME NEW k, NEW n \in Nat
  PROVE  IsFiniteSet(UnitsOf(k, n)) /\ Cardinality(UnitsOf(k, n)) = n
<1>1. IsFiniteSet({k}) /\ Cardinality({k}) = 1
  BY FS_Singleton
<1>2. IsFiniteSet(1 .. n) /\ Cardinality(1 .. n) = n
  BY FS_Interval
<1>3. /\ IsFiniteSet({k} \X (1 .. n))
      /\ Cardinality({k} \X (1 .. n)) = Cardinality({k}) * Cardinality(1 .. n)
  BY <1>1, <1>2, FS_Product
<1> QED BY <1>1, <1>2, <1>3 DEF UnitsOf

\* The units an order book promises can be counted.
LEMMA UnitsFinite == \A o, x : IsFiniteSet(Units(o, x)) /\ Cardinality(Units(o, x)) \in Nat
<1>1. IsFiniteSet(1 .. MaxQty)
  BY MaxQtyNat, FS_Interval
<1>2. IsFiniteSet(Keys \X (1 .. MaxQty))
  BY <1>1, KeysFinite, FS_Product
<1> SUFFICES ASSUME NEW o, NEW x
             PROVE  IsFiniteSet(Units(o, x)) /\ Cardinality(Units(o, x)) \in Nat
  OBVIOUS
<1>3. Units(o, x) \in SUBSET (Keys \X (1 .. MaxQty))
  BY DEF Units
<1>4. IsFiniteSet(Units(o, x))
  BY <1>2, <1>3, FS_Subset
<1> QED BY <1>4, FS_CardinalityType

\* Two tables that differ in one order, which waits in the second alone.
LEMMA UnitsSplit ==
  ASSUME NEW o1 \in [Keys -> OrderRecord], NEW o2 \in [Keys -> OrderRecord], NEW k \in Keys,
         NEW x \in Products,
         o1[k].status # "RESERVED", o2[k].status = "RESERVED",
         \A l \in Keys : l # k => o1[l] = o2[l]
  PROVE  Cardinality(Units(o2, x)) = Cardinality(Units(o1, x)) + o2[k].items[x]
<1> DEFINE n == o2[k].items[x]
<1>1. n \in Nat /\ n <= MaxQty
  BY CartShape, MaxQtyNat DEF OrderRecord
<1>2. Units(o2, x) = Units(o1, x) \cup UnitsOf(k, n)
  <2>1. ASSUME NEW u \in Units(o2, x) PROVE u \in Units(o1, x) \cup UnitsOf(k, n)
    BY <2>1, <1>1 DEF Units, UnitsOf
  <2>2. ASSUME NEW u \in Units(o1, x) PROVE u \in Units(o2, x)
    BY <2>2 DEF Units
  <2>3. ASSUME NEW u \in UnitsOf(k, n) PROVE u \in Units(o2, x)
    BY <2>3, <1>1, MaxQtyNat DEF Units, UnitsOf
  <2> QED BY <2>1, <2>2, <2>3
<1>3. Units(o1, x) \cap UnitsOf(k, n) = {}
  BY DEF Units, UnitsOf
<1>4. Cardinality(Units(o2, x)) =
        Cardinality(Units(o1, x)) + Cardinality(UnitsOf(k, n)) - Cardinality({})
  BY <1>1, <1>2, <1>3, UnitsFinite, UnitsOfSize, FS_Union
<1> HIDE DEF n
<1>5. Cardinality(UnitsOf(k, n)) = n /\ Cardinality({}) = 0 /\ Cardinality(Units(o1, x)) \in Nat
  BY <1>1, UnitsOfSize, FS_EmptySet, UnitsFinite
<1>6. Cardinality(Units(o2, x)) = Cardinality(Units(o1, x)) + n
  BY <1>1, <1>4, <1>5
<1> QED BY <1>6 DEF n

\* What one waiting order holds is part of what is held.
LEMMA UnitsOfOne ==
  ASSUME NEW o \in [Keys -> OrderRecord], NEW k \in Keys, NEW x \in Products,
         o[k].status = "RESERVED"
  PROVE  o[k].items[x] <= Cardinality(Units(o, x))
<1>1. o[k].items[x] \in Nat /\ o[k].items[x] <= MaxQty
  BY CartShape, MaxQtyNat DEF OrderRecord
<1>2. UnitsOf(k, o[k].items[x]) \in SUBSET Units(o, x)
  BY <1>1, MaxQtyNat DEF Units, UnitsOf
<1> QED BY <1>1, <1>2, UnitsFinite, UnitsOfSize, FS_Subset

\* A product no order mentions has no unit held.
LEMMA UnitsNone ==
  ASSUME NEW o \in [Keys -> OrderRecord], NEW x \in Products,
         \A k \in Keys : ~(o[k].status # "NONE" /\ o[k].items[x] > 0)
  PROVE  Cardinality(Units(o, x)) = 0
<1>1. ASSUME NEW u \in Units(o, x) PROVE FALSE
  <2>1. u[1] \in Keys /\ u[2] \in 1 .. MaxQty /\ u[2] <= o[u[1]].items[x]
        /\ o[u[1]].status = "RESERVED"
    BY <1>1 DEF Units
  <2>2. o[u[1]].items[x] \in Nat
    BY <2>1, CartShape DEF OrderRecord
  <2> QED BY <2>1, <2>2
<1>2. Units(o, x) = {}
  BY <1>1
<1> QED BY <1>2, FS_EmptySet

-----------------------------------------------------------------------------
(* The inductive invariant.  A product row agrees with the orders, a row    *)
(* that is referenced is past its draft, and points follow the order.       *)

RowAgrees(row, held) ==
  /\ row.reserved = held
  /\ row.reserved <= row.stock
  /\ row.status = "ACTIVE" => row.reserved < row.stock
  /\ row.status = "SOLD_OUT" => row.reserved = row.stock

PastDraft(row) == row.status \notin {"NONE", "DRAFT"}

Shelves == \A x \in Products : RowAgrees(product[x], Cardinality(UnitsHeld(x)))

ShopInv == TypeOK /\ Shelves /\ PointsFollowOrder /\ ReferencesStand

\* A row that agrees with the order book still does after q more units are reserved,
LEMMA ReserveAgrees ==
  ASSUME NEW row \in Row, NEW n \in Nat, NEW q \in Nat,
         RowAgrees(row, n), row.status = "ACTIVE", row.stock - row.reserved >= q
  PROVE  RowAgrees(ReserveUnits(row, q), n + q) /\ PastDraft(ReserveUnits(row, q))
  BY DEF Row, RowAgrees, ReserveUnits, PastDraft

\* after q reserved units have left the shelf,
LEMMA IssueAgrees ==
  ASSUME NEW row \in Row, NEW n \in Nat, NEW q \in Nat, RowAgrees(row, n + q)
  PROVE  RowAgrees(IssueUnits(row, q), n) /\ PastDraft(IssueUnits(row, q))
  BY DEF Row, RowAgrees, IssueUnits, OnSale, PastDraft

\* and after q reserved units have been given back.
LEMMA ReleaseAgrees ==
  ASSUME NEW row \in Row, NEW n \in Nat, NEW q \in Nat, RowAgrees(row, n + q), q > 0
  PROVE  /\ RowAgrees(ReleaseUnits(row, q), n)
         /\ PastDraft(row) => PastDraft(ReleaseUnits(row, q))
  BY DEF Row, RowAgrees, ReleaseUnits, PastDraft

\* UnitsHeld, before and after a step, is Units of the order book of the moment.
LEMMA HeldIsUnits == \A x : UnitsHeld(x) = Units(order, x) /\ UnitsHeld(x)' = Units(order', x)
  BY DEF UnitsHeld, Units

\* Init: nothing is held and no order exists.
LEMMA ShopInit == Init => ShopInv
<1> SUFFICES ASSUME Init PROVE ShopInv
  OBVIOUS
<1>1. TypeOK
  BY TypeInit
<1>2. Shelves
  <2> SUFFICES ASSUME NEW x \in Products PROVE RowAgrees(product[x], Cardinality(UnitsHeld(x)))
    BY DEF Shelves
  <2>1. order \in [Keys -> OrderRecord]
    BY <1>1 DEF TypeOK
  <2>2. Cardinality(Units(order, x)) = 0
    BY <2>1, UnitsNone DEF Init, NoOrder
  <2>3. product[x] = NoRow
    BY DEF Init
  <2> QED BY <2>2, <2>3, HeldIsUnits DEF RowAgrees, NoRow
<1>3. PointsFollowOrder
  BY EntryKeysShape DEF Init, PointsFollowOrder, NoOrder, NoHold
<1>4. ReferencesStand
  BY NoProductFresh DEF Init, ReferencesStand, Referenced, NoOrder
<1> QED BY <1>1, <1>2, <1>3, <1>4 DEF ShopInv

\* A statement on one product row keeps the invariant when the new row does.
LEMMA OneRow ==
  ASSUME ShopInv, TypeOK', NEW x \in Products, NEW row \in Row,
         product' = [product EXCEPT ![x] = row],
         UNCHANGED <<target, order, hold, ledger>>,
         RowAgrees(row, Cardinality(UnitsHeld(x))),
         Referenced(x) => PastDraft(row)
  PROVE  ShopInv'
<1>1. \A y \in Products : product'[y] = IF y = x THEN row ELSE product[y]
  BY DEF ShopInv, TypeOK
<1>2. Shelves'
  <2> SUFFICES ASSUME NEW y \in Products
               PROVE  RowAgrees(product'[y], Cardinality(UnitsHeld(y)'))
    BY DEF Shelves
  <2>1. UnitsHeld(y)' = UnitsHeld(y)
    BY DEF UnitsHeld
  <2> QED BY <1>1, <2>1 DEF ShopInv, Shelves
<1>3. PointsFollowOrder'
  BY DEF ShopInv, PointsFollowOrder
<1>4. ReferencesStand'
  BY <1>1 DEF ShopInv, ReferencesStand, Referenced, PastDraft
<1> QED BY <1>2, <1>3, <1>4 DEF ShopInv

\* A product that is absent or deletable has no units held: nothing refers to it.
LEMMA NothingHeld ==
  ASSUME ShopInv, NEW x \in Products, ~Referenced(x)
  PROVE  Cardinality(UnitsHeld(x)) = 0
<1>1. order \in [Keys -> OrderRecord]
  BY DEF ShopInv, TypeOK
<1>2. \A k \in Keys : ~(order[k].status # "NONE" /\ order[k].items[x] > 0)
  BY DEF Referenced
<1> QED BY <1>1, <1>2, UnitsNone, HeldIsUnits

\* The five statements of the administration of the catalogue.
LEMMA ShopCreate ==
  ASSUME ShopInv, TypeOK', NEW x \in Products, NEW price \in Prices, NEW stock \in Stocks,
         CreateProduct(x, price, stock)
  PROVE  ShopInv'
<1> DEFINE row == [status |-> "DRAFT", price |-> price, stock |-> stock, reserved |-> 0]
<1>1. row \in Row
  BY PricesPositive, StocksNat DEF Row, ProductStatus
<1>2. ~Referenced(x)
  BY DEF ShopInv, ReferencesStand, CreateProduct
<1>3. RowAgrees(row, Cardinality(UnitsHeld(x)))
  BY <1>2, NothingHeld, StocksNat DEF RowAgrees
<1> QED BY <1>1, <1>2, <1>3, OneRow DEF CreateProduct

\* UpdateProduct never lowers the stock under what is reserved.
LEMMA ShopUpdate ==
  ASSUME ShopInv, TypeOK', NEW x \in Products, NEW price \in Prices, NEW stock \in Stocks,
         UpdateProduct(x, price, stock)
  PROVE  ShopInv'
<1> DEFINE old == product[x]
           row == [status |-> IF old.status \in {"ACTIVE", "SOLD_OUT"}
                              THEN OnSale(stock, old.reserved) ELSE old.status,
                   price |-> price, stock |-> stock, reserved |-> old.reserved]
<1>1. old \in Row /\ stock \in Nat /\ price \in Nat /\ stock >= old.reserved
  BY PricesPositive, StocksNat DEF ShopInv, TypeOK, UpdateProduct
<1>2. RowAgrees(old, Cardinality(UnitsHeld(x)))
  BY DEF ShopInv, Shelves
<1>3. Referenced(x) => PastDraft(old)
  BY DEF ShopInv, ReferencesStand, PastDraft
<1>4. product' = [product EXCEPT ![x] = row]
  BY DEF UpdateProduct
<1> HIDE DEF old
<1>5. row \in Row
  BY <1>1 DEF Row, ProductStatus, OnSale
<1>6. RowAgrees(row, Cardinality(UnitsHeld(x)))
  BY <1>1, <1>2 DEF RowAgrees, Row, OnSale
<1>7. PastDraft(old) => PastDraft(row)
  BY DEF PastDraft, OnSale
<1> QED BY <1>3, <1>4, <1>5, <1>6, <1>7, OneRow DEF UpdateProduct

\* ActivateProduct shows what the shelf has.
LEMMA ShopActivate ==
  ASSUME ShopInv, TypeOK', NEW x \in Products, ActivateProduct(x)
  PROVE  ShopInv'
<1> DEFINE old == product[x]
           row == [old EXCEPT !.status = OnSale(old.stock, old.reserved)]
<1>1. old \in Row /\ RowAgrees(old, Cardinality(UnitsHeld(x)))
  BY DEF ShopInv, Shelves, TypeOK
<1>2. product' = [product EXCEPT ![x] = row]
  BY DEF ActivateProduct
<1> HIDE DEF old
<1>3. row \in Row /\ PastDraft(row)
  BY <1>1 DEF Row, ProductStatus, OnSale, PastDraft
<1>4. RowAgrees(row, Cardinality(UnitsHeld(x)))
  BY <1>1 DEF RowAgrees, Row, OnSale
<1> QED BY <1>2, <1>3, <1>4, OneRow DEF ActivateProduct

\* HideProduct leaves the counters alone.
LEMMA ShopHide ==
  ASSUME ShopInv, TypeOK', NEW x \in Products, HideProduct(x)
  PROVE  ShopInv'
<1> DEFINE old == product[x]
           row == [old EXCEPT !.status = "HIDDEN"]
<1>1. old \in Row /\ RowAgrees(old, Cardinality(UnitsHeld(x)))
  BY DEF ShopInv, Shelves, TypeOK
<1>2. product' = [product EXCEPT ![x] = row]
  BY DEF HideProduct
<1> HIDE DEF old
<1>3. row \in Row /\ PastDraft(row) /\ RowAgrees(row, Cardinality(UnitsHeld(x)))
  BY <1>1 DEF Row, ProductStatus, PastDraft, RowAgrees
<1> QED BY <1>2, <1>3, OneRow DEF HideProduct

\* DeleteProduct removes a row no order and no saving target names.
LEMMA ShopDelete ==
  ASSUME ShopInv, TypeOK', NEW x \in Products, DeleteProduct(x)
  PROVE  ShopInv'
<1>1. NoRow \in Row
  BY DEF NoRow, Row, ProductStatus
<1>2. RowAgrees(NoRow, Cardinality(UnitsHeld(x)))
  BY NothingHeld DEF DeleteProduct, NoRow, RowAgrees
<1> QED BY <1>1, <1>2, OneRow DEF DeleteProduct

\* Reserving: the one order that appears holds what the rows of its products gain.
LEMMA ShopReserve ==
  ASSUME ShopInv, TypeOK', NEW k \in Keys, NEW p \in Participants, NEW cart \in Cart, NEW total \in Nat,
         order[k].status = "NONE", InStock(cart), WriteReservation(k, p, cart, total)
  PROVE  ShopInv'
<1>1. order \in [Keys -> OrderRecord] /\ order' \in [Keys -> OrderRecord] /\ product \in [Products -> Row]
      /\ hold \in [Keys -> HoldRecord]
  BY DEF ShopInv, TypeOK
<1>2. order[k].status = "NONE" /\ order'[k].status = "RESERVED" /\ order'[k].items = cart
      /\ \A l \in Keys : l # k => order[l] = order'[l]
  BY <1>1 DEF WriteReservation
<1>3. \A x \in Products : product'[x] = IF cart[x] = 0 THEN product[x]
                                        ELSE ReserveUnits(product[x], cart[x])
  BY DEF WriteReservation
<1>4. \A x \in Products : cart[x] # 0 => /\ product[x].status = "ACTIVE"
                                        /\ product[x].stock - product[x].reserved >= cart[x]
  BY CartShape DEF InStock, ItemsOf, Free
<1>5. Shelves'
  <2> SUFFICES ASSUME NEW x \in Products
               PROVE  RowAgrees(product'[x], Cardinality(UnitsHeld(x)'))
    BY DEF Shelves
  <2>1. Cardinality(Units(order', x)) = Cardinality(Units(order, x)) + cart[x]
    <3>1. order[k].status # "RESERVED" /\ order'[k].status = "RESERVED"
          /\ \A l \in Keys : l # k => order[l] = order'[l]
      BY <1>2
    <3>2. Cardinality(Units(order', x)) = Cardinality(Units(order, x)) + order'[k].items[x]
      <4> DEFINE o1 == order
                 o2 == order'
      <4>1. o1 \in [Keys -> OrderRecord] /\ o2 \in [Keys -> OrderRecord]
            /\ o1[k].status # "RESERVED" /\ o2[k].status = "RESERVED"
            /\ \A l \in Keys : l # k => o1[l] = o2[l]
        BY <1>1, <3>1
      <4> HIDE DEF o1, o2
      <4>2. Cardinality(Units(o2, x)) = Cardinality(Units(o1, x)) + o2[k].items[x]
        BY <4>1, UnitsSplit
      <4> QED BY <4>2 DEF o1, o2
    <3> QED BY <1>2, <3>2
  <2>2. RowAgrees(product[x], Cardinality(Units(order, x)))
    BY HeldIsUnits DEF ShopInv, Shelves
  <2>3. cart[x] \in Nat /\ Cardinality(Units(order, x)) \in Nat /\ product[x] \in Row
    BY <1>1, CartShape, UnitsFinite
  <2>4. CASE cart[x] = 0
    <3>1. product'[x] = product[x] /\ Cardinality(Units(order', x)) = Cardinality(Units(order, x))
      BY <1>3, <2>1, <2>3, <2>4
    <3> QED BY <2>2, <3>1, HeldIsUnits
  <2>5. CASE cart[x] # 0
    <3>1. product'[x] = ReserveUnits(product[x], cart[x])
      BY <1>3, <2>5
    <3>2. RowAgrees(ReserveUnits(product[x], cart[x]), Cardinality(Units(order, x)) + cart[x])
      BY <1>4, <2>2, <2>3, <2>5, ReserveAgrees
    <3> QED BY <2>1, <3>1, <3>2, HeldIsUnits
  <2> QED BY <2>4, <2>5
<1>6. PointsFollowOrder'
  BY <1>1, <1>2 DEF ShopInv, PointsFollowOrder, WriteReservation
<1>7. ReferencesStand'
  <2> SUFFICES ASSUME NEW x \in Products, Referenced(x)' PROVE PastDraft(product'[x])
    BY DEF ReferencesStand, PastDraft
  <2>1. CASE cart[x] # 0
    <3>1. product'[x] = ReserveUnits(product[x], cart[x])
      BY <1>3, <2>1
    <3>2. product[x].status = "ACTIVE"
      BY <1>4, <2>1
    <3>3. PastDraft(ReserveUnits(product[x], cart[x]))
      BY <3>2 DEF ReserveUnits, PastDraft
    <3> QED BY <3>1, <3>3
  <2>2. CASE cart[x] = 0
    <3>1. Referenced(x)
      BY <1>1, <1>2, <2>2 DEF Referenced, WriteReservation
    <3> QED BY <1>3, <2>2, <3>1 DEF ShopInv, ReferencesStand, PastDraft
  <2> QED BY <2>1, <2>2
<1> QED BY <1>5, <1>6, <1>7 DEF ShopInv

\* An order that ends gives back the units it held, whichever way it ends.
LEMMA OrderEnds ==
  ASSUME ShopInv, TypeOK', NEW k \in Keys, NEW outcome, NEW x \in Products,
         order[k].status = "RESERVED", outcome # "RESERVED",
         order' = [order EXCEPT ![k].status = outcome]
  PROVE  /\ RowAgrees(product[x], Cardinality(Units(order', x)) + order[k].items[x])
         /\ order[k].items[x] \in Nat
         /\ Cardinality(Units(order', x)) \in Nat
<1> DEFINE o1 == order'
           o2 == order
<1>1. o1 \in [Keys -> OrderRecord] /\ o2 \in [Keys -> OrderRecord]
  BY DEF ShopInv, TypeOK
<1>2. /\ o1[k].status # "RESERVED" /\ o2[k].status = "RESERVED"
      /\ \A l \in Keys : l # k => o1[l] = o2[l]
  BY DEF ShopInv, TypeOK, OrderRecord
<1>3. RowAgrees(product[x], Cardinality(Units(o2, x)))
  BY HeldIsUnits DEF ShopInv, Shelves
<1> HIDE DEF o1, o2
<1>4. Cardinality(Units(o2, x)) = Cardinality(Units(o1, x)) + o2[k].items[x]
  BY <1>1, <1>2, UnitsSplit
<1>5. o2[k].items[x] \in Nat /\ Cardinality(Units(o1, x)) \in Nat
  BY <1>1, CartShape, UnitsFinite DEF OrderRecord
<1>6. RowAgrees(product[x], Cardinality(Units(o1, x)) + o2[k].items[x])
  BY <1>3, <1>4
<1> QED BY <1>5, <1>6 DEF o1, o2

\* The references of an order outlive it: its status is never NONE again.
LEMMA EndKeepsReferences ==
  ASSUME ShopInv, NEW k \in Keys, NEW outcome \in OrderStatus \ {"NONE"}, NEW x \in Products,
         order[k].status = "RESERVED",
         order' = [order EXCEPT ![k].status = outcome], UNCHANGED target,
         Referenced(x)'
  PROVE  PastDraft(product[x])
<1>1. order \in [Keys -> OrderRecord]
  BY DEF ShopInv, TypeOK
<1>2. \A l \in Keys : /\ order'[l].items = order[l].items
                      /\ order[l].status = "NONE" => order'[l].status = "NONE"
  BY <1>1 DEF OrderRecord
<1>3. Referenced(x)
  BY <1>2 DEF Referenced
<1> QED BY <1>3 DEF ShopInv, ReferencesStand, PastDraft

\* Issue takes the order's own units, hold and points, and no other's.
LEMMA ShopIssue ==
  ASSUME ShopInv, TypeOK', NEW k \in Keys, Issue(k)
  PROVE  ShopInv'
<1> DEFINE items == order[k].items
<1>1. order[k].status = "RESERVED" /\ order' = [order EXCEPT ![k].status = "ISSUED"]
  BY DEF Issue, WriteIssue
<1>2. \A x \in Products : product'[x] = IF items[x] = 0 THEN product[x]
                                        ELSE IssueUnits(product[x], items[x])
  BY DEF Issue, WriteIssue
<1>3. \A x \in Products : product[x] \in Row
  BY DEF ShopInv, TypeOK
<1> HIDE DEF items
<1>4. ASSUME NEW x \in Products
      PROVE  /\ RowAgrees(product'[x], Cardinality(Units(order', x)))
             /\ PastDraft(product[x]) => PastDraft(product'[x])
  <2>1. /\ RowAgrees(product[x], Cardinality(Units(order', x)) + items[x])
        /\ items[x] \in Nat /\ Cardinality(Units(order', x)) \in Nat
    BY <1>1, OrderEnds DEF items
  <2>2. CASE items[x] = 0
    <3>1. product'[x] = product[x] /\ Cardinality(Units(order', x)) + items[x] = Cardinality(Units(order', x))
      BY <1>2, <2>1, <2>2
    <3> QED BY <2>1, <3>1
  <2>3. CASE items[x] # 0
    <3>1. product'[x] = IssueUnits(product[x], items[x])
      BY <1>2, <2>3
    <3> QED BY <1>3, <2>1, <3>1, IssueAgrees
  <2> QED BY <2>2, <2>3
<1>5. Shelves'
  BY <1>4, HeldIsUnits DEF Shelves
<1>6. PointsFollowOrder'
  <2> SUFFICES ASSUME NEW l \in Keys PROVE
        /\ hold'[l].amount = order'[l].total
        /\ hold'[l].status = CASE order'[l].status = "NONE" -> "NONE"
                               [] order'[l].status = "RESERVED" -> "ACTIVE"
                               [] order'[l].status = "ISSUED" -> "CAPTURED"
                               [] OTHER -> "RELEASED"
        /\ ledger'[PurchaseKey(l)] =
             IF order'[l].status = "ISSUED"
             THEN [owner |-> order'[l].owner, amount |-> -order'[l].total] ELSE NoEntry
    BY DEF PointsFollowOrder
  <2>1. order \in [Keys -> OrderRecord] /\ hold \in [Keys -> HoldRecord] /\ ledger \in [EntryKeys -> Entry]
    BY DEF ShopInv, TypeOK
  <2>2. CASE l = k
    BY <2>1, <2>2, EntryKeysShape DEF ShopInv, PointsFollowOrder, Issue, WriteIssue, OrderRecord, HoldRecord
  <2>3. CASE l # k
    <3>1. order'[l] = order[l] /\ hold'[l] = hold[l]
          /\ ledger'[PurchaseKey(l)] = ledger[PurchaseKey(l)]
      BY <2>1, <2>3, EntryKeysShape DEF Issue, WriteIssue
    <3> QED BY <3>1 DEF ShopInv, PointsFollowOrder
  <2> QED BY <2>2, <2>3
<1>7. ReferencesStand'
  <2> SUFFICES ASSUME NEW x \in Products, Referenced(x)' PROVE PastDraft(product'[x])
    BY DEF ReferencesStand, PastDraft
  <2>1. UNCHANGED target
    BY DEF Issue, WriteIssue
  <2> QED BY <1>1, <1>4, <2>1, EndKeepsReferences DEF OrderStatus
<1> QED BY <1>5, <1>6, <1>7 DEF ShopInv

\* Reject and Cancel give back the order's own units and points, and no other's.
LEMMA ShopRelease ==
  ASSUME ShopInv, TypeOK', NEW k \in Keys, NEW outcome \in {"REJECTED", "CANCELLED"},
         Release(k, outcome)
  PROVE  ShopInv'
<1> DEFINE items == order[k].items
<1>1. order[k].status = "RESERVED" /\ order' = [order EXCEPT ![k].status = outcome]
  BY DEF Release, WriteRelease
<1>2. \A x \in Products : product'[x] = IF items[x] = 0 THEN product[x]
                                        ELSE ReleaseUnits(product[x], items[x])
  BY DEF Release, WriteRelease
<1>3. \A x \in Products : product[x] \in Row
  BY DEF ShopInv, TypeOK
<1> HIDE DEF items
<1>4. ASSUME NEW x \in Products
      PROVE  /\ RowAgrees(product'[x], Cardinality(Units(order', x)))
             /\ PastDraft(product[x]) => PastDraft(product'[x])
  <2>1. /\ RowAgrees(product[x], Cardinality(Units(order', x)) + items[x])
        /\ items[x] \in Nat /\ Cardinality(Units(order', x)) \in Nat
    <3>1. outcome # "RESERVED"
      OBVIOUS
    <3> QED BY <1>1, <3>1, OrderEnds DEF items
  <2>2. CASE items[x] = 0
    <3>1. product'[x] = product[x] /\ Cardinality(Units(order', x)) + items[x] = Cardinality(Units(order', x))
      BY <1>2, <2>1, <2>2
    <3> QED BY <2>1, <3>1
  <2>3. CASE items[x] # 0
    <3>1. product'[x] = ReleaseUnits(product[x], items[x]) /\ items[x] > 0
      BY <1>2, <2>1, <2>3
    <3> QED BY <1>3, <2>1, <3>1, ReleaseAgrees
  <2> QED BY <2>2, <2>3
<1>5. Shelves'
  BY <1>4, HeldIsUnits DEF Shelves
<1>6. PointsFollowOrder'
  <2> SUFFICES ASSUME NEW l \in Keys PROVE
        /\ hold'[l].amount = order'[l].total
        /\ hold'[l].status = CASE order'[l].status = "NONE" -> "NONE"
                               [] order'[l].status = "RESERVED" -> "ACTIVE"
                               [] order'[l].status = "ISSUED" -> "CAPTURED"
                               [] OTHER -> "RELEASED"
        /\ ledger'[PurchaseKey(l)] =
             IF order'[l].status = "ISSUED"
             THEN [owner |-> order'[l].owner, amount |-> -order'[l].total] ELSE NoEntry
    BY DEF PointsFollowOrder
  <2>1. order \in [Keys -> OrderRecord] /\ hold \in [Keys -> HoldRecord]
    BY DEF ShopInv, TypeOK
  <2>2. CASE l = k
    BY <2>1, <2>2 DEF ShopInv, PointsFollowOrder, Release, WriteRelease, OrderRecord, HoldRecord
  <2>3. CASE l # k
    <3>1. order'[l] = order[l] /\ hold'[l] = hold[l]
          /\ ledger'[PurchaseKey(l)] = ledger[PurchaseKey(l)]
      BY <2>1, <2>3 DEF Release, WriteRelease
    <3> QED BY <3>1 DEF ShopInv, PointsFollowOrder
  <2> QED BY <2>2, <2>3
<1>7. ReferencesStand'
  <2> SUFFICES ASSUME NEW x \in Products, Referenced(x)' PROVE PastDraft(product'[x])
    BY DEF ReferencesStand, PastDraft
  <2>1. UNCHANGED target
    BY DEF Release, WriteRelease
  <2> QED BY <1>1, <1>4, <2>1, EndKeepsReferences DEF OrderStatus
<1> QED BY <1>5, <1>6, <1>7 DEF ShopInv

\* Steps that leave the product rows and the orders alone.
LEMMA ShopAside ==
  ASSUME ShopInv, TypeOK', UNCHANGED <<product, order, hold>>,
         \A k \in Keys : ledger'[PurchaseKey(k)] = ledger[PurchaseKey(k)],
         \A p \in Participants : \/ target'[p] \in {target[p], NoProduct}
                                 \/ target'[p] \in Products /\ PastDraft(product[target'[p]])
  PROVE  ShopInv'
<1>1. Shelves'
  BY DEF ShopInv, Shelves, UnitsHeld
<1>2. PointsFollowOrder'
  BY DEF ShopInv, PointsFollowOrder
<1>3. ReferencesStand'
  BY NoProductFresh DEF ShopInv, ReferencesStand, Referenced, PastDraft
<1> QED BY <1>1, <1>2, <1>3 DEF ShopInv

\* The inductive invariant is kept by every step.
LEMMA ShopStep == ShopInv /\ [Next]_vars => ShopInv'
<1> SUFFICES ASSUME ShopInv, [Next]_vars PROVE ShopInv'
  OBVIOUS
<1>t. TypeOK /\ TypeOK'
  BY TypeStep DEF ShopInv
<1>1. ASSUME NEW x \in Products, NEW price \in Prices, NEW stock \in Stocks,
             CreateProduct(x, price, stock) \/ UpdateProduct(x, price, stock)
      PROVE  ShopInv'
  BY <1>1, <1>t, ShopCreate, ShopUpdate
<1>2. ASSUME NEW x \in Products, ActivateProduct(x) \/ HideProduct(x) \/ DeleteProduct(x)
      PROVE  ShopInv'
  BY <1>2, <1>t, ShopActivate, ShopHide, ShopDelete
<1>3. ASSUME NEW p \in Participants, NEW x \in Products, SetSavingTarget(p, x)
      PROVE  ShopInv'
  <2>1. \A q \in Participants : target'[q] = IF q = p THEN x ELSE target[q]
    BY <1>3, <1>t DEF SetSavingTarget, TypeOK
  <2>2. PastDraft(product[x])
    BY <1>3 DEF SetSavingTarget, PastDraft
  <2> QED BY <1>3, <1>t, <2>1, <2>2, ShopAside DEF SetSavingTarget
<1>4. ASSUME NEW p \in Participants, DeleteSavingTarget(p)
      PROVE  ShopInv'
  <2>1. \A q \in Participants : target'[q] = IF q = p THEN NoProduct ELSE target[q]
    BY <1>4, <1>t DEF DeleteSavingTarget, TypeOK
  <2> QED BY <1>4, <1>t, <2>1, ShopAside DEF DeleteSavingTarget
<1>5. ASSUME NEW p \in Participants, NEW k \in Keys, NEW cart \in Cart, Reserve(k, p, cart)
      PROVE  ShopInv'
  BY <1>5, <1>t, ShopReserve, CostNat DEF Reserve
<1>6. ASSUME NEW p \in Participants, NEW a \in AdjustKeys, NEW amount \in Amounts,
             Adjust(p, a, amount)
      PROVE  ShopInv'
  <2>1. \A k \in Keys : ledger'[PurchaseKey(k)] = ledger[PurchaseKey(k)]
    BY <1>6, <1>t, EntryKeysShape DEF Adjust, TypeOK
  <2> QED BY <1>6, <1>t, <2>1, ShopAside DEF Adjust
<1>7. ASSUME NEW p \in Participants, SetParticipantStatus(p)
      PROVE  ShopInv'
  BY <1>7, <1>t, ShopAside DEF SetParticipantStatus
<1>8. ASSUME NEW k \in Keys, Issue(k) \/ Reject(k) \/ Cancel(k)
      PROVE  ShopInv'
  BY <1>8, <1>t, ShopIssue, ShopRelease DEF Reject, Cancel
<1>9. CASE FinishContest
  BY <1>9, <1>t, ShopAside DEF FinishContest
<1>10. CASE UNCHANGED vars
  BY <1>10, <1>t, ShopAside DEF vars
<1> QED BY <1>1, <1>2, <1>3, <1>4, <1>5, <1>6, <1>7, <1>8, <1>9, <1>10 DEF Next

\* The inductive invariant holds in every reachable state: types, the shelf count of
\* every product, the hold and ledger entry of every order, and the references.
THEOREM ShopCorrect == Spec => []ShopInv
  BY ShopInit, ShopStep, PTL DEF Spec

-----------------------------------------------------------------------------
(* What follows from it. *)

\* Reserved quantities are the units of the waiting orders and never exceed the stock.
THEOREM StockSafe == Spec => []StockAccounting
<1>1. ShopInv => StockAccounting
  BY DEF ShopInv, Shelves, RowAgrees, StockAccounting
<1> QED BY <1>1, ShopCorrect, PTL

\* Holds and purchase entries of the ledger say what the order says.
THEOREM PointsSafe == Spec => []PointsFollowOrder
<1>1. ShopInv => PointsFollowOrder
  BY DEF ShopInv
<1> QED BY <1>1, ShopCorrect, PTL

\* A referenced product is neither gone nor a draft.
THEOREM ReferencesSafe == Spec => []ReferencesStand
<1>1. ShopInv => ReferencesStand
  BY DEF ShopInv
<1> QED BY <1>1, ShopCorrect, PTL

\* What is shown as on sale can be bought, and what is sold out cannot.
THEOREM StatusSafe == Spec => []StatusShowsStock
<1>1. ShopInv => StatusShowsStock
  BY DEF ShopInv, TypeOK, Row, Shelves, RowAgrees, StatusShowsStock, Free
<1> QED BY <1>1, ShopCorrect, PTL

\* A waiting order's own units are among those reserved, so the shelf has them.
LEMMA ShopFulfils == ShopInv => ReservedCanBeIssued
<1>1. ASSUME ShopInv, NEW k \in Keys, order[k].status = "RESERVED",
             NEW x \in ItemsOf(order[k].items)
      PROVE  /\ product[x].status \notin {"NONE", "DRAFT"}
             /\ product[x].reserved >= order[k].items[x]
             /\ product[x].stock >= order[k].items[x]
  <2>1. order \in [Keys -> OrderRecord] /\ x \in Products /\ product[x] \in Row
    BY <1>1 DEF ShopInv, TypeOK, ItemsOf
  <2>2. order[k].items[x] \in Nat /\ order[k].items[x] > 0
    BY <1>1, <2>1, CartShape DEF OrderRecord, ItemsOf
  <2>3. order[k].items[x] <= Cardinality(Units(order, x))
    BY <1>1, <2>1, UnitsOfOne
  <2>4. product[x].reserved = Cardinality(Units(order, x)) /\ product[x].reserved <= product[x].stock
    BY <1>1, <2>1, HeldIsUnits DEF ShopInv, Shelves, RowAgrees
  <2>5. Referenced(x)
    BY <1>1, <2>2 DEF Referenced
  <2>6. product[x].reserved \in Nat /\ product[x].stock \in Nat
    BY <2>1 DEF Row
  <2> QED BY <1>1, <2>1, <2>2, <2>3, <2>4, <2>5, <2>6 DEF ShopInv, ReferencesStand
<1>2. ASSUME ShopInv, NEW k \in Keys, order[k].status = "RESERVED"
      PROVE  hold[k].status = "ACTIVE" /\ ledger[PurchaseKey(k)] = NoEntry
  BY <1>2 DEF ShopInv, PointsFollowOrder
<1> QED BY <1>1, <1>2 DEF ReservedCanBeIssued

\* Whatever happened since it was made, a waiting order can be issued.
THEOREM Fulfillable == Spec => []ReservedCanBeIssued
  BY ShopFulfils, ShopCorrect, PTL

\* An order keeps its owner, items and price, and a decision on it is final.
THEOREM TermsFixed == Spec => OrderTermsFixed
<1> DEFINE Terms == \A k \in Keys : order[k].status # "NONE" =>
                      /\ order'[k].owner = order[k].owner
                      /\ order'[k].items = order[k].items
                      /\ order'[k].total = order[k].total
                      /\ order[k].status # "RESERVED" => order'[k].status = order[k].status
<1>1. ASSUME TypeOK, Next PROVE Terms
  <2>1. order \in [Keys -> OrderRecord]
    BY <1>1 DEF TypeOK
  <2>2. ASSUME NEW l \in Keys, NEW p \in Participants, NEW cart \in Cart, Reserve(l, p, cart)
        PROVE  Terms
    BY <2>1, <2>2 DEF Reserve, WriteReservation
  <2>3. ASSUME NEW l \in Keys, NEW outcome, Release(l, outcome)
        PROVE  Terms
    BY <2>1, <2>3 DEF Release, WriteRelease, OrderRecord
  <2>4. ASSUME NEW l \in Keys, Issue(l)
        PROVE  Terms
    BY <2>1, <2>4 DEF Issue, WriteIssue, OrderRecord
  <2>5. CASE UNCHANGED order
    BY <2>5
  <2>6. \/ UNCHANGED order
        \/ \E l \in Keys, p \in Participants, cart \in Cart : Reserve(l, p, cart)
        \/ \E l \in Keys : Issue(l) \/ Release(l, "REJECTED") \/ Release(l, "CANCELLED")
    BY <1>1 DEF Next, CreateProduct, UpdateProduct, ActivateProduct, HideProduct, DeleteProduct,
                SetSavingTarget, DeleteSavingTarget, Adjust, SetParticipantStatus, FinishContest,
                Reject, Cancel
  <2> QED BY <2>2, <2>3, <2>4, <2>5, <2>6
<1>2. TypeOK /\ [Next]_vars => [Terms]_vars
  BY <1>1
<1> QED BY <1>2, TypeCorrect, PTL DEF Spec, OrderTermsFixed
-----------------------------------------------------------------------------
(* Money.  A step that writes one entry of the ledger, or one order with    *)
(* its hold, moves the sums of a participant by what it writes.             *)

InBalance(entry, p) == IF entry.owner = p THEN entry.amount ELSE 0
InEarned(entry, p) == IF entry.owner = p /\ entry.amount > 0 THEN entry.amount ELSE 0
InHolds(o, h, p) == IF o.owner = p /\ h.status = "ACTIVE" THEN h.amount ELSE 0
InSpent(o, p) == IF o.owner = p /\ o.status = "ISSUED" THEN o.total ELSE 0

\* The ledger has finitely many keys.
LEMMA EntryKeysFinite == IsFiniteSet(EntryKeys)
<1> DEFINE P == {PurchaseKey(k) : k \in Keys}
           A == {AdjustmentKey(a) : a \in AdjustKeys}
           fp == [k \in Keys |-> PurchaseKey(k)]
           fa == [a \in AdjustKeys |-> AdjustmentKey(a)]
<1>1. fp \in Surjection(Keys, P) /\ fa \in Surjection(AdjustKeys, A)
  BY DEF Surjection
<1> HIDE DEF fp, fa, P, A
<1>2. IsFiniteSet(P) /\ IsFiniteSet(A)
  BY <1>1, KeysFinite, FS_Surjection
<1>3. IsFiniteSet(P \cup A)
  BY <1>2, FS_Union
<1> QED BY <1>3 DEF EntryKeys, P, A

\* The four sums are integers.
LEMMA SumsTyped ==
  ASSUME TypeOK, NEW p \in Participants
  PROVE  LedgerBalance(p) \in Int /\ Earned(p) \in Int /\ ActiveHolds(p) \in Nat /\ Spent(p) \in Int
<1> DEFINE b == [e \in EntryKeys |-> IF ledger[e].owner = p THEN ledger[e].amount ELSE 0]
           n == [e \in EntryKeys |-> IF ledger[e].owner = p /\ ledger[e].amount > 0 THEN ledger[e].amount ELSE 0]
           h == [k \in Keys |-> IF order[k].owner = p /\ hold[k].status = "ACTIVE" THEN hold[k].amount ELSE 0]
           t == [k \in Keys |-> IF order[k].owner = p /\ order[k].status = "ISSUED" THEN order[k].total ELSE 0]
<1>1. (\A e \in EntryKeys : b[e] \in Int /\ n[e] \in Int) /\ DOMAIN b = EntryKeys /\ DOMAIN n = EntryKeys
  BY DEF TypeOK, Entry
<1>2. (\A k \in Keys : h[k] \in Nat /\ t[k] \in Int) /\ DOMAIN h = Keys /\ DOMAIN t = Keys
  BY DEF TypeOK, OrderRecord, HoldRecord
<1> HIDE DEF b, n, h, t
<1>3. SumFunction(b) \in Int /\ SumFunction(n) \in Int
  BY <1>1, EntryKeysFinite, SumType DEF SumFunction
<1>4. SumFunction(h) \in Nat /\ SumFunction(t) \in Int
  BY <1>2, KeysFinite, SumType, SumNat DEF SumFunction
<1> QED BY <1>3, <1>4 DEF LedgerBalance, Earned, ActiveHolds, Spent, b, n, h, t

\* Balances and their parts are numbers.
LEMMA SumsTypedNow ==
  TypeOK => \A p \in Participants :
    LedgerBalance(p) \in Int /\ Earned(p) \in Int /\ ActiveHolds(p) \in Nat /\ Spent(p) \in Int
  BY SumsTyped

\* The same after a step.
LEMMA SumsTypedNext ==
  (TypeOK => \A p \in Participants :
     LedgerBalance(p) \in Int /\ Earned(p) \in Int /\ ActiveHolds(p) \in Nat /\ Spent(p) \in Int)'
  BY SumsTypedNow, PTL

\* A step that writes entry e only.
LEMMA LedgerMoves ==
  ASSUME TypeOK, TypeOK', NEW p \in Participants, NEW e \in EntryKeys,
         \A d \in EntryKeys : d # e => ledger'[d] = ledger[d]
  PROVE  /\ LedgerBalance(p)' = LedgerBalance(p) - InBalance(ledger[e], p) + InBalance(ledger'[e], p)
         /\ Earned(p)' = Earned(p) - InEarned(ledger[e], p) + InEarned(ledger'[e], p)
<1> DEFINE b(l) == [d \in EntryKeys |-> IF l[d].owner = p THEN l[d].amount ELSE 0]
           n(l) == [d \in EntryKeys |-> IF l[d].owner = p /\ l[d].amount > 0 THEN l[d].amount ELSE 0]
           l1 == ledger
           l2 == ledger'
<1>1. l1 \in [EntryKeys -> Entry] /\ l2 \in [EntryKeys -> Entry] /\ \A d \in EntryKeys : d # e => l2[d] = l1[d]
  BY DEF TypeOK
<1>2. /\ LedgerBalance(p) = SumFunction(b(l1)) /\ LedgerBalance(p)' = SumFunction(b(l2))
      /\ Earned(p) = SumFunction(n(l1)) /\ Earned(p)' = SumFunction(n(l2))
  BY DEF LedgerBalance, Earned
<1> HIDE DEF l1, l2
<1>3. /\ b(l1) \in [EntryKeys -> Int] /\ b(l2) \in [EntryKeys -> Int]
      /\ \A d \in EntryKeys : d # e => b(l1)[d] = b(l2)[d]
      /\ b(l1)[e] = InBalance(l1[e], p) /\ b(l2)[e] = InBalance(l2[e], p)
  BY <1>1 DEF Entry, InBalance
<1>4. /\ n(l1) \in [EntryKeys -> Int] /\ n(l2) \in [EntryKeys -> Int]
      /\ \A d \in EntryKeys : d # e => n(l1)[d] = n(l2)[d]
      /\ n(l1)[e] = InEarned(l1[e], p) /\ n(l2)[e] = InEarned(l2[e], p)
  BY <1>1 DEF Entry, InEarned
<1> HIDE DEF b, n
<1>5. SumFunction(b(l2)) = SumFunction(b(l1)) - b(l1)[e] + b(l2)[e]
  BY <1>3, EntryKeysFinite, SumChange
<1>6. SumFunction(n(l2)) = SumFunction(n(l1)) - n(l1)[e] + n(l2)[e]
  BY <1>4, EntryKeysFinite, SumChange
<1> QED BY <1>2, <1>3, <1>4, <1>5, <1>6 DEF l1, l2

\* A step that writes order k and its hold only.
LEMMA OrdersMove ==
  ASSUME TypeOK, TypeOK', NEW p \in Participants, NEW k \in Keys,
         \A l \in Keys : l # k => order'[l] = order[l] /\ hold'[l] = hold[l]
  PROVE  /\ ActiveHolds(p)' = ActiveHolds(p) - InHolds(order[k], hold[k], p) + InHolds(order'[k], hold'[k], p)
         /\ Spent(p)' = Spent(p) - InSpent(order[k], p) + InSpent(order'[k], p)
<1> DEFINE b(o, h) == [l \in Keys |-> IF o[l].owner = p /\ h[l].status = "ACTIVE" THEN h[l].amount ELSE 0]
           n(o) == [l \in Keys |-> IF o[l].owner = p /\ o[l].status = "ISSUED" THEN o[l].total ELSE 0]
           o1 == order
           o2 == order'
           h1 == hold
           h2 == hold'
<1>1. /\ o1 \in [Keys -> OrderRecord] /\ o2 \in [Keys -> OrderRecord]
      /\ h1 \in [Keys -> HoldRecord] /\ h2 \in [Keys -> HoldRecord]
      /\ \A l \in Keys : l # k => o2[l] = o1[l] /\ h2[l] = h1[l]
  BY DEF TypeOK
<1>2. /\ ActiveHolds(p) = SumFunction(b(o1, h1)) /\ ActiveHolds(p)' = SumFunction(b(o2, h2))
      /\ Spent(p) = SumFunction(n(o1)) /\ Spent(p)' = SumFunction(n(o2))
  BY DEF ActiveHolds, Spent
<1> HIDE DEF o1, o2, h1, h2
<1>3. /\ b(o1, h1) \in [Keys -> Int] /\ b(o2, h2) \in [Keys -> Int]
      /\ \A l \in Keys : l # k => b(o1, h1)[l] = b(o2, h2)[l]
      /\ b(o1, h1)[k] = InHolds(o1[k], h1[k], p) /\ b(o2, h2)[k] = InHolds(o2[k], h2[k], p)
  BY <1>1 DEF HoldRecord, OrderRecord, InHolds
<1>4. /\ n(o1) \in [Keys -> Int] /\ n(o2) \in [Keys -> Int]
      /\ \A l \in Keys : l # k => n(o1)[l] = n(o2)[l]
      /\ n(o1)[k] = InSpent(o1[k], p) /\ n(o2)[k] = InSpent(o2[k], p)
  BY <1>1 DEF OrderRecord, InSpent
<1> HIDE DEF b, n
<1>5. SumFunction(b(o2, h2)) = SumFunction(b(o1, h1)) - b(o1, h1)[k] + b(o2, h2)[k]
  BY <1>3, KeysFinite, SumChange
<1>6. SumFunction(n(o2)) = SumFunction(n(o1)) - n(o1)[k] + n(o2)[k]
  BY <1>4, KeysFinite, SumChange
<1> QED BY <1>2, <1>3, <1>4, <1>5, <1>6 DEF o1, o2, h1, h2

\* A reservation adds its price to what its owner has on hold.
LEMMA SumsReserve ==
  ASSUME ShopInv, TypeOK', NEW k \in Keys, NEW p \in Participants, NEW cart \in Cart, NEW total \in Nat,
         order[k].status = "NONE", WriteReservation(k, p, cart, total),
         NEW q \in Participants
  PROVE  /\ ActiveHolds(q)' = ActiveHolds(q) + (IF p = q THEN total ELSE 0)
         /\ Spent(q)' = Spent(q) /\ LedgerBalance(q)' = LedgerBalance(q) /\ Earned(q)' = Earned(q)
<1>1. TypeOK
  BY DEF ShopInv
<1>2. hold[k].status = "NONE"
  BY <1>1 DEF ShopInv, PointsFollowOrder
<1>3. /\ order'[k] = [status |-> "RESERVED", owner |-> p, items |-> cart, total |-> total]
      /\ hold'[k] = [status |-> "ACTIVE", amount |-> total]
      /\ \A l \in Keys : l # k => order'[l] = order[l] /\ hold'[l] = hold[l]
  BY <1>1 DEF WriteReservation, TypeOK
<1>4. /\ InHolds(order[k], hold[k], q) = 0 /\ InSpent(order[k], q) = 0 /\ InSpent(order'[k], q) = 0
      /\ InHolds(order'[k], hold'[k], q) = IF p = q THEN total ELSE 0
  BY <1>2, <1>3 DEF InHolds, InSpent
<1>5. /\ ActiveHolds(q)' = ActiveHolds(q) - InHolds(order[k], hold[k], q) + InHolds(order'[k], hold'[k], q)
      /\ Spent(q)' = Spent(q) - InSpent(order[k], q) + InSpent(order'[k], q)
  BY <1>1, <1>3, OrdersMove
<1>6. LedgerBalance(q)' = LedgerBalance(q) /\ Earned(q)' = Earned(q)
  BY DEF WriteReservation, LedgerBalance, Earned
<1>7. LedgerBalance(q) \in Int /\ Earned(q) \in Int /\ ActiveHolds(q) \in Nat /\ Spent(q) \in Int
  BY <1>1, SumsTyped
<1> QED BY <1>4, <1>5, <1>6, <1>7

\* What an order costs a participant: its owner alone pays.
Share(k, q) == IF order[k].owner = q THEN order[k].total ELSE 0

\* Issue turns a hold into a charge of the same number of points.
LEMMA SumsIssue ==
  ASSUME ShopInv, TypeOK', NEW k \in Keys, Issue(k), NEW q \in Participants
  PROVE  /\ ActiveHolds(q)' = ActiveHolds(q) - Share(k, q) /\ Spent(q)' = Spent(q) + Share(k, q)
         /\ LedgerBalance(q)' = LedgerBalance(q) - Share(k, q) /\ Earned(q)' = Earned(q)
<1>1. TypeOK
  BY DEF ShopInv
<1> DEFINE total == order[k].total
           mine == order[k].owner = q
<1>2. /\ order[k].status = "RESERVED" /\ hold[k].status = "ACTIVE" /\ hold[k].amount = total
      /\ total \in Nat /\ ledger[PurchaseKey(k)] = NoEntry /\ PurchaseKey(k) \in EntryKeys
  BY <1>1, EntryKeysShape DEF Issue, ShopInv, PointsFollowOrder, TypeOK, OrderRecord
<1>3. /\ order'[k].status = "ISSUED" /\ order'[k].owner = order[k].owner /\ order'[k].total = total
      /\ hold'[k].status = "CAPTURED"
      /\ \A l \in Keys : l # k => order'[l] = order[l] /\ hold'[l] = hold[l]
  BY <1>1 DEF Issue, WriteIssue, TypeOK, OrderRecord, HoldRecord
<1>4. /\ ledger'[PurchaseKey(k)] = [owner |-> order[k].owner, amount |-> -total]
      /\ \A e \in EntryKeys : e # PurchaseKey(k) => ledger'[e] = ledger[e]
  BY <1>1, <1>2 DEF Issue, WriteIssue, TypeOK
<1>5. /\ InHolds(order[k], hold[k], q) = (IF mine THEN total ELSE 0) /\ InHolds(order'[k], hold'[k], q) = 0
      /\ InSpent(order[k], q) = 0 /\ InSpent(order'[k], q) = (IF mine THEN total ELSE 0)
  BY <1>2, <1>3 DEF InHolds, InSpent
<1>6. /\ InBalance(ledger[PurchaseKey(k)], q) = 0
      /\ InBalance(ledger'[PurchaseKey(k)], q) = (IF mine THEN -total ELSE 0)
      /\ InEarned(ledger[PurchaseKey(k)], q) = 0 /\ InEarned(ledger'[PurchaseKey(k)], q) = 0
  BY <1>2, <1>4 DEF InBalance, InEarned, NoEntry
<1>7. /\ ActiveHolds(q)' = ActiveHolds(q) - InHolds(order[k], hold[k], q) + InHolds(order'[k], hold'[k], q)
      /\ Spent(q)' = Spent(q) - InSpent(order[k], q) + InSpent(order'[k], q)
  BY <1>1, <1>3, OrdersMove
<1>8. /\ LedgerBalance(q)' = LedgerBalance(q) - InBalance(ledger[PurchaseKey(k)], q) + InBalance(ledger'[PurchaseKey(k)], q)
      /\ Earned(q)' = Earned(q) - InEarned(ledger[PurchaseKey(k)], q) + InEarned(ledger'[PurchaseKey(k)], q)
  BY <1>1, <1>2, <1>4, LedgerMoves
<1>9. LedgerBalance(q) \in Int /\ Earned(q) \in Int /\ ActiveHolds(q) \in Nat /\ Spent(q) \in Int
  BY <1>1, SumsTyped
<1>10. Share(k, q) = IF mine THEN total ELSE 0
  BY DEF Share
<1> HIDE DEF total, mine
<1> QED BY <1>2, <1>5, <1>6, <1>7, <1>8, <1>9, <1>10

\* Reject and Cancel only drop a hold.
LEMMA SumsRelease ==
  ASSUME ShopInv, TypeOK', NEW k \in Keys, NEW outcome \in {"REJECTED", "CANCELLED"},
         Release(k, outcome), NEW q \in Participants
  PROVE  /\ ActiveHolds(q)' <= ActiveHolds(q)
         /\ Spent(q)' = Spent(q) /\ LedgerBalance(q)' = LedgerBalance(q) /\ Earned(q)' = Earned(q)
<1>1. TypeOK
  BY DEF ShopInv
<1>2. /\ order[k].status = "RESERVED" /\ hold[k].amount \in Nat
      /\ order'[k].status = outcome /\ hold'[k].status = "RELEASED"
      /\ \A l \in Keys : l # k => order'[l] = order[l] /\ hold'[l] = hold[l]
  BY <1>1 DEF Release, WriteRelease, TypeOK, OrderRecord, HoldRecord
<1>3. /\ InHolds(order[k], hold[k], q) \in Nat /\ InHolds(order'[k], hold'[k], q) = 0
      /\ InSpent(order[k], q) = 0 /\ InSpent(order'[k], q) = 0
  BY <1>2 DEF InHolds, InSpent
<1>4. /\ ActiveHolds(q)' = ActiveHolds(q) - InHolds(order[k], hold[k], q) + InHolds(order'[k], hold'[k], q)
      /\ Spent(q)' = Spent(q) - InSpent(order[k], q) + InSpent(order'[k], q)
  BY <1>1, <1>2, OrdersMove
<1>5. LedgerBalance(q)' = LedgerBalance(q) /\ Earned(q)' = Earned(q)
  BY DEF Release, WriteRelease, LedgerBalance, Earned
<1>6. LedgerBalance(q) \in Int /\ Earned(q) \in Int /\ ActiveHolds(q) \in Nat /\ Spent(q) \in Int
  BY <1>1, SumsTyped
<1> QED BY <1>3, <1>4, <1>5, <1>6

\* An adjustment up is earned; one down lowers the balance alone.
LEMMA SumsAdjust ==
  ASSUME TypeOK, TypeOK', NEW p \in Participants, NEW a \in AdjustKeys, NEW amount \in Amounts,
         Adjust(p, a, amount), NEW q \in Participants
  PROVE  /\ ActiveHolds(q)' = ActiveHolds(q) /\ Spent(q)' = Spent(q)
         /\ LedgerBalance(q)' = LedgerBalance(q) + (IF p = q THEN amount ELSE 0)
         /\ Earned(q)' = Earned(q) + (IF p = q /\ amount > 0 THEN amount ELSE 0)
<1> DEFINE e == AdjustmentKey(a)
<1>1. amount \in Int /\ e \in EntryKeys
  BY AmountsNonZero, EntryKeysShape
<1>2. /\ ledger[e] = NoEntry /\ ledger'[e] = [owner |-> p, amount |-> amount]
      /\ \A d \in EntryKeys : d # e => ledger'[d] = ledger[d]
  BY <1>1 DEF Adjust, TypeOK
<1> HIDE DEF e
<1>3. /\ InBalance(ledger[e], q) = 0 /\ InEarned(ledger[e], q) = 0
      /\ InBalance(ledger'[e], q) = (IF p = q THEN amount ELSE 0)
      /\ InEarned(ledger'[e], q) = (IF p = q /\ amount > 0 THEN amount ELSE 0)
  BY <1>2 DEF InBalance, InEarned, NoEntry
<1>4. /\ LedgerBalance(q)' = LedgerBalance(q) - InBalance(ledger[e], q) + InBalance(ledger'[e], q)
      /\ Earned(q)' = Earned(q) - InEarned(ledger[e], q) + InEarned(ledger'[e], q)
  BY <1>1, <1>2, LedgerMoves
<1>5. ActiveHolds(q)' = ActiveHolds(q) /\ Spent(q)' = Spent(q)
  BY DEF Adjust, ActiveHolds, Spent
<1>6. LedgerBalance(q) \in Int /\ Earned(q) \in Int /\ ActiveHolds(q) \in Nat /\ Spent(q) \in Int
  BY <1>1, SumsTyped
<1> QED BY <1>1, <1>3, <1>4, <1>5, <1>6

\* What was ever spent came out of what was ever earned, and so does what is held.
Solvent(p) ==
  /\ LedgerBalance(p) + Spent(p) <= Earned(p)
  /\ ActiveHolds(p) + Spent(p) <= Earned(p)

MoneyInv == ShopInv /\ \A p \in Participants : Solvent(p)

\* An empty shop has spent nothing.
LEMMA MoneyInit == Init => MoneyInv
<1> SUFFICES ASSUME Init, NEW p \in Participants PROVE Solvent(p)
  BY ShopInit DEF MoneyInv
<1> DEFINE b == [e \in EntryKeys |-> IF ledger[e].owner = p THEN ledger[e].amount ELSE 0]
           n == [e \in EntryKeys |-> IF ledger[e].owner = p /\ ledger[e].amount > 0 THEN ledger[e].amount ELSE 0]
           h == [k \in Keys |-> IF order[k].owner = p /\ hold[k].status = "ACTIVE" THEN hold[k].amount ELSE 0]
           t == [k \in Keys |-> IF order[k].owner = p /\ order[k].status = "ISSUED" THEN order[k].total ELSE 0]
<1>1. (\A e \in EntryKeys : b[e] = 0 /\ n[e] = 0) /\ DOMAIN b = EntryKeys /\ DOMAIN n = EntryKeys
  BY DEF Init, NoEntry
<1>2. (\A k \in Keys : h[k] = 0 /\ t[k] = 0) /\ DOMAIN h = Keys /\ DOMAIN t = Keys
  BY DEF Init, NoOrder, NoHold
<1> HIDE DEF b, n, h, t
<1>3. SumFunction(b) = 0 /\ SumFunction(n) = 0
  BY <1>1, EntryKeysFinite, SumZero DEF SumFunction
<1>4. SumFunction(h) = 0 /\ SumFunction(t) = 0
  BY <1>2, KeysFinite, SumZero DEF SumFunction
<1> QED BY <1>3, <1>4 DEF Solvent, LedgerBalance, Earned, ActiveHolds, Spent, b, n, h, t

\* A step that leaves orders, holds and the ledger alone moves no sum.
LEMMA MoneyAside ==
  ASSUME MoneyInv, UNCHANGED <<order, hold, ledger>>, NEW q \in Participants
  PROVE  Solvent(q)'
  BY DEF MoneyInv, Solvent, LedgerBalance, Earned, ActiveHolds, Spent

\* A reservation holds no more than the balance leaves.
LEMMA MoneyReserve ==
  ASSUME MoneyInv, TypeOK', NEW k \in Keys, NEW p \in Participants, NEW cart \in Cart, NEW total \in Nat,
         order[k].status = "NONE", total <= Available(p), WriteReservation(k, p, cart, total),
         NEW q \in Participants
  PROVE  Solvent(q)'
<1>1. TypeOK /\ ShopInv /\ Solvent(q)
  BY DEF MoneyInv, ShopInv
<1>2. LedgerBalance(q) \in Int /\ Earned(q) \in Int /\ ActiveHolds(q) \in Nat /\ Spent(q) \in Int
  BY <1>1, SumsTyped
<1>3. p = q => total <= LedgerBalance(q) - ActiveHolds(q)
  BY DEF Available
<1>4. /\ ActiveHolds(q)' = ActiveHolds(q) + (IF p = q THEN total ELSE 0)
      /\ Spent(q)' = Spent(q) /\ LedgerBalance(q)' = LedgerBalance(q) /\ Earned(q)' = Earned(q)
  BY <1>1, SumsReserve
<1> QED BY <1>1, <1>2, <1>3, <1>4 DEF Solvent

\* Every step keeps what is spent and held within what was earned.
LEMMA MoneyStep == MoneyInv /\ [Next]_vars => MoneyInv'
<1> SUFFICES ASSUME MoneyInv, [Next]_vars, NEW q \in Participants PROVE Solvent(q)'
  BY ShopStep DEF MoneyInv
<1>1. TypeOK /\ TypeOK' /\ ShopInv /\ Solvent(q)
  BY TypeStep DEF MoneyInv, ShopInv
<1>t. LedgerBalance(q) \in Int /\ Earned(q) \in Int /\ ActiveHolds(q) \in Nat /\ Spent(q) \in Int
  BY <1>1, SumsTyped
<1>2. ASSUME NEW p \in Participants, NEW k \in Keys, NEW cart \in Cart, Reserve(k, p, cart)
      PROVE  Solvent(q)'
  BY <1>1, <1>2, CostNat, MoneyReserve DEF Reserve
<1>3. ASSUME NEW k \in Keys, Issue(k)
      PROVE  Solvent(q)'
  <2>1. Share(k, q) \in Nat
    BY <1>1 DEF Share, TypeOK, OrderRecord
  <2>2. /\ ActiveHolds(q)' = ActiveHolds(q) - Share(k, q) /\ Spent(q)' = Spent(q) + Share(k, q)
        /\ LedgerBalance(q)' = LedgerBalance(q) - Share(k, q) /\ Earned(q)' = Earned(q)
    BY <1>1, <1>3, SumsIssue
  <2> QED BY <1>1, <1>t, <2>1, <2>2 DEF Solvent
<1>4. ASSUME NEW k \in Keys, NEW outcome \in {"REJECTED", "CANCELLED"}, Release(k, outcome)
      PROVE  Solvent(q)'
  <2>1. /\ ActiveHolds(q)' <= ActiveHolds(q)
        /\ Spent(q)' = Spent(q) /\ LedgerBalance(q)' = LedgerBalance(q) /\ Earned(q)' = Earned(q)
    BY <1>1, <1>4, SumsRelease
  <2>2. ActiveHolds(q)' \in Int
    BY <1>1, SumsTypedNext
  <2> QED BY <1>1, <1>t, <2>1, <2>2 DEF Solvent
<1>5. ASSUME NEW p \in Participants, NEW a \in AdjustKeys, NEW amount \in Amounts, Adjust(p, a, amount)
      PROVE  Solvent(q)'
  <2>1. amount \in Int
    BY AmountsNonZero
  <2>2. /\ ActiveHolds(q)' = ActiveHolds(q) /\ Spent(q)' = Spent(q)
        /\ LedgerBalance(q)' = LedgerBalance(q) + (IF p = q THEN amount ELSE 0)
        /\ Earned(q)' = Earned(q) + (IF p = q /\ amount > 0 THEN amount ELSE 0)
    BY <1>1, <1>5, SumsAdjust
  <2> QED BY <1>1, <1>t, <2>1, <2>2 DEF Solvent
<1>6. CASE UNCHANGED <<order, hold, ledger>>
  BY <1>6, MoneyAside
<1>7. \/ UNCHANGED <<order, hold, ledger>>
      \/ \E k \in Keys, p \in Participants, cart \in Cart : Reserve(k, p, cart)
      \/ \E k \in Keys : Issue(k) \/ Release(k, "REJECTED") \/ Release(k, "CANCELLED")
      \/ \E p \in Participants, a \in AdjustKeys, amount \in Amounts : Adjust(p, a, amount)
  BY DEF vars, Next, CreateProduct, UpdateProduct, ActivateProduct, HideProduct, DeleteProduct,
         SetSavingTarget, DeleteSavingTarget, SetParticipantStatus, FinishContest, Reject, Cancel
<1> QED BY <1>2, <1>3, <1>4, <1>5, <1>6, <1>7

\* No point is held or spent twice: what waits and what was issued never costs more than
\* was ever credited (Reserve's check of the ledger less the active holds).
THEOREM NeverOverspent == Spec => []NoOverspend
<1>1. MoneyInv => NoOverspend
  BY DEF MoneyInv, Solvent, NoOverspend
<1> QED BY <1>1, MoneyInit, MoneyStep, PTL DEF Spec

-----------------------------------------------------------------------------
(* The statements of MerchTx.  A session's state is what its request has    *)
(* read so far; its locks are what keeps the readings true.                 *)

SessionRecord ==
  [op: {"none", "reserve", "issue", "reject", "cancel"}, at: Stages, key: Keys \cup {"none"},
   owner: Participants \cup {NoOne}, cart: Cart, total: Nat]

Decisions == {"issue", "reject", "cancel"}

\* a stage belongs to the kind of request that passes it
StageFits(t) ==
  /\ t.at # "idle" => t.key \in Keys /\ t.op # "none"
  /\ t.at \in {"key", "participant", "check"} => t.op = "reserve"
  /\ t.at = "order" => t.op \in Decisions
  /\ t.op = "reserve" => t.owner \in Participants /\ ItemsOf(t.cart) # {}

\* the rows a request has locked at each stage
LocksHeld(s) ==
  LET t == session[s] IN
  /\ t.op = "reserve" /\ t.at \in {"participant", "products", "check", "write"} => lock[KeyRow(t.key)] = s
  /\ t.op = "reserve" /\ t.at \in {"products", "check", "write"} => lock[ParticipantRow(t.owner)] = s
  /\ t.op \in Decisions /\ t.at \in {"products", "write"} => lock[OrderRow(t.key)] = s
  /\ t.at \in {"check", "write"} => \A x \in ItemsOf(t.cart) : lock[ProductRow(x)] = s
  /\ t.at = "products" => ToLock(s) # {}
  /\ t.at \in {"idle", "key", "participant", "order", "reply"} => \A x \in Products : lock[ProductRow(x)] # s

\* what a request has read and goes on to rely on
ReadingsHold(s) ==
  LET t == session[s] IN
  /\ t.op = "reserve" /\ t.at \in {"participant", "products", "check", "write"} => order[t.key].status = "NONE"
  /\ t.op = "reserve" /\ t.at \in {"products", "check", "write"} => active[t.owner]
  /\ t.op = "reserve" /\ t.at = "write" =>
       InStock(t.cart) /\ t.total = Cost(t.cart) /\ t.total <= Available(t.owner)
  /\ t.op \in Decisions /\ t.at \in {"products", "write"} =>
       order[t.key].status = "RESERVED" /\ t.cart = order[t.key].items

RequestInv(s) == StageFits(session[s]) /\ LocksHeld(s) /\ ReadingsHold(s)

\* an order asks for something
OrdersNonEmpty == \A k \in Keys : order[k].status # "NONE" => ItemsOf(order[k].items) # {}

TxInv ==
  /\ ShopInv
  /\ OrdersNonEmpty
  /\ session \in [Sessions -> SessionRecord]
  /\ lock \in [Rows -> Sessions \cup {Nobody}]
  /\ \A s \in Sessions : RequestInv(s)

\* Rows of different tables, and of different ids, are different rows.
LEMMA RowNames ==
  /\ \A k \in Keys : KeyRow(k) \in Rows /\ OrderRow(k) \in Rows
  /\ \A p \in Participants : ParticipantRow(p) \in Rows
  /\ \A x \in Products : ProductRow(x) \in Rows
  /\ \A k, l \in Keys : KeyRow(k) # OrderRow(l)
  /\ \A k, l \in Keys : KeyRow(k) = KeyRow(l) => k = l
  /\ \A k, l \in Keys : OrderRow(k) = OrderRow(l) => k = l
  /\ \A p, q \in Participants : ParticipantRow(p) = ParticipantRow(q) => p = q
  /\ \A x, y \in Products : ProductRow(x) = ProductRow(y) => x = y
  /\ \A k \in Keys, p \in Participants : KeyRow(k) # ParticipantRow(p) /\ OrderRow(k) # ParticipantRow(p)
  /\ \A k \in Keys, x \in Products : KeyRow(k) # ProductRow(x) /\ OrderRow(k) # ProductRow(x)
  /\ \A p \in Participants, x \in Products : ParticipantRow(p) # ProductRow(x)
  BY DEF Rows, KeyRow, OrderRow, ParticipantRow, ProductRow

\* What a statement or a COMMIT of s does to the locks: no other session's change.
LEMMA TakeLocks ==
  ASSUME lock \in [Rows -> Sessions \cup {Nobody}], NEW s \in Sessions, NEW row \in Rows,
         lock[row] \in {Nobody, s}, Take(s, row)
  PROVE  /\ lock' \in [Rows -> Sessions \cup {Nobody}]
         /\ \A u \in Rows : lock'[u] = IF u = row THEN s ELSE lock[u]
         /\ \A u \in Rows, r \in Sessions : r # s => (lock'[u] = r <=> lock[u] = r)
  BY NobodyFresh DEF Take

\* A transaction that ends lets go of its own locks only.
LEMMA UnlockLocks ==
  ASSUME lock \in [Rows -> Sessions \cup {Nobody}], NEW s \in Sessions, Unlock(s)
  PROVE  /\ lock' \in [Rows -> Sessions \cup {Nobody}]
         /\ \A u \in Rows : lock'[u] # s
         /\ \A u \in Rows, r \in Sessions : r # s => (lock'[u] = r <=> lock[u] = r)
  BY NobodyFresh DEF Unlock

\* The price of a cart depends on the rows of its products alone.
LEMMA CostKept ==
  ASSUME TypeOK, TypeOK', NEW cart \in Cart, \A x \in ItemsOf(cart) : product'[x] = product[x]
  PROVE  Cost(cart)' = Cost(cart)
<1> DEFINE f == [x \in Products |-> product[x].price * cart[x]]
           g == [x \in Products |-> product'[x].price * cart[x]]
<1>1. ASSUME NEW x \in Products PROVE product[x].price * cart[x] = product'[x].price * cart[x]
  <2>1. cart[x] \in Nat /\ product[x].price \in Nat /\ product'[x].price \in Nat
    BY CartShape DEF TypeOK, Row
  <2>2. CASE cart[x] = 0
    BY <2>1, <2>2
  <2>3. CASE cart[x] # 0
    BY <2>1, <2>3 DEF ItemsOf
  <2> QED BY <2>2, <2>3
<1>2. f = g
  BY <1>1
<1>3. Cost(cart) = SumFunction(f) /\ Cost(cart)' = SumFunction(g)
  BY DEF Cost
<1> QED BY <1>2, <1>3

\* A balance is an integer, before and after a step.
LEMMA AvailableTyped == TypeOK => \A p \in Participants : Available(p) \in Int
  BY SumsTyped DEF Available

\* What a participant can spend is a number after a step too.
LEMMA AvailableTypedNext == (TypeOK => \A p \in Participants : Available(p) \in Int)'
  BY AvailableTyped, PTL

\* The price of a cart and the balance of a participant, as functions of the tables.
CostAt(rows, cart) == SumFunction([x \in Products |-> rows[x].price * cart[x]])
AvailableAt(l, o, h, p) ==
  SumFunction([e \in EntryKeys |-> IF l[e].owner = p THEN l[e].amount ELSE 0])
    - SumFunction([k \in Keys |-> IF o[k].owner = p /\ h[k].status = "ACTIVE" THEN h[k].amount ELSE 0])

\* What can be spent depends on ledger, orders and holds alone.
LEMMA AvailableIs ==
  ASSUME NEW p
  PROVE  /\ Available(p) = AvailableAt(ledger, order, hold, p)
         /\ Available(p)' = AvailableAt(ledger', order', hold', p)
  BY DEF Available, AvailableAt, LedgerBalance, ActiveHolds

\* A session that does not move keeps its readings while what it has locked stays as it was.
LEMMA Bystander ==
  ASSUME TxInv, TypeOK', NEW r \in Sessions, session'[r] = session[r],
         \A u \in Rows : lock'[u] = r <=> lock[u] = r,
         \A k \in Keys : lock[KeyRow(k)] = r /\ order[k].status = "NONE" => order'[k].status = "NONE",
         \A k \in Keys : lock[OrderRow(k)] = r /\ order[k].status = "RESERVED" => order'[k] = order[k],
         \A p \in Participants : lock[ParticipantRow(p)] = r =>
                                   active'[p] = active[p] /\ Available(p)' >= Available(p),
         \A x \in Products : lock[ProductRow(x)] = r => product'[x] = product[x]
  PROVE  RequestInv(r)'
<1> DEFINE t == session[r]
<1>1. StageFits(t) /\ LocksHeld(r) /\ ReadingsHold(r) /\ TypeOK /\ t \in SessionRecord
  BY DEF TxInv, RequestInv, ShopInv
<1>2. t.cart \in Cart /\ t.total \in Nat /\ ItemsOf(t.cart) \subseteq Products
  BY <1>1 DEF SessionRecord, ItemsOf
<1>3. StageFits(session[r])'
  BY <1>1 DEF StageFits, ItemsOf
<1>4. LocksHeld(r)'
  <2>1. ToLock(r)' = ToLock(r)
    BY <1>2, RowNames DEF ToLock, ItemsOf
  <2>2. /\ t.at # "idle" => KeyRow(t.key) \in Rows /\ OrderRow(t.key) \in Rows
        /\ t.op = "reserve" => ParticipantRow(t.owner) \in Rows
        /\ \A x \in Products : ProductRow(x) \in Rows
    BY <1>1, RowNames DEF StageFits
  <2> QED BY <1>1, <1>2, <2>1, <2>2 DEF LocksHeld, ItemsOf
<1>5. ASSUME t.op = "reserve", t.at \in {"participant", "products", "check", "write"}
      PROVE  order'[t.key].status = "NONE"
  BY <1>1, <1>5 DEF StageFits, LocksHeld, ReadingsHold
<1>6. ASSUME t.op = "reserve", t.at \in {"products", "check", "write"}
      PROVE  active'[t.owner]
  BY <1>1, <1>6 DEF StageFits, LocksHeld, ReadingsHold
<1>7. ASSUME t.op = "reserve", t.at = "write"
      PROVE  (InStock(t.cart) /\ t.total = Cost(t.cart) /\ t.total <= Available(t.owner))'
  <2>1. \A x \in ItemsOf(t.cart) : product'[x] = product[x]
    BY <1>1, <1>2, <1>7 DEF LocksHeld
  <2>2. InStock(t.cart) /\ t.total = Cost(t.cart) /\ t.total <= Available(t.owner)
        /\ t.owner \in Participants /\ lock[ParticipantRow(t.owner)] = r
    BY <1>1, <1>7 DEF ReadingsHold, LocksHeld, StageFits
  <2>3. InStock(t.cart)'
    BY <2>1, <2>2 DEF InStock, ItemsOf, Free
  <2>4. Cost(t.cart)' = Cost(t.cart)
    <3>1. \A c \in Cart : (\A x \in ItemsOf(c) : product'[x] = product[x]) => CostAt(product', c) = CostAt(product, c)
      BY <1>1, CostKept DEF Cost, CostAt
    <3>2. Cost(t.cart)' = CostAt(product', session'[r].cart) /\ Cost(t.cart) = CostAt(product, t.cart)
      BY DEF Cost, CostAt
    <3> QED BY <1>2, <2>1, <3>1, <3>2
  <2>5. Available(t.owner)' >= Available(t.owner) /\ Available(t.owner)' \in Int /\ Available(t.owner) \in Int
    <3>1. \A p \in Participants : lock[ParticipantRow(p)] = r =>
             AvailableAt(ledger', order', hold', p) >= AvailableAt(ledger, order, hold, p)
      BY AvailableIs
    <3>2. \A p \in Participants : AvailableAt(ledger', order', hold', p) \in Int /\ AvailableAt(ledger, order, hold, p) \in Int
      BY <1>1, AvailableTyped, AvailableTypedNext, AvailableIs
    <3>3. /\ Available(t.owner)' = AvailableAt(ledger', order', hold', session'[r].owner)
          /\ Available(t.owner) = AvailableAt(ledger, order, hold, t.owner)
      BY DEF Available, AvailableAt, LedgerBalance, ActiveHolds
    <3> QED BY <2>2, <3>1, <3>2, <3>3
  <2> QED BY <1>2, <2>2, <2>3, <2>4, <2>5
<1>8. ASSUME t.op \in Decisions, t.at \in {"products", "write"}
      PROVE  order'[t.key].status = "RESERVED" /\ t.cart = order'[t.key].items
  BY <1>1, <1>8 DEF StageFits, LocksHeld, ReadingsHold
<1>9. ReadingsHold(r)'
  BY <1>5, <1>6, <1>7, <1>8 DEF ReadingsHold, InStock, Cost, Available
<1> QED BY <1>3, <1>4, <1>9 DEF RequestInv

\* A statement that writes no row: only its own session and its own locks change.
LEMMA ReadStep ==
  ASSUME TxInv, NEW s \in Sessions, NEW t \in SessionRecord, session' = [session EXCEPT ![s] = t],
         lock' \in [Rows -> Sessions \cup {Nobody}],
         \A u \in Rows, r \in Sessions : r # s => (lock'[u] = r <=> lock[u] = r),
         DataUnchanged, RequestInv(s)'
  PROVE  TxInv'
<1>1. ShopInv' /\ TypeOK'
  BY ShopStep DEF TxInv, ShopInv, DataUnchanged, vars
<1>2. OrdersNonEmpty'
  BY DEF TxInv, OrdersNonEmpty, DataUnchanged, ItemsOf
<1>3. session' \in [Sessions -> SessionRecord] /\ \A r \in Sessions : r # s => session'[r] = session[r]
  BY DEF TxInv
<1>4. ASSUME NEW r \in Sessions, r # s PROVE RequestInv(r)'
  <2>1. \A p \in Participants : Available(p)' = Available(p) /\ Available(p) \in Int
    BY AvailableIs, AvailableTyped DEF DataUnchanged, TxInv, ShopInv
  <2>2. \A p \in Participants : lock[ParticipantRow(p)] = r => active'[p] = active[p] /\ Available(p)' >= Available(p)
    BY <2>1 DEF DataUnchanged
  <2> QED BY <1>1, <1>3, <1>4, <2>2, Bystander DEF DataUnchanged
<1> QED BY <1>1, <1>2, <1>3, <1>4 DEF TxInv

\* COMMIT or ROLLBACK with nothing written.
LEMMA TxLeave == ASSUME TxInv, NEW s \in Sessions, Leave(s) PROVE TxInv'
<1>1. Idle \in SessionRecord
  BY MaxQtyNat DEF Idle, SessionRecord, Stages, Cart, EmptyCart
<1>2. /\ lock' \in [Rows -> Sessions \cup {Nobody}] /\ \A u \in Rows : lock'[u] # s
      /\ \A u \in Rows, r \in Sessions : r # s => (lock'[u] = r <=> lock[u] = r)
  BY UnlockLocks DEF Leave, TxInv
<1>3. session'[s] = Idle
  BY DEF Leave, TxInv
<1>4. RequestInv(s)'
  BY <1>2, <1>3, RowNames DEF RequestInv, StageFits, LocksHeld, ReadingsHold, Idle, Decisions
<1> QED BY <1>1, <1>2, <1>4, ReadStep DEF Leave

\* A session's own part of the invariant, read off its record.
LEMMA OwnPart ==
  ASSUME TxInv, NEW s \in Sessions
  PROVE  /\ session[s] \in SessionRecord /\ session[s].cart \in Cart /\ session[s].total \in Nat
         /\ session[s].op \in {"none"} \cup {"reserve"} \cup Decisions
         /\ StageFits(session[s]) /\ LocksHeld(s) /\ ReadingsHold(s)
  BY DEF TxInv, RequestInv, SessionRecord, Decisions

\* Moving on to another stage changes the stage alone.
LEMMA Moved ==
  ASSUME TxInv, NEW s \in Sessions, NEW stage \in Stages, Goto(s, stage)
  PROVE  /\ session' = [session EXCEPT ![s] = [session[s] EXCEPT !.at = stage]]
         /\ [session[s] EXCEPT !.at = stage] \in SessionRecord
         /\ session'[s].at = stage /\ session'[s].op = session[s].op /\ session'[s].key = session[s].key
         /\ session'[s].owner = session[s].owner /\ session'[s].cart = session[s].cart
         /\ session'[s].total = session[s].total
         /\ \A r \in Sessions : r # s => session'[r] = session[r]
  BY DEF TxInv, Goto, SessionRecord

\* A new request holds no lock and has read nothing.
LEMMA TxBegin == ASSUME TxInv, NEW s \in Sessions, Begin(s) PROVE TxInv'
<1>1. session[s].at = "idle" /\ UNCHANGED lock /\ DataUnchanged
  BY DEF Begin, BeginReserve, BeginDecision
<1>2. \A x \in Products : lock[ProductRow(x)] # s
  BY <1>1, OwnPart DEF LocksHeld
<1>3. PICK t \in SessionRecord : /\ session' = [session EXCEPT ![s] = t]
                                /\ t.key \in Keys
                                /\ \/ /\ t.op = "reserve" /\ t.at = "key" /\ t.owner \in Participants
                                      /\ ItemsOf(t.cart) # {}
                                   \/ t.op \in Decisions /\ t.at = "order"
  <2>1. ASSUME NEW k \in Keys, NEW p \in Participants \cup {NoOne}, NEW op \in Decisions,
               BeginDecision(s, op, k, p)
        PROVE  \E t \in SessionRecord : /\ session' = [session EXCEPT ![s] = t]
                                        /\ t.key \in Keys /\ t.op \in Decisions /\ t.at = "order"
    <3> DEFINE t == [op |-> op, at |-> "order", key |-> k, owner |-> p, cart |-> EmptyCart, total |-> 0]
    <3>1. t \in SessionRecord
      BY MaxQtyNat DEF SessionRecord, Decisions, Stages, Cart, EmptyCart
    <3> QED BY <2>1, <3>1 DEF BeginDecision
  <2>2. ASSUME NEW k \in Keys, NEW p \in Participants, NEW cart \in Cart, BeginReserve(s, k, p, cart)
        PROVE  \E t \in SessionRecord : /\ session' = [session EXCEPT ![s] = t]
                                        /\ t.key \in Keys /\ t.op = "reserve" /\ t.at = "key"
                                        /\ t.owner \in Participants /\ ItemsOf(t.cart) # {}
    <3> DEFINE t == [op |-> "reserve", at |-> "key", key |-> k, owner |-> p, cart |-> cart, total |-> 0]
    <3>1. t \in SessionRecord /\ t.cart = cart
      BY DEF SessionRecord, Stages
    <3> QED BY <2>2, <3>1 DEF BeginReserve
  <2> QED BY <2>1, <2>2 DEF Begin, Decisions
<1>4. session'[s] = t
  BY <1>3 DEF TxInv
<1>5. RequestInv(s)'
  BY <1>1, <1>2, <1>3, <1>4 DEF RequestInv, StageFits, LocksHeld, ReadingsHold, Decisions, ItemsOf
<1> QED BY <1>1, <1>3, <1>5, ReadStep DEF TxInv

\* Reserve's first statement: the advisory lock and the lookup of the key.
LEMMA TxReserveKey == ASSUME TxInv, NEW s \in Sessions, ReserveKey(s) PROVE TxInv'
<1> DEFINE t == session[s]
<1>1. CASE Leave(s)
  BY <1>1, TxLeave
<1>2. CASE ~Leave(s)
  <2>1. /\ t.at = "key" /\ CanLock(s) /\ order[t.key].status = "NONE"
        /\ Goto(s, "participant") /\ Take(s, KeyRow(t.key)) /\ DataUnchanged
    BY <1>2 DEF ReserveKey
  <2>2. StageFits(t) /\ LocksHeld(s) /\ t.key \in Keys /\ KeyRow(t.key) \in Rows
    BY <2>1, OwnPart, RowNames DEF StageFits
  <2>3. lock[KeyRow(t.key)] \in {Nobody, s}
    BY <2>1 DEF CanLock, Wants
  <2>4. /\ lock' \in [Rows -> Sessions \cup {Nobody}]
        /\ \A u \in Rows : lock'[u] = IF u = KeyRow(t.key) THEN s ELSE lock[u]
        /\ \A u \in Rows, r \in Sessions : r # s => (lock'[u] = r <=> lock[u] = r)
    BY <2>1, <2>2, <2>3, TakeLocks DEF TxInv
  <2>5. /\ session' = [session EXCEPT ![s] = [t EXCEPT !.at = "participant"]]
        /\ [t EXCEPT !.at = "participant"] \in SessionRecord
        /\ session'[s].at = "participant" /\ session'[s].op = t.op /\ session'[s].key = t.key
        /\ session'[s].owner = t.owner /\ session'[s].cart = t.cart
    BY <2>1, Moved DEF Stages
  <2>6. RequestInv(s)'
    BY <2>1, <2>2, <2>4, <2>5, RowNames DEF RequestInv, StageFits, LocksHeld, ReadingsHold, DataUnchanged, ItemsOf, Decisions
  <2> QED BY <2>1, <2>4, <2>5, <2>6, ReadStep
<1> QED BY <1>1, <1>2

\* The participant's row FOR UPDATE, and the status of the participant and the contest.
LEMMA TxReserveParticipant == ASSUME TxInv, NEW s \in Sessions, ReserveParticipant(s) PROVE TxInv'
<1> DEFINE t == session[s]
<1>1. CASE Leave(s)
  BY <1>1, TxLeave
<1>2. CASE ~Leave(s)
  <2>1. /\ t.at = "participant" /\ CanLock(s) /\ active[t.owner]
        /\ Goto(s, "products") /\ Take(s, ParticipantRow(t.owner)) /\ DataUnchanged
    BY <1>2 DEF ReserveParticipant
  <2>2. /\ StageFits(t) /\ LocksHeld(s) /\ ReadingsHold(s) /\ t.key \in Keys /\ t.op = "reserve"
        /\ t.owner \in Participants /\ ItemsOf(t.cart) # {}
    BY <2>1, OwnPart DEF StageFits
  <2>3. lock[ParticipantRow(t.owner)] \in {Nobody, s}
    BY <2>1 DEF CanLock, Wants
  <2>4. /\ lock' \in [Rows -> Sessions \cup {Nobody}]
        /\ \A u \in Rows : lock'[u] = IF u = ParticipantRow(t.owner) THEN s ELSE lock[u]
        /\ \A u \in Rows, r \in Sessions : r # s => (lock'[u] = r <=> lock[u] = r)
    BY <2>1, <2>2, <2>3, TakeLocks, RowNames DEF TxInv
  <2>5. /\ session' = [session EXCEPT ![s] = [t EXCEPT !.at = "products"]]
        /\ [t EXCEPT !.at = "products"] \in SessionRecord
        /\ session'[s].at = "products" /\ session'[s].op = t.op /\ session'[s].key = t.key
        /\ session'[s].owner = t.owner /\ session'[s].cart = t.cart
    BY <2>1, Moved DEF Stages
  <2>6. ToLock(s)' # {}
    BY <2>1, <2>2, <2>4, <2>5, RowNames DEF ToLock, LocksHeld, ItemsOf
  <2>7. lock'[KeyRow(t.key)] = s /\ lock'[ParticipantRow(t.owner)] = s /\ order[t.key].status = "NONE"
    BY <2>1, <2>2, <2>4, RowNames DEF LocksHeld, ReadingsHold
  <2>8. RequestInv(s)'
    BY <2>1, <2>2, <2>5, <2>6, <2>7 DEF RequestInv, StageFits, LocksHeld, ReadingsHold, DataUnchanged, ItemsOf, Decisions
  <2> QED BY <2>1, <2>4, <2>5, <2>8, ReadStep
<1> QED BY <1>1, <1>2

\* The order FOR UPDATE: a decision goes on with the items it reads.
LEMMA TxDecisionOrder == ASSUME TxInv, NEW s \in Sessions, DecisionOrder(s) PROVE TxInv'
<1> DEFINE t == session[s]
<1>1. CASE Leave(s)
  BY <1>1, TxLeave
<1>2. CASE ~Leave(s)
  <2>1. /\ t.at = "order" /\ CanLock(s) /\ order[t.key].status = "RESERVED"
        /\ session' = [session EXCEPT ![s].at = "products", ![s].cart = order[t.key].items]
        /\ Take(s, OrderRow(t.key)) /\ DataUnchanged
    BY <1>2 DEF DecisionOrder
  <2>2. StageFits(t) /\ LocksHeld(s) /\ t.key \in Keys /\ t.op \in Decisions /\ t \in SessionRecord
    BY <2>1, OwnPart DEF StageFits
  <2>3. lock[OrderRow(t.key)] \in {Nobody, s}
    BY <2>1 DEF CanLock, Wants
  <2>4. /\ lock' \in [Rows -> Sessions \cup {Nobody}]
        /\ \A u \in Rows : lock'[u] = IF u = OrderRow(t.key) THEN s ELSE lock[u]
        /\ \A u \in Rows, r \in Sessions : r # s => (lock'[u] = r <=> lock[u] = r)
    BY <2>1, <2>2, <2>3, TakeLocks, RowNames DEF TxInv
  <2> DEFINE n == [t EXCEPT !.at = "products", !.cart = order[t.key].items]
  <2>5. order[t.key].items \in Cart /\ ItemsOf(order[t.key].items) # {}
    BY <2>1, <2>2 DEF TxInv, OrdersNonEmpty, ShopInv, TypeOK, OrderRecord
  <2>6. /\ session' = [session EXCEPT ![s] = n] /\ n \in SessionRecord /\ session'[s].at = "products"
        /\ session'[s].op = t.op /\ session'[s].key = t.key /\ session'[s].cart = order[t.key].items
    BY <2>1, <2>2, <2>5 DEF TxInv, SessionRecord, Stages
  <2> HIDE DEF n
  <2>7. ToLock(s)' # {}
    <3>1. PICK x \in ItemsOf(order[t.key].items) : TRUE
      BY <2>5
    <3>2. x \in Products /\ lock[ProductRow(x)] # s
      BY <2>1, <2>2 DEF LocksHeld, ItemsOf
    <3>3. lock'[ProductRow(x)] # s
      BY <2>2, <2>4, <3>2, RowNames
    <3> QED BY <2>6, <3>1, <3>3 DEF ToLock
  <2>8. lock'[OrderRow(t.key)] = s
    BY <2>2, <2>4, RowNames
  <2>9. t.op # "reserve" /\ t.op # "none"
    BY <2>2 DEF Decisions
  <2>10. RequestInv(s)'
    BY <2>1, <2>2, <2>6, <2>7, <2>8, <2>9 DEF RequestInv, StageFits, LocksHeld, ReadingsHold, DataUnchanged
  <2> QED BY <2>1, <2>4, <2>6, <2>10, ReadStep
<1> QED BY <1>1, <1>2

\* The next row to lock is one of those not locked yet.
LEMMA NextIsToLock == ASSUME NEW s, ToLock(s) # {} PROVE NextProduct(s) \in ToLock(s)
<1> DEFINE S == ToLock(s)
<1>1. S \subseteq Products /\ S # {}
  BY DEF ToLock, ItemsOf
<1> HIDE DEF S
<1>2. IsFiniteSet(S)
  BY <1>1, ProductsFinite, FS_Subset
<1>3. \A x \in S : x \in Int
  BY <1>1, ProductsOrdered
<1>4. \E m \in S : \A y \in S : m <= y
  BY <1>1, <1>2, <1>3, LeastElement
<1> QED BY <1>4 DEF S, NextProduct

\* SELECT ... FOR UPDATE of the products, one row at a time in id order.
LEMMA TxLockProduct == ASSUME TxInv, NEW s \in Sessions, LockProduct(s) PROVE TxInv'
<1> DEFINE t == session[s]
           x == NextProduct(s)
<1>1. CASE Leave(s)
  BY <1>1, TxLeave
<1>2. CASE ~Leave(s)
  <2>1. /\ t.at = "products" /\ CanLock(s) /\ Take(s, ProductRow(x)) /\ DataUnchanged
        /\ IF Cardinality(ToLock(s)) > 1 THEN UNCHANGED session
           ELSE Goto(s, IF t.op = "reserve" THEN "check" ELSE "write")
    BY <1>2 DEF LockProduct
  <2>2. /\ StageFits(t) /\ LocksHeld(s) /\ ReadingsHold(s) /\ t.key \in Keys /\ t.op # "none"
        /\ t \in SessionRecord /\ t.op \in {"none"} \cup {"reserve"} \cup Decisions
    BY <2>1, OwnPart DEF StageFits
  <2>3. x \in ToLock(s) /\ x \in Products
    BY <2>1, <2>2, NextIsToLock DEF LocksHeld, ToLock, ItemsOf
  <2>4. lock[ProductRow(x)] \in {Nobody, s}
    BY <2>1 DEF CanLock, Wants
  <2>5. /\ lock' \in [Rows -> Sessions \cup {Nobody}]
        /\ \A u \in Rows : lock'[u] = IF u = ProductRow(x) THEN s ELSE lock[u]
        /\ \A u \in Rows, r \in Sessions : r # s => (lock'[u] = r <=> lock[u] = r)
    BY <2>1, <2>3, <2>4, TakeLocks, RowNames DEF TxInv
  <2>6. \A u \in Rows : lock[u] = s => lock'[u] = s
    BY <2>5
  <2> HIDE DEF x
  <2>7. CASE Cardinality(ToLock(s)) > 1
    <3>1. UNCHANGED session /\ session' = [session EXCEPT ![s] = t]
      BY <2>1, <2>7 DEF TxInv
    <3>2. ToLock(s)' # {}
      <4>1. ToLock(s) # {x}
        <5>1. Cardinality({x}) = 1
          BY FS_Singleton
        <5> QED BY <2>7, <5>1
      <4>2. PICK y \in ToLock(s) : y # x
        BY <2>3, <4>1
      <4>3. y \in Products
        BY <4>2 DEF ToLock, ItemsOf
      <4>4. lock'[ProductRow(y)] # s
        BY <2>3, <2>5, <4>2, <4>3, RowNames DEF ToLock
      <4> QED BY <3>1, <4>2, <4>4 DEF ToLock, ItemsOf
    <3>3. RequestInv(s)'
      BY <2>1, <2>2, <2>6, <3>1, <3>2, RowNames DEF RequestInv, StageFits, LocksHeld, ReadingsHold, DataUnchanged, ItemsOf
    <3> QED BY <2>1, <2>2, <2>5, <3>1, <3>3, ReadStep
  <2>8. CASE ~(Cardinality(ToLock(s)) > 1)
    <3> DEFINE stage == IF t.op = "reserve" THEN "check" ELSE "write"
    <3>1. Goto(s, stage) /\ stage \in Stages
      BY <2>1, <2>8 DEF Stages
    <3>2. /\ session' = [session EXCEPT ![s] = [t EXCEPT !.at = stage]]
          /\ [t EXCEPT !.at = stage] \in SessionRecord
          /\ session'[s].at = stage /\ session'[s].op = t.op /\ session'[s].key = t.key
          /\ session'[s].owner = t.owner /\ session'[s].cart = t.cart
      BY <3>1, Moved
    <3>3. ToLock(s) = {x}
      <4>1. IsFiniteSet(ToLock(s))
        <5>1. ToLock(s) \subseteq Products
          BY DEF ToLock, ItemsOf
        <5> QED BY <5>1, ProductsFinite, FS_Subset
      <4>2. Cardinality(ToLock(s)) \in Nat /\ Cardinality(ToLock(s)) # 0
        BY <2>3, <4>1, FS_CardinalityType, FS_EmptySet
      <4>3. Cardinality(ToLock(s)) = 1
        BY <2>8, <4>2
      <4>4. \E m : ToLock(s) = {m}
        BY <4>1, <4>3, FS_Singleton
      <4> QED BY <2>3, <4>4
    <3>4. \A y \in ItemsOf(t.cart) : lock'[ProductRow(y)] = s
      <4>1. \A y \in ItemsOf(t.cart) : y \in Products /\ (y = x \/ lock[ProductRow(y)] = s)
        BY <3>3 DEF ToLock, ItemsOf
      <4> QED BY <2>5, <4>1, RowNames
    <3>5. StageFits(session[s])'
      BY <2>2, <3>2 DEF StageFits, ItemsOf
    <3>6. /\ t.op = "reserve" => /\ lock'[KeyRow(t.key)] = s /\ lock'[ParticipantRow(t.owner)] = s
                                /\ order[t.key].status = "NONE" /\ active[t.owner]
          /\ t.op \in Decisions => /\ lock'[OrderRow(t.key)] = s
                                   /\ order[t.key].status = "RESERVED" /\ t.cart = order[t.key].items
      BY <2>1, <2>2, <2>6, RowNames DEF StageFits, LocksHeld, ReadingsHold
    <3>7. LocksHeld(s)'
      BY <3>2, <3>4, <3>6 DEF LocksHeld, ItemsOf
    <3>8. ReadingsHold(s)'
      <4>1. ~(session'[s].op = "reserve" /\ session'[s].at = "write")
        BY <3>2
      <4> QED BY <2>1, <3>2, <3>6, <4>1 DEF ReadingsHold, DataUnchanged
    <3>9. RequestInv(s)'
      BY <3>5, <3>7, <3>8 DEF RequestInv
    <3> HIDE DEF stage
    <3> QED BY <2>1, <2>5, <3>2, <3>9, ReadStep
  <2> QED BY <2>7, <2>8
<1> QED BY <1>1, <1>2

\* The stock and the balance, read under the locks.
LEMMA TxReserveCheck == ASSUME TxInv, NEW s \in Sessions, ReserveCheck(s) PROVE TxInv'
<1> DEFINE t == session[s]
<1>1. CASE Leave(s)
  BY <1>1, TxLeave
<1>2. CASE ~Leave(s)
  <2>1. /\ t.at = "check" /\ InStock(t.cart) /\ Cost(t.cart) <= Available(t.owner)
        /\ session' = [session EXCEPT ![s].at = "write", ![s].total = Cost(t.cart)]
        /\ UNCHANGED lock /\ DataUnchanged
    BY <1>2 DEF ReserveCheck
  <2>2. /\ StageFits(t) /\ LocksHeld(s) /\ ReadingsHold(s) /\ t.key \in Keys /\ t.op = "reserve"
        /\ t \in SessionRecord /\ t.cart \in Cart
    BY <2>1, OwnPart DEF StageFits
  <2>3. Cost(t.cart) \in Nat
    BY <2>2, CostNat DEF TxInv, ShopInv
  <2> DEFINE n == [t EXCEPT !.at = "write", !.total = Cost(t.cart)]
  <2>4. /\ session' = [session EXCEPT ![s] = n] /\ n \in SessionRecord /\ session'[s].at = "write"
        /\ session'[s].op = t.op /\ session'[s].key = t.key /\ session'[s].cart = t.cart
        /\ session'[s].owner = t.owner /\ session'[s].total = Cost(t.cart)
    BY <2>1, <2>2, <2>3 DEF TxInv, SessionRecord, Stages
  <2> HIDE DEF n
  <2>5. StageFits(session[s])'
    BY <2>2, <2>4 DEF StageFits, ItemsOf
  <2>6. LocksHeld(s)'
    BY <2>1, <2>2, <2>4 DEF LocksHeld, ItemsOf, Decisions
  <2>7. InStock(session[s].cart)'
    BY <2>1, <2>4 DEF InStock, ItemsOf, Free, DataUnchanged
  <2>8. Cost(session[s].cart)' = Cost(t.cart)
    <3>1. Cost(session[s].cart)' = CostAt(product', session'[s].cart) /\ Cost(t.cart) = CostAt(product, t.cart)
      BY DEF Cost, CostAt
    <3> QED BY <2>1, <2>4, <3>1 DEF DataUnchanged
  <2>9. Available(session[s].owner)' = Available(t.owner)
    <3>1. /\ Available(session[s].owner)' = AvailableAt(ledger', order', hold', session'[s].owner)
          /\ Available(t.owner) = AvailableAt(ledger, order, hold, t.owner)
      BY DEF Available, AvailableAt, LedgerBalance, ActiveHolds
    <3> QED BY <2>1, <2>4, <3>1 DEF DataUnchanged
  <2>10. ReadingsHold(s)'
    BY <2>1, <2>2, <2>4, <2>7, <2>8, <2>9 DEF ReadingsHold, DataUnchanged, Decisions
  <2>11. RequestInv(s)'
    BY <2>5, <2>6, <2>10 DEF RequestInv
  <2>12. /\ lock' \in [Rows -> Sessions \cup {Nobody}]
         /\ \A u \in Rows, r \in Sessions : r # s => (lock'[u] = r <=> lock[u] = r)
    BY <2>1 DEF TxInv
  <2> QED BY <2>1, <2>4, <2>11, <2>12, ReadStep
<1> QED BY <1>1, <1>2

-----------------------------------------------------------------------------
(* The statements that write: each does what its step of Merch does.        *)

\* COMMIT of a request that wrote: s answers next, and the others' readings stand.
LEMMA WriteStep ==
  ASSUME TxInv, NEW s \in Sessions, session[s].at = "write", Commit(s), ShopInv', OrdersNonEmpty',
         \A r \in Sessions : r # s => RequestInv(r)'
  PROVE  TxInv'
<1>1. Goto(s, "reply") /\ Unlock(s)
  BY DEF Commit
<1>2. /\ lock' \in [Rows -> Sessions \cup {Nobody}] /\ \A u \in Rows : lock'[u] # s
  BY <1>1, UnlockLocks DEF TxInv
<1>3. /\ session' = [session EXCEPT ![s] = [session[s] EXCEPT !.at = "reply"]]
      /\ [session[s] EXCEPT !.at = "reply"] \in SessionRecord
      /\ session'[s].at = "reply" /\ session'[s].op = session[s].op /\ session'[s].key = session[s].key
      /\ session'[s].owner = session[s].owner /\ session'[s].cart = session[s].cart
  BY <1>1, Moved DEF Stages
<1>4. StageFits(session[s])
  BY OwnPart
<1>5. RequestInv(s)'
  BY <1>2, <1>3, <1>4, RowNames DEF RequestInv, StageFits, LocksHeld, ReadingsHold, ItemsOf
<1>6. session' \in [Sessions -> SessionRecord]
  BY <1>3 DEF TxInv
<1> QED BY <1>2, <1>5, <1>6 DEF TxInv

\* What the locks of r are after the COMMIT of s.
LEMMA CommitLocks ==
  ASSUME TxInv, NEW s \in Sessions, Commit(s), NEW r \in Sessions, r # s
  PROVE  (\A u \in Rows : lock'[u] = r <=> lock[u] = r) /\ session'[r] = session[r]
  BY UnlockLocks DEF TxInv, Commit, Goto

\* Reserve's writes are a step Reserve of Merch, but for the contest, which may have closed.
LEMMA ReserveWriteReady ==
  ASSUME TxInv, NEW s \in Sessions, ReserveWrite(s)
  PROVE  LET t == session[s] IN
         /\ t.key \in Keys /\ t.owner \in Participants /\ t.cart \in Cart /\ t.total \in Nat
         /\ order[t.key].status = "NONE" /\ active[t.owner] /\ ItemsOf(t.cart) # {}
         /\ InStock(t.cart) /\ t.total = Cost(t.cart) /\ t.total <= Available(t.owner)
         /\ lock[KeyRow(t.key)] = s /\ lock[ParticipantRow(t.owner)] = s
         /\ \A x \in ItemsOf(t.cart) : lock[ProductRow(x)] = s
         /\ WriteReservation(t.key, t.owner, t.cart, t.total) /\ Commit(s) /\ UNCHANGED <<active, open>>
<1>1. session[s].at = "write" /\ session[s].op = "reserve"
  BY DEF ReserveWrite
<1> QED BY <1>1, OwnPart DEF ReserveWrite, StageFits, LocksHeld, ReadingsHold

\* The commit of a reservation.
LEMMA TxReserveWrite == ASSUME TxInv, NEW s \in Sessions, ReserveWrite(s) PROVE TxInv'
<1> DEFINE k == session[s].key
           p == session[s].owner
           cart == session[s].cart
           total == session[s].total
<1>1. /\ k \in Keys /\ p \in Participants /\ cart \in Cart /\ total \in Nat
      /\ order[k].status = "NONE" /\ ItemsOf(cart) # {} /\ InStock(cart)
      /\ lock[KeyRow(k)] = s /\ lock[ParticipantRow(p)] = s
      /\ \A x \in ItemsOf(cart) : lock[ProductRow(x)] = s
      /\ WriteReservation(k, p, cart, total) /\ Commit(s) /\ UNCHANGED <<active, open>>
  BY ReserveWriteReady
<1>2. session[s].at = "write" /\ ShopInv /\ TypeOK
  BY DEF ReserveWrite, TxInv, ShopInv
<1> HIDE DEF k, p, cart, total
<1>3. TypeOK'
  BY <1>1, <1>2, TypeReserve
<1>4. ShopInv'
  BY <1>1, <1>2, <1>3, ShopReserve
<1>5. /\ order'[k].items = cart /\ \A l \in Keys : l # k => order'[l] = order[l]
      /\ \A x \in Products : cart[x] = 0 => product'[x] = product[x]
  BY <1>1, <1>2 DEF WriteReservation, TypeOK
<1>6. OrdersNonEmpty'
  BY <1>1, <1>5 DEF TxInv, OrdersNonEmpty, ItemsOf
<1>7. ASSUME NEW r \in Sessions, r # s PROVE RequestInv(r)'
  <2>1. (\A u \in Rows : lock'[u] = r <=> lock[u] = r) /\ session'[r] = session[r]
    BY <1>1, <1>7, CommitLocks
  <2>2. \A l \in Keys : lock[KeyRow(l)] = r /\ order[l].status = "NONE" => order'[l].status = "NONE"
    BY <1>1, <1>5, <1>7
  <2>3. \A l \in Keys : lock[OrderRow(l)] = r /\ order[l].status = "RESERVED" => order'[l] = order[l]
    BY <1>1, <1>5
  <2>4. \A x \in Products : lock[ProductRow(x)] = r => product'[x] = product[x]
    BY <1>1, <1>5, <1>7, CartShape DEF ItemsOf
  <2>5. ASSUME NEW q \in Participants, lock[ParticipantRow(q)] = r
        PROVE  active'[q] = active[q] /\ Available(q)' >= Available(q)
    <3>1. p # q
      BY <1>1, <1>7, <2>5
    <3>2. ActiveHolds(q)' = ActiveHolds(q) + (IF p = q THEN total ELSE 0) /\ LedgerBalance(q)' = LedgerBalance(q)
      BY <1>1, <1>2, <1>3, SumsReserve
    <3>3. ActiveHolds(q) \in Int /\ LedgerBalance(q) \in Int
      BY <1>2, SumsTyped
    <3> QED BY <1>1, <3>1, <3>2, <3>3 DEF Available
  <2> QED BY <1>3, <2>1, <2>2, <2>3, <2>4, <2>5, Bystander
<1> QED BY <1>1, <1>2, <1>4, <1>6, <1>7, WriteStep

\* A decision's writes: what it goes by, whichever decision it is.
LEMMA DecisionReady ==
  ASSUME TxInv, NEW s \in Sessions, session[s].at = "write", session[s].op \in Decisions
  PROVE  LET t == session[s] IN
         /\ t.key \in Keys /\ t.cart \in Cart /\ order[t.key].status = "RESERVED"
         /\ t.cart = order[t.key].items /\ lock[OrderRow(t.key)] = s
         /\ \A x \in ItemsOf(t.cart) : lock[ProductRow(x)] = s
  BY OwnPart DEF StageFits, LocksHeld, ReadingsHold

\* A waiting order can be issued, rejected and cancelled.
LEMMA WaitingOrder ==
  ASSUME ShopInv, NEW k \in Keys, order[k].status = "RESERVED"
  PROVE  /\ \A x \in ItemsOf(order[k].items) :
              product[x].stock >= order[k].items[x] /\ product[x].reserved >= order[k].items[x]
         /\ hold[k].status = "ACTIVE"
         /\ ledger[PurchaseKey(k)] = NoEntry
  BY ShopFulfils DEF ReservedCanBeIssued

\* The commit of an issue is an issue of Merch.
LEMMA IssueWriteIs ==
  ASSUME TxInv, NEW s \in Sessions, IssueWrite(s)
  PROVE  session[s].key \in Keys /\ Issue(session[s].key)
<1>1. session[s].at = "write" /\ session[s].op \in Decisions
  BY DEF IssueWrite, Decisions
<1>2. /\ session[s].key \in Keys /\ order[session[s].key].status = "RESERVED"
      /\ session[s].cart = order[session[s].key].items
  BY <1>1, DecisionReady
<1> QED BY <1>2, WaitingOrder DEF TxInv, IssueWrite, Issue

\* The commit of a release is a rejection or a cancellation of Merch.
LEMMA ReleaseWriteIs ==
  ASSUME TxInv, NEW s \in Sessions, ReleaseWrite(s)
  PROVE  /\ session[s].key \in Keys
         /\ Release(session[s].key, "REJECTED") \/ Release(session[s].key, "CANCELLED")
<1>1. session[s].at = "write" /\ session[s].op \in Decisions
  BY DEF ReleaseWrite, Decisions
<1>2. /\ session[s].key \in Keys /\ order[session[s].key].status = "RESERVED"
      /\ session[s].cart = order[session[s].key].items
  BY <1>1, DecisionReady
<1> QED BY <1>2, WaitingOrder DEF TxInv, ReleaseWrite, Release

\* A decision leaves the readings of the others alone, whichever it is.
LEMMA DecisionWrite ==
  ASSUME TxInv, NEW s \in Sessions, session[s].at = "write", session[s].op \in Decisions, Commit(s),
         ShopInv', UNCHANGED active, NEW status \in OrderStatus \ {"NONE"},
         order' = [order EXCEPT ![session[s].key].status = status],
         \A x \in Products : order[session[s].key].items[x] = 0 => product'[x] = product[x],
         \A q \in Participants : Available(q)' >= Available(q)
  PROVE  TxInv'
<1> DEFINE k == session[s].key
           cart == session[s].cart
<1>1. /\ k \in Keys /\ cart \in Cart /\ order[k].status = "RESERVED" /\ cart = order[k].items
      /\ lock[OrderRow(k)] = s /\ \A x \in ItemsOf(cart) : lock[ProductRow(x)] = s
  BY DecisionReady
<1>2. \A x \in Products : cart[x] = 0 => product'[x] = product[x]
  BY <1>1
<1>3. order' = [order EXCEPT ![k].status = status]
  OBVIOUS
<1> HIDE DEF k, cart
<1>4. TypeOK' /\ order \in [Keys -> OrderRecord]
  BY DEF TxInv, ShopInv, TypeOK
<1>5. /\ \A l \in Keys : l # k => order'[l] = order[l]
      /\ \A l \in Keys : order'[l].items = order[l].items
      /\ order'[k].status = status
  BY <1>1, <1>3, <1>4 DEF OrderRecord
<1>6. OrdersNonEmpty'
  BY <1>1, <1>5 DEF TxInv, OrdersNonEmpty, ItemsOf
<1>7. ASSUME NEW r \in Sessions, r # s PROVE RequestInv(r)'
  <2>1. (\A u \in Rows : lock'[u] = r <=> lock[u] = r) /\ session'[r] = session[r]
    BY <1>7, CommitLocks
  <2>2. \A l \in Keys : lock[KeyRow(l)] = r /\ order[l].status = "NONE" => order'[l].status = "NONE"
    BY <1>1, <1>5
  <2>3. \A l \in Keys : lock[OrderRow(l)] = r /\ order[l].status = "RESERVED" => order'[l] = order[l]
    BY <1>1, <1>5, <1>7
  <2>4. \A x \in Products : lock[ProductRow(x)] = r => product'[x] = product[x]
    BY <1>1, <1>2, <1>7, CartShape DEF ItemsOf
  <2>5. \A q \in Participants : lock[ParticipantRow(q)] = r =>
                                  active'[q] = active[q] /\ Available(q)' >= Available(q)
    OBVIOUS
  <2> QED BY <1>4, <2>1, <2>2, <2>3, <2>4, <2>5, Bystander
<1> QED BY <1>6, <1>7, WriteStep

\* The commit of an issue.
LEMMA TxIssueWrite == ASSUME TxInv, NEW s \in Sessions, IssueWrite(s) PROVE TxInv'
<1> DEFINE k == session[s].key
<1>1. /\ k \in Keys /\ Issue(k) /\ session[s].at = "write" /\ session[s].op \in Decisions /\ Commit(s)
  BY IssueWriteIs DEF IssueWrite, Decisions
<1>2. ShopInv /\ TypeOK
  BY DEF TxInv, ShopInv
<1> HIDE DEF k
<1>3. TypeOK'
  BY <1>1, <1>2, TypeIssue
<1>4. ShopInv'
  BY <1>1, <1>2, <1>3, ShopIssue
<1>5. ASSUME NEW q \in Participants PROVE Available(q)' >= Available(q)
  <2>1. ActiveHolds(q)' = ActiveHolds(q) - Share(k, q) /\ LedgerBalance(q)' = LedgerBalance(q) - Share(k, q)
    BY <1>1, <1>2, <1>3, SumsIssue
  <2>2. ActiveHolds(q) \in Int /\ LedgerBalance(q) \in Int /\ Share(k, q) \in Int
    BY <1>1, <1>2, SumsTyped DEF Share, TypeOK, OrderRecord
  <2> QED BY <2>1, <2>2 DEF Available
<1>6. /\ order' = [order EXCEPT ![k].status = "ISSUED"] /\ UNCHANGED active
      /\ \A x \in Products : order[k].items[x] = 0 => product'[x] = product[x]
  BY <1>1 DEF Issue, WriteIssue
<1>7. "ISSUED" \in OrderStatus \ {"NONE"}
  BY DEF OrderStatus
<1>8. /\ order' = [order EXCEPT ![session[s].key].status = "ISSUED"]
      /\ \A x \in Products : order[session[s].key].items[x] = 0 => product'[x] = product[x]
  BY <1>6 DEF k
<1> QED BY <1>1, <1>4, <1>5, <1>6, <1>7, <1>8, DecisionWrite

\* The commit of a release.
LEMMA TxReleaseWrite == ASSUME TxInv, NEW s \in Sessions, ReleaseWrite(s) PROVE TxInv'
<1> DEFINE k == session[s].key
<1>1. /\ k \in Keys /\ session[s].at = "write" /\ session[s].op \in Decisions /\ Commit(s)
  BY ReleaseWriteIs DEF ReleaseWrite, Decisions
<1>2. PICK outcome \in {"REJECTED", "CANCELLED"} : Release(k, outcome)
  BY ReleaseWriteIs
<1>3. ShopInv /\ TypeOK
  BY DEF TxInv, ShopInv
<1> HIDE DEF k
<1>4. TypeOK'
  BY <1>1, <1>2, <1>3, TypeRelease
<1>5. ShopInv'
  BY <1>1, <1>2, <1>3, <1>4, ShopRelease
<1>6. ASSUME NEW q \in Participants PROVE Available(q)' >= Available(q)
  <2>1. ActiveHolds(q)' <= ActiveHolds(q) /\ LedgerBalance(q)' = LedgerBalance(q)
    BY <1>1, <1>2, <1>3, <1>4, SumsRelease
  <2>2. ActiveHolds(q) \in Int /\ LedgerBalance(q) \in Int /\ ActiveHolds(q)' \in Int
    BY <1>3, <1>4, SumsTyped, SumsTypedNext
  <2> QED BY <2>1, <2>2 DEF Available
<1>7. /\ order' = [order EXCEPT ![k].status = outcome] /\ UNCHANGED active
      /\ \A x \in Products : order[k].items[x] = 0 => product'[x] = product[x]
  BY <1>2 DEF Release, WriteRelease
<1> QED BY <1>1, <1>5, <1>6, <1>7, DecisionWrite DEF k, OrderStatus

-----------------------------------------------------------------------------
(* The one-statement requests, and every step together.                     *)

\* A catalogue statement writes one product row, which nobody has locked.
LEMMA TxCatalogue == ASSUME TxInv, CatalogueStep PROVE TxInv'
<1>1. PICK x \in Products :
        /\ Unlocked(ProductRow(x))
        /\ \/ \E price \in Prices, stock \in Stocks :
                CreateProduct(x, price, stock) \/ UpdateProduct(x, price, stock)
           \/ ActivateProduct(x) \/ HideProduct(x) \/ DeleteProduct(x)
  BY DEF CatalogueStep
<1>2. Next
  BY <1>1 DEF Next
<1>3. ShopInv' /\ TypeOK' /\ TypeOK
  BY <1>2, ShopStep DEF TxInv, ShopInv
<1>4. /\ UNCHANGED <<target, order, hold, ledger, active, open, session, lock>>
      /\ \A y \in Products : y # x => product'[y] = product[y]
  BY <1>1, <1>3 DEF TypeOK, CatalogueStep, Undisturbed, CreateProduct, UpdateProduct, ActivateProduct,
                    HideProduct, DeleteProduct
<1>5. OrdersNonEmpty'
  BY <1>4 DEF TxInv, OrdersNonEmpty, ItemsOf
<1>6. ASSUME NEW r \in Sessions PROVE RequestInv(r)'
  <2>1. lock[ProductRow(x)] # r
    BY <1>1, NobodyFresh DEF Unlocked
  <2>2. \A y \in Products : lock[ProductRow(y)] = r => product'[y] = product[y]
    BY <1>4, <2>1
  <2>3. ASSUME NEW q \in Participants PROVE active'[q] = active[q] /\ Available(q)' >= Available(q)
    <3>1. Available(q)' = Available(q) /\ Available(q) \in Int
      BY <1>3, <1>4, AvailableIs, AvailableTyped
    <3> QED BY <1>4, <3>1
  <2> QED BY <1>3, <1>4, <2>2, <2>3, Bystander
<1> QED BY <1>3, <1>4, <1>5, <1>6 DEF TxInv

\* An adjustment or a change of status concerns a participant whose row nobody has locked.
LEMMA TxParticipant == ASSUME TxInv, ParticipantStep PROVE TxInv'
<1>1. PICK p \in Participants :
        /\ Unlocked(ParticipantRow(p))
        /\ \/ \E a \in AdjustKeys, amount \in Amounts : Adjust(p, a, amount)
           \/ SetParticipantStatus(p)
  BY DEF ParticipantStep
<1>2. Next
  BY <1>1 DEF Next
<1>3. ShopInv' /\ TypeOK' /\ TypeOK
  BY <1>2, ShopStep DEF TxInv, ShopInv
<1>4. /\ UNCHANGED <<product, target, order, hold, open, session, lock>>
      /\ \A q \in Participants : q # p => active'[q] = active[q]
  BY <1>1, <1>3 DEF TypeOK, ParticipantStep, Undisturbed, Adjust, SetParticipantStatus
<1>5. OrdersNonEmpty'
  BY <1>4 DEF TxInv, OrdersNonEmpty, ItemsOf
<1>6. ASSUME NEW r \in Sessions PROVE RequestInv(r)'
  <2>1. lock[ParticipantRow(p)] # r
    BY <1>1, NobodyFresh DEF Unlocked
  <2>2. ASSUME NEW q \in Participants, lock[ParticipantRow(q)] = r
        PROVE  active'[q] = active[q] /\ Available(q)' >= Available(q)
    <3>1. q # p /\ Available(q) \in Int
      BY <1>3, <2>1, <2>2, AvailableTyped
    <3>2. Available(q)' = Available(q)
      <4>1. CASE SetParticipantStatus(p)
        BY <4>1, AvailableIs DEF SetParticipantStatus
      <4>2. ASSUME NEW a \in AdjustKeys, NEW amount \in Amounts, Adjust(p, a, amount)
            PROVE  Available(q)' = Available(q)
        <5>1. LedgerBalance(q)' = LedgerBalance(q) + (IF p = q THEN amount ELSE 0) /\ ActiveHolds(q)' = ActiveHolds(q)
          BY <1>3, <4>2, SumsAdjust
        <5>2. LedgerBalance(q) \in Int /\ ActiveHolds(q) \in Int
          BY <1>3, SumsTyped
        <5> QED BY <3>1, <5>1, <5>2 DEF Available
      <4> QED BY <1>1, <4>1, <4>2
    <3> QED BY <1>4, <3>1, <3>2
  <2> QED BY <1>3, <1>4, <2>2, Bystander
<1> QED BY <1>3, <1>4, <1>5, <1>6 DEF TxInv

\* The contest may close at any time: nobody's reading of it is relied on.
LEMMA TxContest == ASSUME TxInv, ContestStep PROVE TxInv'
<1>1. Next /\ UNCHANGED <<product, target, order, hold, ledger, active, session, lock>>
  BY DEF ContestStep, Undisturbed, FinishContest, Next
<1>2. ShopInv' /\ TypeOK' /\ TypeOK
  BY <1>1, ShopStep DEF TxInv, ShopInv
<1>3. OrdersNonEmpty'
  BY <1>1 DEF TxInv, OrdersNonEmpty, ItemsOf
<1>4. ASSUME NEW q \in Participants PROVE active'[q] = active[q] /\ Available(q)' >= Available(q)
  <2>1. Available(q)' = Available(q) /\ Available(q) \in Int
    BY <1>1, <1>2, AvailableIs, AvailableTyped
  <2> QED BY <1>1, <2>1
<1>5. ASSUME NEW r \in Sessions PROVE RequestInv(r)'
  BY <1>1, <1>2, <1>4, Bystander
<1> QED BY <1>1, <1>2, <1>3, <1>5 DEF TxInv

\* At the start nobody has a request or a lock.
LEMMA TxBase == TxInit => TxInv
<1> SUFFICES ASSUME TxInit PROVE TxInv
  OBVIOUS
<1>1. ShopInv
  BY ShopInit DEF TxInit
<1>2. OrdersNonEmpty
  BY DEF TxInit, Init, OrdersNonEmpty, NoOrder
<1>3. Idle \in SessionRecord
  BY MaxQtyNat DEF Idle, SessionRecord, Stages, Cart, EmptyCart
<1>4. session \in [Sessions -> SessionRecord] /\ lock \in [Rows -> Sessions \cup {Nobody}]
  BY <1>3 DEF TxInit
<1>5. ASSUME NEW s \in Sessions PROVE RequestInv(s)
  <2>1. session[s] = Idle /\ \A x \in Products : lock[ProductRow(x)] # s
    BY RowNames, NobodyFresh DEF TxInit
  <2> QED BY <2>1 DEF RequestInv, StageFits, LocksHeld, ReadingsHold, Idle, Decisions
<1> QED BY <1>1, <1>2, <1>4, <1>5 DEF TxInv

\* Every statement keeps the invariant of the transactions.
LEMMA TxStep == TxInv /\ [TxNext]_txVars => TxInv'
<1> SUFFICES ASSUME TxInv, [TxNext]_txVars PROVE TxInv'
  OBVIOUS
<1>1. ASSUME NEW s \in Sessions, Begin(s) PROVE TxInv'
  BY <1>1, TxBegin
<1>2. ASSUME NEW s \in Sessions, ReserveKey(s) \/ ReserveParticipant(s) \/ DecisionOrder(s) PROVE TxInv'
  BY <1>2, TxReserveKey, TxReserveParticipant, TxDecisionOrder
<1>3. ASSUME NEW s \in Sessions, LockProduct(s) \/ ReserveCheck(s) PROVE TxInv'
  BY <1>3, TxLockProduct, TxReserveCheck
<1>4. ASSUME NEW s \in Sessions, ReserveWrite(s) \/ IssueWrite(s) \/ ReleaseWrite(s) PROVE TxInv'
  BY <1>4, TxReserveWrite, TxIssueWrite, TxReleaseWrite
<1>5. ASSUME NEW s \in Sessions, Reply(s) \/ Rollback(s) \/ DeadlockAbort(s) PROVE TxInv'
  BY <1>5, TxLeave DEF Reply, Rollback, DeadlockAbort
<1>6. CASE CatalogueStep \/ ParticipantStep \/ ContestStep
  BY <1>6, TxCatalogue, TxParticipant, TxContest
<1>7. CASE UNCHANGED txVars
  <2>1. ShopInv' /\ TypeOK' /\ TypeOK
    BY <1>7, ShopStep DEF TxInv, ShopInv, txVars, vars
  <2>2. UNCHANGED <<product, target, order, hold, ledger, active, session, lock>>
    BY <1>7 DEF txVars
  <2>3. OrdersNonEmpty'
    BY <2>2 DEF TxInv, OrdersNonEmpty, ItemsOf
  <2>4. ASSUME NEW q \in Participants PROVE active'[q] = active[q] /\ Available(q)' >= Available(q)
    <3>1. Available(q)' = Available(q) /\ Available(q) \in Int
      BY <2>1, <2>2, AvailableIs, AvailableTyped
    <3> QED BY <2>2, <3>1
  <2>5. ASSUME NEW r \in Sessions PROVE RequestInv(r)'
    BY <2>1, <2>2, <2>4, Bystander
  <2> QED BY <2>1, <2>2, <2>3, <2>5 DEF TxInv
<1> QED BY <1>1, <1>2, <1>3, <1>4, <1>5, <1>6, <1>7 DEF TxNext, Step

\* Whatever the interleaving of statements: the shop's invariant, and for every request
\* in progress the locks it holds and the readings these keep true.
THEOREM TxCorrect == TxSpec => []TxInv
  BY TxBase, TxStep, PTL DEF TxSpec

\* The tables, the sessions and the locks keep their types.
THEOREM TxTypeCorrect == TxSpec => []TxTypeOK
<1>1. TxInv => TxTypeOK
  BY DEF TxInv, ShopInv, SessionRecord, TxTypeOK
<1> QED BY <1>1, TxCorrect, PTL

\* When a request comes to write, all it has checked since its first statement still holds
\* (the locks of reserve, issue and the releases in repo.go).
THEOREM ChecksHold == TxSpec => []ChecksStillHold
<1>1. ASSUME TxInv, NEW s \in Sessions, session[s].at = "write", session[s].op = "reserve"
      PROVE  LET t == session[s] IN
             /\ order[t.key].status = "NONE" /\ active[t.owner] /\ InStock(t.cart)
             /\ t.total = Cost(t.cart) /\ t.total <= Available(t.owner)
  BY <1>1, OwnPart DEF ReadingsHold
<1>2. ASSUME TxInv, NEW s \in Sessions, session[s].at = "write", session[s].op # "reserve"
      PROVE  LET t == session[s] IN
             /\ order[t.key].status = "RESERVED" /\ hold[t.key].status = "ACTIVE"
             /\ t.cart = order[t.key].items
             /\ \A x \in ItemsOf(t.cart) :
                  product[x].reserved >= t.cart[x] /\ product[x].stock >= t.cart[x]
  <2>1. session[s].op \in Decisions
    BY <1>2, OwnPart DEF StageFits
  <2>2. /\ session[s].key \in Keys /\ order[session[s].key].status = "RESERVED"
        /\ session[s].cart = order[session[s].key].items
    BY <1>2, <2>1, DecisionReady
  <2> QED BY <1>2, <2>2, WaitingOrder DEF TxInv
<1>3. TxInv => ChecksStillHold
  BY <1>1, <1>2 DEF ChecksStillHold
<1> QED BY <1>3, TxCorrect, PTL

-----------------------------------------------------------------------------
(* Serialisability.  Serial is Merch on the same rows, with the contest     *)
(* open until the last Reserve that saw it open has answered; its           *)
(* operators are the ones of Merch.                                         *)

\* Sums are the same in the instance of Merch.
LEMMA SerialSum == \A f : Serial!SumFunction(f) = SumFunction(f)
<1> SUFFICES ASSUME NEW f PROVE Serial!SumFunction(f) = SumFunction(f)
  OBVIOUS
<1> QED BY DEF Serial!SumFunction, SumFunction, Serial!SumFunctionOnSet, SumFunctionOnSet,
               Serial!FoldFunctionOnSet, FoldFunctionOnSet, Serial!MapThenFoldSet, MapThenFoldSet

\* So is the price of a cart.
LEMMA SerialCost == \A cart : Serial!Cost(cart) = Cost(cart)
  BY SerialSum DEF Serial!Cost, Cost

\* So is what a participant can spend.
LEMMA SerialAvailable == \A p : Serial!Available(p) = Available(p)
  BY SerialSum DEF Serial!Available, Serial!LedgerBalance, Serial!ActiveHolds, Available, LedgerBalance,
                   ActiveHolds, Serial!EntryKeys, EntryKeys, Serial!PurchaseKey, PurchaseKey,
                   Serial!AdjustmentKey, AdjustmentKey

\* The two contests.
LEMMA SerialOpen == OpenInSerialOrder \in BOOLEAN /\ OpenInSerialOrder' \in BOOLEAN
  BY DEF OpenInSerialOrder

\* a Reserve that has seen the contest open and not answered yet
Late(t) == t.op = "reserve" /\ t.at \in {"products", "check", "write", "reply"}

\* The contest counts as open for Merch while a transaction that saw it open is still to commit.
LEMMA SerialOpenIs ==
  /\ OpenInSerialOrder <=> open \/ \E s \in Sessions : Late(session[s])
  /\ OpenInSerialOrder' <=> open' \/ \E s \in Sessions : Late(session'[s])
  BY DEF OpenInSerialOrder, Late

\* A step that leaves the rows alone and does not reopen the contest is FinishContest or nothing.
LEMMA SerialQuiet ==
  ASSUME UNCHANGED <<product, target, order, hold, ledger, active>>,
         OpenInSerialOrder' => OpenInSerialOrder
  PROVE  [Serial!Next]_(Serial!vars)
<1>1. CASE OpenInSerialOrder' = OpenInSerialOrder
  BY <1>1 DEF Serial!vars
<1>2. CASE OpenInSerialOrder' # OpenInSerialOrder
  <2>1. OpenInSerialOrder /\ OpenInSerialOrder' = FALSE
    BY <1>2, SerialOpen
  <2>2. Serial!FinishContest
    BY <2>1 DEF Serial!FinishContest
  <2> QED BY <2>2 DEF Serial!Next
<1> QED BY <1>1, <1>2

\* So is a statement of s that writes no row, unless it makes s a late Reserve.
LEMMA SerialRead ==
  ASSUME TxInv, NEW s \in Sessions, DataUnchanged, \A r \in Sessions : r # s => session'[r] = session[r],
         Late(session'[s]) => Late(session[s]) \/ open
  PROVE  [Serial!Next]_(Serial!vars)
<1>1. OpenInSerialOrder' => OpenInSerialOrder
  BY SerialOpenIs DEF DataUnchanged
<1> QED BY <1>1, SerialQuiet DEF DataUnchanged

\* A transaction that ends without a write is at most a closing of the contest in Merch.
LEMMA SerialLeave == ASSUME TxInv, NEW s \in Sessions, Leave(s) PROVE [Serial!Next]_(Serial!vars)
<1>1. DataUnchanged /\ session'[s] = Idle /\ \A r \in Sessions : r # s => session'[r] = session[r]
  BY DEF Leave, TxInv
<1>2. ~Late(session'[s])
  BY <1>1 DEF Idle, Late
<1> QED BY <1>1, <1>2, SerialRead

\* Statements that only read and lock are stutters of Merch.
LEMMA SerialReadings ==
  ASSUME TxInv, NEW s \in Sessions,
         Begin(s) \/ ReserveKey(s) \/ ReserveParticipant(s) \/ DecisionOrder(s) \/ LockProduct(s) \/ ReserveCheck(s)
  PROVE  [Serial!Next]_(Serial!vars)
<1> DEFINE t == session[s]
<1>1. CASE Leave(s)
  BY <1>1, SerialLeave
<1>2. CASE Begin(s)
  <2>1. DataUnchanged /\ \A r \in Sessions : r # s => session'[r] = session[r]
    BY <1>2 DEF Begin, BeginReserve, BeginDecision, TxInv
  <2>2. session'[s].at \in {"key", "order"}
    BY <1>2 DEF Begin, BeginReserve, BeginDecision, TxInv
  <2> QED BY <2>1, <2>2, SerialRead DEF Late
<1>3. CASE ReserveKey(s) /\ ~Leave(s)
  <2>1. DataUnchanged /\ \A r \in Sessions : r # s => session'[r] = session[r]
    BY <1>3 DEF ReserveKey, Goto, TxInv
  <2>2. session'[s].at = "participant"
    BY <1>3, Moved DEF ReserveKey, Stages
  <2> QED BY <2>1, <2>2, SerialRead DEF Late
<1>4. CASE ReserveParticipant(s) /\ ~Leave(s)
  <2>1. DataUnchanged /\ open /\ \A r \in Sessions : r # s => session'[r] = session[r]
    BY <1>4 DEF ReserveParticipant, Goto, TxInv
  <2> QED BY <2>1, SerialRead
<1>5. CASE DecisionOrder(s) /\ ~Leave(s)
  <2>1. /\ DataUnchanged /\ \A r \in Sessions : r # s => session'[r] = session[r]
        /\ session' = [session EXCEPT ![s].at = "products", ![s].cart = order[t.key].items] /\ t.at = "order"
    BY <1>5 DEF DecisionOrder, TxInv
  <2>2. t.op \in Decisions /\ t \in SessionRecord
    BY <2>1, OwnPart DEF StageFits
  <2>3. session'[s].op = t.op
    BY <2>1, <2>2 DEF TxInv, SessionRecord
  <2> QED BY <2>1, <2>2, <2>3, SerialRead DEF Late, Decisions
<1>6. CASE LockProduct(s) /\ ~Leave(s)
  <2>1. /\ DataUnchanged /\ t.at = "products" /\ t \in SessionRecord
        /\ \/ UNCHANGED session
           \/ \E stage \in {"check", "write"} : Goto(s, stage)
    BY <1>6, OwnPart DEF LockProduct
  <2>2. session'[s].op = t.op /\ \A r \in Sessions : r # s => session'[r] = session[r]
    BY <2>1 DEF Goto, TxInv, SessionRecord
  <2> QED BY <2>1, <2>2, SerialRead DEF Late
<1>7. CASE ReserveCheck(s) /\ ~Leave(s)
  <2>1. /\ DataUnchanged /\ t.at = "check" /\ t \in SessionRecord
        /\ session' = [session EXCEPT ![s].at = "write", ![s].total = Cost(t.cart)]
    BY <1>7, OwnPart DEF ReserveCheck
  <2>2. session'[s].op = t.op /\ \A r \in Sessions : r # s => session'[r] = session[r]
    BY <2>1 DEF TxInv, SessionRecord
  <2> QED BY <2>1, <2>2, SerialRead DEF Late
<1> QED BY <1>1, <1>2, <1>3, <1>4, <1>5, <1>6, <1>7

\* The writes of Reserve are a Reserve of Merch.
LEMMA SerialReserve ==
  ASSUME TxInv, NEW s \in Sessions, ReserveWrite(s)
  PROVE  Serial!Next
<1> DEFINE k == session[s].key
           p == session[s].owner
           cart == session[s].cart
           total == session[s].total
<1>1. /\ k \in Keys /\ p \in Participants /\ cart \in Cart /\ total \in Nat
      /\ order[k].status = "NONE" /\ active[p] /\ ItemsOf(cart) # {}
      /\ InStock(cart) /\ total = Cost(cart) /\ total <= Available(p)
      /\ WriteReservation(k, p, cart, total) /\ Commit(s) /\ UNCHANGED <<active, open>>
  BY ReserveWriteReady
<1>2. session[s].at = "write" /\ session[s].op = "reserve"
  BY DEF ReserveWrite
<1>3. Late(session[s]) /\ Late(session'[s])
  BY <1>1, <1>2, Moved DEF Commit, Late, Stages
<1> HIDE DEF k, p, cart, total
<1>4. OpenInSerialOrder /\ OpenInSerialOrder' = OpenInSerialOrder
  BY <1>3, SerialOpen, SerialOpenIs
<1>5. Serial!ItemsOf(cart) # {} /\ Serial!InStock(cart)
  BY <1>1 DEF Serial!ItemsOf, ItemsOf, Serial!InStock, InStock, Serial!Free, Free
<1>6. Serial!Cost(cart) = total /\ Serial!Cost(cart) <= Serial!Available(p)
  BY <1>1, SerialCost, SerialAvailable
<1>7. Serial!WriteReservation(k, p, cart, Serial!Cost(cart))
  BY <1>1, <1>6 DEF Serial!WriteReservation, WriteReservation, Serial!ReserveUnits, ReserveUnits
<1>8. Serial!Reserve(k, p, cart)
  BY <1>1, <1>4, <1>5, <1>6, <1>7 DEF Serial!Reserve
<1>9. cart \in Serial!Cart
  BY <1>1 DEF Serial!Cart, Cart
<1> QED BY <1>1, <1>8, <1>9 DEF Serial!Next

\* The writes of a decision are that decision, and say nothing about the contest.
LEMMA SerialDecision ==
  ASSUME TxInv, NEW s \in Sessions, IssueWrite(s) \/ ReleaseWrite(s)
  PROVE  Serial!Next
<1>1. /\ session[s].at = "write" /\ session[s].op \in Decisions /\ Commit(s) /\ UNCHANGED open
  BY DEF IssueWrite, ReleaseWrite, Decisions
<1>2. /\ ~Late(session[s]) /\ ~Late(session'[s])
      /\ \A r \in Sessions : r # s => session'[r] = session[r]
  BY <1>1, Moved DEF Commit, Late, Stages, Decisions
<1>3. OpenInSerialOrder' = OpenInSerialOrder
  BY <1>1, <1>2, SerialOpen, SerialOpenIs
<1>4. CASE IssueWrite(s)
  <2>1. session[s].key \in Keys /\ Issue(session[s].key)
    BY <1>4, IssueWriteIs
  <2>2. Serial!Issue(session[s].key)
    BY <1>3, <2>1 DEF Issue, Serial!Issue, WriteIssue, Serial!WriteIssue, Serial!ItemsOf, ItemsOf,
                      Serial!IssueUnits, IssueUnits, Serial!OnSale, OnSale, Serial!NoEntry, NoEntry,
                      PurchaseKey, Serial!PurchaseKey
  <2> QED BY <2>1, <2>2 DEF Serial!Next
<1>5. CASE ReleaseWrite(s)
  <2>1. /\ session[s].key \in Keys
        /\ Release(session[s].key, "REJECTED") \/ Release(session[s].key, "CANCELLED")
    BY <1>5, ReleaseWriteIs
  <2>2. \A outcome : Release(session[s].key, outcome) => Serial!Release(session[s].key, outcome)
    BY <1>3 DEF Release, Serial!Release, WriteRelease, Serial!WriteRelease, Serial!ItemsOf, ItemsOf,
                Serial!ReleaseUnits, ReleaseUnits
  <2> QED BY <2>1, <2>2 DEF Serial!Next, Serial!Reject, Serial!Cancel
<1> QED BY <1>4, <1>5

\* The one-statement requests are steps of Merch as they stand.
LEMMA SerialOneStatement ==
  ASSUME TxInv, CatalogueStep \/ ParticipantStep
  PROVE  Serial!Next
<1>1. UNCHANGED <<session, open>>
  BY DEF CatalogueStep, ParticipantStep, Undisturbed, CreateProduct, UpdateProduct, ActivateProduct,
         HideProduct, DeleteProduct, Adjust, SetParticipantStatus
<1>2. OpenInSerialOrder' = OpenInSerialOrder
  BY <1>1, SerialOpen, SerialOpenIs
<1>3. CASE CatalogueStep
  <2>1. ASSUME NEW x \in Products, NEW price \in Prices, NEW stock \in Stocks,
               CreateProduct(x, price, stock) \/ UpdateProduct(x, price, stock)
        PROVE  Serial!Next
    <3>1. Serial!CreateProduct(x, price, stock) \/ Serial!UpdateProduct(x, price, stock)
      BY <1>2, <2>1 DEF CreateProduct, Serial!CreateProduct, UpdateProduct, Serial!UpdateProduct, Serial!OnSale, OnSale
    <3> QED BY <3>1 DEF Serial!Next
  <2>2. ASSUME NEW x \in Products, ActivateProduct(x) \/ HideProduct(x) \/ DeleteProduct(x)
        PROVE  Serial!Next
    <3>1. Serial!ActivateProduct(x) \/ Serial!HideProduct(x) \/ Serial!DeleteProduct(x)
      BY <1>2, <2>2 DEF ActivateProduct, Serial!ActivateProduct, HideProduct, Serial!HideProduct, DeleteProduct,
                        Serial!DeleteProduct, Serial!OnSale, OnSale, Serial!Referenced, Referenced, Serial!NoRow, NoRow
    <3> QED BY <3>1 DEF Serial!Next
  <2> QED BY <1>3, <2>1, <2>2 DEF CatalogueStep
<1>4. CASE ParticipantStep
  <2>1. ASSUME NEW p \in Participants, NEW a \in AdjustKeys, NEW amount \in Amounts, Adjust(p, a, amount)
        PROVE  Serial!Next
    <3>1. Serial!Adjust(p, a, amount)
      BY <1>2, <2>1 DEF Adjust, Serial!Adjust, AdjustmentKey, Serial!AdjustmentKey, NoEntry, Serial!NoEntry
    <3> QED BY <3>1 DEF Serial!Next
  <2>2. ASSUME NEW p \in Participants, SetParticipantStatus(p)
        PROVE  Serial!Next
    <3>1. Serial!SetParticipantStatus(p)
      BY <1>2, <2>2 DEF SetParticipantStatus, Serial!SetParticipantStatus
    <3> QED BY <3>1 DEF Serial!Next
  <2> QED BY <1>4, <2>1, <2>2 DEF ParticipantStep
<1> QED BY <1>3, <1>4

\* The shop begins as Merch does.
LEMMA SerialBase == TxInit => Serial!Init
  BY DEF TxInit, Init, Serial!Init, OpenInSerialOrder, Serial!NoRow, NoRow, Serial!NoOrder, NoOrder,
         Serial!EmptyCart, EmptyCart, Serial!NoHold, NoHold, Serial!NoEntry, NoEntry, Serial!EntryKeys,
         EntryKeys, Serial!PurchaseKey, PurchaseKey, Serial!AdjustmentKey, AdjustmentKey

\* Every statement is a step of Merch or a stutter.
LEMMA SerialStep == TxInv /\ [TxNext]_txVars => [Serial!Next]_(Serial!vars)
<1> SUFFICES ASSUME TxInv, [TxNext]_txVars PROVE [Serial!Next]_(Serial!vars)
  OBVIOUS
<1>1. ASSUME NEW s \in Sessions,
             Begin(s) \/ ReserveKey(s) \/ ReserveParticipant(s) \/ DecisionOrder(s) \/ LockProduct(s) \/ ReserveCheck(s)
      PROVE  [Serial!Next]_(Serial!vars)
  BY <1>1, SerialReadings
<1>2. ASSUME NEW s \in Sessions, ReserveWrite(s) \/ IssueWrite(s) \/ ReleaseWrite(s)
      PROVE  [Serial!Next]_(Serial!vars)
  BY <1>2, SerialReserve, SerialDecision
<1>3. ASSUME NEW s \in Sessions, Reply(s) \/ Rollback(s) \/ DeadlockAbort(s)
      PROVE  [Serial!Next]_(Serial!vars)
  BY <1>3, SerialLeave DEF Reply, Rollback, DeadlockAbort
<1>4. CASE CatalogueStep \/ ParticipantStep
  BY <1>4, SerialOneStatement
<1>5. CASE ContestStep
  <2>1. OpenInSerialOrder' => OpenInSerialOrder
    BY <1>5, SerialOpenIs DEF ContestStep, FinishContest
  <2> QED BY <1>5, <2>1, SerialQuiet DEF ContestStep, FinishContest
<1>6. CASE UNCHANGED txVars
  <2>1. OpenInSerialOrder' => OpenInSerialOrder
    BY <1>6, SerialOpenIs DEF txVars
  <2> QED BY <1>6, <2>1, SerialQuiet DEF txVars
<1> QED BY <1>1, <1>2, <1>3, <1>4, <1>5, <1>6 DEF TxNext, Step

\* The interleaved transactions implement Merch: the committed rows change as if every
\* request were one indivisible step (repo.go under READ COMMITTED with its row locks).
THEOREM SerialisableTx == TxSpec => Serialisable
  BY SerialBase, SerialStep, TxCorrect, PTL DEF TxSpec, Serialisable, Serial!Spec

-----------------------------------------------------------------------------
(* What the shop promises, under any interleaving of the statements.        *)

\* No statement spends more than was earned.
LEMMA TxMoneyStep == TxInv /\ MoneyInv /\ [TxNext]_txVars => MoneyInv'
<1> SUFFICES ASSUME TxInv, MoneyInv, [TxNext]_txVars PROVE MoneyInv'
  OBVIOUS
<1>1. ASSUME NEW s \in Sessions, ReserveWrite(s) PROVE MoneyInv'
  <2> DEFINE k == session[s].key
             p == session[s].owner
             cart == session[s].cart
             total == session[s].total
  <2>1. /\ k \in Keys /\ p \in Participants /\ cart \in Cart /\ total \in Nat
        /\ order[k].status = "NONE" /\ total <= Available(p) /\ WriteReservation(k, p, cart, total)
    BY <1>1, ReserveWriteReady
  <2>2. ShopInv' /\ TypeOK'
    BY <1>1, TxReserveWrite DEF TxInv, ShopInv
  <2> HIDE DEF k, p, cart, total
  <2>3. ASSUME NEW q \in Participants PROVE Solvent(q)'
    BY <2>1, <2>2, MoneyReserve
  <2> QED BY <2>2, <2>3 DEF MoneyInv
<1>2. ASSUME NEW s \in Sessions, IssueWrite(s) PROVE MoneyInv'
  <2>1. Next
    BY <1>2, IssueWriteIs DEF Next
  <2> QED BY <2>1, MoneyStep
<1>3. ASSUME NEW s \in Sessions, ReleaseWrite(s) PROVE MoneyInv'
  <2>1. Next
    BY <1>3, ReleaseWriteIs DEF Next, Reject, Cancel
  <2> QED BY <2>1, MoneyStep
<1>4. CASE CatalogueStep \/ ParticipantStep \/ ContestStep
  <2>1. Next
    BY <1>4 DEF CatalogueStep, ParticipantStep, ContestStep, Next
  <2> QED BY <2>1, MoneyStep
<1>5. CASE DataUnchanged
  BY <1>5, MoneyStep DEF DataUnchanged, vars
<1>6. \/ DataUnchanged \/ CatalogueStep \/ ParticipantStep \/ ContestStep
      \/ \E s \in Sessions : ReserveWrite(s) \/ IssueWrite(s) \/ ReleaseWrite(s)
  BY DEF TxNext, Step, Begin, BeginReserve, BeginDecision, ReserveKey, ReserveParticipant, DecisionOrder, LockProduct,
         ReserveCheck, Reply, Rollback, DeadlockAbort, Leave, DataUnchanged, txVars
<1> QED BY <1>1, <1>2, <1>3, <1>4, <1>5, <1>6

\* No interleaving of requests holds or spends a point twice: the balance is read and the
\* hold written under the lock of the participant's row.
THEOREM TxNeverOverspent == TxSpec => []NoOverspend
<1>1. TxInit => MoneyInv
  BY MoneyInit DEF TxInit
<1>2. MoneyInv => NoOverspend
  BY DEF MoneyInv, Solvent, NoOverspend
<1> QED BY <1>1, <1>2, TxMoneyStep, TxCorrect, PTL DEF TxSpec

\* Nor does it sell a unit twice, lose one, or leave a waiting order that cannot be issued.
THEOREM TxStockSafe == TxSpec => [](StockAccounting /\ PointsFollowOrder /\ ReservedCanBeIssued)
<1>1. TxInv => StockAccounting /\ PointsFollowOrder /\ ReservedCanBeIssued
  BY ShopFulfils DEF TxInv, ShopInv, Shelves, RowAgrees, StockAccounting
<1> QED BY <1>1, TxCorrect, PTL
=============================================================================
