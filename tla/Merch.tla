------------------------------- MODULE Merch -------------------------------
(***************************************************************************)
(* The merchandise shop of one event and the points it is paid with        *)
(* (backend/internal/modules/merch, backend/internal/modules/points), one  *)
(* database transaction per action.  MerchTx takes the transactions of     *)
(* this module apart into statements and row locks.                        *)
(*                                                                         *)
(* An order is named by the idempotency key of the request that made it:   *)
(* (contest_id, idempotency_key) is unique in merch_orders, so the key is  *)
(* as good a name as the row's id.  The effective price of a product (the  *)
(* discount when there is one) stands for its pair of price columns.       *)
(***************************************************************************)
EXTENDS Integers, FiniteSets, Functions

CONSTANTS
  Participants,   \* event participants of the contest
  Products,       \* ids a product row may have
  Keys,           \* idempotency keys of reserve requests
  AdjustKeys,     \* idempotency keys of points adjustments
  NoOne,          \* the absent participant
  NoProduct,      \* the absent saving target
  Prices,         \* effective prices an administrator may enter
  Stocks,         \* stock quantities an administrator may enter
  MaxQty,         \* the largest quantity of one item (99 in the code)
  Amounts         \* amounts an administrator may adjust by

ASSUME KeysFinite == IsFiniteSet(Keys) /\ IsFiniteSet(AdjustKeys)
ASSUME ProductsFinite == IsFiniteSet(Products)
ASSUME NoOneFresh == NoOne \notin Participants
ASSUME NoProductFresh == NoProduct \notin Products
ASSUME PricesPositive == Prices \subseteq Nat \ {0}
ASSUME StocksNat == Stocks \subseteq Nat
ASSUME MaxQtyNat == MaxQty \in Nat
ASSUME AmountsNonZero == Amounts \subseteq Int \ {0}

VARIABLES
  product,   \* merch_products: status, effective price, stock, reserved
  target,    \* merch_saving_targets: the one product a participant saves for
  order,     \* merch_orders with their merch_order_items
  hold,      \* points_holds, one per order
  ledger,    \* points_ledger, append-only, by idempotency key
  active,    \* event_participants.status = 'ACTIVE'
  open       \* contests.status = 'ACTIVE'

vars == <<product, target, order, hold, ledger, active, open>>

ProductStatus == {"NONE", "DRAFT", "ACTIVE", "HIDDEN", "SOLD_OUT"}
OrderStatus == {"NONE", "RESERVED", "ISSUED", "REJECTED", "CANCELLED"}
HoldStatus == {"NONE", "ACTIVE", "CAPTURED", "RELEASED"}

Row == [status: ProductStatus, price: Nat, stock: Nat, reserved: Nat]
Cart == [Products -> 0 .. MaxQty]
EmptyCart == [x \in Products |-> 0]
OrderRecord == [status: OrderStatus, owner: Participants \cup {NoOne}, items: Cart, total: Nat]
HoldRecord == [status: HoldStatus, amount: Nat]
Entry == [owner: Participants \cup {NoOne}, amount: Int]
PurchaseKey(k) == <<"merch-purchase", k>>
AdjustmentKey(a) == <<"adjustment", a>>
EntryKeys == {PurchaseKey(k) : k \in Keys} \cup {AdjustmentKey(a) : a \in AdjustKeys}

NoRow == [status |-> "NONE", price |-> 0, stock |-> 0, reserved |-> 0]
NoOrder == [status |-> "NONE", owner |-> NoOne, items |-> EmptyCart, total |-> 0]
NoHold == [status |-> "NONE", amount |-> 0]
NoEntry == [owner |-> NoOne, amount |-> 0]

TypeOK ==
  /\ product \in [Products -> Row]
  /\ target \in [Participants -> Products \cup {NoProduct}]
  /\ order \in [Keys -> OrderRecord]
  /\ hold \in [Keys -> HoldRecord]
  /\ ledger \in [EntryKeys -> Entry]
  /\ active \in [Participants -> BOOLEAN]
  /\ open \in BOOLEAN

-----------------------------------------------------------------------------
(* Sums the code asks the database for. *)

\* SUM(points_ledger.amount) of a participant
LedgerBalance(p) ==
  SumFunction([e \in EntryKeys |-> IF ledger[e].owner = p THEN ledger[e].amount ELSE 0])

\* SUM(points_holds.amount) of a participant's holds that are still ACTIVE
ActiveHolds(p) ==
  SumFunction([k \in Keys |-> IF order[k].owner = p /\ hold[k].status = "ACTIVE"
                        THEN hold[k].amount ELSE 0])

\* a mutant: the balance without the points already held
AvailableIgnoringHolds(p) == LedgerBalance(p)

Available(p) == LedgerBalance(p) - ActiveHolds(p)

\* the price of a cart at the effective prices of the moment
Cost(cart) == SumFunction([x \in Products |-> product[x].price * cart[x]])

ItemsOf(cart) == {x \in Products : cart[x] > 0}
Free(x) == product[x].stock - product[x].reserved

-----------------------------------------------------------------------------
Init ==
  /\ product = [x \in Products |-> NoRow]
  /\ target = [p \in Participants |-> NoProduct]
  /\ order = [k \in Keys |-> NoOrder]
  /\ hold = [k \in Keys |-> NoHold]
  /\ ledger = [e \in EntryKeys |-> NoEntry]
  /\ active = [p \in Participants |-> TRUE]
  /\ open = TRUE

(* Administration of the catalogue. *)

CreateProduct(x, price, stock) ==
  /\ product[x].status = "NONE"
  /\ product' = [product EXCEPT ![x] = [status |-> "DRAFT", price |-> price,
                                        stock |-> stock, reserved |-> 0]]
  /\ UNCHANGED <<target, order, hold, ledger, active, open>>

\* the status UpdateProduct and Activate give a product on sale
OnSale(stock, reserved) == IF stock = reserved THEN "SOLD_OUT" ELSE "ACTIVE"

\* a mutant: the stock is lowered without a look at what is reserved
UpdateProductUnchecked(x, price, stock) ==
  /\ product[x].status # "NONE"
  /\ product' = [product EXCEPT ![x] =
       [status |-> IF @.status \in {"ACTIVE", "SOLD_OUT"}
                   THEN OnSale(stock, @.reserved) ELSE @.status,
        price |-> price, stock |-> stock, reserved |-> @.reserved]]
  /\ UNCHANGED <<target, order, hold, ledger, active, open>>

UpdateProduct(x, price, stock) ==
  /\ product[x].status # "NONE"
  /\ stock >= product[x].reserved
  /\ product' = [product EXCEPT ![x] =
       [status |-> IF @.status \in {"ACTIVE", "SOLD_OUT"}
                   THEN OnSale(stock, @.reserved) ELSE @.status,
        price |-> price, stock |-> stock, reserved |-> @.reserved]]
  /\ UNCHANGED <<target, order, hold, ledger, active, open>>

ActivateProduct(x) ==
  /\ product[x].status \in {"DRAFT", "HIDDEN", "SOLD_OUT"}
  /\ product' = [product EXCEPT ![x].status = OnSale(product[x].stock, product[x].reserved)]
  /\ UNCHANGED <<target, order, hold, ledger, active, open>>

\* mutants: a status the table does not know, and the status of a product never on sale
HideProductUnknown(x) ==
  /\ product[x].status \in {"ACTIVE", "SOLD_OUT"}
  /\ product' = [product EXCEPT ![x].status = "ARCHIVED"]
  /\ UNCHANGED <<target, order, hold, ledger, active, open>>

HideProductToDraft(x) ==
  /\ product[x].status \in {"ACTIVE", "SOLD_OUT"}
  /\ product' = [product EXCEPT ![x].status = "DRAFT"]
  /\ UNCHANGED <<target, order, hold, ledger, active, open>>

HideProduct(x) ==
  /\ product[x].status \in {"ACTIVE", "SOLD_OUT"}
  /\ product' = [product EXCEPT ![x].status = "HIDDEN"]
  /\ UNCHANGED <<target, order, hold, ledger, active, open>>

Referenced(x) ==
  \/ \E k \in Keys : order[k].status # "NONE" /\ order[k].items[x] > 0
  \/ \E p \in Participants : target[p] = x

DeleteProduct(x) ==
  /\ product[x].status = "DRAFT"
  /\ ~Referenced(x)
  /\ product' = [product EXCEPT ![x] = NoRow]
  /\ UNCHANGED <<target, order, hold, ledger, active, open>>

-----------------------------------------------------------------------------
(* What a participant does. *)

SetSavingTarget(p, x) ==
  /\ active[p] /\ open
  /\ product[x].status \in {"ACTIVE", "SOLD_OUT"}
  /\ target' = [target EXCEPT ![p] = x]
  /\ UNCHANGED <<product, order, hold, ledger, active, open>>

DeleteSavingTarget(p) ==
  /\ target[p] # NoProduct
  /\ target' = [target EXCEPT ![p] = NoProduct]
  /\ UNCHANGED <<product, order, hold, ledger, active, open>>

(* What the UPDATE statements of an order's life do to one product row. *)

ReserveUnits(row, q) ==
  [status |-> IF row.stock - row.reserved = q THEN "SOLD_OUT" ELSE row.status,
   price |-> row.price, stock |-> row.stock, reserved |-> row.reserved + q]

IssueUnits(row, q) ==
  [status |-> IF row.status = "HIDDEN" THEN "HIDDEN" ELSE OnSale(row.stock, row.reserved),
   price |-> row.price, stock |-> row.stock - q, reserved |-> row.reserved - q]

\* mutants: the units stay reserved, and the product stays sold out
ReleaseNoUnits(row, q) == row
ReleaseKeepingStatus(row, q) == [row EXCEPT !.reserved = @ - q]

ReleaseUnits(row, q) ==
  [status |-> IF row.status = "SOLD_OUT" /\ row.stock - (row.reserved - q) > 0
              THEN "ACTIVE" ELSE row.status,
   price |-> row.price, stock |-> row.stock, reserved |-> row.reserved - q]

\* every product is on sale and has the units asked for
InStock(cart) ==
  \A x \in ItemsOf(cart) : product[x].status = "ACTIVE" /\ Free(x) >= cart[x]

\* the rows one reservation writes: the order with its items, the stock and the hold
WriteReservation(k, p, cart, total) ==
  /\ order' = [order EXCEPT ![k] = [status |-> "RESERVED", owner |-> p,
                                    items |-> cart, total |-> total]]
  /\ product' = [x \in Products |-> IF cart[x] = 0 THEN product[x]
                                  ELSE ReserveUnits(product[x], cart[x])]
  /\ hold' = [hold EXCEPT ![k] = [status |-> "ACTIVE", amount |-> total]]
  /\ UNCHANGED <<target, ledger>>

\* a mutant: the key is not looked up, so a retry makes its order again
ReserveAgain(k, p, cart) ==
  /\ active[p] /\ open
  /\ ItemsOf(cart) # {}
  /\ InStock(cart)
  /\ Cost(cart) <= Available(p)
  /\ WriteReservation(k, p, cart, Cost(cart))
  /\ UNCHANGED <<active, open>>

\* A key that has been used answers with the order it made, or with a conflict,
\* and changes nothing; this is the key's first use.
Reserve(k, p, cart) ==
  /\ order[k].status = "NONE"
  /\ active[p] /\ open
  /\ ItemsOf(cart) # {}
  /\ InStock(cart)
  /\ Cost(cart) <= Available(p)
  /\ WriteReservation(k, p, cart, Cost(cart))
  /\ UNCHANGED <<active, open>>

-----------------------------------------------------------------------------
(* The end of an order.  Repeating a decision already taken is answered     *)
(* from the order and changes nothing.                                      *)

\* a mutant: the ledger is charged today's price
IssueAtCurrentPrice(k) ==
  LET items == order[k].items IN
  /\ order[k].status = "RESERVED"
  /\ \A x \in ItemsOf(items) : product[x].stock >= items[x] /\ product[x].reserved >= items[x]
  /\ hold[k].status = "ACTIVE"
  /\ ledger[PurchaseKey(k)] = NoEntry
  /\ product' = [x \in Products |-> IF items[x] = 0 THEN product[x]
                                  ELSE IssueUnits(product[x], items[x])]
  /\ hold' = [hold EXCEPT ![k].status = "CAPTURED"]
  /\ ledger' = [ledger EXCEPT ![PurchaseKey(k)] =
                  [owner |-> order[k].owner, amount |-> -Cost(items)]]
  /\ order' = [order EXCEPT ![k].status = "ISSUED"]
  /\ UNCHANGED <<target, active, open>>

WriteIssue(k, items) ==
  /\ product' = [x \in Products |-> IF items[x] = 0 THEN product[x]
                                  ELSE IssueUnits(product[x], items[x])]
  /\ hold' = [hold EXCEPT ![k].status = "CAPTURED"]
  /\ ledger' = [ledger EXCEPT ![PurchaseKey(k)] =
                  [owner |-> order[k].owner, amount |-> -order[k].total]]
  /\ order' = [order EXCEPT ![k].status = "ISSUED"]
  /\ UNCHANGED target

Issue(k) ==
  LET items == order[k].items IN
  /\ order[k].status = "RESERVED"
  /\ \A x \in ItemsOf(items) : product[x].stock >= items[x] /\ product[x].reserved >= items[x]
  /\ hold[k].status = "ACTIVE"
  /\ ledger[PurchaseKey(k)] = NoEntry
  /\ WriteIssue(k, items)
  /\ UNCHANGED <<active, open>>

WriteRelease(k, items, outcome) ==
  /\ product' = [x \in Products |-> IF items[x] = 0 THEN product[x]
                                  ELSE ReleaseUnits(product[x], items[x])]
  /\ hold' = [hold EXCEPT ![k].status = "RELEASED"]
  /\ order' = [order EXCEPT ![k].status = outcome]
  /\ UNCHANGED <<target, ledger>>

Release(k, outcome) ==
  LET items == order[k].items IN
  /\ order[k].status = "RESERVED"
  /\ \A x \in ItemsOf(items) : product[x].reserved >= items[x]
  /\ hold[k].status = "ACTIVE"
  /\ WriteRelease(k, items, outcome)
  /\ UNCHANGED <<active, open>>

Reject(k) == Release(k, "REJECTED")
Cancel(k) == Release(k, "CANCELLED")

-----------------------------------------------------------------------------
(* Points and the people they belong to. *)

\* A repeated key is answered from the entry it made; the amount may be any
\* but zero, and no balance is looked at.
Adjust(p, a, amount) ==
  /\ ledger[AdjustmentKey(a)] = NoEntry
  /\ ledger' = [ledger EXCEPT ![AdjustmentKey(a)] = [owner |-> p, amount |-> amount]]
  /\ UNCHANGED <<product, target, order, hold, active, open>>

SetParticipantStatus(p) ==
  /\ active' = [active EXCEPT ![p] = ~@]
  /\ UNCHANGED <<product, target, order, hold, ledger, open>>

FinishContest ==
  /\ open
  /\ open' = FALSE
  /\ UNCHANGED <<product, target, order, hold, ledger, active>>

-----------------------------------------------------------------------------
Next ==
  \/ \E x \in Products :
       \/ \E price \in Prices, stock \in Stocks :
            CreateProduct(x, price, stock) \/ UpdateProduct(x, price, stock)
       \/ ActivateProduct(x) \/ HideProduct(x) \/ DeleteProduct(x)
  \/ \E p \in Participants :
       \/ \E x \in Products : SetSavingTarget(p, x)
       \/ DeleteSavingTarget(p)
       \/ \E k \in Keys, cart \in Cart : Reserve(k, p, cart)
       \/ \E a \in AdjustKeys, amount \in Amounts : Adjust(p, a, amount)
       \/ SetParticipantStatus(p)
  \/ \E k \in Keys : Issue(k) \/ Reject(k) \/ Cancel(k)
  \/ FinishContest

Spec == Init /\ [][Next]_vars
-----------------------------------------------------------------------------
(* Properties. *)

\* the units promised to the orders waiting to be collected, one element each
UnitsHeld(x) ==
  {u \in Keys \X (1 .. MaxQty) :
     order[u[1]].status = "RESERVED" /\ u[2] <= order[u[1]].items[x]}

\* reserved_quantity, which every handler adjusts by itself, is at any time the
\* number of units of the orders still waiting, and the shelf holds them all.
StockAccounting ==
  \A x \in Products :
    /\ product[x].reserved = Cardinality(UnitsHeld(x))
    /\ product[x].reserved <= product[x].stock

\* The hold of an order and the ledger say what the order says: points are held
\* while it waits, captured and charged once when it is issued, given back
\* without a ledger entry when it is rejected or cancelled.
PointsFollowOrder ==
  \A k \in Keys :
    /\ hold[k].amount = order[k].total
    /\ hold[k].status = CASE order[k].status = "NONE" -> "NONE"
                          [] order[k].status = "RESERVED" -> "ACTIVE"
                          [] order[k].status = "ISSUED" -> "CAPTURED"
                          [] OTHER -> "RELEASED"
    /\ ledger[PurchaseKey(k)] =
         IF order[k].status = "ISSUED"
         THEN [owner |-> order[k].owner, amount |-> -order[k].total] ELSE NoEntry

\* Nothing that happens to the catalogue, the contest or the participant while
\* an order waits makes Issue refuse it: no row count comes back short.
ReservedCanBeIssued ==
  \A k \in Keys : order[k].status = "RESERVED" =>
    /\ \A x \in ItemsOf(order[k].items) :
         /\ product[x].status \notin {"NONE", "DRAFT"}
         /\ product[x].reserved >= order[k].items[x]
         /\ product[x].stock >= order[k].items[x]
    /\ hold[k].status = "ACTIVE"
    /\ ledger[PurchaseKey(k)] = NoEntry

\* A product on sale has a free unit, one shown as sold out has none.
StatusShowsStock ==
  \A x \in Products :
    /\ product[x].status = "ACTIVE" => Free(x) > 0
    /\ product[x].status = "SOLD_OUT" => Free(x) = 0

\* what a participant has ever been credited with, corrections down left out
Earned(p) ==
  SumFunction([e \in EntryKeys |->
    IF ledger[e].owner = p /\ ledger[e].amount > 0 THEN ledger[e].amount ELSE 0])
Spent(p) ==
  SumFunction([k \in Keys |->
    IF order[k].owner = p /\ order[k].status = "ISSUED" THEN order[k].total ELSE 0])

\* Orders waiting and orders issued together never cost a participant more than
\* was ever credited: no point is held or spent twice.
NoOverspend == \A p \in Participants : ActiveHolds(p) + Spent(p) <= Earned(p)

\* A saving target or an order never points at a product that is gone.
ReferencesStand == \A x \in Products : Referenced(x) => product[x].status \notin {"NONE", "DRAFT"}

\* An order keeps the owner, the items and the price it was made with whatever
\* happens to the catalogue, and a decision on it is final.
OrderTermsFixed ==
  [][\A k \in Keys : order[k].status # "NONE" =>
       /\ order'[k].owner = order[k].owner
       /\ order'[k].items = order[k].items
       /\ order'[k].total = order[k].total
       /\ order[k].status # "RESERVED" => order'[k].status = order[k].status]_vars

=============================================================================
