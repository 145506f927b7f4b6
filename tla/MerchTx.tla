------------------------------ MODULE MerchTx ------------------------------
(***************************************************************************)
(* The shop's requests as PostgreSQL runs them: every request is a         *)
(* transaction of several statements under READ COMMITTED, and what keeps  *)
(* two of them apart is the rows they lock, in the order they lock them    *)
(* (backend/internal/modules/merch/repo.go).                               *)
(*                                                                         *)
(* A transaction writes only rows it has locked, so its writes are applied *)
(* when it commits.  An insert whose foreign key names a participant takes *)
(* a KEY SHARE lock on that row, which a FOR UPDATE lock of another        *)
(* transaction keeps out: points_ledger and audit_logs have such keys.     *)
(***************************************************************************)
EXTENDS Merch

CONSTANTS
  Sessions,   \* requests that can be in progress at the same time
  Nobody      \* the holder of a row nobody has locked

ASSUME NobodyFresh == Nobody \notin Sessions
ASSUME ProductsOrdered == Products \subseteq Nat   \* ORDER BY id

VARIABLES
  session,    \* the request each session is serving and how far it has come
  lock        \* the exclusive holder of each row and advisory key

txVars == <<product, target, order, hold, ledger, active, open, session, lock>>

KeyRow(k) == <<"key", k>>
ParticipantRow(p) == <<"participant", p>>
ProductRow(x) == <<"product", x>>
OrderRow(k) == <<"order", k>>
Rows == {KeyRow(k) : k \in Keys} \cup {OrderRow(k) : k \in Keys}
          \cup {ParticipantRow(p) : p \in Participants}
          \cup {ProductRow(x) : x \in Products}

Stages == {"idle", "key", "participant", "order", "products", "check", "write", "reply"}
Idle == [op |-> "none", at |-> "idle", key |-> "none", owner |-> NoOne,
         cart |-> EmptyCart, total |-> 0]

TxTypeOK ==
  /\ TypeOK
  /\ \A s \in Sessions :
       /\ session[s].at \in Stages
       /\ session[s].op \in {"none", "reserve", "issue", "reject", "cancel"}
       /\ session[s].cart \in Cart
  /\ lock \in [Rows -> Sessions \cup {Nobody}]

TxInit ==
  /\ Init
  /\ session = [s \in Sessions |-> Idle]
  /\ lock = [r \in Rows |-> Nobody]

-----------------------------------------------------------------------------
(* Locks. *)

Unlocked(r) == lock[r] = Nobody
Take(s, r) == lock' = [lock EXCEPT ![r] = s]
Unlock(s) == lock' = [r \in Rows |-> IF lock[r] = s THEN Nobody ELSE lock[r]]

\* the products of the session's cart it has not locked yet, smallest id first
ToLock(s) == {x \in ItemsOf(session[s].cart) : lock[ProductRow(x)] # s}
NextProduct(s) == CHOOSE x \in ToLock(s) : \A y \in ToLock(s) : x <= y

\* the rows the session's next statement has to lock
Wants(s) ==
  LET t == session[s] IN
  CASE t.at = "key" -> {KeyRow(t.key)}
    [] t.at = "participant" -> {ParticipantRow(t.owner)}
    [] t.at = "order" -> {OrderRow(t.key)}
    [] t.at = "products" -> {ProductRow(NextProduct(s))}
    [] t.at = "write" /\ t.op \in {"issue", "cancel"} -> {ParticipantRow(order[t.key].owner)}
    [] OTHER -> {}

CanLock(s) == \A r \in Wants(s) : lock[r] \in {Nobody, s}
WaitsFor(s) == {lock[r] : r \in Wants(s)} \ {Nobody, s}

\* every member of some set of sessions waits for another member
Deadlocked(s) ==
  \E group \in SUBSET Sessions :
    s \in group /\ \A t \in group : WaitsFor(t) \cap group # {}

-----------------------------------------------------------------------------
(* Requests. *)

DataUnchanged == UNCHANGED <<product, target, order, hold, ledger, active, open>>

Goto(s, stage) == session' = [session EXCEPT ![s].at = stage]

\* COMMIT or ROLLBACK with nothing written: the locks go, the request is over
Leave(s) == session' = [session EXCEPT ![s] = Idle] /\ Unlock(s) /\ DataUnchanged

\* COMMIT: the locks go; what is left is to read the order and answer
Commit(s) == Goto(s, "reply") /\ Unlock(s)

BeginReserve(s, k, p, cart) ==
  /\ session[s].at = "idle"
  /\ ItemsOf(cart) # {}
  /\ session' = [session EXCEPT ![s] = [op |-> "reserve", at |-> "key", key |-> k,
                                        owner |-> p, cart |-> cart, total |-> 0]]
  /\ UNCHANGED lock /\ DataUnchanged

\* an order's id is known to a client from an earlier answer
BeginDecision(s, op, k, p) ==
  /\ session[s].at = "idle"
  /\ order[k].status # "NONE"
  /\ session' = [session EXCEPT ![s] = [op |-> op, at |-> "order", key |-> k, owner |-> p,
                                        cart |-> EmptyCart, total |-> 0]]
  /\ UNCHANGED lock /\ DataUnchanged

\* pg_advisory_xact_lock, then the lookup of an order made with this key
ReserveKey(s) ==
  /\ session[s].at = "key" /\ CanLock(s)
  /\ IF order[session[s].key].status = "NONE"
     THEN Goto(s, "participant") /\ Take(s, KeyRow(session[s].key)) /\ DataUnchanged
     ELSE Leave(s)

\* a mutant: the participant's row is read without FOR UPDATE
ReserveParticipantUnlocked(s) ==
  /\ session[s].at = "participant" /\ CanLock(s)
  /\ IF active[session[s].owner] /\ open
     THEN Goto(s, "products") /\ UNCHANGED lock /\ DataUnchanged
     ELSE Leave(s)

ReserveParticipant(s) ==
  /\ session[s].at = "participant" /\ CanLock(s)
  /\ IF active[session[s].owner] /\ open
     THEN Goto(s, "products") /\ Take(s, ParticipantRow(session[s].owner)) /\ DataUnchanged
     ELSE Leave(s)

\* a mutant: the order is read without FOR UPDATE
DecisionOrderUnlocked(s) ==
  LET t == session[s] IN
  /\ t.at = "order" /\ CanLock(s)
  /\ IF order[t.key].status = "RESERVED" /\ (t.op = "cancel" => order[t.key].owner = t.owner)
     THEN /\ session' = [session EXCEPT ![s].at = "products", ![s].cart = order[t.key].items]
          /\ UNCHANGED lock /\ DataUnchanged
     ELSE Leave(s)

\* Cancel is scoped to the participant's own orders
DecisionOrder(s) ==
  LET t == session[s] IN
  /\ t.at = "order" /\ CanLock(s)
  /\ IF order[t.key].status = "RESERVED" /\ (t.op = "cancel" => order[t.key].owner = t.owner)
     THEN /\ session' = [session EXCEPT ![s].at = "products", ![s].cart = order[t.key].items]
          /\ Take(s, OrderRow(t.key)) /\ DataUnchanged
     ELSE Leave(s)

\* SELECT ... ORDER BY id FOR UPDATE, one row at a time
LockProduct(s) ==
  /\ session[s].at = "products" /\ CanLock(s)
  /\ IF product[NextProduct(s)].status = "NONE" THEN Leave(s)
     ELSE /\ Take(s, ProductRow(NextProduct(s)))
          /\ IF Cardinality(ToLock(s)) > 1 THEN UNCHANGED session
             ELSE Goto(s, IF session[s].op = "reserve" THEN "check" ELSE "write")
          /\ DataUnchanged

\* the products are locked; the balance is a statement of its own
ReserveCheck(s) ==
  LET t == session[s] IN
  /\ t.at = "check"
  /\ IF InStock(t.cart) /\ Cost(t.cart) <= Available(t.owner)
     THEN /\ session' = [session EXCEPT ![s].at = "write", ![s].total = Cost(t.cart)]
          /\ UNCHANGED lock /\ DataUnchanged
     ELSE Leave(s)

ReserveWrite(s) ==
  LET t == session[s] IN
  /\ t.at = "write" /\ t.op = "reserve"
  /\ WriteReservation(t.key, t.owner, t.cart, t.total)
  /\ Commit(s)
  /\ UNCHANGED <<active, open>>

\* the ledger entry and the audit row name the participant: KEY SHARE on that row
IssueWrite(s) ==
  LET t == session[s] IN
  /\ t.at = "write" /\ t.op = "issue" /\ CanLock(s)
  /\ WriteIssue(t.key, t.cart)
  /\ Commit(s)
  /\ UNCHANGED <<active, open>>

\* only the cancellation's audit row names the participant
ReleaseWrite(s) ==
  LET t == session[s] IN
  /\ t.at = "write" /\ t.op \in {"reject", "cancel"} /\ CanLock(s)
  /\ WriteRelease(t.key, t.cart, IF t.op = "reject" THEN "REJECTED" ELSE "CANCELLED")
  /\ Commit(s)
  /\ UNCHANGED <<active, open>>

Reply(s) == session[s].at = "reply" /\ Leave(s)

\* the client goes away or the process dies: the server rolls back
Rollback(s) == session[s].at \notin {"idle", "reply"} /\ Leave(s)

\* PostgreSQL fails one of the transactions of a cycle of waits
DeadlockAbort(s) == Deadlocked(s) /\ Leave(s)

-----------------------------------------------------------------------------
(* One-statement requests: they run when the row they write is not locked.  *)
(* Saving targets, which no order depends on, are left to Merch.            *)

Undisturbed == UNCHANGED <<session, lock>>

CatalogueStep ==
  /\ Undisturbed
  /\ \E x \in Products :
       /\ Unlocked(ProductRow(x))
       /\ \/ \E price \in Prices, stock \in Stocks :
               CreateProduct(x, price, stock) \/ UpdateProduct(x, price, stock)
          \/ ActivateProduct(x) \/ HideProduct(x) \/ DeleteProduct(x)

ParticipantStep ==
  /\ Undisturbed
  /\ \E p \in Participants :
       /\ Unlocked(ParticipantRow(p))
       /\ \/ \E a \in AdjustKeys, amount \in Amounts : Adjust(p, a, amount)
          \/ SetParticipantStatus(p)

\* contests.status is read by Reserve but the row is not locked
ContestStep == Undisturbed /\ FinishContest

-----------------------------------------------------------------------------
Step(s) ==
  \/ ReserveKey(s) \/ ReserveParticipant(s) \/ DecisionOrder(s) \/ LockProduct(s)
  \/ ReserveCheck(s) \/ ReserveWrite(s) \/ IssueWrite(s) \/ ReleaseWrite(s) \/ Reply(s)

Begin(s) ==
  \E k \in Keys :
    \/ \E op \in {"issue", "reject"} : BeginDecision(s, op, k, NoOne)
    \/ \E p \in Participants :
         \/ BeginDecision(s, "cancel", k, p)
         \/ \E cart \in Cart : BeginReserve(s, k, p, cart)

TxNext ==
  \/ \E s \in Sessions : Begin(s) \/ Step(s) \/ Rollback(s) \/ DeadlockAbort(s)
  \/ CatalogueStep \/ ParticipantStep \/ ContestStep

TxSpec == TxInit /\ [][TxNext]_txVars

-----------------------------------------------------------------------------
(* Properties. *)

\* A Reserve that saw the contest open may commit after the contest finished.  In
\* the serial order the contest closes when the last such request has answered.
OpenInSerialOrder ==
  open \/ \E s \in Sessions : session[s].op = "reserve"
                              /\ session[s].at \in {"products", "check", "write", "reply"}

Serial == INSTANCE Merch WITH open <- OpenInSerialOrder

\* Whatever the interleaving of statements, the committed rows change as if every
\* request were one indivisible step of Merch: no reservation is made with a unit,
\* a point, a key or a permission that is gone when it commits.
Serialisable == Serial!Spec

\* When a request comes to write, all it has checked since its first statement
\* still holds, so the row counts it tests come back full.
ChecksStillHold ==
  \A s \in Sessions : LET t == session[s] IN t.at = "write" =>
    IF t.op = "reserve"
    THEN /\ order[t.key].status = "NONE" /\ active[t.owner]
         /\ InStock(t.cart)
         /\ t.total = Cost(t.cart) /\ t.total <= Available(t.owner)
    ELSE /\ order[t.key].status = "RESERVED" /\ hold[t.key].status = "ACTIVE"
         /\ t.cart = order[t.key].items
         /\ \A x \in ItemsOf(t.cart) :
              product[x].reserved >= t.cart[x] /\ product[x].stock >= t.cart[x]

\* No two requests ever wait for each other's rows: locks are taken "in a stable
\* order" (work_user_func.md).
NoDeadlock == \A s \in Sessions : ~Deadlocked(s)
=============================================================================
