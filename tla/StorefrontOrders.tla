-------------------------- MODULE StorefrontOrders --------------------------
(***************************************************************************)
(* Orders to the store of another retailer: createOffline and approve of   *)
(* the buyer (orders/orders.service.ts), the answers, the closing and the  *)
(* cancellation of storefront/storefront.service.ts, and the stock that a  *)
(* confirmation takes.                                                     *)
(*                                                                         *)
(* A call is an API handler between two of its database accesses.  The     *)
(* answer to an order is an interactive transaction of PostgreSQL (READ    *)
(* COMMITTED): its first update locks the order's row until it commits,    *)
(* its reads see what others committed.  One store whose products all      *)
(* publish a quantity.  Paused and suspended act on orders as closed does. *)
(***************************************************************************)
EXTENDS Integers, FiniteSetsExt

CONSTANTS
  Orders,    \* orders to the store
  Products,  \* products it publishes
  Calls,     \* handlers that may run at once
  MaxStock,  \* bound on the quantity it publishes of a product
  MaxQty     \* bound on what an order asks of a product

ASSUME StorefrontAssumption == IsFiniteSet(Orders) /\ MaxStock \in Nat /\ MaxQty \in Nat

VARIABLES
  store,      \* Storefront.status
  stock,      \* product -> SupplierBaseOffer.stock
  orders,     \* order -> its row, or NoOrder
  calls,      \* call -> what its handler has read, or Idle
  events,     \* orders whose storefront.order event is to be handled
  told,       \* orders the store was notified of (history)
  approved,   \* orders the buyer has let go (history)
  published   \* the stock at the start (history)

vars == <<store, stock, orders, calls, events, told, approved, published>>

Idle == [op |-> "idle"]
NoOrder == [store |-> "none"]
Exists(o) == orders[o] # NoOrder
Items == [Products -> 0..MaxQty]
Answers == {"CONFIRMED", "REJECTED"}
CallIs(c, op) == calls[c].op = op
Return(c) == calls' = [calls EXCEPT ![c] = Idle]

(* A transaction that has updated an order and has not committed.          *)
Locked(o) == \E c \in Calls : calls[c].op \in {"claimed", "priced"} /\ calls[c].order = o

(* Mutant of Visible: the buyer's approval is not looked at.               *)
VisibleAnyway(o) == Exists(o)

(* visibleOrderWhere: what the buyer let go.                               *)
Visible(o) == Exists(o) /\ orders[o].approval = "APPROVED"

Init ==
  /\ store = "ACTIVE"
  /\ stock \in [Products -> 0..MaxStock]
  /\ orders = [o \in Orders |-> NoOrder]
  /\ calls = [c \in Calls |-> Idle]
  /\ events = {} /\ told = {} /\ approved = {}
  /\ published = stock

-----------------------------------------------------------------------------
(* createOffline: validatePurchase, of an open store that has that much,   *)
(* reserves nothing.                                                       *)
Validate(c, items) ==
  /\ CallIs(c, "idle") /\ store = "ACTIVE"
  /\ \E p \in Products : items[p] > 0
  /\ \A p \in Products : items[p] <= stock[p]
  /\ calls' = [calls EXCEPT ![c] = [op |-> "create", items |-> items]]
  /\ UNCHANGED <<store, stock, orders, events, told, approved, published>>

(* Then the row: somebody who may not confirm leaves it held.              *)
Create(c, o, held) ==
  /\ CallIs(c, "create") /\ ~Exists(o)
  /\ orders' = [orders EXCEPT ![o] =
       [store |-> "PENDING", items |-> calls[c].items,
        approval |-> IF held THEN "PENDING_APPROVAL" ELSE "APPROVED"]]
  /\ events' = IF held THEN events ELSE events \cup {o}
  /\ approved' = IF held THEN approved ELSE approved \cup {o}
  /\ Return(c)
  /\ UNCHANGED <<store, stock, told, published>>

(* approve and reject of the buyer read the row first.                     *)
ReadHeld(c, o, op) ==
  /\ CallIs(c, "idle") /\ op \in {"approve", "discard"}
  /\ Exists(o) /\ orders[o].approval = "PENDING_APPROVAL"
  /\ calls' = [calls EXCEPT ![c] = [op |-> op, order |-> o, read |-> orders[o].store]]
  /\ UNCHANGED <<store, stock, orders, events, told, approved, published>>

(* Mutant of MarkApproved: nobody is told.                                 *)
MarkApprovedInSilence(c) ==
  LET o == calls[c].order IN
  /\ CallIs(c, "approve") /\ ~Locked(o)
  /\ orders' = [orders EXCEPT ![o].approval = "APPROVED"]
  /\ approved' = approved \cup {o}
  /\ Return(c)
  /\ UNCHANGED <<store, stock, events, told, published>>

(* markApproved, and the event if the order was pending when it was read.  *)
MarkApproved(c) ==
  LET o == calls[c].order IN
  /\ CallIs(c, "approve") /\ ~Locked(o)
  /\ orders' = [orders EXCEPT ![o].approval = "APPROVED"]
  /\ events' = IF calls[c].read = "PENDING" THEN events \cup {o} ELSE events
  /\ approved' = approved \cup {o}
  /\ Return(c)
  /\ UNCHANGED <<store, stock, told, published>>

(* reject leaves storefrontStatus alone.                                   *)
WriteDiscarded(c) ==
  LET o == calls[c].order IN
  /\ CallIs(c, "discard") /\ ~Locked(o)
  /\ orders' = [orders EXCEPT ![o].approval = "REJECTED"]
  /\ Return(c)
  /\ UNCHANGED <<store, stock, events, told, approved, published>>

(* notifyNewOrder reads the order again.                                   *)
Notify(o) ==
  /\ o \in events
  /\ events' = events \ {o}
  /\ told' = IF Visible(o) /\ orders[o].store = "PENDING" THEN told \cup {o} ELSE told
  /\ UNCHANGED <<store, stock, orders, calls, approved, published>>

-----------------------------------------------------------------------------
(* respond: the order is read,                                             *)
Respond(c, o, answer) ==
  /\ CallIs(c, "idle") /\ Visible(o) /\ orders[o].store = "PENDING"
  /\ calls' = [calls EXCEPT ![c] = [op |-> "respond", order |-> o, answer |-> answer]]
  /\ UNCHANGED <<store, stock, orders, events, told, approved, published>>

(* Mutant of Claim: the update does not say that it must be pending.       *)
ClaimAnyway(c) ==
  LET o == calls[c].order IN
  /\ CallIs(c, "respond") /\ ~Locked(o)
  /\ calls' = [calls EXCEPT ![c].op = "claimed"]
  /\ UNCHANGED <<store, stock, orders, events, told, approved, published>>

(* claimed in the transaction, or it was answered in between,              *)
Claim(c) ==
  LET o == calls[c].order IN
  /\ CallIs(c, "respond") /\ ~Locked(o)
  /\ IF orders[o].store = "PENDING"
       THEN calls' = [calls EXCEPT ![c].op = "claimed"]
       ELSE Return(c)
  /\ UNCHANGED <<store, stock, orders, events, told, approved, published>>

(* stockMap and stockAfterOrder of a confirmation,                         *)
ReadStock(c) ==
  LET asked == orders[calls[c].order].items
      left == [p \in Products |-> IF asked[p] < stock[p] THEN stock[p] - asked[p] ELSE 0]
  IN /\ CallIs(c, "claimed") /\ calls[c].answer = "CONFIRMED"
     /\ calls' = [calls EXCEPT ![c] =
          [op |-> "priced", order |-> @.order, answer |-> "CONFIRMED", left |-> left]]
     /\ UNCHANGED <<store, stock, orders, events, told, approved, published>>

(* and it commits: the products asked get the stock that was computed.     *)
Commit(c) ==
  LET o == calls[c].order IN
  /\ CallIs(c, "priced") \/ (CallIs(c, "claimed") /\ calls[c].answer = "REJECTED")
  /\ orders' = [orders EXCEPT ![o].store = calls[c].answer]
  /\ stock' = IF CallIs(c, "priced")
                THEN [p \in Products |-> IF orders[o].items[p] > 0 THEN calls[c].left[p] ELSE stock[p]]
                ELSE stock
  /\ Return(c)
  /\ UNCHANGED <<store, events, told, approved, published>>

(* The transaction times out, loses a deadlock or its connection.          *)
RollBack(c) ==
  /\ calls[c].op \in {"claimed", "priced"}
  /\ Return(c)
  /\ UNCHANGED <<store, stock, orders, events, told, approved, published>>

-----------------------------------------------------------------------------
(* cancelPurchase, of an order that the store may not even see.            *)
Cancel(o) ==
  /\ Exists(o) /\ orders[o].store = "PENDING" /\ ~Locked(o)
  /\ orders' = [orders EXCEPT ![o].store = "CANCELLED"]
  /\ UNCHANGED <<store, stock, calls, events, told, approved, published>>

(* close reads the orders to reject,                                       *)
BeginClose(c) ==
  /\ CallIs(c, "idle")
  /\ calls' = [calls EXCEPT ![c] =
       [op |-> "close", pending |-> {o \in Orders : Visible(o) /\ orders[o].store = "PENDING"}]]
  /\ UNCHANGED <<store, stock, orders, events, told, approved, published>>

(* Mutant of Close: the update trusts what was read.                       *)
CloseWhatItRead(c) ==
  /\ CallIs(c, "close") /\ \A o \in calls[c].pending : ~Locked(o)
  /\ store' = "CLOSED"
  /\ orders' = [o \in Orders |->
       IF o \in calls[c].pending THEN [orders[o] EXCEPT !.store = "REJECTED"] ELSE orders[o]]
  /\ Return(c)
  /\ UNCHANGED <<stock, events, told, approved, published>>

(* and rejects those that are still pending.                               *)
Close(c) ==
  /\ CallIs(c, "close") /\ \A o \in calls[c].pending : ~Locked(o)
  /\ store' = "CLOSED"
  /\ orders' = [o \in Orders |->
       IF o \in calls[c].pending /\ orders[o].store = "PENDING"
         THEN [orders[o] EXCEPT !.store = "REJECTED"] ELSE orders[o]]
  /\ Return(c)
  /\ UNCHANGED <<stock, events, told, approved, published>>

(* open, of a store that was closed.                                       *)
Open ==
  /\ store = "CLOSED" /\ store' = "ACTIVE"
  /\ UNCHANGED <<stock, orders, calls, events, told, approved, published>>

-----------------------------------------------------------------------------
Buyer(c) ==
  \/ \E items \in Items : Validate(c, items)
  \/ \E o \in Orders, held \in BOOLEAN : Create(c, o, held)
  \/ \E o \in Orders, op \in {"approve", "discard"} : ReadHeld(c, o, op)
  \/ MarkApproved(c) \/ WriteDiscarded(c)

Seller(c) ==
  \/ \E o \in Orders, answer \in Answers : Respond(c, o, answer)
  \/ Claim(c) \/ ReadStock(c) \/ Commit(c) \/ RollBack(c)
  \/ BeginClose(c) \/ Close(c)

Next == \/ \E c \in Calls : Buyer(c) \/ Seller(c)
        \/ \E o \in Orders : Cancel(o) \/ Notify(o)
        \/ Open

Spec == Init /\ [][Next]_vars

-----------------------------------------------------------------------------
Rows == [store : {"PENDING", "CANCELLED"} \cup Answers, items : Items,
         approval : {"PENDING_APPROVAL", "APPROVED", "REJECTED"}]

CallStates ==
  {Idle} \cup [op : {"create"}, items : Items]
         \cup [op : {"approve", "discard"}, order : Orders, read : {"PENDING", "CANCELLED"} \cup Answers]
         \cup [op : {"respond", "claimed"}, order : Orders, answer : Answers]
         \cup [op : {"priced"}, order : Orders, answer : {"CONFIRMED"}, left : [Products -> Nat]]
         \cup [op : {"close"}, pending : SUBSET Orders]

StoreTypeOK ==
  /\ store \in {"ACTIVE", "CLOSED"}
  /\ stock \in [Products -> Nat] /\ published \in [Products -> Nat]
  /\ orders \in [Orders -> Rows \cup {NoOrder}]
  /\ calls \in [Calls -> CallStates]
  /\ events \subseteq Orders /\ told \subseteq Orders /\ approved \subseteq Orders
  \* a handler that works on an order has read it
  /\ \A c \in Calls : calls[c].op \in {"approve", "discard", "respond", "claimed", "priced"} =>
       Exists(calls[c].order)
  /\ \A c \in Calls : CallIs(c, "close") => \A o \in calls[c].pending : Exists(o)

(* One transaction at a time works on an order, and the order is pending   *)
(* while it does (respond: the conditional update).                        *)
ClaimIsExclusive ==
  \A c \in Calls : calls[c].op \in {"claimed", "priced"} =>
    /\ orders[calls[c].order].store = "PENDING"
    /\ \A d \in Calls : calls[d].op \in {"claimed", "priced"} /\ calls[d].order = calls[c].order => c = d

(* What was answered or cancelled stays so: two members of the store, the  *)
(* buyer and the closing race for an order and one of them wins ("Ese      *)
(* pedido ya fue respondido").                                             *)
AnswersStay ==
  [][\A o \in Orders : Exists(o) /\ orders[o].store # "PENDING" =>
       orders'[o].store = orders[o].store]_vars

(* The store answers nothing that the buyer has not let go, whatever its   *)
(* members decide at the same time (PLAN_VENDER_EN_NODO.md: "la tienda lo  *)
(* ve recién cuando se aprueba").                                          *)
AnsweredWasApproved ==
  \A o \in Orders : orders[o].store \in Answers => o \in approved

(* An order that waits for the store is one that it was told of, or will   *)
(* be (domainEvents: "storefront.order"), as long as the process lives.    *)
StoreHears ==
  \A o \in Orders : Visible(o) /\ orders[o].store = "PENDING" => o \in events \cup told

Sold(p) == MapThenSumSet(LAMBDA o : orders[o].items[p], {o \in Orders : orders[o].store = "CONFIRMED"})

(* A confirmation takes its units once: what is left is never less than    *)
(* what was published minus what was confirmed.                            *)
DecrementedOnce == \A p \in Products : stock[p] + Sold(p) >= published[p]

(* Confirming takes the units of the published stock                       *)
(* (PLAN_VENDER_EN_NODO.md: "Confirmar descuenta el stock publicado").     *)
(* The code does not keep it: see the README.                              *)
ConfirmedIsDecremented ==
  \A p \in Products : stock[p] = 0 \/ stock[p] + Sold(p) = published[p]
=============================================================================
