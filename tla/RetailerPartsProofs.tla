------------------------- MODULE RetailerPartsProofs -------------------------
(***************************************************************************)
(* Proofs about what a retailer sells, the prices it uploads and what its  *)
(* people put in its cart:                                                 *)
(* StorefrontOrders, for any orders, products and handlers (finitely many  *)
(* orders where units are added up),                                       *)
(* ListImport, for any sheets, products and calls that do not overlap, and *)
(* CartShares, for any people, lines, quantities and claims (finitely many *)
(* people and lines).                                                      *)
(***************************************************************************)
EXTENDS StorefrontOrders, ListImport, CartShares, FiniteLemmas

(* Orders to a store.                                                     *)

(* What a handler remembers of an order is still so: one that approves has *)
(* read that it is pending if it is, and those of the store work on orders *)
(* that were let go.                                                       *)
ReadsHold ==
  /\ \A o \in Orders : Visible(o) => o \in approved
  /\ \A c \in Calls :
       /\ CallIs(c, "approve") /\ orders[calls[c].order].store = "PENDING" => calls[c].read = "PENDING"
       /\ calls[c].op \in {"respond", "claimed", "priced"} => calls[c].order \in approved
       /\ CallIs(c, "close") => calls[c].pending \subseteq approved

StoreInv == /\ StoreTypeOK
        /\ ClaimIsExclusive
        /\ ReadsHold
        /\ AnsweredWasApproved
        /\ StoreHears

(* The initial states satisfy the invariant.                               *)
LEMMA InitStoreInv == Init => StoreInv
BY StorefrontAssumption
   DEF Init, StoreInv, StoreTypeOK, ClaimIsExclusive, ReadsHold, AnsweredWasApproved, StoreHears,
       CallStates, Idle, NoOrder, CallIs, Exists, Visible, Answers

(* Every step keeps the type invariant.                                    *)
LEMMA NextType == StoreTypeOK /\ [Next]_vars => StoreTypeOK'
<1> SUFFICES ASSUME StoreTypeOK, [Next]_vars PROVE StoreTypeOK'
  OBVIOUS
<1> USE StorefrontAssumption DEF StoreTypeOK, CallStates, Rows, Items, Idle, NoOrder, CallIs, Exists, Visible, Answers, Return
<1>1. ASSUME NEW c \in Calls, NEW items \in Items, Validate(c, items) PROVE StoreTypeOK'
  BY <1>1 DEF Validate
<1>2. ASSUME NEW c \in Calls, NEW o \in Orders, NEW held \in BOOLEAN, Create(c, o, held) PROVE StoreTypeOK'
  BY <1>2 DEF Create
<1>3. ASSUME NEW c \in Calls, NEW o \in Orders, NEW op \in {"approve", "discard"}, ReadHeld(c, o, op) PROVE StoreTypeOK'
  BY <1>3 DEF ReadHeld
<1>4. ASSUME NEW c \in Calls, MarkApproved(c) PROVE StoreTypeOK'
  BY <1>4 DEF MarkApproved
<1>5. ASSUME NEW c \in Calls, WriteDiscarded(c) PROVE StoreTypeOK'
  BY <1>5 DEF WriteDiscarded
<1>6. ASSUME NEW c \in Calls, NEW o \in Orders, NEW answer \in Answers, Respond(c, o, answer) PROVE StoreTypeOK'
  BY <1>6 DEF Respond
<1>7. ASSUME NEW c \in Calls, Claim(c) PROVE StoreTypeOK'
  BY <1>7 DEF Claim
<1>8. ASSUME NEW c \in Calls, ReadStock(c) PROVE StoreTypeOK'
  BY <1>8 DEF ReadStock
<1>9. ASSUME NEW c \in Calls, Commit(c) PROVE StoreTypeOK'
  BY <1>9 DEF Commit
<1>10. ASSUME NEW c \in Calls, RollBack(c) PROVE StoreTypeOK'
  BY <1>10 DEF RollBack
<1>11. ASSUME NEW c \in Calls, BeginClose(c) PROVE StoreTypeOK'
  BY <1>11 DEF BeginClose
<1>12. ASSUME NEW c \in Calls, Close(c) PROVE StoreTypeOK'
  BY <1>12 DEF Close
<1>13. ASSUME NEW o \in Orders, Cancel(o) PROVE StoreTypeOK'
  BY <1>13 DEF Cancel
<1>14. ASSUME NEW o \in Orders, Notify(o) PROVE StoreTypeOK'
  BY <1>14 DEF Notify
<1>15. CASE Open
  BY <1>15 DEF Open
<1>16. CASE UNCHANGED vars
  BY <1>16 DEF vars
<1> HIDE DEF StoreTypeOK, CallStates, Rows, Items, Idle, NoOrder, CallIs, Exists, Visible, Answers, Return
<1> QED BY <1>1, <1>2, <1>3, <1>4, <1>5, <1>6, <1>7, <1>8, <1>9, <1>10, <1>11, <1>12, <1>13, <1>14, <1>15, <1>16 DEF Next, Buyer, Seller

(* An order that a transaction works on is left alone by everything else.  *)
LEMMA NextClaim == StoreInv /\ [Next]_vars => ClaimIsExclusive'
<1> SUFFICES ASSUME StoreInv, [Next]_vars PROVE ClaimIsExclusive'
  OBVIOUS
<1>0. StoreTypeOK'
  BY NextType DEF StoreInv
<1> USE <1>0 DEF StoreInv, StoreTypeOK, CallStates, Rows, Idle, NoOrder, CallIs, Exists, Locked, Return, Answers, ClaimIsExclusive
<1>1. ASSUME NEW c \in Calls, NEW items \in Items, Validate(c, items) PROVE ClaimIsExclusive'
  BY <1>1 DEF Validate
<1>2. ASSUME NEW c \in Calls, NEW o \in Orders, NEW held \in BOOLEAN, Create(c, o, held) PROVE ClaimIsExclusive'
  BY <1>2 DEF Create
<1>3. ASSUME NEW c \in Calls, NEW o \in Orders, NEW op \in {"approve", "discard"}, ReadHeld(c, o, op) PROVE ClaimIsExclusive'
  BY <1>3 DEF ReadHeld
<1>4. ASSUME NEW c \in Calls, MarkApproved(c) PROVE ClaimIsExclusive'
  BY <1>4 DEF MarkApproved
<1>5. ASSUME NEW c \in Calls, WriteDiscarded(c) PROVE ClaimIsExclusive'
  BY <1>5 DEF WriteDiscarded
<1>6. ASSUME NEW c \in Calls, NEW o \in Orders, NEW answer \in Answers, Respond(c, o, answer) PROVE ClaimIsExclusive'
  BY <1>6 DEF Respond
<1>7. ASSUME NEW c \in Calls, Claim(c) PROVE ClaimIsExclusive'
  BY <1>7 DEF Claim
<1>8. ASSUME NEW c \in Calls, ReadStock(c) PROVE ClaimIsExclusive'
  BY <1>8 DEF ReadStock
<1>9. ASSUME NEW c \in Calls, Commit(c) PROVE ClaimIsExclusive'
  BY <1>9 DEF Commit
<1>10. ASSUME NEW c \in Calls, RollBack(c) PROVE ClaimIsExclusive'
  BY <1>10 DEF RollBack
<1>11. ASSUME NEW c \in Calls, BeginClose(c) PROVE ClaimIsExclusive'
  BY <1>11 DEF BeginClose
<1>12. ASSUME NEW c \in Calls, Close(c) PROVE ClaimIsExclusive'
  BY <1>12 DEF Close
<1>13. ASSUME NEW o \in Orders, Cancel(o) PROVE ClaimIsExclusive'
  BY <1>13 DEF Cancel
<1>14. ASSUME NEW o \in Orders, Notify(o) PROVE ClaimIsExclusive'
  BY <1>14 DEF Notify
<1>15. CASE Open
  BY <1>15 DEF Open
<1>16. CASE UNCHANGED vars
  BY <1>16 DEF vars
<1> HIDE DEF StoreInv, StoreTypeOK, CallStates, Rows, Idle, NoOrder, CallIs, Exists, Locked, Return, Answers, ClaimIsExclusive
<1> QED BY <1>1, <1>2, <1>3, <1>4, <1>5, <1>6, <1>7, <1>8, <1>9, <1>10, <1>11, <1>12, <1>13, <1>14, <1>15, <1>16 DEF Next, Buyer, Seller

(* What a handler remembers stays so.                                      *)
LEMMA NextReads == StoreInv /\ [Next]_vars => ReadsHold'
<1> SUFFICES ASSUME StoreInv, [Next]_vars PROVE ReadsHold'
  OBVIOUS
<1>0. StoreTypeOK'
  BY NextType DEF StoreInv
<1> USE <1>0 DEF StoreInv, StoreTypeOK, CallStates, Rows, Idle, NoOrder, CallIs, Exists, Locked, Return, Answers, ReadsHold, Visible
<1>1. ASSUME NEW c \in Calls, NEW items \in Items, Validate(c, items) PROVE ReadsHold'
  BY <1>1 DEF Validate
<1>2. ASSUME NEW c \in Calls, NEW o \in Orders, NEW held \in BOOLEAN, Create(c, o, held) PROVE ReadsHold'
  BY <1>2 DEF Create
<1>3. ASSUME NEW c \in Calls, NEW o \in Orders, NEW op \in {"approve", "discard"}, ReadHeld(c, o, op) PROVE ReadsHold'
  BY <1>3 DEF ReadHeld
<1>4. ASSUME NEW c \in Calls, MarkApproved(c) PROVE ReadsHold'
  BY <1>4 DEF MarkApproved
<1>5. ASSUME NEW c \in Calls, WriteDiscarded(c) PROVE ReadsHold'
  BY <1>5 DEF WriteDiscarded
<1>6. ASSUME NEW c \in Calls, NEW o \in Orders, NEW answer \in Answers, Respond(c, o, answer) PROVE ReadsHold'
  BY <1>6 DEF Respond
<1>7. ASSUME NEW c \in Calls, Claim(c) PROVE ReadsHold'
  BY <1>7 DEF Claim
<1>8. ASSUME NEW c \in Calls, ReadStock(c) PROVE ReadsHold'
  BY <1>8 DEF ReadStock
<1>9. ASSUME NEW c \in Calls, Commit(c) PROVE ReadsHold'
  BY <1>9 DEF Commit
<1>10. ASSUME NEW c \in Calls, RollBack(c) PROVE ReadsHold'
  BY <1>10 DEF RollBack
<1>11. ASSUME NEW c \in Calls, BeginClose(c) PROVE ReadsHold'
  BY <1>11 DEF BeginClose
<1>12. ASSUME NEW c \in Calls, Close(c) PROVE ReadsHold'
  BY <1>12 DEF Close
<1>13. ASSUME NEW o \in Orders, Cancel(o) PROVE ReadsHold'
  BY <1>13 DEF Cancel
<1>14. ASSUME NEW o \in Orders, Notify(o) PROVE ReadsHold'
  BY <1>14 DEF Notify
<1>15. CASE Open
  BY <1>15 DEF Open
<1>16. CASE UNCHANGED vars
  BY <1>16 DEF vars
<1> HIDE DEF StoreInv, StoreTypeOK, CallStates, Rows, Idle, NoOrder, CallIs, Exists, Locked, Return, Answers, ReadsHold, Visible
<1> QED BY <1>1, <1>2, <1>3, <1>4, <1>5, <1>6, <1>7, <1>8, <1>9, <1>10, <1>11, <1>12, <1>13, <1>14, <1>15, <1>16 DEF Next, Buyer, Seller

(* Answers go to orders that were let go.                                  *)
LEMMA NextAnswered == StoreInv /\ [Next]_vars => AnsweredWasApproved'
<1> SUFFICES ASSUME StoreInv, [Next]_vars PROVE AnsweredWasApproved'
  OBVIOUS
<1>0. StoreTypeOK'
  BY NextType DEF StoreInv
<1> USE <1>0 DEF StoreInv, StoreTypeOK, CallStates, Rows, Idle, NoOrder, CallIs, Exists, Locked, Return, Answers, AnsweredWasApproved, ReadsHold, ClaimIsExclusive
<1>1. ASSUME NEW c \in Calls, NEW items \in Items, Validate(c, items) PROVE AnsweredWasApproved'
  BY <1>1 DEF Validate
<1>2. ASSUME NEW c \in Calls, NEW o \in Orders, NEW held \in BOOLEAN, Create(c, o, held) PROVE AnsweredWasApproved'
  BY <1>2 DEF Create
<1>3. ASSUME NEW c \in Calls, NEW o \in Orders, NEW op \in {"approve", "discard"}, ReadHeld(c, o, op) PROVE AnsweredWasApproved'
  BY <1>3 DEF ReadHeld
<1>4. ASSUME NEW c \in Calls, MarkApproved(c) PROVE AnsweredWasApproved'
  BY <1>4 DEF MarkApproved
<1>5. ASSUME NEW c \in Calls, WriteDiscarded(c) PROVE AnsweredWasApproved'
  BY <1>5 DEF WriteDiscarded
<1>6. ASSUME NEW c \in Calls, NEW o \in Orders, NEW answer \in Answers, Respond(c, o, answer) PROVE AnsweredWasApproved'
  BY <1>6 DEF Respond
<1>7. ASSUME NEW c \in Calls, Claim(c) PROVE AnsweredWasApproved'
  BY <1>7 DEF Claim
<1>8. ASSUME NEW c \in Calls, ReadStock(c) PROVE AnsweredWasApproved'
  BY <1>8 DEF ReadStock
<1>9. ASSUME NEW c \in Calls, Commit(c) PROVE AnsweredWasApproved'
  BY <1>9 DEF Commit
<1>10. ASSUME NEW c \in Calls, RollBack(c) PROVE AnsweredWasApproved'
  BY <1>10 DEF RollBack
<1>11. ASSUME NEW c \in Calls, BeginClose(c) PROVE AnsweredWasApproved'
  BY <1>11 DEF BeginClose
<1>12. ASSUME NEW c \in Calls, Close(c) PROVE AnsweredWasApproved'
  BY <1>12 DEF Close
<1>13. ASSUME NEW o \in Orders, Cancel(o) PROVE AnsweredWasApproved'
  BY <1>13 DEF Cancel
<1>14. ASSUME NEW o \in Orders, Notify(o) PROVE AnsweredWasApproved'
  BY <1>14 DEF Notify
<1>15. CASE Open
  BY <1>15 DEF Open
<1>16. CASE UNCHANGED vars
  BY <1>16 DEF vars
<1> HIDE DEF StoreInv, StoreTypeOK, CallStates, Rows, Idle, NoOrder, CallIs, Exists, Locked, Return, Answers, AnsweredWasApproved, ReadsHold, ClaimIsExclusive
<1> QED BY <1>1, <1>2, <1>3, <1>4, <1>5, <1>6, <1>7, <1>8, <1>9, <1>10, <1>11, <1>12, <1>13, <1>14, <1>15, <1>16 DEF Next, Buyer, Seller

(* An order becomes visible with its event.                                *)
LEMMA NextHears == StoreInv /\ [Next]_vars => StoreHears'
<1> SUFFICES ASSUME StoreInv, [Next]_vars PROVE StoreHears'
  OBVIOUS
<1>0. StoreTypeOK'
  BY NextType DEF StoreInv
<1> USE <1>0 DEF StoreInv, StoreTypeOK, CallStates, Rows, Idle, NoOrder, CallIs, Exists, Locked, Return, Answers, StoreHears, Visible, ReadsHold, ClaimIsExclusive
<1>1. ASSUME NEW c \in Calls, NEW items \in Items, Validate(c, items) PROVE StoreHears'
  BY <1>1 DEF Validate
<1>2. ASSUME NEW c \in Calls, NEW o \in Orders, NEW held \in BOOLEAN, Create(c, o, held) PROVE StoreHears'
  BY <1>2 DEF Create
<1>3. ASSUME NEW c \in Calls, NEW o \in Orders, NEW op \in {"approve", "discard"}, ReadHeld(c, o, op) PROVE StoreHears'
  BY <1>3 DEF ReadHeld
<1>4. ASSUME NEW c \in Calls, MarkApproved(c) PROVE StoreHears'
  BY <1>4 DEF MarkApproved
<1>5. ASSUME NEW c \in Calls, WriteDiscarded(c) PROVE StoreHears'
  BY <1>5 DEF WriteDiscarded
<1>6. ASSUME NEW c \in Calls, NEW o \in Orders, NEW answer \in Answers, Respond(c, o, answer) PROVE StoreHears'
  BY <1>6 DEF Respond
<1>7. ASSUME NEW c \in Calls, Claim(c) PROVE StoreHears'
  BY <1>7 DEF Claim
<1>8. ASSUME NEW c \in Calls, ReadStock(c) PROVE StoreHears'
  BY <1>8 DEF ReadStock
<1>9. ASSUME NEW c \in Calls, Commit(c) PROVE StoreHears'
  BY <1>9 DEF Commit
<1>10. ASSUME NEW c \in Calls, RollBack(c) PROVE StoreHears'
  BY <1>10 DEF RollBack
<1>11. ASSUME NEW c \in Calls, BeginClose(c) PROVE StoreHears'
  BY <1>11 DEF BeginClose
<1>12. ASSUME NEW c \in Calls, Close(c) PROVE StoreHears'
  BY <1>12 DEF Close
<1>13. ASSUME NEW o \in Orders, Cancel(o) PROVE StoreHears'
  BY <1>13 DEF Cancel
<1>14. ASSUME NEW o \in Orders, Notify(o) PROVE StoreHears'
  BY <1>14 DEF Notify
<1>15. CASE Open
  BY <1>15 DEF Open
<1>16. CASE UNCHANGED vars
  BY <1>16 DEF vars
<1> HIDE DEF StoreInv, StoreTypeOK, CallStates, Rows, Idle, NoOrder, CallIs, Exists, Locked, Return, Answers, StoreHears, Visible, ReadsHold, ClaimIsExclusive
<1> QED BY <1>1, <1>2, <1>3, <1>4, <1>5, <1>6, <1>7, <1>8, <1>9, <1>10, <1>11, <1>12, <1>13, <1>14, <1>15, <1>16 DEF Next, Buyer, Seller

(* The inductive invariant holds always.                                   *)
LEMMA StoreInvariant == Spec => []StoreInv
<1>1. StoreInv /\ [Next]_vars => StoreInv'
  BY NextType, NextClaim, NextReads, NextAnswered, NextHears DEF StoreInv
<1> QED BY InitStoreInv, <1>1, PTL DEF Spec

(* Type correctness.                                                       *)
THEOREM TypeCorrect == Spec => []StoreTypeOK
BY StoreInvariant, PTL DEF StoreInv

(* One transaction at a time works on an order, which waits for an answer. *)
THEOREM OneAnswerAtATime == Spec => []ClaimIsExclusive
BY StoreInvariant, PTL DEF StoreInv

(* The store answers only what the buyer let go.                           *)
THEOREM NothingHeldIsAnswered == Spec => []AnsweredWasApproved
BY StoreInvariant, PTL DEF StoreInv

(* The store is told of every order that waits for it.                     *)
THEOREM TheStoreIsTold == Spec => []StoreHears
BY StoreInvariant, PTL DEF StoreInv

(* No step changes an answer or a cancellation.                            *)
LEMMA NextStays ==
  ASSUME StoreInv, [Next]_vars, NEW o \in Orders, Exists(o), orders[o].store # "PENDING"
  PROVE  orders'[o].store = orders[o].store
<1> DEFINE Stays == orders'[o].store = orders[o].store
<1> USE DEF StoreInv, StoreTypeOK, CallStates, Rows, Idle, NoOrder, CallIs, Exists, ClaimIsExclusive, Answers
<1>1. ASSUME NEW c \in Calls, NEW items \in Items, Validate(c, items) PROVE Stays
  BY <1>1 DEF Validate
<1>2. ASSUME NEW c \in Calls, NEW o1 \in Orders, NEW held \in BOOLEAN, Create(c, o1, held) PROVE Stays
  BY <1>2 DEF Create
<1>3. ASSUME NEW c \in Calls, NEW o1 \in Orders, NEW op \in {"approve", "discard"}, ReadHeld(c, o1, op) PROVE Stays
  BY <1>3 DEF ReadHeld
<1>4. ASSUME NEW c \in Calls, MarkApproved(c) PROVE Stays
  BY <1>4 DEF MarkApproved
<1>5. ASSUME NEW c \in Calls, WriteDiscarded(c) PROVE Stays
  BY <1>5 DEF WriteDiscarded
<1>6. ASSUME NEW c \in Calls, NEW o1 \in Orders, NEW answer \in Answers, Respond(c, o1, answer) PROVE Stays
  BY <1>6 DEF Respond
<1>7. ASSUME NEW c \in Calls, Claim(c) PROVE Stays
  BY <1>7 DEF Claim
<1>8. ASSUME NEW c \in Calls, ReadStock(c) PROVE Stays
  BY <1>8 DEF ReadStock
<1>9. ASSUME NEW c \in Calls, Commit(c) PROVE Stays
  BY <1>9 DEF Commit
<1>10. ASSUME NEW c \in Calls, RollBack(c) PROVE Stays
  BY <1>10 DEF RollBack
<1>11. ASSUME NEW c \in Calls, BeginClose(c) PROVE Stays
  BY <1>11 DEF BeginClose
<1>12. ASSUME NEW c \in Calls, Close(c) PROVE Stays
  BY <1>12 DEF Close
<1>13. ASSUME NEW o1 \in Orders, Cancel(o1) PROVE Stays
  BY <1>13 DEF Cancel
<1>14. ASSUME NEW o1 \in Orders, Notify(o1) PROVE Stays
  BY <1>14 DEF Notify
<1>15. CASE Open
  BY <1>15 DEF Open
<1>16. CASE UNCHANGED vars
  BY <1>16 DEF vars
<1> QED BY <1>1, <1>2, <1>3, <1>4, <1>5, <1>6, <1>7, <1>8, <1>9, <1>10, <1>11, <1>12, <1>13, <1>14, <1>15, <1>16 DEF Next, Buyer, Seller

(* What was answered or cancelled stays so, however many members, buyers   *)
(* and closings race for it.                                               *)
THEOREM AnswersAreFinal == Spec => AnswersStay
<1>1. StoreInv /\ [Next]_vars =>
        [\A o \in Orders : Exists(o) /\ orders[o].store # "PENDING" =>
           orders'[o].store = orders[o].store]_vars
  BY NextStays
<1> QED BY <1>1, StoreInvariant, PTL DEF Spec, AnswersStay

-----------------------------------------------------------------------------
(* The units sold, of any rows of orders: for those before and after a     *)
(* step.                                                                   *)
ConfirmedIn(rows) == {o \in Orders : rows[o].store = "CONFIRMED"}
AskedIn(rows, p) == [o \in ConfirmedIn(rows) |-> rows[o].items[p]]
SoldIn(rows, p) == Total(AskedIn(rows, p), ConfirmedIn(rows))

(* The fold by which the model adds them.                                  *)
AsFolded(rows, p, C, g) ==
  [s \in SUBSET C |-> IF s = {} THEN 0 ELSE rows[OneOf(s)].items[p] + g[s \ {OneOf(s)}]]
Folded(rows, p, C) == (CHOOSE g : g = AsFolded(rows, p, C, g))[C]

(* It is the sum.                                                          *)
LEMMA FoldIsTotal ==
  ASSUME NEW rows, NEW p
  PROVE  Folded(rows, p, ConfirmedIn(rows)) = SoldIn(rows, p)
<1> DEFINE C == ConfirmedIn(rows)
           Added(g) == [s \in SUBSET C |-> IF s = {} THEN 0 ELSE AskedIn(rows, p)[OneOf(s)] + g[s \ {OneOf(s)}]]
<1>1. \A s \in SUBSET C : s # {} => AskedIn(rows, p)[OneOf(s)] = rows[OneOf(s)].items[p]
  BY DEF OneOf, AskedIn
<1>2. ASSUME NEW g PROVE AsFolded(rows, p, C, g) = Added(g)
  BY <1>1 DEF AsFolded
<1>3. (CHOOSE g : g = AsFolded(rows, p, C, g)) = (CHOOSE g : g = Added(g))
  <2> HIDE DEF Added, C
  <2> QED BY <1>2
<1>4. (CHOOSE g : g = Added(g)) = SumsOf(AskedIn(rows, p), C)
  BY DEF SumsOf
<1> HIDE DEF Added
<1> QED BY <1>3, <1>4 DEF SoldIn, Total, Folded

(* So the units sold are the sum over the rows, before and after a step.   *)
LEMMA SoldIsSold ==
  ASSUME NEW p \in Products
  PROVE  Sold(p) = SoldIn(orders, p) /\ Sold(p)' = SoldIn(orders', p)
<1>1. Sold(p) = Folded(orders, p, ConfirmedIn(orders))
  BY DEF Sold, ConfirmedIn, MapThenSumSet, MapThenFoldSet, Folded, AsFolded, OneOf
<1>2. Sold(p)' = Folded(orders', p, ConfirmedIn(orders'))
  BY DEF Sold, ConfirmedIn, MapThenSumSet, MapThenFoldSet, Folded, AsFolded, OneOf
<1> QED BY <1>1, <1>2, FoldIsTotal

(* A row for every order, as the type invariant has them.                  *)
RowsFit(rows) == rows \in [Orders -> Rows \cup {NoOrder}]

(* The confirmed orders are finitely many and ask natural numbers.         *)
LEMMA AskedTypes ==
  ASSUME NEW rows, RowsFit(rows), NEW p \in Products
  PROVE  /\ IsFiniteSet(ConfirmedIn(rows)) /\ ConfirmedIn(rows) \subseteq Orders
         /\ \A o \in ConfirmedIn(rows) : AskedIn(rows, p)[o] = rows[o].items[p] /\ rows[o].items[p] \in Nat
<1>1. IsFiniteSet(ConfirmedIn(rows)) /\ ConfirmedIn(rows) \subseteq Orders
  BY StorefrontAssumption, FS_Subset DEF ConfirmedIn
<1>2. ASSUME NEW o \in ConfirmedIn(rows) PROVE rows[o].items[p] \in Nat
  BY StorefrontAssumption DEF RowsFit, ConfirmedIn, Rows, NoOrder, Items
<1> QED BY <1>1, <1>2 DEF AskedIn

(* The units sold are a number.                                            *)
LEMMA SoldIsInt ==
  ASSUME NEW rows, RowsFit(rows), NEW p \in Products
  PROVE  SoldIn(rows, p) \in Int
<1>1. \A o \in ConfirmedIn(rows) : AskedIn(rows, p)[o] \in Int
  BY AskedTypes
<1>2. IsFiniteSet(ConfirmedIn(rows))
  BY AskedTypes
<1> QED BY <1>1, <1>2, TotalIsInt DEF SoldIn

(* What is sold changes only with what is confirmed,                       *)
LEMMA SoldStays ==
  ASSUME NEW rows, RowsFit(rows), NEW later, RowsFit(later), NEW p \in Products,
         ConfirmedIn(later) = ConfirmedIn(rows),
         \A o \in ConfirmedIn(rows) : later[o].items = rows[o].items
  PROVE  SoldIn(later, p) = SoldIn(rows, p)
<1> DEFINE C == ConfirmedIn(rows)
<1>1. \A o \in C : AskedIn(rows, p)[o] \in Int /\ AskedIn(rows, p)[o] = AskedIn(later, p)[o]
  BY AskedTypes
<1>2. IsFiniteSet(C)
  BY AskedTypes
<1>3. Total(AskedIn(rows, p), C) = Total(AskedIn(later, p), C)
  <2> HIDE DEF C
  <2> QED BY <1>1, <1>2, TotalOfSame
<1> QED BY <1>3 DEF SoldIn

(* and an order that is confirmed adds what it asks.                       *)
LEMMA SoldGrows ==
  ASSUME NEW rows, RowsFit(rows), NEW later, RowsFit(later), NEW p \in Products,
         NEW o \in Orders, o \notin ConfirmedIn(rows),
         ConfirmedIn(later) = ConfirmedIn(rows) \cup {o},
         \A k \in ConfirmedIn(rows) : later[k].items = rows[k].items
  PROVE  SoldIn(later, p) = later[o].items[p] + SoldIn(rows, p)
<1> DEFINE C == ConfirmedIn(rows)
           f == AskedIn(later, p)
<1>1. \A k \in C \cup {o} : f[k] \in Int
  BY AskedTypes
<1>2. \A k \in C : f[k] \in Int /\ f[k] = AskedIn(rows, p)[k]
  BY AskedTypes
<1>3. IsFiniteSet(C) /\ f[o] = later[o].items[p]
  BY AskedTypes
<1> HIDE DEF f, C
<1>4. o \notin C
  BY DEF C
<1>5. Total(f, C \cup {o}) = f[o] + Total(f, C)
  BY <1>1, <1>3, <1>4, TotalOfOneMore
<1>6. Total(f, C) = Total(AskedIn(rows, p), C)
  BY <1>2, <1>3, TotalOfSame
<1> QED BY <1>3, <1>5, <1>6 DEF SoldIn, f, C

(* What a confirmation computed and the units it takes are with those that *)
(* were sold since not less than what was published.                       *)
Covers(c, p) == calls[c].left[p] + orders[calls[c].order].items[p] + Sold(p) >= published[p]
PricedFits == \A c \in Calls : CallIs(c, "priced") => \A p \in Products : Covers(c, p)

UnitsInv == StoreInv /\ DecrementedOnce /\ PricedFits

(* Only the commit of a confirmation confirms and writes the stock; the    *)
(* others leave what a confirmation computed, or compute it.               *)
NothingSold ==
  /\ ConfirmedIn(orders') = ConfirmedIn(orders)
  /\ \A o \in ConfirmedIn(orders) : orders'[o].items = orders[o].items
  /\ stock' = stock /\ published' = published
  /\ \A d \in Calls : CallIs(d, "priced")' =>
       \/ ReadStock(d) /\ orders' = orders
       \/ /\ CallIs(d, "priced") /\ calls'[d] = calls[d]
          /\ orders'[calls[d].order].items = orders[calls[d].order].items

(* Every step but that commit is such a step.                              *)
LEMMA OthersSellNothing ==
  ASSUME StoreInv, [Next]_vars, ~\E c \in Calls : CallIs(c, "priced") /\ Commit(c)
  PROVE  NothingSold
<1> USE DEF StoreInv, StoreTypeOK, CallStates, Rows, Idle, NoOrder, CallIs, Exists, ClaimIsExclusive, Answers, Return, Locked,
            ConfirmedIn, NothingSold
<1>1. ASSUME NEW c \in Calls, NEW items \in Items, Validate(c, items) PROVE NothingSold
  BY <1>1 DEF Validate
<1>2. ASSUME NEW c \in Calls, NEW o1 \in Orders, NEW held \in BOOLEAN, Create(c, o1, held) PROVE NothingSold
  BY <1>2 DEF Create
<1>3. ASSUME NEW c \in Calls, NEW o1 \in Orders, NEW op \in {"approve", "discard"}, ReadHeld(c, o1, op) PROVE NothingSold
  BY <1>3 DEF ReadHeld
<1>4. ASSUME NEW c \in Calls, MarkApproved(c) PROVE NothingSold
  BY <1>4 DEF MarkApproved
<1>5. ASSUME NEW c \in Calls, WriteDiscarded(c) PROVE NothingSold
  BY <1>5 DEF WriteDiscarded
<1>6. ASSUME NEW c \in Calls, NEW o1 \in Orders, NEW answer \in Answers, Respond(c, o1, answer) PROVE NothingSold
  BY <1>6 DEF Respond
<1>7. ASSUME NEW c \in Calls, Claim(c) PROVE NothingSold
  BY <1>7 DEF Claim
<1>8. ASSUME NEW c \in Calls, ReadStock(c) PROVE NothingSold
  BY <1>8 DEF ReadStock
<1>9. ASSUME NEW c \in Calls, Commit(c) PROVE NothingSold
  <2>1. CallIs(c, "claimed") /\ calls[c].answer = "REJECTED"
    BY <1>9 DEF Commit
  <2>2. orders' = [orders EXCEPT ![calls[c].order].store = "REJECTED"] /\ stock' = stock /\ published' = published
    BY <1>9, <2>1 DEF Commit
  <2>3. orders[calls[c].order].store = "PENDING" /\ calls[c].order \in Orders
    BY <2>1
  <2>4. ConfirmedIn(orders') = ConfirmedIn(orders) /\ \A o \in Orders : Exists(o) => orders'[o].items = orders[o].items
    BY <2>2, <2>3
  <2>5. calls' = [calls EXCEPT ![c] = Idle]
    BY <1>9 DEF Commit
  <2> QED BY <2>2, <2>4, <2>5
<1>10. ASSUME NEW c \in Calls, RollBack(c) PROVE NothingSold
  BY <1>10 DEF RollBack
<1>11. ASSUME NEW c \in Calls, BeginClose(c) PROVE NothingSold
  BY <1>11 DEF BeginClose
<1>12. ASSUME NEW c \in Calls, Close(c) PROVE NothingSold
  BY <1>12 DEF Close
<1>13. ASSUME NEW o1 \in Orders, Cancel(o1) PROVE NothingSold
  BY <1>13 DEF Cancel
<1>14. ASSUME NEW o1 \in Orders, Notify(o1) PROVE NothingSold
  BY <1>14 DEF Notify
<1>15. CASE Open
  BY <1>15 DEF Open
<1>16. CASE UNCHANGED vars
  BY <1>16 DEF vars
<1> HIDE DEF StoreInv, StoreTypeOK, CallStates, Rows, Idle, NoOrder, CallIs, Exists, ClaimIsExclusive, Answers, Return, Locked,
            ConfirmedIn, NothingSold
<1> QED BY <1>1, <1>2, <1>3, <1>4, <1>5, <1>6, <1>7, <1>8, <1>9, <1>10, <1>11, <1>12, <1>13, <1>14, <1>15, <1>16 DEF Next, Buyer, Seller

(* Nothing is sold at first.                                               *)
LEMMA InitUnits == Init => UnitsInv
<1> SUFFICES ASSUME Init PROVE UnitsInv
  OBVIOUS
<1>1. StoreInv /\ RowsFit(orders)
  BY InitStoreInv DEF StoreInv, StoreTypeOK, RowsFit
<1>2. ConfirmedIn(orders) = {}
  BY DEF Init, NoOrder, ConfirmedIn
<1>3. \A p \in Products : Sold(p) = 0
  <2> TAKE p \in Products
  <2>1. SoldIn(orders, p) = Total(AskedIn(orders, p), {})
    BY <1>2 DEF SoldIn
  <2>2. Total(AskedIn(orders, p), {}) = 0
    BY FS_EmptySet, SumsAre DEF Total
  <2> QED BY <2>1, <2>2, SoldIsSold
<1>4. DecrementedOnce
  BY <1>1, <1>3 DEF Init, DecrementedOnce, StoreInv, StoreTypeOK
<1>5. PricedFits
  BY DEF Init, PricedFits, CallIs, Idle
<1> QED BY <1>1, <1>4, <1>5 DEF UnitsInv

(* A step that sells nothing: what reads the stock computes from a stock   *)
(* that fits.                                                              *)
LEMMA SellingNothing == ASSUME UnitsInv, StoreTypeOK', NothingSold PROVE DecrementedOnce' /\ PricedFits'
<1>1. RowsFit(orders) /\ RowsFit(orders')
  BY DEF UnitsInv, StoreInv, StoreTypeOK, RowsFit
<1>2. \A p \in Products : Sold(p)' = Sold(p) /\ Sold(p) \in Int
  <2> TAKE p \in Products
  <2>1. SoldIn(orders', p) = SoldIn(orders, p)
    BY <1>1, SoldStays DEF NothingSold
  <2> QED BY <1>1, <2>1, SoldIsInt, SoldIsSold
<1>3. stock' = stock /\ published' = published
  BY DEF NothingSold
<1>4. DecrementedOnce'
  BY <1>2, <1>3 DEF UnitsInv, DecrementedOnce
<1>5. ASSUME NEW d \in Calls, CallIs(d, "priced")', NEW p \in Products PROVE Covers(d, p)'
  <2>1. CASE ReadStock(d) /\ orders' = orders
    <3> DEFINE o == calls[d].order
    <3>1. CallIs(d, "claimed") /\ calls[d] \in CallStates
      BY <2>1 DEF ReadStock, UnitsInv, StoreInv, StoreTypeOK
    <3>2. o \in Orders /\ Exists(o)
      BY <3>1 DEF UnitsInv, StoreInv, StoreTypeOK, CallIs, CallStates, Idle
    <3>3. orders[o].items \in Items
      BY <3>2 DEF UnitsInv, StoreInv, StoreTypeOK, Exists, Rows
    <3>4. /\ orders[o].items[p] \in Nat /\ stock[p] \in Nat /\ published[p] \in Nat
          /\ Sold(p) \in Int
      BY <1>2, <3>3, StorefrontAssumption DEF UnitsInv, StoreInv, StoreTypeOK, Items
    <3>5. calls'[d].order = o /\ calls'[d].left[p] = IF orders[o].items[p] < stock[p] THEN stock[p] - orders[o].items[p] ELSE 0
      <4> DEFINE left == [q \in Products |-> IF orders[o].items[q] < stock[q] THEN stock[q] - orders[o].items[q] ELSE 0]
      <4>1. calls' = [calls EXCEPT ![d] = [op |-> "priced", order |-> o, answer |-> "CONFIRMED", left |-> left]]
        BY <2>1 DEF ReadStock
      <4>2. d \in DOMAIN calls
        BY DEF UnitsInv, StoreInv, StoreTypeOK
      <4> HIDE DEF left
      <4>3. calls'[d].order = o /\ calls'[d].left = left
        BY <4>1, <4>2
      <4> QED BY <4>3 DEF left
    <3>6. stock[p] + Sold(p) >= published[p]
      BY DEF UnitsInv, DecrementedOnce
    <3> HIDE DEF o
    <3> QED BY <1>2, <1>3, <2>1, <3>4, <3>5, <3>6 DEF Covers
  <2>2. CASE CallIs(d, "priced") /\ calls'[d] = calls[d] /\ orders'[calls[d].order].items = orders[calls[d].order].items
    <3>1. Covers(d, p)
      BY <2>2 DEF UnitsInv, PricedFits
    <3> QED BY <1>2, <1>3, <2>2, <3>1 DEF Covers
  <2> QED BY <1>5, <2>1, <2>2 DEF NothingSold
<1> QED BY <1>4, <1>5 DEF PricedFits

(* The commit of a confirmation takes what was computed and sells what was *)
(* asked, and the others that were computed have the more that was sold.   *)
LEMMA Selling ==
  ASSUME UnitsInv, StoreTypeOK', NEW c \in Calls, CallIs(c, "priced"), Commit(c)
  PROVE  DecrementedOnce' /\ PricedFits'
<1> DEFINE o == calls[c].order
<1>1. RowsFit(orders) /\ RowsFit(orders')
  BY DEF UnitsInv, StoreInv, StoreTypeOK, RowsFit
<1>2. /\ o \in Orders /\ orders[o].store = "PENDING" /\ orders[o].items \in Items
      /\ calls[c].answer = "CONFIRMED" /\ calls[c].left \in [Products -> Nat]
  BY DEF UnitsInv, StoreInv, StoreTypeOK, ClaimIsExclusive, CallIs, CallStates, Idle, Exists, NoOrder, Rows
<1>3. /\ orders' = [orders EXCEPT ![o].store = "CONFIRMED"] /\ published' = published
      /\ stock' = [p \in Products |-> IF orders[o].items[p] > 0 THEN calls[c].left[p] ELSE stock[p]]
      /\ calls' = [calls EXCEPT ![c] = Idle]
  BY <1>2 DEF Commit, Return
<1>4. /\ orders'[o].items = orders[o].items /\ o \notin ConfirmedIn(orders)
      /\ ConfirmedIn(orders') = ConfirmedIn(orders) \cup {o}
      /\ \A k \in Orders : Exists(k) => orders'[k].items = orders[k].items
      /\ \A k \in ConfirmedIn(orders) : orders'[k].items = orders[k].items
  BY <1>1, <1>2, <1>3 DEF RowsFit, ConfirmedIn, Rows, NoOrder, Exists
<1>5. \A p \in Products : /\ Sold(p)' = orders[o].items[p] + Sold(p)
                          /\ Sold(p) \in Int /\ orders[o].items[p] \in Nat
                          /\ stock[p] \in Nat /\ published[p] \in Nat
  <2> TAKE p \in Products
  <2>1. SoldIn(orders', p) = orders'[o].items[p] + SoldIn(orders, p)
    BY <1>1, <1>2, <1>4, SoldGrows
  <2>2. orders[o].items[p] \in Nat /\ stock[p] \in Nat /\ published[p] \in Nat
    BY <1>2, StorefrontAssumption DEF Items, UnitsInv, StoreInv, StoreTypeOK
  <2> QED BY <1>1, <1>4, <2>1, <2>2, SoldIsInt, SoldIsSold
<1>6. \A p \in Products : Covers(c, p) /\ stock[p] + Sold(p) >= published[p]
  BY DEF UnitsInv, PricedFits, DecrementedOnce
<1>7. ASSUME NEW p \in Products PROVE stock'[p] + Sold(p)' >= published'[p]
  <2>1. calls[c].left[p] \in Nat
    BY <1>2
  <2> HIDE DEF o
  <2>2. calls[c].left[p] + orders[o].items[p] + Sold(p) >= published[p]
    BY <1>6 DEF Covers, o
  <2> QED BY <1>3, <1>5, <1>6, <2>1, <2>2
<1>8. ASSUME NEW d \in Calls, CallIs(d, "priced")', NEW p \in Products PROVE Covers(d, p)'
  <2>1. CallIs(d, "priced") /\ calls'[d] = calls[d]
    BY <1>3, <1>8 DEF CallIs, Idle, UnitsInv, StoreInv, StoreTypeOK
  <2>2. Covers(d, p)
    BY <2>1 DEF UnitsInv, PricedFits
  <2> DEFINE k == calls[d].order
  <2>3. k \in Orders /\ Exists(k) /\ calls[d].left[p] \in Nat
    BY <2>1 DEF UnitsInv, StoreInv, StoreTypeOK, CallIs, CallStates, Idle
  <2>4. orders'[k].items = orders[k].items /\ orders[k].items[p] \in Nat
    BY <1>4, <2>3, StorefrontAssumption DEF UnitsInv, StoreInv, StoreTypeOK, Exists, Rows, Items
  <2> HIDE DEF o
  <2>5. calls[d].left[p] + orders[k].items[p] + Sold(p) >= published[p]
    BY <2>2 DEF Covers
  <2>6. calls[d].left[p] + orders[k].items[p] + Sold(p)' >= published[p]
    <3> HIDE DEF k
    <3> QED BY <1>5, <2>3, <2>4, <2>5
  <2> QED BY <1>3, <2>1, <2>4, <2>6 DEF Covers
<1> QED BY <1>7, <1>8 DEF DecrementedOnce, PricedFits

(* Whatever two confirmations read and write over one another, what is     *)
(* left of a product and what was confirmed of it are never less than what *)
(* was published: no confirmation takes its units twice.                   *)
THEOREM UnitsAreTakenOnce == Spec => []DecrementedOnce
<1>1. UnitsInv /\ [Next]_vars => UnitsInv'
  <2> SUFFICES ASSUME UnitsInv, [Next]_vars PROVE UnitsInv'
    OBVIOUS
  <2>1. StoreInv'
    BY NextType, NextClaim, NextReads, NextAnswered, NextHears DEF UnitsInv, StoreInv
  <2>2. StoreTypeOK'
    BY <2>1 DEF StoreInv
  <2>3. DecrementedOnce' /\ PricedFits'
    BY <2>2, Selling, SellingNothing, OthersSellNothing DEF UnitsInv
  <2> QED BY <2>1, <2>3 DEF UnitsInv
<1>2. UnitsInv => DecrementedOnce
  BY DEF UnitsInv
<1> QED BY InitUnits, <1>1, <1>2, PTL DEF Spec

-----------------------------------------------------------------------------
(***************************************************************************)
(* Price lists.  What the dates of application say is stated over rows     *)
(* given as an argument, for the rows before and after a step.             *)
(***************************************************************************)
AppliedOf(rows) == {i \in Imports : rows[i].status = "APPLIED"}
OlderOf(rows, i) == {k \in AppliedOf(rows) : rows[k].at < rows[i].at}
IsNewest(rows, i, S) == i \in S /\ \A k \in S : rows[k].at <= rows[i].at
NewestOf(rows, S) == CHOOSE i \in S : \A k \in S : rows[k].at <= rows[i].at

(* The list that the imports of S leave.                                   *)
ListOn(sheets, before, i) ==
  [p \in Codes |-> IF p \in sheets[i] THEN [by |-> i, active |-> TRUE]
                                         ELSE [before[p] EXCEPT !.active = FALSE]]
ListOf(sheets, rows, S) ==
  IF S = {} THEN NoList ELSE ListOn(sheets, rows[NewestOf(rows, S)].photograph, NewestOf(rows, S))

ImportRows == [Imports -> [status : Statuses, read : BOOLEAN, photograph : Lists, at : Nat]]

WellDated(rows) ==
  /\ \A i, k \in AppliedOf(rows) : rows[i].at = rows[k].at => i = k
  /\ AppliedOf(rows) # {} => \E k \in Imports : IsNewest(rows, k, AppliedOf(rows))
  /\ \A i \in AppliedOf(rows) :
       OlderOf(rows, i) # {} => \E k \in Imports : IsNewest(rows, k, OlderOf(rows, i))

GoesBack(sheets, rows) == \A i \in AppliedOf(rows) : rows[i].photograph = ListOf(sheets, rows, OlderOf(rows, i))

LEMMA NewestIs ==
  ASSUME NEW rows \in ImportRows, NEW S \in SUBSET AppliedOf(rows), NEW i, IsNewest(rows, i, S), WellDated(rows)
  PROVE  NewestOf(rows, S) = i
<1> DEFINE n == NewestOf(rows, S)
<1>1. n \in S /\ \A k \in S : rows[k].at <= rows[n].at
  BY DEF NewestOf, IsNewest
<1> HIDE DEF n
<1>2. /\ i \in AppliedOf(rows) /\ n \in AppliedOf(rows)
      /\ rows[i].at \in Nat /\ rows[n].at \in Nat
  BY <1>1 DEF IsNewest, AppliedOf, ImportRows
<1>3. rows[n].at = rows[i].at
  BY <1>1, <1>2 DEF IsNewest
<1>4. n = i
  BY <1>2, <1>3 DEF WellDated
<1> QED BY <1>4 DEF n

(* What the list is depends on the rows that are applied only.             *)
LEMMA SameHistory ==
  ASSUME NEW sheets, NEW one \in ImportRows, NEW two \in ImportRows, WellDated(one),
         AppliedOf(two) = AppliedOf(one),
         \A i \in AppliedOf(one) : two[i].at = one[i].at /\ two[i].photograph = one[i].photograph
  PROVE  /\ WellDated(two)
         /\ ListOf(sheets, two, AppliedOf(two)) = ListOf(sheets, one, AppliedOf(one))
         /\ GoesBack(sheets, one) => GoesBack(sheets, two)
         /\ \A i \in AppliedOf(one) : OlderOf(two, i) = OlderOf(one, i)
<1>1. \A i \in AppliedOf(one) : OlderOf(two, i) = OlderOf(one, i)
  BY DEF OlderOf
<1>2. \A S \in SUBSET AppliedOf(one) : \A k : IsNewest(two, k, S) <=> IsNewest(one, k, S)
  BY DEF IsNewest
<1>3. \A i \in AppliedOf(one) : OlderOf(one, i) \in SUBSET AppliedOf(one)
  BY DEF OlderOf
<1>4. WellDated(two)
  BY <1>1, <1>2, <1>3 DEF WellDated
<1>5. ASSUME NEW S \in SUBSET AppliedOf(one), S # {} => \E k \in Imports : IsNewest(one, k, S)
      PROVE  ListOf(sheets, two, S) = ListOf(sheets, one, S)
  <2>1. CASE S = {}
    BY <2>1 DEF ListOf
  <2>2. CASE S # {}
    <3>1. PICK k \in Imports : IsNewest(one, k, S)
      BY <1>5, <2>2
    <3>2. NewestOf(one, S) = k
      BY <3>1, NewestIs
    <3>3. NewestOf(two, S) = k
      BY <3>1, <1>2, <1>4, NewestIs
    <3>4. two[k].photograph = one[k].photograph
      BY <3>1 DEF IsNewest
    <3> QED BY <2>2, <3>2, <3>3, <3>4 DEF ListOf
  <2> QED BY <2>1, <2>2
<1>6. ListOf(sheets, two, AppliedOf(two)) = ListOf(sheets, one, AppliedOf(one))
  BY <1>5 DEF WellDated
<1>7. ASSUME GoesBack(sheets, one) PROVE GoesBack(sheets, two)
  <2> SUFFICES ASSUME NEW i \in AppliedOf(two) PROVE two[i].photograph = ListOf(sheets, two, OlderOf(two, i))
    BY DEF GoesBack
  <2>1. ListOf(sheets, two, OlderOf(one, i)) = ListOf(sheets, one, OlderOf(one, i))
    BY <1>5, <1>3 DEF WellDated
  <2> QED BY <2>1, <1>1, <1>7 DEF GoesBack
<1> QED BY <1>1, <1>4, <1>6, <1>7

(* A new import comes last ...                                             *)
LEMMA AppliedComesLast ==
  ASSUME NEW sheets, NEW one \in ImportRows, NEW two \in ImportRows, WellDated(one),
         NEW i \in Imports \ AppliedOf(one), AppliedOf(two) = AppliedOf(one) \cup {i},
         \A k \in AppliedOf(one) : /\ two[k].at = one[k].at /\ two[k].photograph = one[k].photograph
                                   /\ one[k].at < two[i].at
  PROVE  /\ WellDated(two)
         /\ ListOf(sheets, two, AppliedOf(two)) = ListOn(sheets, two[i].photograph, i)
         /\ GoesBack(sheets, one) /\ two[i].photograph = ListOf(sheets, one, AppliedOf(one)) => GoesBack(sheets, two)
<1>0. /\ \A k \in Imports : one[k].at \in Nat /\ two[k].at \in Nat
      /\ AppliedOf(one) \subseteq Imports
  BY DEF ImportRows, AppliedOf
<1>1. OlderOf(two, i) = AppliedOf(one)
  BY <1>0 DEF OlderOf
<1>2. ASSUME NEW k \in AppliedOf(one) PROVE OlderOf(two, k) = OlderOf(one, k)
  <2>1. /\ two[k].at = one[k].at /\ ~(two[i].at < one[k].at)
        /\ \A m \in AppliedOf(one) : two[m].at = one[m].at
    BY <1>0
  <2> QED BY <2>1 DEF OlderOf
<1>3. \A S \in SUBSET AppliedOf(one) : \A k : IsNewest(two, k, S) <=> IsNewest(one, k, S)
  BY DEF IsNewest
<1>4. \A k \in AppliedOf(one) : OlderOf(one, k) \in SUBSET AppliedOf(one)
  BY DEF OlderOf
<1>5. IsNewest(two, i, AppliedOf(two))
  BY <1>0 DEF IsNewest
<1>6. WellDated(two)
  <2>1. \A j, k \in AppliedOf(two) : two[j].at = two[k].at => j = k
    BY <1>0 DEF WellDated
  <2>2. \A k \in AppliedOf(two) :
          OlderOf(two, k) # {} => \E m \in Imports : IsNewest(two, m, OlderOf(two, k))
    BY <1>1, <1>2, <1>3, <1>4 DEF WellDated
  <2> QED BY <2>1, <2>2, <1>5 DEF WellDated
<1>7. ListOf(sheets, two, AppliedOf(two)) = ListOn(sheets, two[i].photograph, i)
  <2>1. NewestOf(two, AppliedOf(two)) = i
    BY <1>5, <1>6, NewestIs
  <2> QED BY <2>1 DEF ListOf
<1>8. ASSUME NEW S \in SUBSET AppliedOf(one), S # {} => \E k \in Imports : IsNewest(one, k, S)
      PROVE  ListOf(sheets, two, S) = ListOf(sheets, one, S)
  <2>1. CASE S = {}
    BY <2>1 DEF ListOf
  <2>2. CASE S # {}
    <3>1. PICK k \in Imports : IsNewest(one, k, S)
      BY <1>8, <2>2
    <3>2. NewestOf(one, S) = k
      BY <3>1, NewestIs
    <3>3. NewestOf(two, S) = k
      <4>1. S \in SUBSET AppliedOf(two)
        OBVIOUS
      <4> QED BY <4>1, <3>1, <1>3, <1>6, NewestIs
    <3>4. two[k].photograph = one[k].photograph
      BY <3>1 DEF IsNewest
    <3> QED BY <2>2, <3>2, <3>3, <3>4 DEF ListOf
  <2> QED BY <2>1, <2>2
<1>9. ASSUME GoesBack(sheets, one), two[i].photograph = ListOf(sheets, one, AppliedOf(one)) PROVE GoesBack(sheets, two)
  <2>1. ListOf(sheets, two, AppliedOf(one)) = ListOf(sheets, one, AppliedOf(one))
    BY <1>8 DEF WellDated
  <2>2. \A k \in AppliedOf(one) : ListOf(sheets, two, OlderOf(one, k)) = ListOf(sheets, one, OlderOf(one, k))
    BY <1>8, <1>4 DEF WellDated
  <2>3. ASSUME NEW k \in AppliedOf(two) PROVE two[k].photograph = ListOf(sheets, two, OlderOf(two, k))
    <3>1. CASE k = i
      BY <3>1, <2>1, <1>1, <1>9
    <3>2. CASE k \in AppliedOf(one)
      BY <3>2, <2>2, <1>2, <1>9 DEF GoesBack
    <3> QED BY <3>1, <3>2
  <2> QED BY <2>3 DEF GoesBack
<1> QED BY <1>6, <1>7, <1>9

(* ... and the last that was applied goes first.                           *)
LEMMA RevertedWasLast ==
  ASSUME NEW sheets, NEW one \in ImportRows, NEW two \in ImportRows, WellDated(one),
         NEW i \in Imports, IsNewest(one, i, AppliedOf(one)), AppliedOf(two) = AppliedOf(one) \ {i},
         \A k \in AppliedOf(two) : two[k].at = one[k].at /\ two[k].photograph = one[k].photograph
  PROVE  /\ WellDated(two)
         /\ GoesBack(sheets, one) => GoesBack(sheets, two) /\ ListOf(sheets, two, AppliedOf(two)) = one[i].photograph
<1>0. /\ \A k \in Imports : one[k].at \in Nat /\ two[k].at \in Nat
      /\ AppliedOf(one) \subseteq Imports
  BY DEF ImportRows, AppliedOf
<1>1. OlderOf(one, i) = AppliedOf(two)
  BY <1>0 DEF OlderOf, IsNewest, WellDated
<1>2. ASSUME NEW k \in AppliedOf(two)
      PROVE  OlderOf(two, k) = OlderOf(one, k) /\ OlderOf(one, k) \in SUBSET AppliedOf(two)
  <2>1. /\ two[k].at = one[k].at /\ ~(one[i].at < one[k].at)
        /\ \A m \in AppliedOf(two) : two[m].at = one[m].at
    BY <1>0 DEF IsNewest
  <2> QED BY <2>1 DEF OlderOf
<1>3. \A S \in SUBSET AppliedOf(two) : \A k : IsNewest(two, k, S) <=> IsNewest(one, k, S)
  BY DEF IsNewest
<1>4. i \in AppliedOf(one)
  BY DEF IsNewest
<1>6. WellDated(two)
  BY <1>1, <1>2, <1>3, <1>4 DEF WellDated
<1>8. ASSUME NEW S \in SUBSET AppliedOf(two), S # {} => \E k \in Imports : IsNewest(one, k, S)
      PROVE  ListOf(sheets, two, S) = ListOf(sheets, one, S)
  <2>1. CASE S = {}
    BY <2>1 DEF ListOf
  <2>2. CASE S # {}
    <3>1. PICK k \in Imports : IsNewest(one, k, S)
      BY <1>8, <2>2
    <3>2. NewestOf(one, S) = k
      BY <3>1, NewestIs
    <3>3. NewestOf(two, S) = k
      BY <3>1, <1>3, <1>6, NewestIs
    <3>4. two[k].photograph = one[k].photograph
      BY <3>1 DEF IsNewest
    <3> QED BY <2>2, <3>2, <3>3, <3>4 DEF ListOf
  <2> QED BY <2>1, <2>2
<1>9. ASSUME GoesBack(sheets, one) PROVE GoesBack(sheets, two) /\ ListOf(sheets, two, AppliedOf(two)) = one[i].photograph
  <2>1. ListOf(sheets, two, AppliedOf(two)) = ListOf(sheets, one, AppliedOf(two))
    BY <1>8, <1>1, <1>4 DEF WellDated
  <2>2. one[i].photograph = ListOf(sheets, one, AppliedOf(two))
    BY <1>1, <1>4, <1>9 DEF GoesBack
  <2>3. ASSUME NEW k \in AppliedOf(two) PROVE two[k].photograph = ListOf(sheets, two, OlderOf(two, k))
    <3>1. k \in AppliedOf(one)
      OBVIOUS
    <3>2. ListOf(sheets, two, OlderOf(one, k)) = ListOf(sheets, one, OlderOf(one, k))
      BY <1>8, <1>2, <3>1 DEF WellDated
    <3> QED BY <3>1, <3>2, <1>2, <1>9 DEF GoesBack
  <2> QED BY <2>1, <2>2, <2>3 DEF GoesBack
<1> QED BY <1>6, <1>9

-----------------------------------------------------------------------------
(* Two calls are never about one import, nor change the list at once, and  *)
(* an import that is applied has no call but the one that reverts it.      *)
Alone ==
  \A v, w \in Workers : v # w /\ ~IsIdle(v) /\ ~IsIdle(w) =>
    Of(v) # Of(w) /\ ~(ChangesList(v) /\ ChangesList(w))

CallsFitRows ==
  \A w \in Workers :
    /\ workers[w].op \in {"read", "again", "discard", "apply"} => imports[Of(w)].status \notin {"none", "APPLIED"}
    /\ workers[w].op = "revert" => IsNewest(imports, Of(w), AppliedOf(imports))

(* How far the list is from the one in force, at each step of an apply ... *)
Applying(call, list, stored, inForce, file) ==
  LET i == call.import IN
  /\ call.step \in {"look", "keep", "run", "fail"} => list = inForce
  /\ call.step \notin {"look", "fail"} => call.photograph = inForce
  /\ call.step \notin {"look", "keep", "fail"} => stored = inForce
  /\ call.step \in {"look", "keep", "run"} => call.left = file
  /\ call.step = "run" => call.written = {}
  /\ call.step = "write" =>
       /\ call.left \subseteq file /\ call.written = file \ call.left
       /\ \A p \in Codes : IF p \in call.written THEN list[p].by = i ELSE list[p] = inForce[p]
  /\ call.step = "hide" =>
       /\ call.written = file
       /\ \A p \in Codes : IF p \in call.written THEN list[p] = [by |-> i, active |-> TRUE]
                           ELSE list[p].by = inForce[p].by
  /\ call.step = "mark" => list = [p \in Codes |-> IF p \in file THEN [by |-> i, active |-> TRUE]
                                           ELSE [inForce[p] EXCEPT !.active = FALSE]]

(* ... and of a revert.                                                    *)
Reverting(call, list, stored, inForce) ==
  /\ call.step = "restore" => list = inForce /\ call.photograph = stored
  /\ call.step = "mark" => list = stored

InForce(sheets, rows) == ListOf(sheets, rows, AppliedOf(rows))

ListFits ==
  /\ (\A w \in Workers : ~ChangesList(w)) => offers = InForce(sheet, imports)
  /\ \A w \in Workers :
       /\ workers[w].op = "apply" =>
            Applying(workers[w], offers, imports[Of(w)].photograph, InForce(sheet, imports), sheet[Of(w)])
       /\ workers[w].op = "revert" =>
            Reverting(workers[w], offers, imports[Of(w)].photograph, InForce(sheet, imports))

ListInv ==
  /\ ListTypeOK /\ WellDated(imports) /\ Alone /\ CallsFitRows
  /\ ~broken => GoesBack(sheet, imports) /\ ListFits

-----------------------------------------------------------------------------
LEMMA InitListInv == ListInit => ListInv
<1> SUFFICES ASSUME ListInit PROVE ListInv
  OBVIOUS
<1>1. ListTypeOK
  BY DEF ListInit, ListTypeOK, NoList, NoOffer, Lists, Statuses, WorkerStates, Resting
<1>2. AppliedOf(imports) = {}
  BY DEF ListInit, AppliedOf
<1>3. \A w \in Workers : IsIdle(w) /\ workers[w].op = "none"
  BY DEF ListInit, IsIdle, Resting
<1>4. WellDated(imports) /\ GoesBack(sheet, imports)
  BY <1>2 DEF WellDated, GoesBack
<1>5. Alone /\ CallsFitRows
  BY <1>3 DEF Alone, CallsFitRows
<1>6. ListFits
  BY <1>2, <1>3 DEF ListFits, InForce, ListOf, ListInit
<1> QED BY <1>1, <1>4, <1>5, <1>6 DEF ListInv

(* What each kind of call keeps.                                           *)
LEMMA KindOfCall ==
  ASSUME NEW call \in WorkerStates
  PROVE  /\ call.op \in {"none", "read", "again", "discard", "revert", "apply"}
         /\ call.op = "none" <=> call = Resting
         /\ call.op = "read" => call \in Readings
         /\ call.op \in {"again", "discard"} => call \in Checks
         /\ call.op = "revert" => call \in Reverts
         /\ call.op = "apply" => call \in Applies
         /\ call # Resting => call.import \in Imports
<1>2. CASE call = Resting
  BY <1>2 DEF Resting
<1>3. CASE call \in Readings
  <2>1. call.op = "read" /\ call.import \in Imports
    BY <1>3 DEF Readings
  <2>2. call # Resting
    BY <2>1 DEF Resting
  <2> QED BY <1>3, <2>1, <2>2
<1>4. CASE call \in Checks
  BY <1>4 DEF Checks, Resting
<1>5. CASE call \in Reverts
  BY <1>5 DEF Reverts, Resting
<1>6. CASE call \in Applies
  BY <1>6 DEF Applies, Resting
<1> QED BY <1>2, <1>3, <1>4, <1>5, <1>6 DEF WorkerStates

LEMMA CallTypes ==
  ASSUME ListTypeOK, NEW w \in Workers
  PROVE  /\ workers[w].op \in {"none", "read", "again", "discard", "revert", "apply"}
         /\ workers[w].op = "none" => workers[w] = Resting
         /\ workers[w].op = "read" => workers[w] \in Readings
         /\ workers[w].op \in {"again", "discard"} => workers[w] \in Checks
         /\ workers[w].op = "revert" => workers[w] \in Reverts
         /\ workers[w].op = "apply" => workers[w] \in Applies
         /\ IsIdle(w) <=> workers[w].op = "none"
         /\ ~IsIdle(w) => Of(w) \in Imports
BY KindOfCall DEF ListTypeOK, IsIdle, Of

LEMMA DatedKeeps ==
  ASSUME ListTypeOK, NEW S \in SUBSET Codes
  PROVE  /\ Dated(S) \in [Workers -> WorkerStates]
         /\ \A v \in Workers : /\ Dated(S)[v].op = workers[v].op
                               /\ Dated(S)[v].import = workers[v].import
                               /\ workers[v].op # "apply" => Dated(S)[v] = workers[v]
<1> SUFFICES ASSUME NEW v \in Workers
             PROVE  /\ Dated(S)[v] \in WorkerStates
                    /\ Dated(S)[v].op = workers[v].op
                    /\ Dated(S)[v].import = workers[v].import
                    /\ workers[v].op # "apply" => Dated(S)[v] = workers[v]
  BY DEF Dated
<1>1. CASE workers[v].op = "apply"
  <2>1. workers[v] \in Applies
    BY <1>1, CallTypes
  <2>2. Dated(S)[v] = [workers[v] EXCEPT !.written = @ \cup S]
    BY <1>1 DEF Dated
  <2> QED BY <2>1, <2>2 DEF WorkerStates, Applies
<1>2. CASE workers[v].op # "apply"
  <2>1. Dated(S)[v] = workers[v]
    BY <1>2 DEF Dated
  <2> QED BY <2>1, <1>2 DEF ListTypeOK
<1> QED BY <1>1, <1>2

(* The rows that are not applied may change as long as they stay so.       *)
LEMMA RowsKeep ==
  ASSUME ListInv, imports' \in ImportRows, sheet' = sheet, AppliedOf(imports') = AppliedOf(imports),
         \A i \in AppliedOf(imports) : imports'[i].at = imports[i].at /\ imports'[i].photograph = imports[i].photograph
  PROVE  /\ WellDated(imports)'
         /\ InForce(sheet', imports') = InForce(sheet, imports)
         /\ GoesBack(sheet, imports) => GoesBack(sheet', imports')
         /\ \A i \in Imports : IsNewest(imports, i, AppliedOf(imports)) => IsNewest(imports', i, AppliedOf(imports'))
<1>1. imports \in ImportRows /\ WellDated(imports)
  BY DEF ListInv, ListTypeOK, ImportRows
<1>2. \A i \in Imports : IsNewest(imports, i, AppliedOf(imports)) => IsNewest(imports', i, AppliedOf(imports'))
  BY DEF IsNewest
<1> QED BY <1>1, <1>2, SameHistory DEF InForce

(* A step that leaves the list, the photographs and the calls that change  *)
(* the list alone.                                                         *)
LEMMA ListKeeps ==
  ASSUME ListInv, ListTypeOK', Alone', CallsFitRows', sheet' = sheet, offers' = offers, broken' = broken,
         AppliedOf(imports') = AppliedOf(imports),
         \A i \in Imports : imports'[i].at = imports[i].at /\ imports'[i].photograph = imports[i].photograph,
         \A v \in Workers : ChangesList(v) \/ ChangesList(v)' => workers'[v] = workers[v]
  PROVE  ListInv'
<1>1. /\ WellDated(imports)'
      /\ InForce(sheet', imports') = InForce(sheet, imports)
      /\ GoesBack(sheet, imports) => GoesBack(sheet', imports')
  BY RowsKeep DEF ListTypeOK, ImportRows, AppliedOf
<1>2. ASSUME ListFits PROVE ListFits'
  <2>1. (\A w \in Workers : ~ChangesList(w)') => offers' = InForce(sheet', imports')
    BY <1>1, <1>2 DEF ListFits, ChangesList
  <2>2. ASSUME NEW w \in Workers, workers'[w].op \in {"apply", "revert"}
        PROVE  /\ workers'[w] = workers[w]
               /\ imports'[workers'[w].import].photograph = imports[workers[w].import].photograph
    <3>1. workers'[w] = workers[w]
      BY <2>2 DEF ChangesList
    <3>2. workers[w].import \in Imports
      BY <2>2, <3>1, CallTypes DEF ListInv, Of
    <3> QED BY <3>1, <3>2
  <2>3. ASSUME NEW w \in Workers, workers'[w].op = "apply"
        PROVE  Applying(workers'[w], offers', imports'[workers'[w].import].photograph, InForce(sheet', imports'),
                        sheet'[workers'[w].import])
    BY <2>2, <2>3, <1>1, <1>2 DEF ListFits, Of
  <2>4. ASSUME NEW w \in Workers, workers'[w].op = "revert"
        PROVE  Reverting(workers'[w], offers', imports'[workers'[w].import].photograph, InForce(sheet', imports'))
    BY <2>2, <2>4, <1>1, <1>2 DEF ListFits, Of
  <2> QED BY <2>1, <2>3, <2>4 DEF ListFits, Of, ChangesList
<1> QED BY <1>1, <1>2 DEF ListInv

(* A step of the one call that changes the list.                           *)
LEMMA ListMoves ==
  ASSUME ListInv, ListTypeOK', Alone', CallsFitRows', WellDated(imports)', NEW w \in Workers,
         \A v \in Workers \ {w} : ~ChangesList(v) /\ workers'[v].op = workers[v].op,
         ~broken' => /\ GoesBack(sheet, imports)'
                     /\ ~ChangesList(w)' => offers' = InForce(sheet', imports')
                     /\ workers'[w].op = "apply" =>
                          Applying(workers'[w], offers', imports'[workers'[w].import].photograph,
                                   InForce(sheet', imports'), sheet'[workers'[w].import])
                     /\ workers'[w].op = "revert" =>
                          Reverting(workers'[w], offers', imports'[workers'[w].import].photograph,
                                    InForce(sheet', imports'))
  PROVE  ListInv'
<1>2. \A v \in Workers \ {w} : workers'[v].op \notin {"apply", "revert"}
  BY DEF ChangesList
<1>3. ASSUME ~broken' PROVE ListFits'
  <2>1. (\A v \in Workers : ~ChangesList(v)') => offers' = InForce(sheet', imports')
    BY <1>3
  <2> QED BY <2>1, <1>2, <1>3 DEF ListFits, Of, ChangesList
<1> QED BY <1>3 DEF ListInv

LEMMA AloneKeeps ==
  ASSUME ListTypeOK, ListTypeOK', Alone, NEW w \in Workers,
         \A v \in Workers \ {w} : workers'[v].op = workers[v].op /\ workers'[v].import = workers[v].import,
         workers'[w].op # "none" =>
           \A v \in Workers \ {w} : workers[v].op # "none" =>
             workers[v].import # workers'[w].import /\ ~(ChangesList(v) /\ ChangesList(w)')
  PROVE  Alone'
<1>1. \A v \in Workers : (IsIdle(v) <=> workers[v].op = "none") /\ (IsIdle(v)' <=> workers'[v].op = "none")
  <2>1. \A v \in Workers : IsIdle(v) <=> workers[v].op = "none"
    BY CallTypes
  <2>2. \A v \in Workers : IsIdle(v)' <=> workers'[v].op = "none"
    BY KindOfCall DEF IsIdle, ListTypeOK
  <2> QED BY <2>1, <2>2
<1> QED BY <1>1 DEF Alone, Of, ChangesList

(* A step of a call that goes on with its import, or ends.                 *)
LEMMA CallGoesOn ==
  ASSUME ListInv, ListTypeOK', NEW w \in Workers, ~IsIdle(w),
         \A v \in Workers \ {w} : workers'[v].op = workers[v].op /\ workers'[v].import = workers[v].import,
         workers'[w].op = "none" \/ workers'[w].import = workers[w].import,
         ChangesList(w)' => ChangesList(w),
         workers'[w].op # "none" => (workers'[w].op = "revert" <=> workers[w].op = "revert"),
         \A k \in Imports \ {Of(w)} : imports'[k] = imports[k],
         AppliedOf(imports') = AppliedOf(imports),
         workers[w].op # "revert" => imports'[Of(w)].status # "none",
         workers[w].op = "revert" => imports'[Of(w)].at = imports[Of(w)].at
  PROVE  Alone' /\ CallsFitRows'
<1>1. Alone'
  BY AloneKeeps, CallTypes DEF ListInv, Alone, ChangesList, Of
<1>2. ASSUME NEW v \in Workers, v # w, workers[v].op # "none" PROVE Of(v) \in Imports \ {Of(w)}
  BY <1>2, CallTypes DEF ListInv, Alone
<1>3. ASSUME NEW v \in Workers, workers'[v].op \in {"read", "again", "discard", "apply"}
      PROVE  imports'[workers'[v].import].status \notin {"none", "APPLIED"}
  <2>1. CASE v # w
    BY <2>1, <1>2, <1>3 DEF ListInv, CallsFitRows, Of
  <2>2. CASE v = w
    <3>1. workers[w].op \in {"read", "again", "discard", "apply"}
      BY <2>2, <1>3, CallTypes DEF ListInv, ChangesList
    <3>2. Of(w) \in Imports /\ imports[Of(w)].status # "APPLIED"
      BY <3>1, CallTypes DEF ListInv, CallsFitRows
    <3>3. imports'[Of(w)].status # "APPLIED"
      BY <3>2 DEF AppliedOf
    <3> QED BY <2>2, <1>3, <3>1, <3>3 DEF Of
  <2> QED BY <2>1, <2>2
<1>4. ASSUME NEW v \in Workers, workers'[v].op = "revert"
      PROVE  IsNewest(imports', workers'[v].import, AppliedOf(imports'))
  <2>1. /\ workers[v].op = "revert" /\ workers'[v].import = Of(v) /\ Of(v) \in Imports
        /\ IsNewest(imports, Of(v), AppliedOf(imports))
    BY <1>4, CallTypes DEF ListInv, CallsFitRows, Of
  <2>2. \A k \in AppliedOf(imports) : imports'[k].at = imports[k].at
    <3>1. CASE workers[w].op = "revert"
      BY <3>1 DEF AppliedOf
    <3>2. CASE workers[w].op # "revert"
      <4>1. Of(w) \notin AppliedOf(imports)
        BY <3>2, CallTypes DEF ListInv, CallsFitRows, AppliedOf
      <4> QED BY <4>1 DEF AppliedOf
    <3> QED BY <3>1, <3>2
  <2> QED BY <2>1, <2>2 DEF IsNewest
<1> QED BY <1>1, <1>3, <1>4 DEF CallsFitRows, Of

(* A call begins on an import that no other call is about.                 *)
LEMMA CallBegins ==
  ASSUME ListInv, ListTypeOK', NEW w \in Workers, NEW i \in Imports,
         \A v \in Workers \ {w} : workers'[v] = workers[v],
         workers'[w].import = i,
         \A v \in Workers \ {w} : ~IsIdle(v) => Of(v) # i /\ ~(ChangesList(v) /\ ChangesList(w)'),
         \A k \in Imports \ {i} : imports'[k] = imports[k],
         imports'[i].at = imports[i].at,
         AppliedOf(imports') = AppliedOf(imports),
         workers'[w].op = "revert" => IsNewest(imports, i, AppliedOf(imports)),
         workers'[w].op # "revert" => imports'[i].status \notin {"none", "APPLIED"}
  PROVE  Alone' /\ CallsFitRows'
<1>1. Alone'
  BY AloneKeeps, CallTypes DEF ListInv, Of
<1>2. \A S \in SUBSET Imports : \A k \in Imports : IsNewest(imports, k, S) => IsNewest(imports', k, S)
  BY DEF IsNewest
<1>3. ASSUME NEW v \in Workers, workers'[v].op \in {"read", "again", "discard", "apply"}
      PROVE  imports'[workers'[v].import].status \notin {"none", "APPLIED"}
  <2>1. CASE v # w
    <3>1. Of(v) \in Imports \ {i}
      BY <2>1, <1>3, CallTypes DEF ListInv
    <3> QED BY <3>1, <2>1, <1>3 DEF ListInv, CallsFitRows, Of
  <2>2. CASE v = w
    BY <2>2, <1>3
  <2> QED BY <2>1, <2>2
<1>4. ASSUME NEW v \in Workers, workers'[v].op = "revert"
      PROVE  IsNewest(imports', workers'[v].import, AppliedOf(imports'))
  <2>1. workers'[v].import \in Imports /\ IsNewest(imports, workers'[v].import, AppliedOf(imports))
    <3>1. CASE v # w
      BY <3>1, <1>4, CallTypes DEF ListInv, CallsFitRows, Of
    <3>2. CASE v = w
      BY <3>2, <1>4
    <3> QED BY <3>1, <3>2
  <2>2. AppliedOf(imports) \in SUBSET Imports
    BY DEF AppliedOf
  <2> QED BY <2>1, <2>2, <1>2
<1> QED BY <1>1, <1>3, <1>4 DEF CallsFitRows, Of

LEMMA OneChanges ==
  ASSUME ListInv, NEW w \in Workers, ChangesList(w)
  PROVE  \A v \in Workers \ {w} : ~ChangesList(v)
BY CallTypes DEF ListInv, Alone, ChangesList

LEMMA NotBefore ==
  ASSUME MayOverlap = FALSE, ListInv, NEW w \in Workers, NEW i \in Imports, NEW changes \in BOOLEAN,
         MayBegin(w, i, changes)
  PROVE  \A v \in Workers \ {w} : ~IsIdle(v) => Of(v) # i /\ ~(ChangesList(v) /\ changes)
BY DEF MayBegin, Of

-----------------------------------------------------------------------------
(* Calls that do not touch the list.                                       *)
LEMMA UploadKeeps == ASSUME ListInv, NEW w \in Workers, NEW i \in Imports, Upload(w, i) PROVE ListInv'
<1> DEFINE call == [op |-> "read", import |-> i, step |-> "file", background |-> TRUE]
<1>1. /\ workers' = [workers EXCEPT ![w] = call]
      /\ imports' = [imports EXCEPT ![i].status = "PROCESSING"]
      /\ sheet' = sheet /\ offers' = offers /\ syncRun' = syncRun /\ broken' = broken
      /\ IsIdle(w) /\ imports[i].status = "none"
  BY DEF Upload, StartReading, Mark
<1>2. call \in Readings
  BY DEF Readings
<1>3. ListTypeOK'
  BY <1>1, <1>2 DEF ListInv, ListTypeOK, WorkerStates, Statuses
<1>4. /\ AppliedOf(imports') = AppliedOf(imports)
      /\ \A k \in Imports : imports'[k].at = imports[k].at /\ imports'[k].photograph = imports[k].photograph
      /\ \A k \in Imports \ {i} : imports'[k] = imports[k]
      /\ imports'[i].status = "PROCESSING"
  BY <1>1 DEF ListInv, ListTypeOK, AppliedOf
<1>5. \A v \in Workers \ {w} : workers'[v] = workers[v]
  BY <1>1 DEF ListInv, ListTypeOK
<1>6. workers'[w].op = "read" /\ workers'[w].import = i /\ workers[w].op = "none"
  BY <1>1, CallTypes DEF ListInv, ListTypeOK
<1>7. \A v \in Workers \ {w} : ~IsIdle(v) => Of(v) # i
  BY <1>1, CallTypes DEF ListInv, CallsFitRows, IsNewest, AppliedOf
<1>8. Alone' /\ CallsFitRows'
  BY <1>1, <1>3, <1>4, <1>5, <1>6, <1>7, CallBegins DEF ChangesList
<1> QED BY <1>1, <1>3, <1>4, <1>5, <1>6, <1>8, ListKeeps DEF ChangesList

LEMMA CheckKeeps ==
  ASSUME MayOverlap = FALSE, ListInv, NEW w \in Workers, NEW i \in Imports, NEW op \in {"again", "discard"},
         Check(w, i, op)
  PROVE  ListInv'
<1> DEFINE call == [op |-> op, import |-> i, step |-> "checked"]
<1>1. /\ workers' = [workers EXCEPT ![w] = call]
      /\ imports' = imports
      /\ sheet' = sheet /\ offers' = offers /\ syncRun' = syncRun /\ broken' = broken
      /\ IsIdle(w) /\ imports[i].status \in {"NEEDS_REVIEW", "FAILED"} /\ MayBegin(w, i, FALSE)
  BY DEF Check
<1>2. call \in Checks
  BY DEF Checks
<1>3. ListTypeOK'
  BY <1>1, <1>2 DEF ListInv, ListTypeOK, WorkerStates
<1>5. \A v \in Workers \ {w} : workers'[v] = workers[v]
  BY <1>1 DEF ListInv, ListTypeOK
<1>6. workers'[w].op \in {"again", "discard"} /\ workers'[w].import = i /\ workers[w].op = "none"
  BY <1>1, CallTypes DEF ListInv, ListTypeOK
<1>7. \A v \in Workers \ {w} : ~IsIdle(v) => Of(v) # i
  BY <1>1, NotBefore
<1>8. Alone' /\ CallsFitRows'
  BY <1>1, <1>3, <1>5, <1>6, <1>7, CallBegins DEF ChangesList
<1> QED BY <1>1, <1>3, <1>5, <1>6, <1>8, ListKeeps DEF ChangesList

(* What a call that only marks its import leaves.                          *)
LEMMA MarkingKeeps ==
  ASSUME ListInv, ListTypeOK', NEW w \in Workers, workers[w].op \in {"read", "again", "discard"},
         NEW status \in Statuses \ {"none", "APPLIED"}, NEW read \in BOOLEAN,
         imports' = [imports EXCEPT ![Of(w)].status = status, ![Of(w)].read = read],
         sheet' = sheet, offers' = offers, broken' = broken,
         \A v \in Workers \ {w} : workers'[v] = workers[v],
         workers'[w].op \in {"none", "read"}, workers'[w].op = "read" => workers'[w].import = Of(w)
  PROVE  ListInv'
<1>1. /\ ~IsIdle(w) /\ Of(w) \in Imports /\ ~ChangesList(w) /\ ~ChangesList(w)'
      /\ imports[Of(w)].status # "APPLIED"
  BY CallTypes DEF ListInv, CallsFitRows, ChangesList
<1>4. /\ AppliedOf(imports') = AppliedOf(imports)
      /\ \A k \in Imports : imports'[k].at = imports[k].at /\ imports'[k].photograph = imports[k].photograph
      /\ \A k \in Imports \ {Of(w)} : imports'[k] = imports[k]
      /\ imports'[Of(w)].status = status
  BY <1>1 DEF ListInv, ListTypeOK, AppliedOf
<1>8. Alone' /\ CallsFitRows'
  BY <1>1, <1>4, CallGoesOn DEF Of
<1> QED BY <1>1, <1>4, <1>8, ListKeeps DEF ChangesList

LEMMA ReadAgainKeeps == ASSUME ListInv, NEW w \in Workers, ReadAgain(w) PROVE ListInv'
<1> DEFINE call == [op |-> "read", import |-> Of(w), step |-> "file", background |-> TRUE]
<1>1. /\ workers' = [workers EXCEPT ![w] = Resting] \/ workers' = [workers EXCEPT ![w] = call]
      /\ imports' = [imports EXCEPT ![Of(w)].status = "PROCESSING"]
      /\ sheet' = sheet /\ offers' = offers /\ syncRun' = syncRun /\ broken' = broken
      /\ workers[w].op = "again"
  BY DEF ReadAgain, Doing, Mark, Rest, StartReading
<1>2. Of(w) \in Imports
  BY <1>1, CallTypes DEF ListInv
<1>3. call \in WorkerStates /\ Resting \in WorkerStates
  BY <1>2 DEF Readings, WorkerStates
<1>4. ListTypeOK'
  BY <1>1, <1>3 DEF ListInv, ListTypeOK, Statuses
<1>5. /\ \A v \in Workers \ {w} : workers'[v] = workers[v]
      /\ workers'[w] \in {Resting, call}
  BY <1>1 DEF ListInv, ListTypeOK
<1>6. imports' = [imports EXCEPT ![Of(w)].status = "PROCESSING", ![Of(w)].read = imports[Of(w)].read]
  BY <1>1, <1>2 DEF ListInv, ListTypeOK
<1>7. imports[Of(w)].read \in BOOLEAN
  BY <1>2 DEF ListInv, ListTypeOK
<1>8. workers'[w].op \in {"none", "read"} /\ (workers'[w].op = "read" => workers'[w].import = Of(w))
  BY <1>5 DEF Resting
<1>9. "PROCESSING" \in Statuses \ {"none", "APPLIED"} /\ workers[w].op \in {"read", "again", "discard"}
  BY <1>1 DEF Statuses
<1> HIDE DEF call
<1> QED BY <1>1, <1>4, <1>5, <1>6, <1>7, <1>8, <1>9, MarkingKeeps

LEMMA DiscardKeeps == ASSUME ListInv, NEW w \in Workers, Discard(w) PROVE ListInv'
<1>1. /\ workers' = [workers EXCEPT ![w] = Resting]
      /\ imports' = [imports EXCEPT ![Of(w)].status = "DISCARDED", ![Of(w)].read = FALSE]
      /\ sheet' = sheet /\ offers' = offers /\ syncRun' = syncRun /\ broken' = broken
      /\ workers[w].op = "discard"
  BY DEF Discard, Doing, Rest
<1>2. ListTypeOK'
  BY <1>1 DEF ListInv, ListTypeOK, Statuses, WorkerStates
<1>3. workers'[w] = Resting /\ \A v \in Workers \ {w} : workers'[v] = workers[v]
  BY <1>1 DEF ListInv, ListTypeOK
<1>4. workers'[w].op = "none"
  BY <1>3 DEF Resting
<1>5. "DISCARDED" \in Statuses \ {"none", "APPLIED"} /\ workers[w].op \in {"read", "again", "discard"}
  BY <1>1 DEF Statuses
<1> QED BY <1>1, <1>2, <1>3, <1>4, <1>5, MarkingKeeps

LEMMA FailStuckKeeps == ASSUME ListInv, NEW i \in Imports, FailStuck(i) PROVE ListInv'
<1>1. /\ imports' = [imports EXCEPT ![i].status = "FAILED"] /\ imports[i].status = "PROCESSING"
      /\ sheet' = sheet /\ offers' = offers /\ syncRun' = syncRun /\ broken' = broken /\ workers' = workers
  BY DEF FailStuck, Mark
<1>2. ListTypeOK'
  BY <1>1 DEF ListInv, ListTypeOK, Statuses
<1>3. /\ AppliedOf(imports') = AppliedOf(imports)
      /\ \A k \in Imports : /\ imports'[k].at = imports[k].at /\ imports'[k].photograph = imports[k].photograph
                            /\ imports[k].status \notin {"none", "APPLIED"} =>
                                 imports'[k].status \notin {"none", "APPLIED"}
  BY <1>1 DEF ListInv, ListTypeOK, AppliedOf
<1>4. Alone'
  BY <1>1 DEF ListInv, Alone, IsIdle, Of, ChangesList
<1>5. \A k \in Imports : IsNewest(imports, k, AppliedOf(imports)) => IsNewest(imports', k, AppliedOf(imports'))
  BY <1>3 DEF IsNewest, AppliedOf
<1>6. CallsFitRows'
  BY <1>1, <1>3, <1>5, CallTypes DEF ListInv, CallsFitRows, Of, IsIdle
<1> QED BY <1>1, <1>2, <1>3, <1>4, <1>6, ListKeeps

-----------------------------------------------------------------------------
(* An apply begins.                                                        *)
LEMMA ApplyBegins ==
  ASSUME MayOverlap = FALSE, ListInv, NEW w \in Workers, NEW i \in Imports, NEW background \in BOOLEAN,
         StartApplying(w, i, background), ~ChangesList(w),
         imports' \in ImportRows,
         \A k \in Imports \ {i} : imports'[k] = imports[k],
         imports'[i].at = imports[i].at, imports'[i].photograph = imports[i].photograph,
         AppliedOf(imports') = AppliedOf(imports), imports'[i].status \notin {"none", "APPLIED"},
         sheet' = sheet, offers' = offers, syncRun' = syncRun, broken' = broken
  PROVE  ListInv'
<1> DEFINE call == [op |-> "apply", import |-> i, step |-> "look", background |-> background,
                    photograph |-> NoList, left |-> sheet[i], written |-> {}]
<1>1. workers' = [workers EXCEPT ![w] = call] /\ MayBegin(w, i, TRUE)
  BY DEF StartApplying
<1>2. call \in Applies
  BY DEF ListInv, ListTypeOK, Applies, ApplySteps, Lists, NoList, NoOffer
<1>3. ListTypeOK'
  BY <1>1, <1>2 DEF ListInv, ListTypeOK, WorkerStates, ImportRows
<1>4. /\ workers'[w] = call
      /\ \A v \in Workers \ {w} : workers'[v] = workers[v]
  BY <1>1 DEF ListInv, ListTypeOK
<1>5. /\ call.op = "apply" /\ call.import = i /\ call.step = "look" /\ call.left = sheet[i]
  OBVIOUS
<1> HIDE DEF call
<1>6. \A v \in Workers \ {w} : ~IsIdle(v) => Of(v) # i /\ ~ChangesList(v)
  BY <1>1, NotBefore
<1>7. \A v \in Workers : ~ChangesList(v)
  BY <1>6, CallTypes DEF ListInv, ChangesList
<1>8. Alone' /\ CallsFitRows'
  BY <1>3, <1>4, <1>5, <1>6, CallBegins
<1>9. /\ WellDated(imports)'
      /\ InForce(sheet', imports') = InForce(sheet, imports)
      /\ GoesBack(sheet, imports) => GoesBack(sheet', imports')
  BY RowsKeep DEF AppliedOf
<1>10. ASSUME ~broken
       PROVE  Applying(call, offers', imports'[call.import].photograph, InForce(sheet', imports'), sheet'[call.import])
  <2>1. offers = InForce(sheet, imports)
    BY <1>7, <1>10 DEF ListInv, ListFits
  <2> QED BY <2>1, <1>5, <1>9 DEF Applying
<1> QED BY <1>3, <1>4, <1>5, <1>7, <1>8, <1>9, <1>10, ListMoves DEF ListInv, ChangesList

LEMMA ApplyKeeps ==
  ASSUME MayOverlap = FALSE, ListInv, NEW w \in Workers, NEW i \in Imports, Apply(w, i) PROVE ListInv'
<1>1. /\ imports[i].status \notin {"none", "APPLIED"} /\ StartApplying(w, i, FALSE) /\ IsIdle(w)
      /\ imports' = imports /\ sheet' = sheet /\ offers' = offers /\ syncRun' = syncRun /\ broken' = broken
  BY DEF Apply
<1>2. ~ChangesList(w)
  BY <1>1, CallTypes DEF ListInv, ChangesList
<1>3. imports' \in ImportRows
  BY <1>1 DEF ListInv, ListTypeOK, ImportRows
<1> QED BY <1>1, <1>2, <1>3, ApplyBegins

LEMMA StoreRowsKeeps ==
  ASSUME MayOverlap = FALSE, ListInv, NEW w \in Workers, StoreRows(w) PROVE ListInv'
<1>1. /\ workers[w].op = "read" /\ Of(w) \in Imports /\ imports[Of(w)].status # "APPLIED" /\ ~ChangesList(w)
      /\ sheet' = sheet /\ offers' = offers /\ syncRun' = syncRun /\ broken' = broken
  BY CallTypes DEF ListInv, StoreRows, Doing, CallsFitRows, ChangesList
<1>2. ASSUME NEW status \in {"NEEDS_REVIEW", "FAILED"}, NEW read \in BOOLEAN, Rest(w),
             imports' = [imports EXCEPT ![Of(w)].status = status, ![Of(w)].read = read]
      PROVE  ListInv'
  <2>1. workers' = [workers EXCEPT ![w] = Resting]
    BY <1>2 DEF Rest
  <2>2. ListTypeOK'
    BY <1>1, <1>2, <2>1 DEF ListInv, ListTypeOK, Statuses, WorkerStates
  <2>3. workers'[w] = Resting /\ \A v \in Workers \ {w} : workers'[v] = workers[v]
    BY <2>1 DEF ListInv, ListTypeOK
  <2>4. workers'[w].op = "none"
    BY <2>3 DEF Resting
  <2>5. status \in Statuses \ {"none", "APPLIED"}
    BY DEF Statuses
  <2> QED BY <1>1, <1>2, <2>2, <2>3, <2>4, <2>5, MarkingKeeps
<1>3. CASE imports' = [imports EXCEPT ![Of(w)].read = TRUE, ![Of(w)].status = "NEEDS_REVIEW"] /\ Rest(w)
  <2>1. imports' = [imports EXCEPT ![Of(w)].status = "NEEDS_REVIEW", ![Of(w)].read = TRUE]
    BY <1>1, <1>3 DEF ListInv, ListTypeOK
  <2> QED BY <2>1, <1>2, <1>3
<1>4. CASE Mark(Of(w), "FAILED") /\ Rest(w)
  <2>1. imports' = [imports EXCEPT ![Of(w)].status = "FAILED", ![Of(w)].read = imports[Of(w)].read]
    BY <1>1, <1>4 DEF ListInv, ListTypeOK, Mark
  <2>2. imports[Of(w)].read \in BOOLEAN
    BY <1>1 DEF ListInv, ListTypeOK
  <2> QED BY <2>1, <2>2, <1>2, <1>4
<1>5. CASE /\ imports' = [imports EXCEPT ![Of(w)].read = TRUE, ![Of(w)].status = "PROCESSING"]
           /\ StartApplying(w, Of(w), TRUE)
  <2>1. imports' \in ImportRows
    BY <1>1, <1>5 DEF ListInv, ListTypeOK, ImportRows, Statuses
  <2>2. /\ \A k \in Imports \ {Of(w)} : imports'[k] = imports[k]
        /\ imports'[Of(w)].at = imports[Of(w)].at /\ imports'[Of(w)].photograph = imports[Of(w)].photograph
        /\ AppliedOf(imports') = AppliedOf(imports) /\ imports'[Of(w)].status = "PROCESSING"
    BY <1>1, <1>5 DEF ListInv, ListTypeOK, AppliedOf
  <2> QED BY <1>1, <1>5, <2>1, <2>2, ApplyBegins
<1> QED BY <1>3, <1>4, <1>5 DEF StoreRows

LEMMA StartRevertKeeps ==
  ASSUME MayOverlap = FALSE, ListInv, NEW w \in Workers, NEW i \in Imports, StartRevert(w, i) PROVE ListInv'
<1> DEFINE call == [op |-> "revert", import |-> i, step |-> "restore", photograph |-> imports[i].photograph]
<1>1. /\ workers' = [workers EXCEPT ![w] = call] /\ MayBegin(w, i, TRUE) /\ IsIdle(w)
      /\ i \in AppliedOf(imports) /\ i = NewestOf(imports, AppliedOf(imports))
      /\ imports' = imports /\ sheet' = sheet /\ offers' = offers /\ syncRun' = syncRun /\ broken' = broken
  BY DEF StartRevert, NewestOf, Newest, AppliedImports, AppliedOf
<1>2. call \in Reverts
  BY DEF ListInv, ListTypeOK, Reverts
<1>3. ListTypeOK'
  BY <1>1, <1>2 DEF ListInv, ListTypeOK, WorkerStates
<1>4. /\ workers'[w] = call
      /\ \A v \in Workers \ {w} : workers'[v] = workers[v]
  BY <1>1 DEF ListInv, ListTypeOK
<1>5. /\ call.op = "revert" /\ call.import = i /\ call.step = "restore" /\ call.photograph = imports[i].photograph
  OBVIOUS
<1> HIDE DEF call
<1>6. \A v \in Workers \ {w} : ~IsIdle(v) => Of(v) # i /\ ~ChangesList(v)
  BY <1>1, NotBefore
<1>7. \A v \in Workers : ~ChangesList(v)
  BY <1>1, <1>6, CallTypes DEF ListInv, ChangesList
<1>8. IsNewest(imports, i, AppliedOf(imports))
  <2>1. imports \in ImportRows /\ AppliedOf(imports) \in SUBSET AppliedOf(imports)
    BY DEF ListInv, ListTypeOK, ImportRows
  <2>2. PICK k \in Imports : IsNewest(imports, k, AppliedOf(imports))
    BY <1>1 DEF ListInv, WellDated
  <2> QED BY <1>1, <2>1, <2>2, NewestIs DEF ListInv
<1>9. Alone' /\ CallsFitRows'
  BY <1>1, <1>3, <1>4, <1>5, <1>6, <1>8, CallBegins
<1>10. ASSUME ~broken
       PROVE  Reverting(call, offers', imports'[call.import].photograph, InForce(sheet', imports'))
  <2>1. offers = InForce(sheet, imports)
    BY <1>7, <1>10 DEF ListInv, ListFits
  <2> QED BY <2>1, <1>1, <1>5 DEF Reverting
<1> QED BY <1>1, <1>3, <1>4, <1>5, <1>7, <1>9, <1>10, ListMoves DEF ListInv, ChangesList

-----------------------------------------------------------------------------
(* The steps of an apply that write no row of imports.                     *)
LEMMA ApplyMoves ==
  ASSUME ListInv, NEW w \in Workers, workers[w].op = "apply",
         workers' \in [Workers -> WorkerStates], workers'[w].op = "apply", workers'[w].import = workers[w].import,
         \A v \in Workers \ {w} : workers'[v].op = workers[v].op /\ workers'[v].import = workers[v].import,
         imports' = imports, sheet' = sheet, offers' \in Lists, syncRun' \in Workers \cup {Nobody}, broken' = broken,
         Applying(workers[w], offers, imports[Of(w)].photograph, InForce(sheet, imports), sheet[Of(w)]) =>
           Applying(workers'[w], offers', imports[Of(w)].photograph, InForce(sheet, imports), sheet[Of(w)])
  PROVE  ListInv'
<1>1. ListTypeOK'
  BY DEF ListInv, ListTypeOK
<1>2. ~IsIdle(w) /\ ChangesList(w) /\ ChangesList(w)'
  BY CallTypes DEF ListInv, ChangesList
<1>3. Alone' /\ CallsFitRows'
  <2>1. imports'[Of(w)].status # "none"
    BY DEF ListInv, CallsFitRows
  <2> QED BY <2>1, <1>1, <1>2, CallGoesOn DEF Of
<1>4. /\ WellDated(imports)'
      /\ ~broken' => GoesBack(sheet, imports)'
  BY DEF ListInv
<1>5. ASSUME ~broken'
      PROVE  Applying(workers'[w], offers', imports'[workers'[w].import].photograph,
                      InForce(sheet', imports'), sheet'[workers'[w].import])
  BY <1>5 DEF ListInv, ListFits, Of
<1> QED BY <1>1, <1>2, <1>3, <1>4, <1>5, OneChanges, ListMoves DEF ChangesList

(* Go leaves all but the step.                                             *)
LEMMA GoTypes ==
  ASSUME ListInv, NEW w \in Workers, workers[w].op = "apply", NEW step \in ApplySteps, Go(w, step)
  PROVE  /\ workers' \in [Workers -> WorkerStates]
         /\ \A v \in Workers \ {w} : workers'[v] = workers[v]
         /\ workers'[w].op = "apply" /\ workers'[w].import = workers[w].import
         /\ workers'[w].step = step /\ workers'[w].photograph = workers[w].photograph
         /\ workers'[w].left = workers[w].left /\ workers'[w].written = workers[w].written
<1>1. workers[w] \in Applies /\ workers \in [Workers -> WorkerStates]
  BY CallTypes DEF ListInv, ListTypeOK
<1>2. workers' = [workers EXCEPT ![w].step = step]
  BY DEF Go
<1>3. [workers[w] EXCEPT !.step = step] \in Applies
  BY <1>1 DEF Applies
<1>4. workers' \in [Workers -> WorkerStates]
  BY <1>1, <1>2, <1>3 DEF WorkerStates
<1>5. workers'[w] = [workers[w] EXCEPT !.step = step] /\ \A v \in Workers \ {w} : workers'[v] = workers[v]
  BY <1>1, <1>2
<1> QED BY <1>1, <1>4, <1>5 DEF Applies

LEMMA TakePhotographKeeps == ASSUME ListInv, NEW w \in Workers, TakePhotograph(w) PROVE ListInv'
<1>1. /\ workers' = [workers EXCEPT ![w].photograph = offers, ![w].step = "keep"]
      /\ workers[w].op = "apply" /\ workers[w].step = "look"
      /\ imports' = imports /\ sheet' = sheet /\ offers' = offers /\ syncRun' = syncRun /\ broken' = broken
  BY DEF TakePhotograph, Doing
<1>2. workers[w] \in Applies /\ workers \in [Workers -> WorkerStates] /\ offers \in Lists
  BY <1>1, CallTypes DEF ListInv, ListTypeOK
<1>3. /\ workers'[w] = [workers[w] EXCEPT !.photograph = offers, !.step = "keep"]
      /\ \A v \in Workers \ {w} : workers'[v] = workers[v]
  BY <1>1, <1>2
<1>4. [workers[w] EXCEPT !.photograph = offers, !.step = "keep"] \in Applies
  BY <1>2 DEF Applies, ApplySteps
<1>5. workers' \in [Workers -> WorkerStates]
  BY <1>1, <1>2, <1>3, <1>4 DEF WorkerStates
<1>6. /\ workers'[w].op = "apply" /\ workers'[w].import = workers[w].import /\ workers'[w].step = "keep"
      /\ workers'[w].photograph = offers /\ workers'[w].left = workers[w].left
  BY <1>1, <1>2, <1>3 DEF Applies
<1>7. syncRun' \in Workers \cup {Nobody}
  BY <1>1 DEF ListInv, ListTypeOK
<1>8. Applying(workers[w], offers, imports[Of(w)].photograph, InForce(sheet, imports), sheet[Of(w)]) =>
        Applying(workers'[w], offers', imports[Of(w)].photograph, InForce(sheet, imports), sheet[Of(w)])
  BY <1>1, <1>6 DEF Applying
<1> QED BY <1>1, <1>2, <1>3, <1>5, <1>6, <1>7, <1>8, ApplyMoves

LEMMA StartSyncKeeps == ASSUME ListInv, NEW w \in Workers, StartSync(w) PROVE ListInv'
<1>1. /\ workers[w].op = "apply" /\ workers[w].step = "run" /\ offers \in Lists
      /\ Go(w, "write") \/ Go(w, "restore")
      /\ syncRun' \in Workers \cup {Nobody}
      /\ imports' = imports /\ sheet' = sheet /\ offers' = offers /\ broken' = broken
  BY DEF StartSync, Doing, ListInv, ListTypeOK
<1>2. PICK step \in {"write", "restore"} : Go(w, step)
  BY <1>1
<1>3. step \in ApplySteps
  BY DEF ApplySteps
<1>4. /\ workers' \in [Workers -> WorkerStates]
      /\ \A v \in Workers \ {w} : workers'[v] = workers[v]
      /\ workers'[w].op = "apply" /\ workers'[w].import = workers[w].import
      /\ workers'[w].step = step /\ workers'[w].photograph = workers[w].photograph
      /\ workers'[w].left = workers[w].left /\ workers'[w].written = workers[w].written
  BY <1>1, <1>2, <1>3, GoTypes
<1>5. Applying(workers[w], offers, imports[Of(w)].photograph, InForce(sheet, imports), sheet[Of(w)]) =>
        Applying(workers'[w], offers', imports[Of(w)].photograph, InForce(sheet, imports), sheet[Of(w)])
  BY <1>1, <1>4 DEF Applying
<1> QED BY <1>1, <1>4, <1>5, ApplyMoves

LEMMA ApplyThrowsKeeps == ASSUME ListInv, NEW w \in Workers, ApplyThrows(w) PROVE ListInv'
<1>1. /\ workers[w].op = "apply" /\ workers[w].step \in {"run", "write", "hide"} /\ offers \in Lists
      /\ Go(w, "restore") /\ "restore" \in ApplySteps
      /\ syncRun' \in Workers \cup {Nobody}
      /\ imports' = imports /\ sheet' = sheet /\ offers' = offers /\ broken' = broken
  BY DEF ApplyThrows, FreeRun, ListInv, ListTypeOK, ApplySteps
<1>4. /\ workers' \in [Workers -> WorkerStates]
      /\ \A v \in Workers \ {w} : workers'[v] = workers[v]
      /\ workers'[w].op = "apply" /\ workers'[w].import = workers[w].import
      /\ workers'[w].step = "restore" /\ workers'[w].photograph = workers[w].photograph
  BY <1>1, GoTypes
<1>5. Applying(workers[w], offers, imports[Of(w)].photograph, InForce(sheet, imports), sheet[Of(w)]) =>
        Applying(workers'[w], offers', imports[Of(w)].photograph, InForce(sheet, imports), sheet[Of(w)])
  BY <1>1, <1>4 DEF Applying
<1> QED BY <1>1, <1>4, <1>5, ApplyMoves

(* The first writes of an apply say whose each offer is.                   *)
LEMMA WriteOfferKeeps == ASSUME ListInv, NEW w \in Workers, NEW p \in Codes, WriteOffer(w, p) PROVE ListInv'
<1> DEFINE call == [workers[w] EXCEPT !.written = @ \cup {p}, !.left = @ \ {p}]
<1>1. /\ workers[w].op = "apply" /\ workers[w].step = "write" /\ p \in workers[w].left
      /\ workers' = [Dated({p}) EXCEPT ![w].left = @ \ {p}]
      /\ offers' = [offers EXCEPT ![p] = [by |-> Of(w), active |-> @ = NoOffer \/ @.active]]
      /\ imports' = imports /\ sheet' = sheet /\ syncRun' = syncRun /\ broken' = broken
  BY DEF WriteOffer, Doing
<1>2. workers[w] \in Applies /\ offers \in Lists /\ Of(w) \in Imports /\ syncRun \in Workers \cup {Nobody}
  BY <1>1, CallTypes DEF ListInv, ListTypeOK, IsIdle
<1>3. /\ Dated({p}) \in [Workers -> WorkerStates]
      /\ Dated({p})[w] = [workers[w] EXCEPT !.written = @ \cup {p}]
      /\ \A v \in Workers : Dated({p})[v].op = workers[v].op /\ Dated({p})[v].import = workers[v].import
  BY <1>1, DatedKeeps DEF ListInv, Dated
<1>4. /\ workers'[w] = call
      /\ \A v \in Workers \ {w} : workers'[v] = Dated({p})[v]
  BY <1>1, <1>2, <1>3 DEF Applies
<1>5. call \in Applies
  BY <1>2 DEF Applies
<1>6. workers' \in [Workers -> WorkerStates]
  BY <1>1, <1>3, <1>4, <1>5 DEF WorkerStates
<1>7. /\ call.op = "apply" /\ call.import = workers[w].import /\ call.step = "write"
      /\ call.photograph = workers[w].photograph
      /\ call.left = workers[w].left \ {p} /\ call.written = workers[w].written \cup {p}
  BY <1>1, <1>2 DEF Applies
<1>8. offers' \in Lists
  BY <1>1, <1>2 DEF Lists
<1>9. /\ offers'[p].by = Of(w)
      /\ \A q \in Codes \ {p} : offers'[q] = offers[q]
  BY <1>1, <1>2 DEF Lists
<1> HIDE DEF call
<1>10. Applying(workers[w], offers, imports[Of(w)].photograph, InForce(sheet, imports), sheet[Of(w)]) =>
         Applying(call, offers', imports[Of(w)].photograph, InForce(sheet, imports), sheet[Of(w)])
  BY <1>1, <1>7, <1>9 DEF Applying, Of
<1> QED BY <1>1, <1>2, <1>3, <1>4, <1>6, <1>7, <1>8, <1>10, ApplyMoves

LEMMA FinishSyncKeeps ==
  ASSUME ListInv, NEW w \in Workers, NEW safe \in BOOLEAN, FinishSync(w, safe) PROVE ListInv'
<1>1. /\ workers[w].op = "apply" /\ workers[w].step = "write" /\ workers[w].left = {} /\ Go(w, "hide")
      /\ offers' = [p \in Codes |->
           IF p \in workers[w].written /\ offers[p] # NoOffer THEN [offers[p] EXCEPT !.active = TRUE]
           ELSE [offers[p] EXCEPT !.active = @ /\ ~safe]]
      /\ imports' = imports /\ sheet' = sheet /\ syncRun' = Nobody /\ broken' = broken
      /\ "hide" \in ApplySteps
  BY DEF FinishSync, Doing, ApplySteps
<1>2. offers \in Lists /\ Of(w) \in Imports
  BY <1>1, CallTypes DEF ListInv, ListTypeOK, IsIdle
<1>3. /\ workers' \in [Workers -> WorkerStates]
      /\ \A v \in Workers \ {w} : workers'[v] = workers[v]
      /\ workers'[w].op = "apply" /\ workers'[w].import = workers[w].import
      /\ workers'[w].step = "hide" /\ workers'[w].photograph = workers[w].photograph
      /\ workers'[w].written = workers[w].written
  BY <1>1, GoTypes
<1>4. offers' \in Lists
  <2> SUFFICES ASSUME NEW p \in Codes PROVE offers'[p] \in [by : Imports \cup {Nobody}, active : BOOLEAN]
    BY <1>1 DEF Lists
  <2>1. offers[p] \in [by : Imports \cup {Nobody}, active : BOOLEAN]
    BY <1>2 DEF Lists
  <2> QED BY <1>1, <2>1
<1>5. ASSUME NEW p \in Codes PROVE offers'[p].by = offers[p].by
  <2>1. offers[p] \in [by : Imports \cup {Nobody}, active : BOOLEAN]
    BY <1>2 DEF Lists
  <2> QED BY <1>1, <2>1
<1>6. ASSUME NEW p \in Codes, p \in workers[w].written, offers[p].by = Of(w)
      PROVE  offers'[p] = [by |-> Of(w), active |-> TRUE]
  <2>1. offers[p] \in [by : Imports \cup {Nobody}, active : BOOLEAN]
    BY <1>2 DEF Lists
  <2>2. offers[p] # NoOffer
    BY <1>2, <1>6, NobodyAssumption DEF NoOffer
  <2>3. offers'[p] = [offers[p] EXCEPT !.active = TRUE]
    BY <1>1, <1>6, <2>2
  <2> QED BY <1>6, <2>1, <2>3
<1>7. ASSUME Applying(workers[w], offers, imports[Of(w)].photograph, InForce(sheet, imports), sheet[Of(w)])
      PROVE  Applying(workers'[w], offers', imports[Of(w)].photograph, InForce(sheet, imports), sheet[Of(w)])
  <2> DEFINE L == InForce(sheet, imports)
  <2>1. /\ workers[w].photograph = L /\ imports[Of(w)].photograph = L
        /\ workers[w].written = sheet[Of(w)] \ workers[w].left
        /\ \A p \in Codes : IF p \in workers[w].written THEN offers[p].by = Of(w) ELSE offers[p] = L[p]
    BY <1>1, <1>7 DEF Applying, Of
  <2> HIDE DEF L
  <2>2. workers'[w].written = sheet[Of(w)]
    BY <1>1, <1>3, <2>1
  <2>3. \A p \in Codes : IF p \in workers'[w].written THEN offers'[p] = [by |-> Of(w), active |-> TRUE]
                         ELSE offers'[p].by = L[p].by
    BY <1>3, <1>5, <1>6, <2>1
  <2>4. Of(w) = workers'[w].import
    BY <1>3 DEF Of
  <2>5. Applying(workers'[w], offers', imports[Of(w)].photograph, L, sheet[Of(w)])
    BY <1>3, <2>1, <2>2, <2>3, <2>4 DEF Applying
  <2> QED BY <2>5 DEF L
<1> QED BY <1>1, <1>3, <1>4, <1>7, ApplyMoves

LEMMA HideMissingKeeps == ASSUME ListInv, NEW w \in Workers, HideMissing(w) PROVE ListInv'
<1>1. /\ workers[w].op = "apply" /\ workers[w].step = "hide" /\ Go(w, "mark")
      /\ offers' = [p \in Codes |->
           IF p \in workers[w].written THEN offers[p] ELSE [offers[p] EXCEPT !.active = FALSE]]
      /\ imports' = imports /\ sheet' = sheet /\ syncRun' = syncRun /\ broken' = broken
      /\ "mark" \in ApplySteps
  BY DEF HideMissing, Doing, ApplySteps
<1>2. offers \in Lists /\ workers[w] \in Applies /\ workers[w].photograph \in Lists /\ syncRun \in Workers \cup {Nobody}
  BY <1>1, CallTypes DEF ListInv, ListTypeOK, Applies
<1>3. /\ workers' \in [Workers -> WorkerStates]
      /\ \A v \in Workers \ {w} : workers'[v] = workers[v]
      /\ workers'[w].op = "apply" /\ workers'[w].import = workers[w].import
      /\ workers'[w].step = "mark" /\ workers'[w].photograph = workers[w].photograph
      /\ workers'[w].written = workers[w].written
  BY <1>1, GoTypes
<1>4. offers' \in Lists
  BY <1>1, <1>2 DEF Lists
<1>5. ASSUME Applying(workers[w], offers, imports[Of(w)].photograph, InForce(sheet, imports), sheet[Of(w)])
      PROVE  Applying(workers'[w], offers', imports[Of(w)].photograph, InForce(sheet, imports), sheet[Of(w)])
  <2> DEFINE L == InForce(sheet, imports)
             i == Of(w)
  <2>1. /\ L \in Lists /\ workers[w].photograph = L /\ imports[i].photograph = L
        /\ workers[w].written = sheet[i]
        /\ \A p \in Codes : IF p \in workers[w].written THEN offers[p] = [by |-> i, active |-> TRUE]
                            ELSE offers[p].by = L[p].by
    BY <1>1, <1>2, <1>5 DEF Applying, Of
  <2> HIDE DEF L, i
  <2>2. ASSUME NEW p \in Codes
        PROVE  offers'[p] = IF p \in sheet[i] THEN [by |-> i, active |-> TRUE] ELSE [L[p] EXCEPT !.active = FALSE]
    <3>1. /\ offers[p] \in [by : Imports \cup {Nobody}, active : BOOLEAN]
          /\ L[p] \in [by : Imports \cup {Nobody}, active : BOOLEAN]
      BY <1>2, <2>1 DEF Lists
    <3>2. CASE p \in sheet[i]
      BY <3>2, <2>1, <1>1
    <3>3. CASE p \notin sheet[i]
      <4>1. offers'[p] = [offers[p] EXCEPT !.active = FALSE] /\ offers[p].by = L[p].by
        BY <3>3, <2>1, <1>1
      <4> QED BY <3>1, <3>3, <4>1
    <3> QED BY <3>2, <3>3
  <2>3. offers' = [p \in Codes |-> IF p \in sheet[i] THEN [by |-> i, active |-> TRUE]
                                                  ELSE [L[p] EXCEPT !.active = FALSE]]
    BY <2>2, <1>1
  <2> QED BY <2>1, <2>3, <1>3 DEF Applying, L, i, Of
<1> QED BY <1>1, <1>2, <1>3, <1>4, <1>5, ApplyMoves

(* A load that fails puts the list back.                                   *)
LEMMA RestoreKeeps == ASSUME ListInv, NEW w \in Workers, Restore(w) PROVE ListInv'
<1> DEFINE call == [workers[w] EXCEPT !.written = @ \cup Codes, !.step = "fail"]
<1>1. /\ workers[w].op = "apply" /\ workers[w].step = "restore"
      /\ workers' = [Dated(Codes) EXCEPT ![w].step = "fail"]
      /\ offers' = workers[w].photograph
      /\ imports' = imports /\ sheet' = sheet /\ syncRun' = syncRun /\ broken' = broken
  BY DEF Restore, Doing
<1>2. workers[w] \in Applies /\ workers[w].photograph \in Lists /\ syncRun \in Workers \cup {Nobody}
  BY <1>1, CallTypes DEF ListInv, ListTypeOK, Applies
<1>3. /\ Dated(Codes) \in [Workers -> WorkerStates]
      /\ Dated(Codes)[w] = [workers[w] EXCEPT !.written = @ \cup Codes]
      /\ \A v \in Workers : Dated(Codes)[v].op = workers[v].op /\ Dated(Codes)[v].import = workers[v].import
  BY <1>1, DatedKeeps DEF ListInv, Dated
<1>4. /\ workers'[w] = call
      /\ \A v \in Workers \ {w} : workers'[v] = Dated(Codes)[v]
  BY <1>1, <1>2, <1>3 DEF Applies
<1>5. call \in Applies
  BY <1>2 DEF Applies, ApplySteps
<1>6. workers' \in [Workers -> WorkerStates]
  BY <1>1, <1>3, <1>4, <1>5 DEF WorkerStates
<1>7. call.op = "apply" /\ call.import = workers[w].import /\ call.step = "fail"
  BY <1>1, <1>2 DEF Applies
<1> HIDE DEF call
<1>8. Applying(workers[w], offers, imports[Of(w)].photograph, InForce(sheet, imports), sheet[Of(w)]) =>
        Applying(call, offers', imports[Of(w)].photograph, InForce(sheet, imports), sheet[Of(w)])
  BY <1>1, <1>7 DEF Applying
<1> QED BY <1>1, <1>2, <1>3, <1>4, <1>6, <1>7, <1>8, ApplyMoves

-----------------------------------------------------------------------------
(* The steps that write a row of imports or end the call.                  *)
LEMMA KeepPhotographKeeps == ASSUME ListInv, NEW w \in Workers, KeepPhotograph(w) PROVE ListInv'
<1> DEFINE i == Of(w)
           call == [workers[w] EXCEPT !.written = {}, !.step = "run"]
<1>1. /\ workers[w].op = "apply" /\ workers[w].step = "keep"
      /\ workers' = [workers EXCEPT ![w].written = {}, ![w].step = "run"]
      /\ imports' = [imports EXCEPT ![i].photograph = workers[w].photograph, ![i].status = "PROCESSING"]
      /\ sheet' = sheet /\ offers' = offers /\ syncRun' = syncRun /\ broken' = broken
  BY DEF KeepPhotograph, Doing
<1>2. /\ workers[w] \in Applies /\ workers[w].photograph \in Lists /\ workers \in [Workers -> WorkerStates]
      /\ i \in Imports /\ imports[i].status # "APPLIED" /\ ~IsIdle(w) /\ ChangesList(w) /\ workers[w].import = i
  BY <1>1, CallTypes DEF ListInv, ListTypeOK, Applies, CallsFitRows, ChangesList, Of
<1> HIDE DEF i
<1>3. /\ workers'[w] = call
      /\ \A v \in Workers \ {w} : workers'[v] = workers[v]
  BY <1>1, <1>2
<1>4. call \in Applies
  BY <1>2 DEF Applies, ApplySteps
<1>5. /\ call.op = "apply" /\ call.import = i /\ call.step = "run" /\ call.photograph = workers[w].photograph
      /\ call.left = workers[w].left /\ call.written = {}
  BY <1>1, <1>2 DEF Applies
<1>6. workers' \in [Workers -> WorkerStates]
  BY <1>1, <1>2, <1>3, <1>4 DEF WorkerStates
<1> HIDE DEF call
<1>7. imports' \in ImportRows
  <2> DEFINE row == [imports[i] EXCEPT !.photograph = workers[w].photograph, !.status = "PROCESSING"]
  <2>1. imports \in ImportRows
    BY DEF ListInv, ListTypeOK, ImportRows
  <2>2. imports' = [imports EXCEPT ![i] = row]
    BY <1>1, <1>2, <2>1 DEF ImportRows
  <2>3. row \in [status : Statuses, read : BOOLEAN, photograph : Lists, at : Nat]
    BY <1>2, <2>1 DEF ImportRows, Statuses
  <2> HIDE DEF row
  <2> QED BY <2>1, <2>2, <2>3 DEF ImportRows
<1>8. /\ AppliedOf(imports') = AppliedOf(imports) /\ i \notin AppliedOf(imports)
      /\ \A k \in Imports \ {i} : imports'[k] = imports[k]
      /\ imports'[i].status = "PROCESSING" /\ imports'[i].photograph = workers[w].photograph
  BY <1>1, <1>2 DEF ListInv, ListTypeOK, AppliedOf
<1>9. ListTypeOK'
  BY <1>1, <1>6, <1>7 DEF ListInv, ListTypeOK, ImportRows
<1>10. Alone' /\ CallsFitRows'
  BY <1>1, <1>2, <1>3, <1>5, <1>8, <1>9, CallGoesOn DEF i
<1>11. /\ WellDated(imports)'
       /\ InForce(sheet', imports') = InForce(sheet, imports)
       /\ GoesBack(sheet, imports) => GoesBack(sheet', imports')
  <2>1. \A k \in AppliedOf(imports) : k \in Imports \ {i}
    BY <1>8 DEF AppliedOf
  <2> QED BY <1>1, <1>7, <1>8, <2>1, RowsKeep
<1>12. ASSUME ~broken
       PROVE  Applying(call, offers', imports'[call.import].photograph, InForce(sheet', imports'), sheet'[call.import])
  <2>0. Applying(workers[w], offers, imports[i].photograph, InForce(sheet, imports), sheet[i])
    BY <1>1, <1>12 DEF ListInv, ListFits, i
  <2>1. /\ offers = InForce(sheet, imports) /\ workers[w].photograph = InForce(sheet, imports)
        /\ workers[w].left = sheet[i]
    BY <1>1, <2>0 DEF Applying
  <2> QED BY <2>1, <1>1, <1>5, <1>8, <1>11 DEF Applying
<1> QED BY <1>1, <1>2, <1>3, <1>5, <1>9, <1>10, <1>11, <1>12, OneChanges, ListMoves DEF ListInv, ChangesList

(* Until a call gives up, the list is the one in force.                    *)
LEMMA CallEnds ==
  ASSUME ListInv, ListTypeOK', NEW w \in Workers, ~IsIdle(w), Rest(w),
         sheet' = sheet, offers' = offers, broken => broken',
         \A k \in Imports \ {Of(w)} : imports'[k] = imports[k],
         imports'[Of(w)].at = imports[Of(w)].at, imports'[Of(w)].photograph = imports[Of(w)].photograph,
         AppliedOf(imports') = AppliedOf(imports),
         workers[w].op # "revert" => imports'[Of(w)].status # "none",
         ~broken' /\ ~broken /\ workers[w].op = "apply" => workers[w].step \in {"look", "keep", "run", "fail"},
         ~broken' /\ ~broken /\ workers[w].op = "revert" => workers[w].step = "restore"
  PROVE  ListInv'
<1>1. workers' = [workers EXCEPT ![w] = Resting] /\ workers \in [Workers -> WorkerStates] /\ Of(w) \in Imports
  BY CallTypes DEF Rest, ListInv, ListTypeOK
<1>2. /\ workers'[w] = Resting
      /\ \A v \in Workers \ {w} : workers'[v] = workers[v]
  BY <1>1
<1>3. workers'[w].op = "none" /\ ~ChangesList(w)'
  BY <1>2 DEF Resting, ChangesList
<1>4. Alone' /\ CallsFitRows'
  BY <1>2, <1>3, CallGoesOn
<1>5. /\ WellDated(imports)'
      /\ InForce(sheet', imports') = InForce(sheet, imports)
      /\ GoesBack(sheet, imports) => GoesBack(sheet', imports')
  BY RowsKeep DEF ListTypeOK, ImportRows, AppliedOf
<1>6. CASE ChangesList(w)
  <2>1. ASSUME ~broken' PROVE offers = InForce(sheet, imports)
    BY <1>6, <2>1 DEF ListInv, ListFits, Applying, Reverting, ChangesList
  <2> QED BY <1>2, <1>3, <1>4, <1>5, <1>6, <2>1, OneChanges, ListMoves DEF ListInv, ChangesList
<1>7. CASE ~ChangesList(w)
  <2>1. \A v \in Workers : ChangesList(v) \/ ChangesList(v)' => workers'[v] = workers[v]
    BY <1>2, <1>3, <1>7
  <2>2. CASE broken' = broken
    BY <1>2, <1>4, <1>5, <2>1, <2>2, ListKeeps DEF ListInv
  <2>3. CASE broken' # broken
    <3>1. broken'
      BY <2>3 DEF ListInv, ListTypeOK
    <3> QED BY <3>1, <1>4, <1>5 DEF ListInv
  <2> QED BY <2>2, <2>3
<1> QED BY <1>6, <1>7

LEMMA MarkFailedKeeps == ASSUME ListInv, NEW w \in Workers, MarkFailed(w) PROVE ListInv'
<1>1. /\ workers[w].op = "apply" /\ workers[w].step = "fail" /\ Rest(w)
      /\ imports' = [imports EXCEPT ![Of(w)].status = "FAILED"]
      /\ sheet' = sheet /\ offers' = offers /\ syncRun' = syncRun /\ broken' = broken
  BY DEF MarkFailed, Doing, Mark
<1>2. ~IsIdle(w) /\ Of(w) \in Imports /\ imports[Of(w)].status # "APPLIED"
  BY <1>1, CallTypes DEF ListInv, CallsFitRows
<1>3. ListTypeOK'
  BY <1>1 DEF ListInv, ListTypeOK, Rest, WorkerStates, Statuses
<1>4. /\ \A k \in Imports \ {Of(w)} : imports'[k] = imports[k]
      /\ imports'[Of(w)].at = imports[Of(w)].at /\ imports'[Of(w)].photograph = imports[Of(w)].photograph
      /\ AppliedOf(imports') = AppliedOf(imports) /\ imports'[Of(w)].status = "FAILED"
  BY <1>1, <1>2 DEF ListInv, ListTypeOK, AppliedOf
<1> QED BY <1>1, <1>2, <1>3, <1>4, CallEnds

LEMMA ProcessStopsKeeps == ASSUME ListInv, NEW w \in Workers, ProcessStops(w) PROVE ListInv'
<1>1. /\ ~IsIdle(w) /\ Rest(w) /\ FreeRun(w)
      /\ broken' = (broken \/ (ChangesList(w) /\ workers[w].step \notin {"look", "keep", "run"}))
      /\ imports' = imports /\ sheet' = sheet /\ offers' = offers
  BY DEF ProcessStops
<1>2. ListTypeOK'
  BY <1>1 DEF ListInv, ListTypeOK, Rest, WorkerStates, FreeRun
<1>3. workers[w].op # "revert" => imports'[Of(w)].status # "none"
  BY <1>1, CallTypes DEF ListInv, CallsFitRows
<1>4. ~broken' => ~ChangesList(w) \/ workers[w].step \in {"look", "keep", "run"}
  BY <1>1 DEF ListInv, ListTypeOK
<1>5. workers[w].op = "revert" => workers[w].step \in {"restore", "mark"}
  BY CallTypes DEF ListInv, Reverts
<1> QED BY <1>1, <1>2, <1>3, <1>4, <1>5, CallEnds DEF ChangesList

LEMMA CallThrowsKeeps == ASSUME ListInv, NEW w \in Workers, CallThrows(w) PROVE ListInv'
<1>1. /\ ~IsIdle(w) /\ Rest(w)
      /\ ~(workers[w].op = "apply" /\ workers[w].step \in {"run", "write", "hide"})
      /\ IF InBackground(w) THEN Mark(Of(w), "FAILED") ELSE imports' = imports
      /\ broken' = (broken \/ (ChangesList(w) /\ workers[w].step \in {"mark", "fail"}) \/ Doing(w, "apply", "restore"))
      /\ sheet' = sheet /\ offers' = offers /\ syncRun' = syncRun
  BY DEF CallThrows
<1>2. Of(w) \in Imports /\ (workers[w].op # "revert" => imports[Of(w)].status \notin {"none", "APPLIED"})
  BY <1>1, CallTypes DEF ListInv, CallsFitRows
<1>3. imports' = imports \/ (workers[w].op # "revert" /\ imports' = [imports EXCEPT ![Of(w)].status = "FAILED"])
  BY <1>1 DEF InBackground, Mark
<1>4. ListTypeOK'
  BY <1>1, <1>3 DEF ListInv, ListTypeOK, Rest, WorkerStates, Statuses
<1>5. /\ \A k \in Imports \ {Of(w)} : imports'[k] = imports[k]
      /\ imports'[Of(w)].at = imports[Of(w)].at /\ imports'[Of(w)].photograph = imports[Of(w)].photograph
      /\ AppliedOf(imports') = AppliedOf(imports)
      /\ workers[w].op # "revert" => imports'[Of(w)].status # "none"
  BY <1>2, <1>3 DEF ListInv, ListTypeOK, AppliedOf
<1>6. ASSUME ~broken'
      PROVE  /\ workers[w].op = "apply" => workers[w].step \in {"look", "keep", "run", "fail"}
             /\ workers[w].op = "revert" => workers[w].step = "restore"
  <2>1. /\ workers[w].op = "apply" => workers[w].step \in ApplySteps
        /\ workers[w].op = "revert" => workers[w].step \in {"restore", "mark"}
    BY CallTypes DEF ListInv, Reverts, Applies
  <2> QED BY <1>1, <1>6, <2>1 DEF Doing, ChangesList, ApplySteps
<1>7. broken => broken'
  BY <1>1
<1> QED BY <1>1, <1>4, <1>5, <1>6, <1>7, CallEnds

LEMMA MarkAppliedKeeps == ASSUME ListInv, NEW w \in Workers, MarkApplied(w) PROVE ListInv'
<1> DEFINE i == Of(w)
<1>1. /\ workers[w].op = "apply" /\ workers[w].step = "mark" /\ Rest(w)
      /\ imports' = [imports EXCEPT ![i].status = "APPLIED", ![i].read = FALSE, ![i].at = LastDate + 1]
      /\ sheet' = sheet /\ offers' = offers /\ syncRun' = syncRun /\ broken' = broken
  BY DEF MarkApplied, Doing
<1>2. /\ workers[w] \in Applies /\ workers \in [Workers -> WorkerStates] /\ imports \in ImportRows
      /\ i \in Imports \ AppliedOf(imports) /\ ~IsIdle(w) /\ ChangesList(w) /\ workers[w].import = i
  BY <1>1, CallTypes DEF ListInv, ListTypeOK, CallsFitRows, ChangesList, Of, AppliedOf, ImportRows
<1>3. /\ LastDate \in Nat
      /\ \A k \in AppliedOf(imports) : imports[k].at <= LastDate
  <2>1. CASE AppliedOf(imports) = {}
    BY <2>1 DEF LastDate, AppliedImports, AppliedOf
  <2>2. CASE AppliedOf(imports) # {}
    <3>1. PICK k \in Imports : IsNewest(imports, k, AppliedOf(imports))
      BY <2>2 DEF ListInv, WellDated
    <3>2. NewestOf(imports, AppliedOf(imports)) = k
      BY <3>1, <1>2, NewestIs DEF ListInv
    <3>3. LastDate = imports[k].at
      BY <2>2, <3>2 DEF LastDate, AppliedImports, AppliedOf, Newest, NewestOf
    <3> QED BY <3>1, <3>3, <1>2 DEF IsNewest, ImportRows
  <2> QED BY <2>1, <2>2
<1> HIDE DEF i
<1>4. /\ workers'[w] = Resting
      /\ \A v \in Workers \ {w} : workers'[v] = workers[v]
  BY <1>1, <1>2 DEF Rest
<1>5. workers'[w].op = "none" /\ ~ChangesList(w)'
  BY <1>4 DEF Resting, ChangesList
<1>6. imports' \in ImportRows
  <2> DEFINE row == [imports[i] EXCEPT !.status = "APPLIED", !.read = FALSE, !.at = LastDate + 1]
  <2>1. imports' = [imports EXCEPT ![i] = row]
    BY <1>1, <1>2 DEF ImportRows
  <2>2. row \in [status : Statuses, read : BOOLEAN, photograph : Lists, at : Nat]
    <3>1. imports[i] \in [status : Statuses, read : BOOLEAN, photograph : Lists, at : Nat]
      BY <1>2 DEF ImportRows
    <3>2. LastDate + 1 \in Nat /\ "APPLIED" \in Statuses
      BY <1>3 DEF Statuses
    <3> QED BY <3>1, <3>2
  <2> HIDE DEF row
  <2> QED BY <1>2, <2>1, <2>2 DEF ImportRows
<1>7. ListTypeOK'
  BY <1>1, <1>2, <1>6 DEF ListInv, ListTypeOK, ImportRows, Rest, WorkerStates
<1>8. /\ \A k \in Imports \ {i} : imports'[k] = imports[k]
      /\ imports'[i].status = "APPLIED" /\ imports'[i].at = LastDate + 1
      /\ imports'[i].photograph = imports[i].photograph
      /\ AppliedOf(imports') = AppliedOf(imports) \cup {i}
  BY <1>1, <1>2 DEF AppliedOf, ImportRows
<1>9. \A k \in AppliedOf(imports) : /\ imports'[k].at = imports[k].at /\ imports'[k].photograph = imports[k].photograph
                                    /\ imports[k].at < imports'[i].at
  BY <1>2, <1>3, <1>8 DEF AppliedOf, ImportRows
<1>10. /\ WellDated(imports')
       /\ InForce(sheet, imports') = ListOn(sheet, imports[i].photograph, i)
       /\ GoesBack(sheet, imports) /\ imports[i].photograph = InForce(sheet, imports) => GoesBack(sheet, imports')
  <2>1. WellDated(imports)
    BY DEF ListInv
  <2>2. /\ WellDated(imports')
        /\ ListOf(sheet, imports', AppliedOf(imports')) = ListOn(sheet, imports'[i].photograph, i)
        /\ GoesBack(sheet, imports) /\ imports'[i].photograph = ListOf(sheet, imports, AppliedOf(imports)) =>
             GoesBack(sheet, imports')
    BY <1>2, <1>6, <1>8, <1>9, <2>1, AppliedComesLast
  <2> QED BY <2>2, <1>8 DEF InForce
<1>11. \A v \in Workers \ {w} : ~IsIdle(v) => Of(v) \in Imports \ {i} /\ ~ChangesList(v)
  BY <1>2, OneChanges, CallTypes DEF ListInv, Alone, i
<1>12. Alone'
  BY <1>4, <1>5, <1>7, AloneKeeps DEF ListInv
<1>13. CallsFitRows'
  <2> SUFFICES ASSUME NEW v \in Workers
               PROVE  /\ workers'[v].op \in {"read", "again", "discard", "apply"} =>
                           imports'[workers'[v].import].status \notin {"none", "APPLIED"}
                      /\ workers'[v].op # "revert"
    BY DEF CallsFitRows, Of
  <2>1. CASE v = w
    BY <2>1, <1>5
  <2>2. CASE v # w
    <3>1. workers'[v] = workers[v] /\ (workers[v].op # "none" => Of(v) \in Imports \ {i} /\ ~ChangesList(v))
      BY <2>2, <1>4, <1>11, CallTypes DEF ListInv
    <3> QED BY <3>1, <1>8 DEF ListInv, CallsFitRows, ChangesList, Of
  <2> QED BY <2>1, <2>2
<1>14. ASSUME ~broken PROVE GoesBack(sheet, imports') /\ offers = InForce(sheet, imports')
  <2>1. Applying(workers[w], offers, imports[i].photograph, InForce(sheet, imports), sheet[i])
    BY <1>1, <1>14 DEF ListInv, ListFits, i
  <2>2. /\ imports[i].photograph = InForce(sheet, imports)
        /\ offers = ListOn(sheet, InForce(sheet, imports), i)
    BY <1>1, <1>2, <2>1 DEF Applying, ListOn
  <2> QED BY <2>2, <1>10, <1>14 DEF ListInv
<1>15. WellDated(imports)' /\ (~broken' => GoesBack(sheet, imports)')
  BY <1>1, <1>10, <1>14
<1> QED BY <1>1, <1>2, <1>4, <1>5, <1>7, <1>12, <1>13, <1>14, <1>15, OneChanges, ListMoves DEF ChangesList

LEMMA RestoreRevertedKeeps == ASSUME ListInv, NEW w \in Workers, RestoreReverted(w) PROVE ListInv'
<1> DEFINE call == [workers[w] EXCEPT !.step = "mark"]
<1>1. /\ workers[w].op = "revert" /\ workers[w].step = "restore"
      /\ workers' = [Dated(Codes) EXCEPT ![w].step = "mark"]
      /\ offers' = workers[w].photograph
      /\ imports' = imports /\ sheet' = sheet /\ syncRun' = syncRun /\ broken' = broken
  BY DEF RestoreReverted, Doing
<1>2. /\ workers[w] \in Reverts /\ workers[w].photograph \in Lists /\ ~IsIdle(w) /\ ChangesList(w)
  BY <1>1, CallTypes DEF ListInv, ListTypeOK, Reverts, ChangesList
<1>3. /\ Dated(Codes) \in [Workers -> WorkerStates] /\ Dated(Codes)[w] = workers[w]
      /\ \A v \in Workers : Dated(Codes)[v].op = workers[v].op /\ Dated(Codes)[v].import = workers[v].import
  BY <1>1, DatedKeeps DEF ListInv
<1>4. /\ workers'[w] = call
      /\ \A v \in Workers \ {w} : workers'[v] = Dated(Codes)[v]
  BY <1>1, <1>3
<1>5. call \in Reverts
  BY <1>2 DEF Reverts
<1>6. workers' \in [Workers -> WorkerStates]
  BY <1>1, <1>3, <1>4, <1>5 DEF WorkerStates
<1>7. call.op = "revert" /\ call.import = workers[w].import /\ call.step = "mark"
  BY <1>1, <1>2 DEF Reverts
<1> HIDE DEF call
<1>8. ListTypeOK'
  BY <1>1, <1>2, <1>6 DEF ListInv, ListTypeOK
<1>9. Alone' /\ CallsFitRows'
  BY <1>1, <1>2, <1>3, <1>4, <1>7, <1>8, CallGoesOn
<1>10. /\ WellDated(imports)'
       /\ ~broken' => GoesBack(sheet, imports)'
  BY <1>1 DEF ListInv
<1>11. ASSUME ~broken
       PROVE  Reverting(call, offers', imports'[call.import].photograph, InForce(sheet', imports'))
  <2>1. Reverting(workers[w], offers, imports[Of(w)].photograph, InForce(sheet, imports))
    BY <1>1, <1>11 DEF ListInv, ListFits
  <2> QED BY <2>1, <1>1, <1>7 DEF Reverting, Of
<1> QED BY <1>1, <1>2, <1>3, <1>4, <1>7, <1>8, <1>9, <1>10, <1>11, OneChanges, ListMoves DEF ChangesList

LEMMA MarkRevertedKeeps == ASSUME ListInv, NEW w \in Workers, MarkReverted(w) PROVE ListInv'
<1> DEFINE i == Of(w)
<1>1. /\ workers[w].op = "revert" /\ workers[w].step = "mark" /\ Rest(w)
      /\ imports' = [imports EXCEPT ![i].status = "REVERTED"]
      /\ sheet' = sheet /\ offers' = offers /\ syncRun' = syncRun /\ broken' = broken
  BY DEF MarkReverted, Doing, Mark
<1>2. /\ workers \in [Workers -> WorkerStates] /\ imports \in ImportRows
      /\ i \in Imports /\ IsNewest(imports, i, AppliedOf(imports)) /\ ~IsIdle(w) /\ ChangesList(w)
  BY <1>1, CallTypes DEF ListInv, ListTypeOK, CallsFitRows, ChangesList, ImportRows
<1> HIDE DEF i
<1>4. /\ workers'[w] = Resting
      /\ \A v \in Workers \ {w} : workers'[v] = workers[v]
  BY <1>1, <1>2 DEF Rest
<1>5. workers'[w].op = "none" /\ ~ChangesList(w)'
  BY <1>4 DEF Resting, ChangesList
<1>6. imports' \in ImportRows
  BY <1>1, <1>2 DEF ImportRows, Statuses
<1>7. ListTypeOK'
  BY <1>1, <1>2, <1>6 DEF ListInv, ListTypeOK, ImportRows, Rest, WorkerStates
<1>8. /\ \A k \in Imports \ {i} : imports'[k] = imports[k]
      /\ AppliedOf(imports') = AppliedOf(imports) \ {i}
  BY <1>1, <1>2 DEF AppliedOf, ImportRows
<1>9. \A k \in AppliedOf(imports') : imports'[k].at = imports[k].at /\ imports'[k].photograph = imports[k].photograph
  BY <1>8 DEF AppliedOf
<1>10. /\ WellDated(imports')
       /\ GoesBack(sheet, imports) =>
            GoesBack(sheet, imports') /\ InForce(sheet, imports') = imports[i].photograph
  BY <1>2, <1>6, <1>8, <1>9, RevertedWasLast DEF ListInv, InForce
<1>11. \A v \in Workers \ {w} : ~IsIdle(v) => Of(v) \in Imports \ {i} /\ ~ChangesList(v)
  BY <1>2, OneChanges, CallTypes DEF ListInv, Alone, i
<1>12. Alone'
  BY <1>4, <1>5, <1>7, AloneKeeps DEF ListInv
<1>13. CallsFitRows'
  <2> SUFFICES ASSUME NEW v \in Workers
               PROVE  /\ workers'[v].op \in {"read", "again", "discard", "apply"} =>
                           imports'[workers'[v].import].status \notin {"none", "APPLIED"}
                      /\ workers'[v].op # "revert"
    BY DEF CallsFitRows, Of
  <2>1. CASE v = w
    BY <2>1, <1>5
  <2>2. CASE v # w
    <3>1. workers'[v] = workers[v] /\ (workers[v].op # "none" => Of(v) \in Imports \ {i} /\ ~ChangesList(v))
      BY <2>2, <1>4, <1>11, CallTypes DEF ListInv
    <3> QED BY <3>1, <1>8 DEF ListInv, CallsFitRows, ChangesList, Of
  <2> QED BY <2>1, <2>2
<1>14. ASSUME ~broken PROVE GoesBack(sheet, imports') /\ offers = InForce(sheet, imports')
  <2>1. Reverting(workers[w], offers, imports[i].photograph, InForce(sheet, imports))
    BY <1>1, <1>14 DEF ListInv, ListFits, i
  <2> QED BY <2>1, <1>1, <1>10, <1>14 DEF ListInv, Reverting
<1>15. WellDated(imports)' /\ (~broken' => GoesBack(sheet, imports)')
  BY <1>1, <1>10, <1>14
<1> QED BY <1>1, <1>2, <1>4, <1>5, <1>7, <1>12, <1>13, <1>14, <1>15, OneChanges, ListMoves DEF ChangesList

-----------------------------------------------------------------------------
LEMMA NextListInv ==
  ASSUME MayOverlap = FALSE PROVE ListInv /\ [ListNext]_listVars => ListInv'
<1> SUFFICES ASSUME ListInv, [ListNext]_listVars PROVE ListInv'
  OBVIOUS
<1>1. CASE UNCHANGED listVars
  BY <1>1 DEF listVars, ListInv, ListTypeOK, Alone, CallsFitRows, ListFits, ChangesList, IsIdle, Of
<1>2. ASSUME NEW w \in Workers, NEW i \in Imports,
             Upload(w, i) \/ Apply(w, i) \/ StartRevert(w, i) \/ Check(w, i, "again") \/ Check(w, i, "discard")
      PROVE  ListInv'
  BY <1>2, UploadKeeps, ApplyKeeps, StartRevertKeeps, CheckKeeps
<1>3. ASSUME NEW w \in Workers, ApplyStep(w) PROVE ListInv'
  BY <1>3, TakePhotographKeeps, KeepPhotographKeeps, StartSyncKeeps, WriteOfferKeeps, FinishSyncKeeps, HideMissingKeeps,
     MarkAppliedKeeps, RestoreKeeps, MarkFailedKeeps, ApplyThrowsKeeps DEF ApplyStep
<1>4. ASSUME NEW w \in Workers,
             \/ StoreRows(w) \/ ReadAgain(w) \/ Discard(w)
             \/ RestoreReverted(w) \/ MarkReverted(w) \/ CallThrows(w) \/ ProcessStops(w)
      PROVE  ListInv'
  BY <1>4, StoreRowsKeeps, ReadAgainKeeps, DiscardKeeps, RestoreRevertedKeeps, MarkRevertedKeeps, CallThrowsKeeps,
     ProcessStopsKeeps
<1>5. ASSUME NEW i \in Imports, FailStuck(i) PROVE ListInv'
  BY <1>5, FailStuckKeeps
<1> QED BY <1>1, <1>2, <1>3, <1>4, <1>5 DEF ListNext

(* While calls do not overlap, every step keeps the list and the dates of  *)
(* application in the order that the rest of this section needs.           *)
THEOREM ListInvariant == ASSUME MayOverlap = FALSE PROVE ListSpec => []ListInv
<1>1. ListInv /\ [ListNext]_listVars => ListInv'
  BY NextListInv
<1> QED BY InitListInv, <1>1, PTL DEF ListSpec

(* A load that fails leaves nothing applied in part: when nobody changes   *)
(* the list, it is the one of the last import that is applied.             *)
THEOREM NoListInPart == ASSUME MayOverlap = FALSE PROVE ListSpec => []ListIsWhole
<1>1. ListInv => ListIsWhole
  BY DEF ListInv, ListFits, ListIsWhole, InForce, ListOf, ListOn, ListAfter, AppliedList, AppliedImports, AppliedOf,
         Newest, NewestOf
<1> QED BY ListInvariant, <1>1, PTL

(* Reverting imports one after the other undoes them all, however many.    *)
THEOREM RevertingUndoes == ASSUME MayOverlap = FALSE PROVE ListSpec => []RevertsGoBack
<1>1. ListInv => RevertsGoBack
  BY DEF ListInv, GoesBack, RevertsGoBack, ListOf, ListOn, ListAfter, AppliedImports, AppliedOf, OlderOf, Newest, NewestOf
<1> QED BY ListInvariant, <1>1, PTL

-----------------------------------------------------------------------------
(* The shares of a cart.  Quantities and shares are sums, which saves and  *)
(* orders build line by line and share by share.                           *)
Shares == [Authors -> Nat]
CartLine == [qty : Nat, by : Shares]

OrderFits ==
  order # NothingOrdered => /\ DOMAIN order = {"who", "people", "qty", "rest", "open"}
                            /\ order.who \in People /\ order.people \subseteq Authors /\ order.qty \in Nat

(* The shares of a stored line that has authors add up.                    *)
Whole(line) == line.by # NoShares => Total(line.by, Authors) = line.qty

SharesInv ==
  /\ lines \in [Lines -> CartLine]
  /\ \A l \in Lines : Whole(lines[l])
  /\ OrderFits

LEMMA SharesAreFinite == IsFiniteSet(Authors) /\ IsFiniteSet(Lines) /\ Lines \subseteq Nat /\ LastLine \in Nat
<1>1. IsFiniteSet(Authors)
  BY CartSharesAssumption, FS_AddElement DEF Authors
<1>2. LastLine \in Nat /\ IsFiniteSet(1..LastLine)
  BY CartSharesAssumption, FS_Interval
<1> QED BY <1>1, <1>2 DEF Lines

LEMMA SharesTotal ==
  ASSUME NEW by \in Shares
  PROVE  TotalShares(by) = Total(by, Authors) /\ Total(by, Authors) \in Nat
<1>1. SumFunction(by) = SumFunctionOnSet(by, Authors)
  BY DEF SumFunction, Shares
<1>2. Total(by, Authors) \in Nat
  BY SharesAreFinite, TotalIsNat DEF Shares
<1> QED BY <1>1, <1>2, SumIsTotal DEF TotalShares

LEMMA NoSharesAre == NoShares \in Shares /\ Total(NoShares, Authors) = 0 /\ NoLine \in CartLine
<1>1. NoShares \in Shares /\ \A a \in Authors : NoShares[a] = 0
  BY DEF NoShares, Shares
<1>2. Total(NoShares, Authors) = 0
  BY <1>1, SharesAreFinite, TotalOfZeros
<1> QED BY <1>1, <1>2 DEF NoLine, CartLine

(* One share that changes.                                                 *)
LEMMA OneShare ==
  ASSUME NEW by \in Shares, NEW a \in Authors, NEW n \in Nat
  PROVE  /\ [by EXCEPT ![a] = n] \in Shares
         /\ Total([by EXCEPT ![a] = n], Authors) = Total(by, Authors) - by[a] + n
<1> DEFINE h == [by EXCEPT ![a] = n]
<1>1. h \in Shares /\ h[a] = n /\ \A x \in Authors \ {a} : by[x] = h[x]
  BY DEF Shares
<1>2. \A x \in Authors : by[x] \in Int /\ h[x] \in Int
  BY <1>1 DEF Shares
<1> HIDE DEF h
<1>3. Total(h, Authors) = Total(by, Authors) - by[a] + h[a]
  BY <1>1, <1>2, SharesAreFinite, TotalOfChange
<1> QED BY <1>1, <1>3 DEF h

(* sharesOf accounts for every unit of a line.                             *)
LEMMA SharesOfAdds ==
  ASSUME NEW line \in CartLine
  PROVE  SharesOf(line) \in Shares /\ Total(SharesOf(line), Authors) = line.qty
<1> DEFINE by == line.by
           n == line.qty
           total == TotalShares(line.by)
<1>1. by \in Shares /\ n \in Nat /\ total = Total(by, Authors) /\ total \in Nat
  BY SharesTotal DEF CartLine
<1>2. Unknown \in Authors
  BY DEF Authors
<1>3. CASE total = n
  BY <1>1, <1>3 DEF SharesOf
<1>4. CASE total # n /\ (total > n \/ total = 0)
  <2>1. SharesOf(line) = [NoShares EXCEPT ![Unknown] = n]
    BY <1>4 DEF SharesOf, Only
  <2>2. NoShares[Unknown] = 0
    BY <1>2 DEF NoShares
  <2> HIDE DEF by, n, total
  <2>3. /\ SharesOf(line) \in Shares
        /\ Total(SharesOf(line), Authors) = Total(NoShares, Authors) - NoShares[Unknown] + n
    BY <1>1, <1>2, <2>1, NoSharesAre, OneShare, Zenon
  <2>4. Total(NoShares, Authors) = 0
    BY NoSharesAre
  <2>5. Total(SharesOf(line), Authors) = n
    BY <1>1, <2>2, <2>3, <2>4
  <2> QED BY <2>3, <2>5 DEF n
<1>5. CASE total # n /\ ~(total > n \/ total = 0)
  <2> DEFINE m == by[Unknown] + n - total
  <2>1. SharesOf(line) = [by EXCEPT ![Unknown] = m]
    BY <1>5 DEF SharesOf
  <2>2. by[Unknown] \in Nat /\ m \in Nat
    BY <1>1, <1>2, <1>5 DEF Shares
  <2> HIDE DEF by, n, total, m
  <2>3. SharesOf(line) \in Shares /\ Total(SharesOf(line), Authors) = Total(by, Authors) - by[Unknown] + m
    BY <1>1, <1>2, <2>1, <2>2, OneShare
  <2>4. Total(by, Authors) - by[Unknown] + m = n
    BY <1>1, <2>2 DEF m
  <2> QED BY <2>3, <2>4 DEF n
<1> QED BY <1>3, <1>4, <1>5

(* A line whose shares add up says who has what.                           *)
LEMMA SharesOfWhole ==
  ASSUME NEW line \in CartLine, Total(line.by, Authors) = line.qty
  PROVE  SharesOf(line) = line.by
BY SharesTotal DEF SharesOf, CartLine

(* The units of a person.                                                  *)
UnitsAre(a, cart) == [l \in Lines |-> SharesOf(cart[l])[a]]

LEMMA UnitsTotal ==
  ASSUME NEW cart \in [Lines -> CartLine], NEW a \in Authors
  PROVE  /\ Units(a, cart) = Total(UnitsAre(a, cart), Lines)
         /\ Units(a, cart) \in Nat /\ \A l \in Lines : UnitsAre(a, cart)[l] \in Nat
<1>1. \A l \in Lines : UnitsAre(a, cart)[l] \in Nat
  BY SharesOfAdds DEF UnitsAre, Shares
<1>2. Units(a, cart) = Total(UnitsAre(a, cart), Lines)
  <2>1. Units(a, cart) = SumFunctionOnSet(UnitsAre(a, cart), Lines)
    BY DEF Units, UnitsAre, SumFunction
  <2> QED BY <2>1, SumIsTotal
<1> QED BY <1>1, <1>2, SharesAreFinite, TotalIsNat

(* Saving: one share that is claimed for another person.                   *)
Claims == [claimed : Shares, pool : Shares, by : Shares, left : Nat]

LEMMA LeastOfThree ==
  ASSUME NEW x \in Nat, NEW y \in Nat, NEW z \in Nat
  PROVE  LET m == Min({x, y, z}) IN m \in Nat /\ m <= x /\ m <= y /\ m <= z
<1>1. \E m \in {x, y, z} : \A k \in {x, y, z} : m <= k
  OBVIOUS
<1> QED BY <1>1 DEF Min

LEMMA ClaimIs ==
  ASSUME NEW acc \in Claims, NEW a \in Authors
  PROVE  /\ ClaimShare(acc, a) \in Claims
         /\ \E n \in Nat :
              /\ n <= acc.pool[a] /\ n <= acc.left
              /\ ClaimShare(acc, a).by = [acc.by EXCEPT ![a] = n]
              /\ ClaimShare(acc, a).pool = [acc.pool EXCEPT ![a] = @ - n]
              /\ ClaimShare(acc, a).left = acc.left - n
<1> DEFINE n == Min({acc.claimed[a], acc.pool[a], acc.left})
<1>1. acc.claimed[a] \in Nat /\ acc.pool[a] \in Nat /\ acc.left \in Nat /\ acc.by \in Shares /\ acc.pool \in Shares
  BY DEF Claims, Shares
<1>2. n \in Nat /\ n <= acc.pool[a] /\ n <= acc.left
  BY <1>1, LeastOfThree
<1>3. ClaimShare(acc, a) = [acc EXCEPT !.by[a] = n, !.pool[a] = @ - n, !.left = @ - n]
  BY DEF ClaimShare
<1> HIDE DEF n
<1>4. /\ ClaimShare(acc, a).by = [acc.by EXCEPT ![a] = n]
      /\ ClaimShare(acc, a).pool = [acc.pool EXCEPT ![a] = @ - n]
      /\ ClaimShare(acc, a).left = acc.left - n
      /\ ClaimShare(acc, a).claimed = acc.claimed
  BY <1>3 DEF Claims
<1>5. [acc.by EXCEPT ![a] = n] \in Shares /\ [acc.pool EXCEPT ![a] = @ - n] \in Shares /\ acc.left - n \in Nat
  BY <1>1, <1>2 DEF Shares
<1>6. ClaimShare(acc, a) \in Claims
  BY <1>3, <1>5 DEF Claims
<1> QED BY <1>2, <1>4, <1>6

(* The claims of a line, one after the other.                              *)
Claiming(base, keys, g) ==
  [s \in SUBSET DOMAIN keys |-> IF s = {} THEN base ELSE ClaimShare(g[s \ {Max(s)}], keys[Max(s)])]

LEMMA ClaimsFold ==
  ASSUME NEW base \in Claims, NEW n \in Nat, NEW keys \in [1..n -> Authors]
  PROVE  \E r \in [0..n -> Claims] :
           /\ r[0] = base /\ r[n] = FoldLeft(ClaimShare, base, keys)
           /\ \A k \in 1..n : r[k] = ClaimShare(r[k - 1], keys[k])
<1> DEFINE F == [q \in Claims \X (1..n) |-> ClaimShare(q[1], keys[q[2]])]
           it == CHOOSE g : g = Claiming(base, keys, g)
<1>1. F \in [Claims \X (1..n) -> Claims] /\ \A c \in Claims, k \in 1..n : F[<<c, k>>] = ClaimShare(c, keys[k])
  BY ClaimIs
<1>2. \A s \in SUBSET (1..n) : s # {} => Max(s) \in 1..n /\ s \ {Max(s)} \in SUBSET (1..n)
  BY MaxUpToIs
<1> HIDE DEF F
<1>3. PICK g \in [SUBSET (1..n) -> Claims] : LastFirst(g, n, base, F)
  BY <1>1, FoldExists
<1>4. g = Claiming(base, keys, g)
  <2>1. \A s \in SUBSET (1..n) : g[s] = IF s = {} THEN base ELSE ClaimShare(g[s \ {Max(s)}], keys[Max(s)])
    BY <1>1, <1>2, <1>3 DEF LastFirst
  <2>2. g = [s \in SUBSET (1..n) |-> g[s]] /\ DOMAIN keys = 1..n
    BY <1>3
  <2> QED BY <2>1, <2>2 DEF Claiming
<1>5. it = Claiming(base, keys, it)
  BY <1>4
<1>6. FoldLeft(ClaimShare, base, keys) = it[DOMAIN keys]
  BY DEF FoldLeft, MapThenFoldSet, Claiming
<1> HIDE DEF it
<1>7. \A s \in SUBSET (1..n) : it[s] = IF s = {} THEN base ELSE ClaimShare(it[s \ {Max(s)}], keys[Max(s)])
  BY <1>5 DEF Claiming
<1>8. it[{}] = base /\ \A s \in SUBSET (1..n) :
        s # {} /\ it[s \ {Max(s)}] \in Claims => it[s] = F[<<it[s \ {Max(s)}], Max(s)>>]
  BY <1>1, <1>2, <1>7
<1>9. Stepwise(n, Claims, base, F, it[1..n])
  BY <1>1, <1>8, FoldSteps
<1>10. it[1..n] = FoldLeft(ClaimShare, base, keys)
  BY <1>6
<1>11. PICK r \in [0..n -> Claims] : /\ r[0] = base /\ r[n] = it[1..n]
                                     /\ \A k \in 1..n : r[k] = F[<<r[k - 1], k>>]
  BY <1>9 DEF Stepwise
<1>12. \A k \in 1..n : r[k - 1] \in Claims
  BY <1>11
<1>13. \A k \in 1..n : r[k] = ClaimShare(r[k - 1], keys[k])
  <2> TAKE k \in 1..n
  <2>1. r[k - 1] \in Claims /\ r[k] = F[<<r[k - 1], k>>]
    BY <1>11, <1>12
  <2>2. F[<<r[k - 1], k>>] = ClaimShare(r[k - 1], keys[k])
    BY <1>1, <2>1
  <2> QED BY <2>1, <2>2
<1>14. r[0] = base /\ r[n] = FoldLeft(ClaimShare, base, keys)
  BY <1>10, <1>11
<1> QED BY <1>11, <1>13, <1>14

(* What the claims so far leave: every unit of the line is somebody's or   *)
(* left, what a person gets is out of the pool of theirs, and those who    *)
(* were not visited have nothing.                                          *)
Accounted(acc, base, visited) ==
  /\ Total(acc.by, Authors) + acc.left = base.left
  /\ \A a \in Authors : acc.by[a] + acc.pool[a] = base.pool[a]
  /\ \A a \in Authors \ visited : acc.by[a] = 0

LEMMA ClaimAccounts ==
  ASSUME NEW base \in Claims, NEW acc \in Claims, NEW visited \in SUBSET Authors, NEW a \in Authors \ visited,
         Accounted(acc, base, visited)
  PROVE  Accounted(ClaimShare(acc, a), base, visited \cup {a})
<1> DEFINE next == ClaimShare(acc, a)
<1>1. PICK n \in Nat : /\ n <= acc.pool[a] /\ n <= acc.left
                       /\ next.by = [acc.by EXCEPT ![a] = n]
                       /\ next.pool = [acc.pool EXCEPT ![a] = @ - n]
                       /\ next.left = acc.left - n
  BY ClaimIs
<1> HIDE DEF next
<1>2. acc.by \in Shares /\ acc.pool \in Shares /\ acc.left \in Nat /\ acc.by[a] = 0
  BY DEF Claims, Accounted
<1>3. Total(next.by, Authors) = Total(acc.by, Authors) + n /\ Total(acc.by, Authors) \in Nat
  BY <1>1, <1>2, OneShare, SharesTotal
<1>4. Total(next.by, Authors) + next.left = base.left
  <2>1. Total(acc.by, Authors) + acc.left = base.left
    BY DEF Accounted
  <2> QED BY <1>1, <1>2, <1>3, <2>1
<1>5. \A x \in Authors : next.by[x] + next.pool[x] = base.pool[x]
  <2> TAKE x \in Authors
  <2>1. acc.by[x] + acc.pool[x] = base.pool[x] /\ acc.by[x] \in Nat /\ acc.pool[x] \in Nat
    BY <1>2 DEF Accounted, Shares
  <2>2. CASE x = a
    BY <1>1, <1>2, <2>1, <2>2 DEF Shares
  <2>3. CASE x # a
    BY <1>1, <1>2, <2>1, <2>3 DEF Shares
  <2> QED BY <2>2, <2>3
<1>6. \A x \in Authors \ (visited \cup {a}) : next.by[x] = 0
  BY <1>1, <1>2 DEF Accounted, Shares
<1> QED BY <1>4, <1>5, <1>6 DEF Accounted, next

(* All the claims of a line that p saves.                                  *)
LEMMA AllClaims ==
  ASSUME NEW p \in Authors, NEW keys \in SetToSeqs(Authors \ {p}), NEW base \in Claims, base.by = NoShares
  PROVE  /\ FoldLeft(ClaimShare, base, keys) \in Claims
         /\ Accounted(FoldLeft(ClaimShare, base, keys), base, Authors \ {p})
<1> DEFINE others == Authors \ {p}
           n == Cardinality(others)
           seen(k) == {keys[i] : i \in 1..k}
<1>1. n \in Nat /\ keys \in [1..n -> others] /\ \A i, j \in 1..n : keys[i] = keys[j] => i = j
  <2>1. IsFiniteSet(others)
    BY SharesAreFinite, FS_Subset
  <2>2. n \in Nat
    BY <2>1, FS_CardinalityType
  <2>3. keys \in [1..n -> others] /\ \A i, j \in 1..n : i # j => keys[i] # keys[j]
    BY DEF SetToSeqs
  <2> QED BY <2>2, <2>3
<1>2. \A i \in 1..n : keys[i] \in others
  BY <1>1
<1> HIDE DEF n
<1>3. PICK r \in [0..n -> Claims] : /\ r[0] = base /\ r[n] = FoldLeft(ClaimShare, base, keys)
                                    /\ \A k \in 1..n : r[k] = ClaimShare(r[k - 1], keys[k])
  <2>1. keys \in [1..n -> Authors]
    BY <1>1
  <2> QED BY <1>1, <2>1, ClaimsFold
<1> DEFINE P == {k \in 0..n : Accounted(r[k], base, seen(k))}
<1>4. 0 \in P
  <2>1. Total(base.by, Authors) + base.left = base.left
    BY NoSharesAre DEF Claims
  <2>2. \A a \in Authors : base.by[a] = 0 /\ base.by[a] + base.pool[a] = base.pool[a]
    BY DEF NoShares, Claims, Shares
  <2> QED BY <1>1, <1>3, <2>1, <2>2 DEF Accounted
<1>5. \A k \in 1..n : k - 1 \in P => k \in P
  <2> SUFFICES ASSUME NEW k \in 1..n, k - 1 \in P PROVE k \in P
    OBVIOUS
  <2>1. r[k - 1] \in Claims /\ r[k] = ClaimShare(r[k - 1], keys[k]) /\ Accounted(r[k - 1], base, seen(k - 1))
    BY <1>1, <1>3
  <2>2. keys[k] \in Authors \ seen(k - 1) /\ seen(k - 1) \in SUBSET Authors
    BY <1>1, <1>2
  <2>3. seen(k) = seen(k - 1) \cup {keys[k]}
    BY <1>1
  <2> HIDE DEF seen
  <2>4. Accounted(r[k], base, seen(k))
    BY <2>1, <2>2, <2>3, ClaimAccounts
  <2> QED BY <1>1, <2>4
<1>6. n \in P
  <2> HIDE DEF P
  <2>1. 0..n \subseteq P
    BY <1>1, <1>4, <1>5, Upwards
  <2> QED BY <1>1, <2>1
<1>7. \A a \in Authors \ others : r[n].by[a] = 0
  <2>1. seen(n) \subseteq others
    BY <1>2
  <2> QED BY <1>6, <2>1 DEF Accounted
<1>8. Accounted(r[n], base, others) /\ r[n] \in Claims
  BY <1>1, <1>3, <1>6, <1>7 DEF Accounted
<1> QED BY <1>3, <1>8

(* Saving: a line that is attributed is whole, and what it gives anyone    *)
(* but the one who saves is out of the pool of theirs.                     *)
Savings == [pool : Shares, lines : Seq(CartLine)]

Attributed(new, p, line, acc, pool) ==
  /\ new = [pool |-> pool, lines |-> Append(acc.lines, line)]
  /\ Total(line.by, Authors) = line.qty
  /\ \A a \in Authors \ {p} : line.by[a] + pool[a] = acc.pool[a]

LEMMA LineIs ==
  ASSUME lines \in [Lines -> CartLine], NEW next \in [Lines -> CartLine], NEW p \in Authors,
         NEW keys \in SetToSeqs(Authors \ {p}), NEW acc \in Savings, NEW l \in Lines
  PROVE  \E line \in CartLine, pool \in Shares :
           Attributed(AttributeLine(acc, l, next, p, keys), p, line, acc, pool)
<1> DEFINE claimed == IF next[l].by = NoShares THEN SharesOf(lines[l]) ELSE next[l].by
           base == [claimed |-> claimed, pool |-> acc.pool, by |-> NoShares, left |-> next[l].qty]
           end == FoldLeft(ClaimShare, base, keys)
           by == [end.by EXCEPT ![p] = end.left]
           line == [qty |-> next[l].qty, by |-> by]
<1>1. claimed \in Shares /\ next[l].qty \in Nat /\ acc.pool \in Shares
  BY SharesOfAdds DEF CartLine, Savings
<1>2. base \in Claims /\ base.by = NoShares /\ base.pool = acc.pool /\ base.left = next[l].qty
  BY <1>1, NoSharesAre DEF Claims
<1>3. AttributeLine(acc, l, next, p, keys) = [pool |-> end.pool, lines |-> Append(acc.lines, line)]
  BY DEF AttributeLine
<1>4. line.by = by /\ line.qty = next[l].qty
  OBVIOUS
<1> HIDE DEF base
<1>5. end \in Claims /\ Accounted(end, base, Authors \ {p})
  BY <1>2, AllClaims
<1> HIDE DEF end
<1>6. end.by \in Shares /\ end.pool \in Shares /\ end.left \in Nat /\ end.by[p] = 0
  BY <1>5 DEF Claims, Accounted
<1>7. by \in Shares /\ Total(by, Authors) = Total(end.by, Authors) + end.left /\ line \in CartLine
  <2>1. by \in Shares /\ Total(by, Authors) = Total(end.by, Authors) - end.by[p] + end.left
    BY <1>6, OneShare
  <2>2. Total(end.by, Authors) \in Nat
    BY <1>6, SharesTotal
  <2> QED BY <1>1, <1>6, <2>1, <2>2 DEF CartLine
<1>8. \A a \in Authors \ {p} : by[a] + end.pool[a] = acc.pool[a]
  BY <1>2, <1>5, <1>6 DEF Accounted, Shares
<1>9. Total(by, Authors) = next[l].qty
  BY <1>2, <1>5, <1>7 DEF Accounted
<1> HIDE DEF by, line
<1>10. Attributed(AttributeLine(acc, l, next, p, keys), p, line, acc, end.pool)
  BY <1>3, <1>4, <1>8, <1>9 DEF Attributed
<1> QED BY <1>6, <1>7, <1>10

(* The lines of a cart, one after the other.                               *)
SaveStart == [pool |-> [a \in Authors |-> Units(a, lines)], lines |-> <<>>]

Saving(next, p, keys, g) ==
  [s \in SUBSET Lines |->
     IF s = {} THEN SaveStart ELSE AttributeLine(g[s \ {Max(s)}], [l \in Lines |-> l][Max(s)], next, p, keys)]

LEMMA SavesFold ==
  ASSUME lines \in [Lines -> CartLine], NEW next \in [Lines -> CartLine], NEW p \in Authors,
         NEW keys \in SetToSeqs(Authors \ {p})
  PROVE  /\ SaveStart \in Savings
         /\ \E r \in [0..LastLine -> Savings] :
              /\ r[0] = SaveStart /\ r[LastLine].lines = Attribute(next, p, keys)
              /\ \A k \in Lines : r[k] = AttributeLine(r[k - 1], k, next, p, keys)
<1> DEFINE n == LastLine
           F == [q \in Savings \X (1..n) |-> AttributeLine(q[1], q[2], next, p, keys)]
           it == CHOOSE g : g = Saving(next, p, keys, g)
<1>0. n \in Nat /\ Lines = 1..n
  BY SharesAreFinite DEF Lines
<1>1. SaveStart \in Savings
  BY UnitsTotal DEF SaveStart, Savings, Shares
<1>2. \A acc \in Savings, l \in Lines : AttributeLine(acc, l, next, p, keys) \in Savings
  <2> TAKE acc \in Savings, l \in Lines
  <2>1. PICK line \in CartLine, pool \in Shares : Attributed(AttributeLine(acc, l, next, p, keys), p, line, acc, pool)
    BY LineIs
  <2> QED BY <2>1 DEF Attributed, Savings
<1>3. /\ F \in [Savings \X (1..n) -> Savings]
      /\ \A c \in Savings, k \in 1..n : F[<<c, k>>] = AttributeLine(c, k, next, p, keys)
  BY <1>0, <1>2
<1>4. \A s \in SUBSET (1..n) : s # {} => Max(s) \in 1..n /\ s \ {Max(s)} \in SUBSET (1..n)
  BY <1>0, MaxUpToIs
<1> HIDE DEF F, n
<1>5. PICK g \in [SUBSET (1..n) -> Savings] : LastFirst(g, n, SaveStart, F)
  BY <1>0, <1>1, <1>3, FoldExists
<1>6. g = Saving(next, p, keys, g)
  <2>1. \A s \in SUBSET (1..n) : g[s] = IF s = {} THEN SaveStart
                                        ELSE AttributeLine(g[s \ {Max(s)}], [l \in Lines |-> l][Max(s)], next, p, keys)
    BY <1>0, <1>3, <1>4, <1>5 DEF LastFirst
  <2>2. g = [s \in SUBSET Lines |-> g[s]]
    BY <1>0, <1>5
  <2> QED BY <1>0, <2>1, <2>2 DEF Saving
<1>7. it = Saving(next, p, keys, it)
  BY <1>6
<1>8. Attribute(next, p, keys) = it[DOMAIN [l \in Lines |-> l]].lines
  BY DEF Attribute, FoldLeft, MapThenFoldSet, Saving, SaveStart
<1> HIDE DEF it
<1>9. \A s \in SUBSET (1..n) : it[s] = IF s = {} THEN SaveStart ELSE AttributeLine(it[s \ {Max(s)}], Max(s), next, p, keys)
  BY <1>0, <1>4, <1>7 DEF Saving
<1>10. it[{}] = SaveStart /\ \A s \in SUBSET (1..n) :
         s # {} /\ it[s \ {Max(s)}] \in Savings => it[s] = F[<<it[s \ {Max(s)}], Max(s)>>]
  BY <1>3, <1>4, <1>9
<1>11. Stepwise(n, Savings, SaveStart, F, it[1..n])
  BY <1>0, <1>1, <1>3, <1>10, FoldSteps
<1>12. PICK r \in [0..n -> Savings] : /\ r[0] = SaveStart /\ r[n] = it[1..n]
                                      /\ \A k \in 1..n : r[k] = F[<<r[k - 1], k>>]
  BY <1>11 DEF Stepwise
<1>13. \A k \in 1..n : r[k] = AttributeLine(r[k - 1], k, next, p, keys)
  <2> TAKE k \in 1..n
  <2>1. r[k - 1] \in Savings /\ r[k] = F[<<r[k - 1], k>>]
    BY <1>0, <1>12
  <2>2. F[<<r[k - 1], k>>] = AttributeLine(r[k - 1], k, next, p, keys)
    BY <1>3, <2>1
  <2> QED BY <2>1, <2>2
<1>14. r[n].lines = Attribute(next, p, keys)
  BY <1>0, <1>8, <1>12
<1> QED BY <1>0, <1>1, <1>12, <1>13, <1>14 DEF n

(* The first k lines of a cart that p saves.                               *)
Given(acc, k, a) == [l \in Lines |-> IF l <= k THEN acc.lines[l].by[a] ELSE 0]

SavedUpTo(acc, k, p) ==
  /\ Len(acc.lines) = k
  /\ \A l \in 1..k : Total(acc.lines[l].by, Authors) = acc.lines[l].qty
  /\ \A a \in Authors \ {p} : Total(Given(acc, k, a), Lines) + acc.pool[a] = Units(a, lines)

LEMMA OneLineSaved ==
  ASSUME lines \in [Lines -> CartLine], NEW p \in Authors, NEW k \in Lines,
         NEW acc \in Savings, NEW new, NEW line \in CartLine, NEW pool \in Shares,
         SavedUpTo(acc, k - 1, p), Attributed(new, p, line, acc, pool)
  PROVE  SavedUpTo(new, k, p)
<1>1. k \in Nat /\ k - 1 \in Nat /\ acc.lines \in Seq(CartLine) /\ Len(acc.lines) = k - 1
  BY SharesAreFinite DEF SavedUpTo, Savings, Lines
<1>2. /\ new.lines = Append(acc.lines, line) /\ new.pool = pool /\ Len(new.lines) = k
      /\ new.lines[k] = line /\ \A l \in 1..(k - 1) : new.lines[l] = acc.lines[l]
  BY <1>1 DEF Attributed
<1>3. \A l \in 1..k : Total(new.lines[l].by, Authors) = new.lines[l].qty
  <2> TAKE l \in 1..k
  <2>1. CASE l = k
    BY <1>2, <2>1 DEF Attributed
  <2>2. CASE l # k
    <3>1. l \in 1..(k - 1)
      BY <1>1, <2>2
    <3> QED BY <1>2, <3>1 DEF SavedUpTo
  <2> QED BY <2>1, <2>2
<1>4. \A a \in Authors \ {p} : Total(Given(new, k, a), Lines) + pool[a] = Units(a, lines)
  <2> SUFFICES ASSUME NEW a \in Authors \ {p}
               PROVE  Total(Given(new, k, a), Lines) + pool[a] = Units(a, lines)
    OBVIOUS
  <2> DEFINE f == Given(acc, k - 1, a)
             h == Given(new, k, a)
  <2>1. \A l \in 1..(k - 1) : acc.lines[l].by[a] \in Nat
    <3> TAKE l \in 1..(k - 1)
    <3>1. acc.lines[l] \in CartLine
      BY <1>1
    <3> QED BY <3>1 DEF CartLine, Shares
  <2>2. line.by[a] \in Nat /\ pool[a] \in Nat /\ acc.pool[a] \in Nat /\ line.by[a] + pool[a] = acc.pool[a]
    BY DEF CartLine, Shares, Savings, Attributed
  <2>3. \A l \in Lines : l \in Nat /\ l >= 1
    BY SharesAreFinite DEF Lines
  <2>4. f[k] = 0 /\ h[k] = line.by[a]
    BY <1>1, <1>2 DEF Given
  <2>5. \A l \in Lines \ {k} : f[l] = h[l] /\ f[l] \in Int
    <3> TAKE l \in Lines \ {k}
    <3>1. CASE l <= k - 1
      <4>1. l \in 1..(k - 1)
        BY <1>1, <2>3, <3>1
      <4> QED BY <1>1, <1>2, <2>1, <2>3, <3>1, <4>1 DEF Given
    <3>2. CASE ~(l <= k - 1)
      <4>1. ~(l <= k)
        BY <1>1, <2>3, <3>2
      <4> QED BY <3>2, <4>1 DEF Given
    <3> QED BY <3>1, <3>2
  <2> HIDE DEF f, h
  <2>6. \A l \in Lines : f[l] \in Int /\ h[l] \in Int
    BY <2>2, <2>4, <2>5
  <2>7. Total(h, Lines) = Total(f, Lines) - f[k] + h[k] /\ Total(f, Lines) \in Int
    <3>1. IsFiniteSet(Lines) /\ k \in Lines /\ \A l \in Lines \ {k} : f[l] = h[l]
      BY <2>5, SharesAreFinite
    <3>2. Total(h, Lines) = Total(f, Lines) - f[k] + h[k]
      BY <2>6, <3>1, TotalOfChange
    <3>3. Total(f, Lines) \in Int
      BY <2>6, <3>1, TotalIsInt
    <3> QED BY <3>2, <3>3
  <2>8. Total(f, Lines) + acc.pool[a] = Units(a, lines)
    BY DEF SavedUpTo, f
  <2>9. Total(h, Lines) + pool[a] = Units(a, lines)
    BY <2>2, <2>4, <2>7, <2>8
  <2> QED BY <2>9 DEF h
<1> QED BY <1>2, <1>3, <1>4 DEF SavedUpTo

(* attributeCartItems: every line is whole, and nobody but p gains a unit. *)
LEMMA AttributeIs ==
  ASSUME lines \in [Lines -> CartLine], NEW next \in [Lines -> CartLine], NEW p \in Authors,
         NEW keys \in SetToSeqs(Authors \ {p})
  PROVE  /\ Attribute(next, p, keys) \in [Lines -> CartLine]
         /\ \A l \in Lines : Whole(Attribute(next, p, keys)[l])
         /\ \A a \in Authors \ {p} : Units(a, Attribute(next, p, keys)) <= Units(a, lines)
<1> DEFINE n == LastLine
           cart == Attribute(next, p, keys)
<1>0. n \in Nat /\ Lines = 1..n
  BY SharesAreFinite DEF Lines
<1>1. SaveStart \in Savings
  BY SavesFold
<1>2. PICK r \in [0..n -> Savings] : /\ r[0] = SaveStart /\ r[n].lines = cart
                                     /\ \A k \in Lines : r[k] = AttributeLine(r[k - 1], k, next, p, keys)
  BY SavesFold
<1> HIDE DEF cart, n
<1> DEFINE P == {k \in 0..n : SavedUpTo(r[k], k, p)}
<1>3. 0 \in P
  <2>1. Len(SaveStart.lines) = 0 /\ SaveStart.pool = [a \in Authors |-> Units(a, lines)]
    BY DEF SaveStart
  <2>2. \A a \in Authors : Total(Given(SaveStart, 0, a), Lines) = 0
    <3> TAKE a \in Authors
    <3>1. \A l \in Lines : Given(SaveStart, 0, a)[l] = 0
      BY <1>0 DEF Given
    <3> QED BY <3>1, SharesAreFinite, TotalOfZeros
  <2>3. \A a \in Authors : Units(a, lines) \in Nat
    BY UnitsTotal
  <2> QED BY <1>0, <1>2, <2>1, <2>2, <2>3 DEF SavedUpTo
<1>4. \A k \in 1..n : k - 1 \in P => k \in P
  <2> SUFFICES ASSUME NEW k \in 1..n, k - 1 \in P PROVE k \in P
    OBVIOUS
  <2>1. k \in Lines /\ k - 1 \in 0..n /\ r[k - 1] \in Savings /\ SavedUpTo(r[k - 1], k - 1, p)
    BY <1>0, <1>2
  <2>2. PICK line \in CartLine, pool \in Shares : Attributed(r[k], p, line, r[k - 1], pool)
    BY <1>2, <2>1, LineIs
  <2>3. SavedUpTo(r[k], k, p)
    BY <2>1, <2>2, OneLineSaved
  <2> QED BY <1>0, <2>3
<1>5. SavedUpTo(r[n], n, p) /\ r[n] \in Savings
  <2> HIDE DEF P
  <2>1. 0..n \subseteq P
    BY <1>0, <1>3, <1>4, Upwards
  <2>2. n \in P
    BY <1>0, <2>1
  <2> QED BY <1>0, <1>2, <2>2 DEF P
<1>6. cart \in [Lines -> CartLine] /\ \A l \in Lines : Total(cart[l].by, Authors) = cart[l].qty
  <2>1. cart \in Seq(CartLine) /\ Len(cart) = n
    BY <1>2, <1>5 DEF SavedUpTo, Savings
  <2>2. cart \in [1..n -> CartLine]
    BY <1>0, <2>1
  <2> QED BY <1>0, <1>2, <1>5, <2>2 DEF SavedUpTo
<1>7. ASSUME NEW a \in Authors \ {p} PROVE Units(a, cart) <= Units(a, lines)
  <2>1. \A l \in Lines : UnitsAre(a, cart)[l] = Given(r[n], n, a)[l] /\ UnitsAre(a, cart)[l] \in Int
    <3> TAKE l \in Lines
    <3>1. cart[l] \in CartLine /\ Total(cart[l].by, Authors) = cart[l].qty /\ l <= n
      BY <1>0, <1>6
    <3>2. SharesOf(cart[l]) = cart[l].by
      BY <3>1, SharesOfWhole
    <3> QED BY <1>2, <3>1, <3>2 DEF UnitsAre, Given, CartLine, Shares
  <2>2. Total(UnitsAre(a, cart), Lines) = Total(Given(r[n], n, a), Lines)
    BY <2>1, SharesAreFinite, TotalOfSame
  <2>3. Units(a, cart) = Total(UnitsAre(a, cart), Lines) /\ Units(a, cart) \in Nat /\ Units(a, lines) \in Nat
    BY <1>6, UnitsTotal
  <2>4. Total(Given(r[n], n, a), Lines) + r[n].pool[a] = Units(a, lines) /\ r[n].pool[a] \in Nat
    BY <1>5 DEF SavedUpTo, Savings, Shares
  <2> QED BY <2>2, <2>3, <2>4
<1> QED BY <1>6, <1>7 DEF cart, Whole

(* An order that the server takes out of a line, from the shares of the    *)
(* line: nobody has more than before.                                      *)
Taking(by) == {acc \in [by : Shares, left : Nat] : \A a \in Authors : acc.by[a] <= by[a]}

LEMMA TakeIs ==
  ASSUME NEW by \in Shares, NEW acc \in Taking(by), NEW a \in Authors
  PROVE  TakeShare(acc, a) \in Taking(by)
<1> DEFINE n == Min({acc.by[a], acc.left})
           after == [acc.by EXCEPT ![a] = @ - n]
<1>1. acc.by \in Shares /\ acc.by[a] \in Nat /\ acc.left \in Nat /\ \A x \in Authors : acc.by[x] <= by[x]
  BY DEF Taking, Shares
<1>2. n \in Nat /\ n <= acc.by[a] /\ n <= acc.left
  <2>1. \E m \in {acc.by[a], acc.left} : \A k \in {acc.by[a], acc.left} : m <= k
    BY <1>1
  <2> QED BY <1>1, <2>1 DEF Min
<1>3. TakeShare(acc, a) = [by |-> after, left |-> acc.left - n]
  BY DEF TakeShare
<1> HIDE DEF n
<1>4. after \in Shares /\ acc.left - n \in Nat
  BY <1>1, <1>2 DEF Shares
<1>5. \A x \in Authors : after[x] <= by[x]
  <2> TAKE x \in Authors
  <2>1. acc.by[x] <= by[x] /\ acc.by[x] \in Nat /\ by[x] \in Nat
    BY <1>1 DEF Shares
  <2>2. after[x] = IF x = a THEN acc.by[a] - n ELSE acc.by[x]
    BY <1>1 DEF Shares
  <2> QED BY <1>1, <1>2, <2>1, <2>2
<1> HIDE DEF after
<1> QED BY <1>3, <1>4, <1>5 DEF Taking

TakingFrom(base, keys, g) ==
  [s \in SUBSET DOMAIN keys |-> IF s = {} THEN base ELSE TakeShare(g[s \ {Max(s)}], keys[Max(s)])]

LEMMA TakesFold ==
  ASSUME NEW by \in Shares, NEW base \in Taking(by), NEW n \in Nat, NEW keys \in [1..n -> Authors]
  PROVE  FoldLeft(TakeShare, base, keys) \in Taking(by)
<1> DEFINE A == Taking(by)
           F == [q \in A \X (1..n) |-> TakeShare(q[1], keys[q[2]])]
           it == CHOOSE g : g = TakingFrom(base, keys, g)
<1>1. F \in [A \X (1..n) -> A] /\ \A c \in A, k \in 1..n : F[<<c, k>>] = TakeShare(c, keys[k])
  BY TakeIs
<1>2. \A s \in SUBSET (1..n) : s # {} => Max(s) \in 1..n /\ s \ {Max(s)} \in SUBSET (1..n)
  BY MaxUpToIs
<1> HIDE DEF F, A
<1>3. PICK g \in [SUBSET (1..n) -> A] : LastFirst(g, n, base, F)
  <2>1. base \in A
    BY DEF A
  <2> QED BY <1>1, <2>1, FoldExists
<1>4. g = TakingFrom(base, keys, g)
  <2>1. \A s \in SUBSET (1..n) : g[s] = IF s = {} THEN base ELSE TakeShare(g[s \ {Max(s)}], keys[Max(s)])
    BY <1>1, <1>2, <1>3 DEF LastFirst
  <2>2. g = [s \in SUBSET (1..n) |-> g[s]] /\ DOMAIN keys = 1..n
    BY <1>3
  <2> QED BY <2>1, <2>2 DEF TakingFrom
<1>5. it = TakingFrom(base, keys, it)
  BY <1>4
<1>6. FoldLeft(TakeShare, base, keys) = it[DOMAIN keys]
  BY DEF FoldLeft, MapThenFoldSet, TakingFrom
<1> HIDE DEF it
<1>7. \A s \in SUBSET (1..n) : it[s] = IF s = {} THEN base ELSE TakeShare(it[s \ {Max(s)}], keys[Max(s)])
  BY <1>5 DEF TakingFrom
<1>8. it[{}] = base /\ base \in A /\ \A s \in SUBSET (1..n) :
        s # {} /\ it[s \ {Max(s)}] \in A => it[s] = F[<<it[s \ {Max(s)}], Max(s)>>]
  BY <1>1, <1>2, <1>7 DEF A
<1>9. Stepwise(n, A, base, F, it[1..n])
  BY <1>1, <1>8, FoldSteps
<1>10. it[1..n] \in A
  BY <1>9 DEF Stepwise
<1> QED BY <1>6, <1>10 DEF A

(* What an order makes of a line: it is whole, and nobody has more in it.  *)
LessThan(line, before) ==
  Whole(line) /\ \A a \in Authors : SharesOf(line)[a] <= SharesOf(before)[a]

LEMMA UnitsTaken ==
  ASSUME NEW before \in CartLine, NEW n \in Nat, NEW keys \in SetToSeqs(Authors)
  PROVE  TakeUnits(before, n, keys) \in CartLine /\ LessThan(TakeUnits(before, n, keys), before)
<1> DEFINE base == [by |-> SharesOf(before), left |-> n]
           end == FoldLeft(TakeShare, base, keys)
           line == [qty |-> TotalShares(end.by), by |-> end.by]
<1>1. Cardinality(Authors) \in Nat /\ keys \in [1..Cardinality(Authors) -> Authors]
  BY SharesAreFinite, FS_CardinalityType DEF SetToSeqs
<1>2. SharesOf(before) \in Shares
  BY SharesOfAdds
<1>3. base \in Taking(SharesOf(before))
  BY <1>2 DEF Taking, Shares
<1>4. TakeUnits(before, n, keys) = line
  BY DEF TakeUnits
<1> HIDE DEF base
<1>5. end \in Taking(SharesOf(before))
  BY <1>1, <1>2, <1>3, TakesFold
<1> HIDE DEF end
<1>6. end.by \in Shares /\ \A a \in Authors : end.by[a] <= SharesOf(before)[a]
  BY <1>5 DEF Taking
<1>7. TotalShares(end.by) = Total(end.by, Authors) /\ Total(end.by, Authors) \in Nat
  BY <1>6, SharesTotal
<1>8. line \in CartLine /\ line.by = end.by /\ Total(line.by, Authors) = line.qty
  BY <1>6, <1>7 DEF CartLine
<1> HIDE DEF line
<1>9. SharesOf(line) = line.by
  BY <1>8, SharesOfWhole
<1> QED BY <1>4, <1>6, <1>8, <1>9 DEF LessThan, Whole

LEMMA FewerUnits ==
  ASSUME NEW before \in [Lines -> CartLine], NEW after \in [Lines -> CartLine],
         \A l \in Lines : LessThan(after[l], before[l]), NEW a \in Authors
  PROVE  Units(a, after) <= Units(a, before)
<1>1. \A l \in Lines : UnitsAre(a, after)[l] \in Int /\ UnitsAre(a, before)[l] \in Int
  BY UnitsTotal
<1>2. \A l \in Lines : UnitsAre(a, after)[l] <= UnitsAre(a, before)[l]
  BY DEF UnitsAre, LessThan
<1>3. Total(UnitsAre(a, after), Lines) <= Total(UnitsAre(a, before), Lines)
  BY <1>1, <1>2, SharesAreFinite, TotalOfMore
<1> QED BY <1>3, UnitsTotal

(* The lines of a cart that an order is taken out of.                      *)
Takings == [left : Nat, lines : Seq(CartLine)]

LEMMA LineTakes ==
  ASSUME SharesInv, NEW keys \in [Lines -> SetToSeqs(Authors)], NEW acc \in Takings, NEW l \in Lines
  PROVE  \E left \in Nat, line \in CartLine :
           /\ TakeFromLine(acc, l, keys) = [left |-> left, lines |-> Append(acc.lines, line)]
           /\ LessThan(line, lines[l])
<1> DEFINE taken == IF l \in Online THEN Min({lines[l].qty, acc.left}) ELSE 0
           line == IF taken = 0 THEN lines[l]
                   ELSE IF taken = lines[l].qty THEN NoLine
                   ELSE TakeUnits(lines[l], taken, keys[l])
<1>1. lines[l] \in CartLine /\ Whole(lines[l]) /\ lines[l].qty \in Nat /\ acc.left \in Nat /\ acc.lines \in Seq(CartLine)
  BY DEF SharesInv, CartLine, Takings
<1>2. taken \in Nat /\ taken <= acc.left
  <2>1. \E m \in {lines[l].qty, acc.left} : \A k \in {lines[l].qty, acc.left} : m <= k
    BY <1>1
  <2> QED BY <1>1, <2>1 DEF Min
<1>3. TakeFromLine(acc, l, keys) = [left |-> acc.left - taken, lines |-> Append(acc.lines, line)]
  BY DEF TakeFromLine
<1> HIDE DEF taken
<1>4. SharesOf(lines[l]) \in Shares
  BY <1>1, SharesOfAdds
<1>5. line \in CartLine /\ LessThan(line, lines[l])
  <2>1. CASE line = lines[l]
    BY <1>1, <1>4, <2>1 DEF LessThan, Shares
  <2>2. CASE line = NoLine
    <3>1. NoLine \in CartLine /\ NoLine.by = NoShares /\ Total(NoLine.by, Authors) = NoLine.qty
      BY NoSharesAre DEF NoLine
    <3>2. SharesOf(NoLine) = NoShares
      BY <3>1, SharesOfWhole
    <3>3. \A a \in Authors : NoShares[a] <= SharesOf(lines[l])[a]
      BY <1>4 DEF NoShares, Shares
    <3> QED BY <2>2, <3>1, <3>2, <3>3 DEF LessThan, Whole
  <2>3. CASE line = TakeUnits(lines[l], taken, keys[l])
    BY <1>1, <1>2, <2>3, UnitsTaken
  <2> QED BY <2>1, <2>2, <2>3
<1>6. acc.left - taken \in Nat
  BY <1>1, <1>2
<1> HIDE DEF line
<1> QED BY <1>3, <1>5, <1>6

TakeStart == [left |-> order.qty, lines |-> <<>>]
TakingAll(keys, g) ==
  [s \in SUBSET Lines |->
     IF s = {} THEN TakeStart ELSE TakeFromLine(g[s \ {Max(s)}], [l \in Lines |-> l][Max(s)], keys)]
Taken(keys) ==
  FoldLeft(LAMBDA acc, l : TakeFromLine(acc, l, keys), [left |-> order.qty, lines |-> <<>>], [l \in Lines |-> l]).lines

LEMMA TakesAllFold ==
  ASSUME SharesInv, order.qty \in Nat, NEW keys \in [Lines -> SetToSeqs(Authors)]
  PROVE  \E r \in [0..LastLine -> Takings] :
           /\ r[0] = TakeStart /\ r[LastLine].lines = Taken(keys)
           /\ \A k \in Lines : r[k] = TakeFromLine(r[k - 1], k, keys)
<1> DEFINE n == LastLine
           F == [q \in Takings \X (1..n) |-> TakeFromLine(q[1], q[2], keys)]
           it == CHOOSE g : g = TakingAll(keys, g)
<1>0. n \in Nat /\ Lines = 1..n
  BY SharesAreFinite DEF Lines
<1>1. TakeStart \in Takings
  BY DEF TakeStart, Takings
<1>2. \A acc \in Takings, l \in Lines : TakeFromLine(acc, l, keys) \in Takings
  <2> TAKE acc \in Takings, l \in Lines
  <2>1. PICK left \in Nat, line \in CartLine :
          TakeFromLine(acc, l, keys) = [left |-> left, lines |-> Append(acc.lines, line)]
    BY LineTakes
  <2> QED BY <2>1 DEF Takings
<1>3. F \in [Takings \X (1..n) -> Takings] /\ \A c \in Takings, k \in 1..n : F[<<c, k>>] = TakeFromLine(c, k, keys)
  BY <1>0, <1>2
<1>4. \A s \in SUBSET (1..n) : s # {} => Max(s) \in 1..n /\ s \ {Max(s)} \in SUBSET (1..n)
  BY <1>0, MaxUpToIs
<1> HIDE DEF F, n
<1>5. PICK g \in [SUBSET (1..n) -> Takings] : LastFirst(g, n, TakeStart, F)
  BY <1>0, <1>1, <1>3, FoldExists
<1>6. g = TakingAll(keys, g)
  <2>1. \A s \in SUBSET (1..n) : g[s] = IF s = {} THEN TakeStart
                                        ELSE TakeFromLine(g[s \ {Max(s)}], [l \in Lines |-> l][Max(s)], keys)
    BY <1>0, <1>3, <1>4, <1>5 DEF LastFirst
  <2>2. g = [s \in SUBSET Lines |-> g[s]]
    BY <1>0, <1>5
  <2> QED BY <1>0, <2>1, <2>2 DEF TakingAll
<1>7. it = TakingAll(keys, it)
  BY <1>6
<1>8. Taken(keys) = it[DOMAIN [l \in Lines |-> l]].lines
  BY DEF Taken, FoldLeft, MapThenFoldSet, TakingAll, TakeStart
<1> HIDE DEF it
<1>9. \A s \in SUBSET (1..n) : it[s] = IF s = {} THEN TakeStart ELSE TakeFromLine(it[s \ {Max(s)}], Max(s), keys)
  BY <1>0, <1>4, <1>7 DEF TakingAll
<1>10. it[{}] = TakeStart /\ \A s \in SUBSET (1..n) :
         s # {} /\ it[s \ {Max(s)}] \in Takings => it[s] = F[<<it[s \ {Max(s)}], Max(s)>>]
  BY <1>3, <1>4, <1>9
<1>11. Stepwise(n, Takings, TakeStart, F, it[1..n])
  BY <1>0, <1>1, <1>3, <1>10, FoldSteps
<1>12. PICK r \in [0..n -> Takings] : /\ r[0] = TakeStart /\ r[n] = it[1..n]
                                      /\ \A k \in 1..n : r[k] = F[<<r[k - 1], k>>]
  BY <1>11 DEF Stepwise
<1>13. \A k \in 1..n : r[k] = TakeFromLine(r[k - 1], k, keys)
  <2> TAKE k \in 1..n
  <2>1. r[k - 1] \in Takings /\ r[k] = F[<<r[k - 1], k>>]
    BY <1>0, <1>12
  <2>2. F[<<r[k - 1], k>>] = TakeFromLine(r[k - 1], k, keys)
    BY <1>3, <2>1
  <2> QED BY <2>1, <2>2
<1>14. r[n].lines = Taken(keys)
  BY <1>0, <1>8, <1>12
<1> QED BY <1>0, <1>12, <1>13, <1>14 DEF n

(* removeOrderedFromCart: every line is whole, and nobody has more.        *)
LEMMA TakenIs ==
  ASSUME SharesInv, order.qty \in Nat, NEW keys \in [Lines -> SetToSeqs(Authors)]
  PROVE  Taken(keys) \in [Lines -> CartLine] /\ \A l \in Lines : LessThan(Taken(keys)[l], lines[l])
<1> DEFINE n == LastLine
           cart == Taken(keys)
<1>0. n \in Nat /\ Lines = 1..n
  BY SharesAreFinite DEF Lines
<1>1. PICK r \in [0..n -> Takings] : /\ r[0] = TakeStart /\ r[n].lines = cart
                                     /\ \A k \in Lines : r[k] = TakeFromLine(r[k - 1], k, keys)
  BY TakesAllFold
<1> HIDE DEF cart, n
<1> DEFINE P == {k \in 0..n : Len(r[k].lines) = k /\ \A l \in 1..k : LessThan(r[k].lines[l], lines[l])}
<1>2. 0 \in P
  BY <1>0, <1>1 DEF TakeStart
<1>3. \A k \in 1..n : k - 1 \in P => k \in P
  <2> SUFFICES ASSUME NEW k \in 1..n, k - 1 \in P PROVE k \in P
    OBVIOUS
  <2>1. k \in Lines /\ k - 1 \in 0..n /\ r[k - 1] \in Takings
    BY <1>0, <1>1
  <2>2. PICK left \in Nat, line \in CartLine :
          /\ r[k] = [left |-> left, lines |-> Append(r[k - 1].lines, line)]
          /\ LessThan(line, lines[k])
    <3>1. r[k] = TakeFromLine(r[k - 1], k, keys)
      BY <1>1, <2>1
    <3> DEFINE acc == r[k - 1]
    <3>2. acc \in Takings
      BY <2>1
    <3> HIDE DEF acc
    <3>3. \E left \in Nat, line \in CartLine :
            /\ TakeFromLine(acc, k, keys) = [left |-> left, lines |-> Append(acc.lines, line)]
            /\ LessThan(line, lines[k])
      BY <2>1, <3>2, LineTakes
    <3> QED BY <3>1, <3>3 DEF acc
  <2>3. r[k - 1].lines \in Seq(CartLine) /\ Len(r[k - 1].lines) = k - 1
    BY <2>1 DEF Takings
  <2>4. /\ Len(r[k].lines) = k /\ r[k].lines[k] = line
        /\ \A l \in 1..(k - 1) : r[k].lines[l] = r[k - 1].lines[l]
    BY <1>0, <2>2, <2>3
  <2>5. \A l \in 1..k : LessThan(r[k].lines[l], lines[l])
    <3> TAKE l \in 1..k
    <3>1. CASE l = k
      BY <2>2, <2>4, <3>1
    <3>2. CASE l # k
      <4>1. l \in 1..(k - 1)
        BY <1>0, <3>2
      <4> QED BY <2>4, <4>1
    <3> QED BY <3>1, <3>2
  <2> QED BY <1>0, <2>4, <2>5
<1>4. n \in P /\ r[n] \in Takings
  <2> HIDE DEF P
  <2>1. 0..n \subseteq P
    BY <1>0, <1>2, <1>3, Upwards
  <2> QED BY <1>0, <1>1, <2>1
<1>5. cart \in Seq(CartLine) /\ Len(cart) = n
  BY <1>1, <1>4 DEF Takings
<1>6. cart \in [1..n -> CartLine]
  BY <1>0, <1>5
<1> QED BY <1>0, <1>1, <1>4, <1>6 DEF cart

(* A save, of a person or of the tab that ordered.                         *)
NobodyElseGains == \A a \in Authors : a # saver' => Units(a, lines') <= Units(a, lines)

CartKept ==
  /\ lines' \in [Lines -> CartLine]
  /\ \A l \in Lines : Whole(lines'[l])
  /\ NobodyElseGains

LEMMA SavesKeep ==
  ASSUME SharesInv, NEW p \in People, NEW next \in [Lines -> CartLine], SaveCart(p, next)
  PROVE  CartKept
<1>1. p \in Authors /\ lines \in [Lines -> CartLine] /\ saver' = p
  BY DEF Authors, SharesInv, SaveCart
<1>2. PICK keys \in SetToSeqs(Authors \ {p}) : lines' = Attribute(next, p, keys)
  BY DEF SaveCart
<1> QED BY <1>1, <1>2, AttributeIs DEF CartKept, NobodyElseGains

LEMMA WhatIsSent ==
  ASSUME NEW next \in [Lines -> SentLines]
  PROVE  next \in [Lines -> CartLine]
<1>1. \A n \in 1..MaxUnits : n \in Nat
  BY CartSharesAssumption
<1>2. \A b \in [Authors -> 0..MaxUnits] : b \in Shares
  BY CartSharesAssumption DEF Shares
<1>3. SentLines \subseteq CartLine
  BY <1>1, <1>2, NoSharesAre DEF SentLines, CartLine
<1> QED BY <1>3

(* What enters the filter of people is a number of units.                  *)
LEMMA FilterCounts ==
  ASSUME SharesInv, NEW people \in SUBSET Authors
  PROVE  UnitsOf(people) \in Nat
<1> DEFINE f == [l \in Online |-> SumFunctionOnSet(SharesOf(lines[l]), people)]
<1>1. IsFiniteSet(Online) /\ Online \subseteq Lines /\ IsFiniteSet(people)
  BY CartSharesAssumption, SharesAreFinite, FS_Subset DEF Lines
<1>2. \A l \in Online : f[l] \in Nat
  <2> TAKE l \in Online
  <2>1. lines[l] \in CartLine
    BY <1>1 DEF SharesInv
  <2>2. SharesOf(lines[l]) \in Shares
    BY <2>1, SharesOfAdds
  <2>3. \A a \in people : SharesOf(lines[l])[a] \in Nat
    BY <2>2 DEF Shares
  <2>4. Total(SharesOf(lines[l]), people) \in Nat
    BY <1>1, <2>3, TotalIsNat
  <2>5. SumFunctionOnSet(SharesOf(lines[l]), people) = Total(SharesOf(lines[l]), people)
    BY SumIsTotal
  <2> QED BY <2>4, <2>5
<1>3. UnitsOf(people) = SumFunctionOnSet(f, Online)
  BY DEF UnitsOf, SumFunction
<1> HIDE DEF f
<1>4. UnitsOf(people) = Total(f, Online)
  BY <1>3, SumIsTotal
<1> QED BY <1>1, <1>2, <1>4, TotalIsNat

LEMMA ClearedIs ==
  ASSUME SharesInv
  PROVE  [l \in Lines |-> IF l \in Online THEN WithoutPeople(lines[l]) ELSE lines[l]] \in [Lines -> CartLine]
<1>1. ASSUME NEW l \in Lines PROVE lines[l] \in CartLine /\ WithoutPeople(lines[l]) \in CartLine
  <2> DEFINE left == [a \in Authors |-> IF a \in order.people THEN 0 ELSE SharesOf(lines[l])[a]]
  <2>1. lines[l] \in CartLine
    BY DEF SharesInv
  <2>2. SharesOf(lines[l]) \in Shares
    BY <2>1, SharesOfAdds
  <2>3. left \in Shares
    BY <2>2 DEF Shares
  <2>4. WithoutPeople(lines[l]) = [qty |-> TotalShares(left), by |-> left]
    BY DEF WithoutPeople
  <2> HIDE DEF left
  <2>5. TotalShares(left) \in Nat
    BY <2>3, SharesTotal
  <2> QED BY <2>1, <2>3, <2>4, <2>5 DEF CartLine
<1> QED BY <1>1

LEMMA SharesInitially == SharesInit => SharesInv
<1> SUFFICES ASSUME SharesInit PROVE SharesInv
  OBVIOUS
<1>1. \A l \in Lines : lines[l] \in CartLine /\ lines[l].by = NoShares
  <2> TAKE l \in Lines
  <2>1. PICK n \in 0..MaxUnits : lines[l] = [qty |-> n, by |-> NoShares]
    BY DEF SharesInit
  <2>2. n \in Nat
    BY CartSharesAssumption
  <2> QED BY <2>1, <2>2, NoSharesAre DEF CartLine
<1>2. lines \in [Lines -> CartLine]
  BY <1>1 DEF SharesInit
<1>3. order = NothingOrdered
  BY DEF SharesInit
<1> QED BY <1>1, <1>2, <1>3 DEF SharesInv, Whole, OrderFits

LEMMA OrderStays ==
  ASSUME NEW side, DoneWith(side), OrderFits, order # NothingOrdered
  PROVE  OrderFits'
<1>1. CASE order' = NothingOrdered
  BY <1>1 DEF OrderFits, NothingOrdered
<1>2. CASE order' = [order EXCEPT !.open = @ \ {side}]
  BY <1>2 DEF OrderFits
<1> QED BY <1>1, <1>2 DEF DoneWith

LEMMA SharesSteps == SharesInv /\ [SharesNext]_sharesVars => SharesInv' /\ NobodyElseGains
<1> SUFFICES ASSUME SharesInv, [SharesNext]_sharesVars PROVE CartKept /\ OrderFits'
  BY DEF SharesInv, CartKept
<1>1. ASSUME lines' = lines PROVE CartKept
  <2>1. \A a \in Authors : Units(a, lines) \in Nat
    BY UnitsTotal DEF SharesInv
  <2> QED BY <1>1, <2>1 DEF CartKept, NobodyElseGains, SharesInv
<1>2. ASSUME NEW p \in People, NEW next \in [Lines -> SentLines], PersonSaves(p, next) PROVE CartKept /\ OrderFits'
  <2>1. SaveCart(p, next) /\ order' = order /\ next \in [Lines -> CartLine]
    BY <1>2, WhatIsSent DEF PersonSaves
  <2>2. CartKept
    BY <2>1, SavesKeep
  <2> QED BY <2>1, <2>2 DEF SharesInv, OrderFits, NothingOrdered
<1>3. ASSUME NEW p \in People, NEW people \in SUBSET Authors, OrderTheirs(p, people) PROVE CartKept /\ OrderFits'
  <2>1. UnitsOf(people) \in Nat
    BY FilterCounts
  <2>2. OrderFits'
    BY <1>3, <2>1 DEF OrderTheirs, OrderFits
  <2> QED BY <1>1, <1>3, <2>2 DEF OrderTheirs
<1>4. ASSUME TabClears PROVE CartKept /\ OrderFits'
  <2> DEFINE next == [l \in Lines |-> IF l \in Online THEN WithoutPeople(lines[l]) ELSE lines[l]]
  <2>1. order # NothingOrdered /\ SaveCart(order.who, next) /\ DoneWith("tab")
    BY <1>4 DEF TabClears
  <2>2. next \in [Lines -> CartLine] /\ order.who \in People /\ OrderFits
    BY <2>1, ClearedIs DEF SharesInv, OrderFits
  <2> HIDE DEF next
  <2>3. CartKept
    BY <2>1, <2>2, SavesKeep
  <2> QED BY <2>1, <2>2, <2>3, OrderStays
<1>5. ASSUME ServerTakes PROVE CartKept /\ OrderFits'
  <2>1. OrderFits /\ order # NothingOrdered /\ DoneWith("server") /\ order.qty \in Nat
    BY <1>5 DEF ServerTakes, SharesInv, OrderFits
  <2>2. PICK keys \in [Lines -> SetToSeqs(Authors)] : lines' = Taken(keys)
    BY <1>5 DEF ServerTakes, Taken
  <2>3. lines' \in [Lines -> CartLine] /\ \A l \in Lines : LessThan(lines'[l], lines[l])
    BY <2>1, <2>2, TakenIs
  <2>4. \A a \in Authors : Units(a, lines') <= Units(a, lines)
    BY <2>3, FewerUnits DEF SharesInv
  <2>5. CartKept
    BY <2>3, <2>4 DEF CartKept, NobodyElseGains, LessThan
  <2> QED BY <2>1, <2>5, OrderStays
<1>6. CASE UNCHANGED sharesVars
  BY <1>1, <1>6 DEF sharesVars, SharesInv, OrderFits, NothingOrdered
<1> QED BY <1>2, <1>3, <1>4, <1>5, <1>6 DEF SharesNext

THEOREM SharesInvHolds == SharesSpec => []SharesInv
<1>1. SharesInv /\ [SharesNext]_sharesVars => SharesInv'
  BY SharesSteps
<1> QED BY <1>1, SharesInitially, PTL DEF SharesSpec

(* cart-attribution.ts:5, for any people, lines, quantities and orders of  *)
(* visiting shares: the shares of a line that has authors add up to its    *)
(* quantity.                                                               *)
THEOREM LinesAddUp == SharesSpec => []SharesAddUp
<1>1. SharesInv => SharesAddUp
  <2> SUFFICES ASSUME SharesInv, NEW l \in Lines, lines[l].by # NoShares
               PROVE  TotalShares(lines[l].by) = lines[l].qty
    BY DEF SharesAddUp
  <2>1. lines[l].by \in Shares /\ Total(lines[l].by, Authors) = lines[l].qty
    BY DEF SharesInv, CartLine, Whole
  <2> QED BY <2>1, SharesTotal
<1> QED BY <1>1, SharesInvHolds, PTL

(* cart-attribution.ts:7-10, for the same: whoever saves, and whatever an  *)
(* order takes, nobody else has more units than before.                    *)
THEOREM OnlyWhoSavesGains == SharesSpec => NobodysShareGrows
<1>1. SharesInv /\ [SharesNext]_sharesVars =>
        [\A a \in Authors : a # saver' => Units(a, lines') <= Units(a, lines)]_sharesVars
  BY SharesSteps DEF NobodyElseGains
<1> QED BY <1>1, SharesInvHolds, PTL DEF SharesSpec, NobodysShareGrows
=============================================================================
