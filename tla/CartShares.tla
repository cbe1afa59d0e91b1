----------------------------- MODULE CartShares -----------------------------
(***************************************************************************)
(* Who put each unit of a product in the cart of a retailer                *)
(* (cart-attribution.ts), and how an order takes units out of it: the tab  *)
(* that ordered clears what entered its filter of people (cartPeople.ts),  *)
(* and the server subtracts what was ordered (cart-order-reconcile.ts).    *)
(*                                                                         *)
(* The lines are the places of one product, by channel and scheme, in the  *)
(* order of the array.  An object's keys have an order that the browser    *)
(* chooses, so shares are visited in any order.  Versions, joins and       *)
(* saves that meet an order halfway are the matter of SharedCart: here     *)
(* people save between orders, over what the server has.                   *)
(***************************************************************************)
EXTENDS Naturals, FiniteSetsExt, SequencesExt

CONSTANTS
  People,
  Unknown,  \* UNKNOWN_AUTHOR, of the units stored before authors were
  LastLine, \* lines 1..LastLine
  Online,   \* those of the channel that the distributor's orders empty
  MaxUnits, \* bound on a line's quantity and on the units that it claims
  MaxOrders

ASSUME CartSharesAssumption ==
  /\ IsFiniteSet(People)
  /\ {LastLine, MaxUnits, MaxOrders} \subseteq Nat
  /\ Online \subseteq 1..LastLine

VARIABLES
  lines,    \* what is stored: line -> quantity and shares, quantity 0 if absent
  saver,    \* updatedByUserId
  order,    \* the order created and not yet out of the cart, or NothingOrdered
  made      \* orders so far

sharesVars == <<lines, saver, order, made>>

Authors == People \cup {Unknown}
Lines == 1..LastLine
NoShares == [a \in Authors |-> 0]
NoLine == [qty |-> 0, by |-> NoShares]
NoAuthor == "nobody"
NothingOrdered == [who |-> NoAuthor]

TotalShares(by) == SumFunction(by)
Only(a, n) == [NoShares EXCEPT ![a] = n]

(* What a stored line says of its units; those it does not account for are *)
(* of nobody known.                                                        *)
SharesOf(line) ==
  LET total == TotalShares(line.by)
  IN IF total = line.qty THEN line.by
     ELSE IF total > line.qty \/ total = 0 THEN Only(Unknown, line.qty)
     ELSE [line.by EXCEPT ![Unknown] = @ + line.qty - total]

Units(a, cart) == SumFunction([l \in Lines |-> SharesOf(cart[l])[a]])
AllUnits(cart) == SumFunction([l \in Lines |-> cart[l].qty])

-----------------------------------------------------------------------------
(* Mutant of ClaimShare: a claim is not held to what the line has.         *)
ClaimBeyondTheLine(acc, a) ==
  LET allowed == Min({acc.claimed[a], acc.pool[a]})
  IN [acc EXCEPT !.by[a] = allowed, !.pool[a] = @ - allowed,
                 !.left = IF allowed > @ THEN 0 ELSE @ - allowed]

(* Mutant of ClaimShare: what a line takes stays for the next line.        *)
ClaimAgain(acc, a) ==
  LET allowed == Min({acc.claimed[a], acc.pool[a], acc.left})
  IN [acc EXCEPT !.by[a] = allowed, !.left = @ - allowed]

(* One share that a saved line claims for another person: never more than  *)
(* what is left of theirs, nor than the line holds.                        *)
ClaimShare(acc, a) ==
  LET allowed == Min({acc.claimed[a], acc.pool[a], acc.left})
  IN [acc EXCEPT !.by[a] = allowed, !.pool[a] = @ - allowed, !.left = @ - allowed]

(* One line: the claims of the others first, the rest is of who saves.  An *)
(* older web sends no shares, and the line keeps those it had.             *)
AttributeLine(acc, l, next, actor, keys) ==
  LET claimed == IF next[l].by = NoShares THEN SharesOf(lines[l]) ELSE next[l].by
      line == FoldLeft(ClaimShare,
                       [claimed |-> claimed, pool |-> acc.pool, by |-> NoShares, left |-> next[l].qty],
                       keys)
  IN [pool |-> line.pool,
      lines |-> Append(acc.lines,
                  [qty |-> next[l].qty, by |-> [line.by EXCEPT ![actor] = line.left]])]

(* attributeCartItems: what is stored when actor saves next, if shares are *)
(* visited in the order of keys.                                           *)
Attribute(next, actor, keys) ==
  FoldLeft(LAMBDA acc, l : AttributeLine(acc, l, next, actor, keys),
           [pool |-> [a \in Authors |-> Units(a, lines)], lines |-> <<>>],
           [l \in Lines |-> l]).lines

(* takeUnits: from who has most to who has least.                          *)
MostFirst(by) ==
  {s \in SetToSeqs(Authors) : \A i, k \in DOMAIN s : i < k => by[s[i]] >= by[s[k]]}
TakeShare(acc, a) ==
  LET taken == Min({acc.by[a], acc.left})
  IN [by |-> [acc.by EXCEPT ![a] = @ - taken], left |-> acc.left - taken]
TakeUnits(line, n, keys) ==
  LET by == FoldLeft(TakeShare, [by |-> SharesOf(line), left |-> n], keys).by
  IN [qty |-> TotalShares(by), by |-> by]

(* removeOrderedFromCart on one line, with units still to be taken.        *)
TakeFromLine(acc, l, keys) ==
  LET taken == IF l \in Online THEN Min({lines[l].qty, acc.left}) ELSE 0
      line == IF taken = 0 THEN lines[l]
              ELSE IF taken = lines[l].qty THEN NoLine
              ELSE TakeUnits(lines[l], taken, keys[l])
  IN [left |-> acc.left - taken, lines |-> Append(acc.lines, line)]

-----------------------------------------------------------------------------
(* A line as a browser may send it.                                        *)
SentLines ==
  {NoLine} \cup
  {[qty |-> n, by |-> b] : n \in 1..MaxUnits,
                           b \in {b \in [Authors -> 0..MaxUnits] : TotalShares(b) <= MaxUnits}}

SharesInit ==
  /\ lines \in [Lines -> {[qty |-> n, by |-> NoShares] : n \in 0..MaxUnits}]
  /\ saver = NoAuthor
  /\ order = NothingOrdered
  /\ made = 0

(* putOrgCart: a person saves a cart edited over the one stored.           *)
SaveCart(p, next) ==
  /\ \E keys \in SetToSeqs(Authors \ {p}) : lines' = Attribute(next, p, keys)
  /\ saver' = p

PersonSaves(p, next) ==
  /\ order = NothingOrdered
  /\ SaveCart(p, next)
  /\ UNCHANGED <<order, made>>

(* The cart page orders, at a distributor, what some people put, and the   *)
(* order is created.                                                       *)
UnitsOf(people) ==
  SumFunction([l \in Online |-> SumFunctionOnSet(SharesOf(lines[l]), people)])

OrderTheirs(p, people) ==
  /\ order = NothingOrdered /\ made < MaxOrders
  /\ UnitsOf(people) > 0
  /\ order' = [who |-> p, people |-> people, qty |-> UnitsOf(people),
                rest |-> AllUnits(lines) - UnitsOf(people), open |-> {"tab", "server"}]
  /\ made' = made + 1
  /\ UNCHANGED <<lines, saver>>

DoneWith(side) == order' = IF order.open = {side} THEN NothingOrdered ELSE [order EXCEPT !.open = @ \ {side}]

(* consumeOrdered: the tab that ordered, told of the order, saves its cart *)
(* without the units of the people of the filter.                          *)
WithoutPeople(line) ==
  LET left == [a \in Authors |-> IF a \in order.people THEN 0 ELSE SharesOf(line)[a]]
  IN [qty |-> TotalShares(left), by |-> left]

TabClears ==
  /\ order # NothingOrdered /\ "tab" \in order.open
  /\ SaveCart(order.who, [l \in Lines |-> IF l \in Online THEN WithoutPeople(lines[l]) ELSE lines[l]])
  /\ DoneWith("tab")
  /\ UNCHANGED made

(* reconcileOrders: the server subtracts what the order says.              *)
ServerTakes ==
  /\ order # NothingOrdered /\ "server" \in order.open
  /\ \E keys \in [Lines -> SetToSeqs(Authors)] :
       /\ \A l \in Lines : keys[l] \in MostFirst(SharesOf(lines[l]))
       /\ lines' = FoldLeft(LAMBDA acc, l : TakeFromLine(acc, l, keys),
                            [left |-> order.qty, lines |-> <<>>], [l \in Lines |-> l]).lines
  /\ saver' = IF lines' = lines THEN saver ELSE NoAuthor
  /\ DoneWith("server")
  /\ UNCHANGED made

SharesNext ==
  \/ \E p \in People, next \in [Lines -> SentLines] : PersonSaves(p, next)
  \/ \E p \in People, people \in SUBSET Authors : OrderTheirs(p, people)
  \/ TabClears
  \/ ServerTakes

SharesSpec == SharesInit /\ [][SharesNext]_sharesVars

-----------------------------------------------------------------------------
(* cart-attribution.ts:5 "la suma es igual a `qty`": whatever shares a     *)
(* browser claims, and however orders take units out, the shares of a line *)
(* that has authors add up to its quantity.                                *)
SharesAddUp ==
  \A l \in Lines : lines[l].by # NoShares => TotalShares(lines[l].by) = lines[l].qty

(* cart-attribution.ts:7-10: counting the product in all its lines, nobody *)
(* gets units in their name but by saving themselves.                      *)
NobodysShareGrows ==
  [][\A a \in Authors : a # saver' => Units(a, lines') <= Units(a, lines)]_sharesVars

(* page.tsx:181-182 "sale solo eso del carrito; lo del resto queda": when  *)
(* the tab and the server are done with an order, at most what was ordered *)
(* is gone.                                                                *)
TheRestStays ==
  [][order # NothingOrdered => AllUnits(lines') >= order.rest]_sharesVars
=============================================================================
