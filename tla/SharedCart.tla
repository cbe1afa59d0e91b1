----------------------------- MODULE SharedCart -----------------------------
(***************************************************************************)
(* The cart that the members of a retailer share: the tabs that edit it    *)
(* (lib/cart.tsx of the web), putOrgCart and getOrgCart with their         *)
(* versions, the live notices, and the reconciliation that takes the       *)
(* products of created orders out of it (cart/cart.service.ts).            *)
(*                                                                         *)
(* The server's cart is the sequence of versions it has had: updatedAt is  *)
(* the index of a version and a tab's base is the version it last took.    *)
(* Every line is an online product of the distributor ordered from, in one *)
(* scheme, and every tab has loaded the cart at the start.  What a browser  *)
(* stores, the cart and its last version in sync, is local and base.       *)
(***************************************************************************)
EXTENDS CartMerge, Sequences, FiniteSetsExt

CONSTANTS
  Tabs,      \* open tabs, each in a browser of its own
  Orders,    \* orders to the distributor
  Workers,   \* calls of reconcileOrders: the scheduler and GETs of the cart
  MaxEdits,  \* bound on the changes people make
  MaxQty,    \* bound on the quantity a person sets
  Faults     \* see LoseSave, Reload and Deliver

ASSUME SharedCartAssumption ==
  /\ IsFiniteSet(Tabs) /\ IsFiniteSet(Orders)
  /\ MaxEdits \in Nat /\ MaxQty \in Nat
  /\ Faults \subseteq {"overtake", "lostRequest", "lostReply", "reload"}

VARIABLES
  versions,  \* what OrgCart.items has been, the last one is what it is
  base,      \* tab -> baseRef: the version it works on
  local,     \* tab -> the cart it shows
  saving,    \* tab -> its PUT in flight, or NoSave
  inbox,     \* tab -> versions on their way to it (live notices, GETs)
  orders,    \* order -> its stage, items and the tab that made it
  found,     \* worker -> the orders it read and has not settled
  edits,     \* changes made so far
  added,     \* line -> units people have put in the cart (history)
  removed,   \* line -> units people have taken out (history)
  taken,     \* line -> units the reconciliation took out (history)
  editors,   \* line -> tabs that have changed it (history)
  wanted     \* line -> the quantity its last editor left (history)

serverVars == <<versions, orders, found>>
tabVars == <<base, local, saving, inbox>>
history == <<added, removed, taken, editors, wanted>>
vars == <<serverVars, tabVars, edits, history>>

NoSave == [stage |-> "none"]
NoOrder == [stage |-> "none"]
Latest == Len(versions)
Current == versions[Latest]
Dirty(t) == local[t] # versions[base[t]]
Quantities(cart) == [x \in Lines |-> cart[x].qty]

Init == \E present \in SUBSET Lines :
  LET start == [x \in Lines |-> IF x \in present THEN [qty |-> 1, made |-> 0] ELSE Absent] IN
  /\ versions = <<start>>
  /\ base = [t \in Tabs |-> 1]
  /\ local = [t \in Tabs |-> start]
  /\ saving = [t \in Tabs |-> NoSave]
  /\ inbox = [t \in Tabs |-> {}]
  /\ orders = [o \in Orders |-> NoOrder]
  /\ found = [w \in Workers |-> {}]
  /\ edits = 0
  /\ added = Quantities(start)
  /\ removed = [x \in Lines |-> 0]
  /\ taken = [x \in Lines |-> 0]
  /\ editors = [x \in Lines |-> {}]
  /\ wanted = Quantities(start)

-----------------------------------------------------------------------------
(* Somebody adds a product, changes its quantity or takes it out.          *)
Edit(t, x, qty) ==
  LET old == local[t][x]
      new == IF qty = 0 THEN Absent
             ELSE IF IsThere(old) THEN [old EXCEPT !.qty = qty]
             ELSE [qty |-> qty, made |-> edits + 1]
  IN /\ edits < MaxEdits
     /\ qty # old.qty
     /\ local' = [local EXCEPT ![t][x] = new]
     /\ edits' = edits + 1
     /\ IF qty > old.qty
          THEN added' = [added EXCEPT ![x] = @ + qty - old.qty] /\ UNCHANGED removed
          ELSE removed' = [removed EXCEPT ![x] = @ + old.qty - qty] /\ UNCHANGED added
     /\ editors' = [editors EXCEPT ![x] = @ \cup {t}]
     /\ wanted' = [wanted EXCEPT ![x] = qty]
     /\ UNCHANGED <<serverVars, base, saving, inbox, taken>>

(* pushNow: one save at a time, only when something changed.  Its timers   *)
(* (450 ms after a change, 150 ms after a save) may fire at any time.      *)
Push(t) ==
  /\ saving[t] = NoSave /\ Dirty(t)
  /\ saving' = [saving EXCEPT ![t] = [stage |-> "sent", cart |-> local[t], version |-> base[t]]]
  /\ UNCHANGED <<serverVars, base, local, inbox, edits, history>>

(* broadcast reaches the tabs that are connected.                          *)
Notify(tabs) ==
  \E heard \in SUBSET tabs :
    inbox' = [t \in Tabs |-> inbox[t] \cup (IF t \in heard THEN {Len(versions')} ELSE {})]

(* Mutant of Put: baseUpdatedAt is not compared.                           *)
PutUnchecked(t) ==
  /\ saving[t].stage = "sent"
  /\ versions' = Append(versions, saving[t].cart)
  /\ saving' = [saving EXCEPT ![t] = [stage |-> "saved", version |-> Latest + 1]]
  /\ Notify(Tabs \ {t})
  /\ UNCHANGED <<orders, found, base, local, edits, history>>

(* putOrgCart under its advisory lock: another version is a conflict and   *)
(* nothing is written.                                                     *)
Put(t) ==
  /\ saving[t].stage = "sent"
  /\ \/ /\ saving[t].version = Latest
        /\ versions' = Append(versions, saving[t].cart)
        /\ saving' = [saving EXCEPT ![t] = [stage |-> "saved", version |-> Latest + 1]]
        /\ Notify(Tabs \ {t})
     \/ /\ saving[t].version # Latest
        /\ saving' = [saving EXCEPT ![t] = [stage |-> "conflict", version |-> Latest]]
        /\ UNCHANGED <<versions, inbox>>
  /\ UNCHANGED <<orders, found, base, local, edits, history>>

(* setBase: never to an older version.                                     *)
SetBase(t, v) == base' = [base EXCEPT ![t] = IF v > @ THEN v ELSE @]

(* applyRemote.  A tab with nothing unsaved takes the version as it is,    *)
(* which is what merging does then.                                        *)
ApplyRemote(t, v) ==
  /\ SetBase(t, v)
  /\ local' = IF v <= base[t] THEN local
              ELSE [local EXCEPT ![t] = Merge(versions[base[t]], @, versions[v])]

(* The answer of a save: it becomes the base, or is joined.                *)
Reply(t) ==
  /\ \/ saving[t].stage = "saved" /\ SetBase(t, saving[t].version) /\ UNCHANGED local
     \/ saving[t].stage = "conflict" /\ ApplyRemote(t, saving[t].version)
  /\ saving' = [saving EXCEPT ![t] = NoSave]
  /\ UNCHANGED <<serverVars, inbox, edits, history>>

(* No network: the save, or its answer, is lost and the tab keeps its cart.*)
LoseSave(t) ==
  /\ saving[t] # NoSave
  /\ (IF saving[t].stage = "sent" THEN "lostRequest" ELSE "lostReply") \in Faults
  /\ saving' = [saving EXCEPT ![t] = NoSave]
  /\ UNCHANGED <<serverVars, base, local, inbox, edits, history>>

(* Mutant of Pull: only when there is something to save.                   *)
PullIfDirty(t) ==
  /\ base[t] # Latest /\ Latest \notin inbox[t] /\ Dirty(t)
  /\ inbox' = [inbox EXCEPT ![t] = @ \cup {Latest}]
  /\ UNCHANGED <<serverVars, base, local, saving, edits, history>>

(* pullRemote: the poll, the return to the tab, a new connection.          *)
Pull(t) ==
  /\ base[t] # Latest /\ Latest \notin inbox[t]
  /\ inbox' = [inbox EXCEPT ![t] = @ \cup {Latest}]
  /\ UNCHANGED <<serverVars, base, local, saving, edits, history>>

(* Mutant of Reload: an empty cart of the server never counts.             *)
ReloadKeepingCopy(t) ==
  /\ "reload" \in Faults
  /\ base' = [base EXCEPT ![t] = Latest]
  /\ local' = [local EXCEPT ![t] = IF Current # EmptyCart THEN Current ELSE @]
  /\ saving' = [saving EXCEPT ![t] = NoSave]
  /\ inbox' = [inbox EXCEPT ![t] = {}]
  /\ UNCHANGED <<serverVars, edits, history>>

(* The page is loaded again: the server's cart, unless it is empty and the *)
(* last version this browser was in sync with (readSyncedAt).  Then the    *)
(* browser's copy is work of its own that was not saved.                   *)
Reload(t) ==
  /\ "reload" \in Faults
  /\ base' = [base EXCEPT ![t] = Latest]
  /\ local' = [local EXCEPT ![t] = IF Current = EmptyCart /\ base[t] = Latest THEN @ ELSE Current]
  /\ saving' = [saving EXCEPT ![t] = NoSave]
  /\ inbox' = [inbox EXCEPT ![t] = {}]
  /\ UNCHANGED <<serverVars, edits, history>>

(* A version arrives.  Whether one that includes the tab's own save may    *)
(* arrive before the answer of that save is a fault.                       *)
Deliver(t, v) ==
  /\ v \in inbox[t]
  /\ saving[t].stage = "saved" /\ "overtake" \notin Faults => v < saving[t].version
  /\ inbox' = [inbox EXCEPT ![t] = @ \ {v}]
  /\ ApplyRemote(t, v)
  /\ UNCHANGED <<serverVars, saving, edits, history>>

-----------------------------------------------------------------------------
(* An order with what a tab shows; module OrderApproval has its life.      *)
Submit(t, o) ==
  /\ orders[o] = NoOrder
  /\ \E x \in Lines : IsThere(local[t][x])
  /\ orders' = [orders EXCEPT ![o] =
       [stage |-> "sending", items |-> Quantities(local[t]), tab |-> t, told |-> FALSE]]
  /\ UNCHANGED <<versions, found, tabVars, edits, history>>

(* The distributor took it: the row says CREATED.                          *)
Created(o) ==
  /\ orders[o].stage = "sending"
  /\ orders' = [orders EXCEPT ![o].stage = "created"]
  /\ UNCHANGED <<versions, found, tabVars, edits, history>>

(* The tab that ordered is told, and clears the distributor's lines.       *)
Told(o) ==
  /\ orders[o].stage \in {"created", "settled"} /\ ~orders[o].told
  /\ orders' = [orders EXCEPT ![o].told = TRUE]
  /\ local' = [local EXCEPT ![orders[o].tab] = EmptyCart]
  /\ UNCHANGED <<versions, found, base, saving, inbox, edits, history>>

(* reconcileOrders reads the created orders that it has not taken out.     *)
Find(w) ==
  /\ found[w] = {}
  /\ found' = [found EXCEPT ![w] = {o \in Orders : orders[o].stage = "created"}]
  /\ found'[w] # {}
  /\ UNCHANGED <<versions, orders, tabVars, edits, history>>

Ordered(set, x) == MapThenSumSet(LAMBDA o : orders[o].items[x], set)

(* What removeOrderedFromCart takes of a line.                             *)
Taken(set, x) == LET n == Ordered(set, x) IN IF n < Current[x].qty THEN n ELSE Current[x].qty

(* Then, under the lock, it subtracts them and marks them.                 *)
Settle(w) ==
  LET left == [x \in Lines |-> LET n == Current[x].qty - Taken(found[w], x) IN
                 IF n = 0 THEN Absent ELSE [Current[x] EXCEPT !.qty = n]]
  IN /\ found[w] # {}
     /\ \/ left # Current /\ versions' = Append(versions, left) /\ Notify(Tabs)
        \/ left = Current /\ UNCHANGED <<versions, inbox>>
     /\ orders' = [o \in Orders |-> IF o \in found[w] THEN [orders[o] EXCEPT !.stage = "settled"] ELSE orders[o]]
     /\ taken' = [x \in Lines |-> taken[x] + Taken(found[w], x)]
     /\ found' = [found EXCEPT ![w] = {}]
     /\ UNCHANGED <<base, local, saving, edits, added, removed, editors, wanted>>

-----------------------------------------------------------------------------
TabStep(t) == Push(t) \/ Put(t) \/ Reply(t) \/ Pull(t) \/ \E v \in inbox[t] : Deliver(t, v)

Next == \/ \E t \in Tabs : TabStep(t) \/ LoseSave(t) \/ Reload(t)
        \/ \E t \in Tabs, x \in Lines, qty \in 0..MaxQty : Edit(t, x, qty)
        \/ \E t \in Tabs, o \in Orders : Submit(t, o)
        \/ \E o \in Orders : Created(o) \/ Told(o)
        \/ \E w \in Workers : Find(w) \/ Settle(w)

Spec == Init /\ [][Next]_vars

(* The timers and the poll of a tab fire, and the API answers.             *)
FairSpec == /\ Spec
            /\ \A t \in Tabs : /\ WF_vars(Push(t) \/ Put(t) \/ Reply(t))
                               /\ WF_vars(Pull(t))
                               /\ WF_vars(\E v \in inbox[t] : Deliver(t, v))

-----------------------------------------------------------------------------
CartTypeOK ==
  /\ Latest > 0
  /\ \A v \in 1..Latest : versions[v] \in Carts
  /\ base \in [Tabs -> 1..Latest]
  /\ local \in [Tabs -> Carts]
  /\ \A t \in Tabs : saving[t] = NoSave \/ saving[t].version \in 1..Latest
  /\ \A t \in Tabs : inbox[t] \subseteq 1..Latest

InSync(t) == saving[t] = NoSave /\ base[t] = Latest /\ ~Dirty(t)
AllInSync == \A t \in Tabs : InSync(t)

(* Nothing comes back: what the cart has and what orders took out of it    *)
(* never exceeds what people put in, however saves, conflicts, notices and *)
(* reconciliations interleave (cartSync.ts: without versions, "vuelven los *)
(* que ya se pidieron").                                                   *)
NothingComesBack == \A x \in Lines : Current[x].qty + taken[x] <= added[x]

(* What only one tab changes ends as that tab left it, whatever the others *)
(* do with other products (cartSync.ts: what changed on one side only is   *)
(* taken from that side).                                                  *)
SoleEditorWins ==
  AllInSync =>
    \A x \in Lines :
      Cardinality(editors[x]) <= 1 /\ (\A o \in Orders : orders[o] = NoOrder) =>
        Current[x].qty = wanted[x]

(* When people stop, every tab and the server end with the same cart.      *)
Converges == <>[]AllInSync

(* The reconciliation takes out of the cart at most what was ordered       *)
(* (reconcileOrders: the orders "que todavía no se descontaron").  The     *)
(* code does not keep it: see the README.                                  *)
TakenWasOrdered ==
  \A x \in Lines : taken[x] <= Ordered({o \in Orders : orders[o] # NoOrder}, x)

(* The units that each person added are summed (cartSync.ts: "si cambió en *)
(* los dos, se suman las unidades que agregó cada uno").  The code does    *)
(* not keep it: see the README.                                            *)
AdditionsAreSummed ==
  AllInSync /\ (\A o \in Orders : orders[o] = NoOrder) =>
    \A x \in Lines : removed[x] = 0 => Current[x].qty = added[x]
=============================================================================
