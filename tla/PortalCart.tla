----------------------------- MODULE PortalCart -----------------------------
(***************************************************************************)
(* The cart of one portal account and the tasks of NODO that use it, under *)
(* withPortalCartLock: verify the NODO cart (preview with reconcileFor),   *)
(* quote a held order (preview with loadedFor) and fulfill a draft         *)
(* (providers/elit-order.service.ts).  Every call to the portal is a step. *)
(*                                                                         *)
(* The portal and the people who use its web are external: they may change *)
(* the cart of the account, at most MaxEdits times, and it is the portal   *)
(* that places what is added in its warehouses.  An order is of one.       *)
(***************************************************************************)
EXTENDS PortalCartLock, PortalReconcile

CONSTANTS
  Warehouses,
  MaxQty,    \* bound on the quantity of a line
  MaxEdits,  \* bound on the changes made at the portal's own web
  Edits,     \* when they happen: "betweenTasks" or "anytime"
  Faults     \* what may go wrong: see the actions

ASSUME PortalCartAssumption ==
  /\ MaxQty \in Nat /\ MaxEdits \in Nat
  /\ Edits \in {"betweenTasks", "anytime"}
  /\ Faults \subseteq {"noStock", "shortfall", "callFails", "process", "save"}

(* Portals are independent of one another: a cart is of one account.        *)
ASSUME OneAccountAssumption == \A a, b \in Accounts : a = b

VARIABLES
  cart,      \* the account's cart at the portal: code -> warehouse -> units
  origin,    \* who first put each code there: nobody, nodo or merchant (history)
  snapshot,  \* ProviderSyncConfig.portalCartSnapshot
  job,       \* task -> what it does and how far it is
  sent,      \* orders the portal accepted: [asked, content, left] (history)
  unsaved,   \* lines of NODO may be missing from the snapshot: a task ended
             \* without writing it, or left some in the cart (history)
  edits      \* changes made at the portal's web so far

cartVars == <<cart, origin, snapshot, sent, unsaved, edits>>
vars == <<lockVars, cartVars, job>>

SmallCarts == [Codes -> 0..MaxQty]
NoJob == [op |-> "none"]
NoWarehouse == "none"  \* a task that does not order chooses no warehouse

Nowhere == [w \in Warehouses |-> 0]
In(codes, w) == {c \in codes : cart[c][w] > 0}
Rows == {r \in Codes \X Warehouses : cart[r[1]][r[2]] > 0}

(* mapElitCartDetails: of a code that is in several warehouses, the units  *)
(* in the first that the portal lists, whichever it is.                    *)
Readings ==
  {lines \in SmallCarts :
     \A c \in Codes : IF cart[c] = Nowhere THEN lines[c] = 0
                      ELSE \E w \in Warehouses : cart[c][w] > 0 /\ lines[c] = cart[c][w]}

(* Where the portal may place the units that it accepts: never more than   *)
(* it was asked for.                                                       *)
Placements(asked) ==
  {got \in [Warehouses -> 0..asked] :
     /\ got # Nowhere
     /\ \A w, v \in Warehouses : w # v => got[w] + got[v] <= asked
     /\ "shortfall" \in Faults \/ \E w \in Warehouses : got[w] = asked}
Elit(drop) == [sessionScoped |-> FALSE, preserveNodoLines |-> FALSE, drop |-> drop]

Init == /\ LockInit
        /\ cart = [c \in Codes |-> Nowhere]
        /\ origin = [c \in Codes |-> "nobody"]
        /\ snapshot = NoSnapshot
        /\ job = [t \in Tasks |-> NoJob]
        /\ sent = {}
        /\ unsaved = FALSE
        /\ edits = 0

(* A request with a cart that is not empty; drop are the portal lines the  *)
(* merchant decided to take out, warehouse the one that an order is for.   *)
Request(t, op, nodo, drop, warehouse) ==
  /\ Call(t)
  /\ job' = [job EXCEPT ![t] =
       [op |-> op, nodo |-> nodo, drop |-> drop, warehouse |-> warehouse, step |-> "read",
        target |-> nodo, seen |-> Empty, rows |-> {}, whose |-> [c \in Codes |-> "nobody"],
        added |-> {}, todo |-> {}, missing |-> {}, pass |-> 1, saved |-> FALSE]]
  /\ UNCHANGED cartVars

At(t, step) == phase[t] = "running" /\ job[t].step = step
Doing(t, j) == job' = [job EXCEPT ![t] = j] /\ UNCHANGED lockVars

(* syncCart empties the rows it read, of every warehouse, then adds the    *)
(* lines one by one.                                                       *)
Clearing(j, rows) ==
  IF rows = {} THEN [j EXCEPT !.rows = {}, !.step = "add", !.todo = LinesOf(j.target)]
               ELSE [j EXCEPT !.rows = rows, !.step = "clear"]

(* GET cart.  A verification goes on to the snapshot.                      *)
ReadCart(t) ==
  /\ At(t, "read")
  /\ \/ /\ job[t].op = "verify"
        /\ \E lines \in Readings :
             Doing(t, [job[t] EXCEPT !.step = "load", !.seen = lines, !.rows = Rows, !.whose = origin])
     \/ job[t].op # "verify" /\ Doing(t, Clearing(job[t], Rows))
  /\ UNCHANGED cartVars

(* Load the snapshot and reconcile.                                        *)
LoadSnapshot(t) ==
  LET j == job[t]
      opts == Elit(j.drop)
      plan == [j EXCEPT !.target = Merged(j.nodo, j.seen, snapshot, opts),
                        !.added = AddedInPortal(j.nodo, j.seen, snapshot, opts)]
  IN /\ At(t, "load")
     /\ Doing(t, Clearing(plan, j.rows))
     /\ UNCHANGED cartVars

(* POST cart/update with quantity 0, of one row.                           *)
ClearLine(t, c, w) ==
  LET j == job[t] IN
  /\ At(t, "clear") /\ <<c, w>> \in j.rows
  /\ cart' = [cart EXCEPT ![c][w] = 0]
  /\ origin' = [origin EXCEPT ![c] = IF cart'[c] = Nowhere THEN "nobody" ELSE @]
  /\ Doing(t, Clearing(j, j.rows \ {<<c, w>>}))
  /\ UNCHANGED <<snapshot, sent, unsaved, edits>>

(* Where syncCart leads: without stock of anything there is an error, and  *)
(* a fulfilment also stops if it misses something; it loads the cart twice *)
(* (once inside previewUnlocked).                                          *)
AfterAdding(j) ==
  IF j.missing = LinesOf(j.target) THEN "done"
  ELSE IF j.op # "fulfill" THEN "save"
  ELSE IF j.missing # {} THEN "done"
  ELSE IF j.pass = 1 THEN "read"
  ELSE "check"

Added(t, c, missing) ==
  LET j == [job[t] EXCEPT !.todo = @ \ {c}, !.missing = missing] IN
  Doing(t, IF j.todo # {} THEN j
           ELSE [j EXCEPT !.step = AfterAdding(j),
                          !.pass = IF AfterAdding(j) = "read" THEN 2 ELSE @])

(* POST cart/add, which names no warehouse: the portal places the units,   *)
(* and may accept less than it was asked for.                              *)
AddLine(t, c) ==
  LET j == job[t]
      asked == j.target[c]
  IN /\ At(t, "add") /\ c \in j.todo
     /\ \E got \in Placements(asked) : cart' = [cart EXCEPT ![c] = got]
     /\ origin' = [origin EXCEPT ![c] = IF c \in j.added THEN "merchant" ELSE "nodo"]
     /\ Added(t, c, j.missing)
     /\ UNCHANGED <<snapshot, sent, unsaved, edits>>

(* POST cart/add answers that there is no stock: the line is skipped.      *)
LineWithoutStock(t, c) ==
  /\ "noStock" \in Faults
  /\ At(t, "add") /\ c \in job[t].todo
  /\ Added(t, c, job[t].missing \cup {c})
  /\ UNCHANGED cartVars

(* Mutant of SaveSnapshot: what is saved is the cart read before loading.  *)
SaveSeen(t) ==
  LET j == job[t] IN
  /\ At(t, "save")
  /\ snapshot' = NextSnapshot(j.seen, j.added)
  /\ Doing(t, [j EXCEPT !.step = "done", !.saved = TRUE])
  /\ UNCHANGED <<cart, origin, sent, unsaved, edits>>

(* Save the snapshot.  When the database throws, a quote logs it and a     *)
(* verification answers the error: nothing is saved.                       *)
SaveSnapshot(t) ==
  LET j == job[t] IN
  /\ At(t, "save")
  /\ \/ snapshot' = NextSnapshot(j.target, j.added) /\ Doing(t, [j EXCEPT !.step = "done", !.saved = TRUE])
     \/ "save" \in Faults /\ UNCHANGED snapshot /\ Doing(t, [j EXCEPT !.step = "done"])
  /\ UNCHANGED <<cart, origin, sent, unsaved, edits>>

(* Mutant of CheckCart: the order is confirmed with what was accepted.     *)
ConfirmUnchecked(t) ==
  /\ At(t, "check")
  /\ Doing(t, [job[t] EXCEPT !.step = "process"])
  /\ UNCHANGED cartVars

(* Read the cart again and assertPortalCartMatches.                        *)
CheckCart(t) ==
  /\ At(t, "check")
  /\ \E lines \in Readings :
       Doing(t, [job[t] EXCEPT !.step = IF CartMatches(job[t].nodo, lines, FALSE) THEN "process" ELSE "done"])
  /\ UNCHANGED cartVars

(* POST cart/process: the portal turns what the cart has in the warehouse  *)
(* of the request into an order, and keeps the rest.                       *)
Process(t) ==
  LET w == job[t].warehouse
      left == UNION {In(Codes, v) : v \in Warehouses \ {w}}
  IN /\ At(t, "process")
     /\ In(Codes, w) # {}
     /\ sent' = sent \cup
          {[asked |-> job[t].nodo, content |-> [c \in Codes |-> cart[c][w]], left |-> left]}
     /\ cart' = [c \in Codes |-> [cart[c] EXCEPT ![w] = 0]]
     /\ origin' = [c \in Codes |-> IF c \in left THEN origin[c] ELSE "nobody"]
     /\ unsaved' = (unsaved \/ left # {})
     /\ Doing(t, [job[t] EXCEPT !.step = "forget"])
     /\ UNCHANGED <<snapshot, edits>>

(* POST cart/process fails, as it does if there is nothing to order in     *)
(* that warehouse: the row is FAILED and the cart stays as it is.          *)
ProcessFails(t) ==
  /\ At(t, "process")
  /\ "process" \in Faults \/ In(Codes, job[t].warehouse) = {}
  /\ Doing(t, [job[t] EXCEPT !.step = "done"])
  /\ UNCHANGED cartVars

(* cartSnapshots.clear; its error is only logged.                          *)
ClearSnapshot(t) ==
  /\ At(t, "forget")
  /\ \/ snapshot' = NoSnapshot /\ Doing(t, [job[t] EXCEPT !.step = "done", !.saved = TRUE])
     \/ "save" \in Faults /\ UNCHANGED snapshot /\ Doing(t, [job[t] EXCEPT !.step = "done"])
  /\ UNCHANGED <<cart, origin, sent, unsaved, edits>>

(* Any call to the portal may end the task with an error.                  *)
CallFails(t) ==
  /\ "callFails" \in Faults
  /\ \E step \in {"read", "clear", "add", "check"} : At(t, step)
  /\ Doing(t, [job[t] EXCEPT !.step = "done"])
  /\ UNCHANGED cartVars

Leave(t) ==
  /\ At(t, "done")
  /\ Finish(t)
  /\ job' = [job EXCEPT ![t] = NoJob]
  /\ unsaved' = (unsaved \/ ~job[t].saved)
  /\ UNCHANGED <<cart, origin, snapshot, sent, edits>>

(* Somebody sets the quantity of a row at the portal's web.                *)
EditPortal(c, w, qty) ==
  /\ edits < MaxEdits
  /\ Edits = "betweenTasks" => \A t \in Tasks : phase[t] # "running"
  /\ cart[c][w] # qty
  /\ cart' = [cart EXCEPT ![c][w] = qty]
  /\ origin' = [origin EXCEPT ![c] = IF cart'[c] = Nowhere THEN "nobody"
                                     ELSE IF @ = "nobody" THEN "merchant" ELSE @]
  /\ edits' = edits + 1
  /\ UNCHANGED <<lockVars, job, snapshot, sent, unsaved>>

Work(t) == \/ Begin(t) /\ UNCHANGED <<cartVars, job>>
           \/ ReadCart(t)
           \/ LoadSnapshot(t)
           \/ \E c \in Codes : AddLine(t, c) \/ LineWithoutStock(t, c)
           \/ \E c \in Codes, w \in Warehouses : ClearLine(t, c, w)
           \/ SaveSnapshot(t)
           \/ CheckCart(t)
           \/ Process(t)
           \/ ProcessFails(t)
           \/ ClearSnapshot(t)
           \/ CallFails(t)
           \/ Leave(t)
           \/ Cleanup(t) /\ UNCHANGED <<cartVars, job>>

Arrive(t) ==
  \E nodo \in SmallCarts \ {Empty} :
    \/ \E drop \in SUBSET Codes : Request(t, "verify", nodo, drop, NoWarehouse)
    \/ Request(t, "quote", nodo, {}, NoWarehouse)
    \/ \E w \in Warehouses : Request(t, "fulfill", nodo, {}, w)

Next == \/ \E t \in Tasks : Arrive(t) \/ Work(t)
        \/ \E c \in Codes, w \in Warehouses, qty \in 0..MaxQty : EditPortal(c, w, qty)

Spec == Init /\ [][Next]_vars

-----------------------------------------------------------------------------
Running(t) == phase[t] = "running"

CartTypeOK ==
  /\ LockTypeOK
  /\ cart \in [Codes -> [Warehouses -> 0..MaxQty]]
  /\ origin \in [Codes -> {"nobody", "nodo", "merchant"}]
  /\ snapshot \in SmallCarts \cup {NoSnapshot}
  /\ sent \subseteq [asked : SmallCarts, content : SmallCarts, left : SUBSET Codes]
  /\ unsaved \in BOOLEAN
  /\ edits \in 0..MaxEdits

(* An order that the distributor received is made of lines of the cart     *)
(* that NODO was asked to send, each with its quantity, however other      *)
(* tasks of the account, short acceptances and changes at the portal       *)
(* interleave (the check before cart/process).  A line is missing from it  *)
(* only as a whole, and is then at the portal in another warehouse: this   *)
(* is as far as the code goes (the README says what its comment says).     *)
SentIsRequested ==
  \A s \in sent : \A c \in Codes : s.content[c] = IF c \in s.left THEN 0 ELSE s.asked[c]

(* A verification leaves the account's cart with what it reconciled and    *)
(* the portal had: no other task of NODO gets in between.                  *)
VerifyLeavesWhatItMerged ==
  \A t \in Tasks : Running(t) /\ job[t].op = "verify" /\ job[t].step = "save" =>
    /\ UNION {In(Codes, w) : w \in Warehouses} = LinesOf(job[t].target) \ job[t].missing
    /\ \A c \in Codes, w \in Warehouses : cart[c][w] <= job[t].target[c]

(* What is reported as loaded only at the portal was put there by somebody *)
(* at the portal, never by NODO itself (portal-cart-sync.ts: the snapshot  *)
(* is what was loaded the last time).  The code keeps it as long as every  *)
(* task wrote the snapshot and nothing ordered stayed in the cart: a       *)
(* fulfilment that stops after loading it does not write it, nor a task    *)
(* that ends in an error.                                                  *)
AddedWasAdded ==
  ~unsaved => \A t \in Tasks : job[t] # NoJob =>
                \A c \in job[t].added : job[t].whose[c] = "merchant"

=============================================================================
