-------------------------- MODULE PortalReconcile --------------------------
(***************************************************************************)
(* The pure functions that reconcile the NODO cart with the cart of a      *)
(* distributor's portal (providers/portal-cart-sync.ts) and the comparison *)
(* made before confirming (providers/cart-match.ts).                       *)
(*                                                                         *)
(* A cart is a function from product codes to quantities, 0 meaning that   *)
(* the product is not in it; the code of a line is already normalised.     *)
(***************************************************************************)
EXTENDS Naturals

CONSTANTS Codes, NoSnapshot

ASSUME NoSnapshotAssumption == NoSnapshot \notin [Codes -> Nat]

Carts == [Codes -> Nat]
Empty == [c \in Codes |-> 0]
LinesOf(cart) == {c \in Codes : cart[c] > 0}
Without(cart, drop) == [c \in Codes |-> IF c \in drop THEN 0 ELSE cart[c]]

InSnapshot(snapshot, c) == snapshot # NoSnapshot /\ snapshot[c] > 0

(* Options of the portal: Invid and Air keep the cart per session, New     *)
(* Bytes opens a new one each time; drop is dropPortalCodes.               *)
Options == [sessionScoped : BOOLEAN, preserveNodoLines : BOOLEAN, drop : SUBSET Codes]

(* A session portal that kept nothing of the snapshot is a new session.    *)
SessionMiss(portal, snapshot, opts) ==
  /\ opts.sessionScoped
  /\ snapshot # NoSnapshot
  /\ \A c \in LinesOf(Without(portal, opts.drop)) : ~InSnapshot(snapshot, c)

(* Portal lines that NODO does not have and did not load: pending until    *)
(* the merchant decides.                                                   *)
AddedInPortal(nodo, portal, snapshot, opts) ==
  {c \in LinesOf(Without(portal, opts.drop)) \ LinesOf(nodo) :
     ~InSnapshot(snapshot, c) \/ SessionMiss(portal, snapshot, opts)}

(* NODO lines whose quantity somebody changed at the portal.               *)
KeptNodoQty(nodo, portal, snapshot, opts) ==
  {c \in LinesOf(nodo) \cap LinesOf(Without(portal, opts.drop)) :
     /\ portal[c] # nodo[c]
     /\ ~InSnapshot(snapshot, c) \/ portal[c] # snapshot[c]
     /\ ~SessionMiss(portal, snapshot, opts)}

(* NODO lines that the portal had and lost.                                *)
RestoredInPortal(nodo, portal, snapshot, opts) ==
  {c \in LinesOf(nodo) \ (LinesOf(portal) \cup opts.drop) :
     /\ InSnapshot(snapshot, c)
     /\ ~SessionMiss(portal, snapshot, opts)
     /\ ~opts.preserveNodoLines}

(* Mutant of Merged: the pending lines are not loaded back.                *)
MergedWithoutPending(nodo, portal, snapshot, opts) == nodo

(* What is loaded in the portal: NODO's cart and the pending lines.        *)
Merged(nodo, portal, snapshot, opts) ==
  [c \in Codes |->
     IF nodo[c] > 0 THEN nodo[c]
     ELSE IF c \in AddedInPortal(nodo, portal, snapshot, opts) THEN portal[c]
     ELSE 0]

(* Mutant of NextSnapshot: the pending lines count as NODO's.              *)
SnapshotOfLoaded(loaded, added) == loaded

(* The snapshot saved after loading.                                       *)
NextSnapshot(loaded, added) == Without(loaded, added)

(* assertPortalCartMatches: every requested product is there exactly and,  *)
(* unless the portal adds lines of its own, nothing else is.               *)
CartMatches(requested, loaded, ignoreExtras) ==
  \A c \in Codes : loaded[c] = requested[c] \/ (ignoreExtras /\ requested[c] = 0)

-----------------------------------------------------------------------------
(* NODO's cart wins: what it has goes to the portal as it is, and the      *)
(* snapshot saved afterwards is NODO's cart and nothing else (the comment  *)
(* of nextCartSnapshot).                                                   *)
NodoWins(nodo, portal, snapshot, opts) ==
  LET loaded == Merged(nodo, portal, snapshot, opts) IN
  /\ \A c \in LinesOf(nodo) : loaded[c] = nodo[c]
  /\ NextSnapshot(loaded, AddedInPortal(nodo, portal, snapshot, opts)) = nodo

(* A portal line disappears only if the merchant dropped it, or NODO had   *)
(* loaded it and no longer has it.                                         *)
NothingVanishes(nodo, portal, snapshot, opts) ==
  \A c \in LinesOf(portal) :
    \/ Merged(nodo, portal, snapshot, opts)[c] > 0
    \/ c \in opts.drop
    \/ InSnapshot(snapshot, c) /\ nodo[c] = 0

(* Verifying again, with nothing changed on either side, loads the same    *)
(* cart, has nothing new to report and keeps the pending lines pending.    *)
SecondVerificationIsQuiet(nodo, portal, snapshot, opts) ==
  LET loaded == Merged(nodo, portal, snapshot, opts)
      added == AddedInPortal(nodo, portal, snapshot, opts)
      saved == NextSnapshot(loaded, added)
      again == [opts EXCEPT !.drop = {}]
  IN /\ Merged(nodo, loaded, saved, again) = loaded
     /\ AddedInPortal(nodo, loaded, saved, again) = added
     /\ KeptNodoQty(nodo, loaded, saved, again) = {}
     /\ RestoredInPortal(nodo, loaded, saved, again) = {}
=============================================================================
