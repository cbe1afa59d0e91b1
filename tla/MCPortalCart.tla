---------------------------- MODULE MCPortalCart ----------------------------
(* PortalCart for TLC: tasks, codes and warehouses are interchangeable.    *)
(* The pure functions are checked over every small input, not only over    *)
(* those that the tasks produce.                                           *)
EXTENDS PortalCart, TLC

Symmetry == Permutations(Tasks) \cup Permutations(Codes) \cup Permutations(Warehouses)

(* Looked at before the first call, which is enough.                        *)
ForEverySmallInput(Holds(_, _, _, _)) ==
  LockInit =>
  \A nodo, portal \in SmallCarts, before \in SmallCarts \cup {NoSnapshot}, opts \in Options :
    Holds(nodo, portal, before, opts)

(* No portal line vanishes without a reason, for every small input.        *)
NeverVanishes == ForEverySmallInput(NothingVanishes)

(* A repeated verification is quiet, for every small input.                *)
AlwaysQuietAgain == ForEverySmallInput(SecondVerificationIsQuiet)
=============================================================================
