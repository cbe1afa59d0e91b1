-------------------------- MODULE MCRetailerParts --------------------------
(* Three parts of a retailer's organization that share nothing, for one    *)
(* run of TLC: the orders to its store, its own price list and the shares  *)
(* of its cart.  As in MCSmallParts, a behaviour is a behaviour of one of  *)
(* them and the other two stay at an initial value.                        *)
EXTENDS StorefrontOrders, ListImport, CartShares, TLC

VARIABLE part

partsVars == <<part, vars, listVars, sharesVars>>

PartsInit ==
  /\ part \in {"store", "list", "shares"}
  /\ Init /\ ListInit /\ SharesInit
  /\ part = "store" \/ (\A p \in Products : stock[p] = 0)
  /\ part = "list" \/ (\A i \in Imports : sheet[i] = Codes)
  /\ part = "shares" \/ (\A l \in Lines : lines[l].qty = 0)

PartsNext ==
  /\ UNCHANGED part
  /\ \/ part = "store" /\ Next /\ UNCHANGED <<listVars, sharesVars>>
     \/ part = "list" /\ ListNext /\ UNCHANGED <<vars, sharesVars>>
     \/ part = "shares" /\ SharesNext /\ UNCHANGED <<vars, listVars>>

PartsSpec == PartsInit /\ [][PartsNext]_partsVars

(* Orders, calls and workers are interchangeable.                          *)
Symmetry == Permutations(Orders) \cup Permutations(Calls) \cup Permutations(Workers)
=============================================================================
