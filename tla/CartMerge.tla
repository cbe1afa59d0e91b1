----------------------------- MODULE CartMerge -----------------------------
(***************************************************************************)
(* How two versions of the shared cart are joined (lib/cartSync.ts of the  *)
(* web): what one tab shows, changed over a version of the server, and the *)
(* version the server has now.                                             *)
(*                                                                         *)
(* A line is its quantity and the moment it was added to the cart (addedAt *)
(* is part of the signature of a line; the shares are not).  The other     *)
(* fields of a product are left out.                                       *)
(***************************************************************************)
EXTENDS Integers

CONSTANT Lines

Line == [qty : Nat, made : Nat]
Absent == [qty |-> 0, made |-> 0]
IsThere(line) == line.qty > 0
Carts == [Lines -> {line \in Line : IsThere(line)} \cup {Absent}]
EmptyCart == [x \in Lines |-> Absent]

(* Mutant of MergedLine: when both sides changed, this tab's line wins.    *)
MergedLineLocalWins(base, local, remote) == IF local = base THEN remote ELSE local

(* decide: what changed on one side only comes from that side; if it       *)
(* changed on both, the units added here are added to the remote line.     *)
MergedLine(base, local, remote) ==
  LET addedHere == local.qty - base.qty
      sum == remote.qty + addedHere
  IN IF local = base THEN remote
     ELSE IF remote = base \/ local = remote \/ ~IsThere(local) THEN local
     ELSE IF IsThere(remote) THEN [remote EXCEPT !.qty = IF sum > 1 THEN sum ELSE 1]
     ELSE IF addedHere > 0 THEN [local EXCEPT !.qty = addedHere]
     ELSE Absent

Merge(base, local, remote) == [x \in Lines |-> MergedLine(base[x], local[x], remote[x])]
=============================================================================
