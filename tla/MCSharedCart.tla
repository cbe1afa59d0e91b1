---------------------------- MODULE MCSharedCart ----------------------------
(* SharedCart for TLC: tabs, lines and workers are interchangeable.        *)
EXTENDS SharedCart, TLC

Symmetry == Permutations(Tabs) \cup Permutations(Lines) \cup Permutations(Workers)
=============================================================================
