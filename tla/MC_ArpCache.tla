----------------------------- MODULE MC_ArpCache -----------------------------
(***************************************************************************)
(* Three slots in level 1, two in level 2, as many addresses as fit into   *)
(* both and two MACs: every entry can be evicted, learned again with the   *)
(* other MAC and promoted, and level 2 fills up.                           *)
(***************************************************************************)
EXTENDS ArpCache, TLC

\* Addresses and MACs are interchangeable.
Symmetry == Permutations(Ip) \cup Permutations(Mac)
===============================================================================
