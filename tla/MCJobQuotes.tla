---------------------------- MODULE MCJobQuotes ----------------------------
(* Instances of JobQuotes for TLC: the traders, and the slots, are alike. *)
EXTENDS JobQuotes, TLC

Symmetry == Permutations(Traders) \cup Permutations(Slots)
=============================================================================
