----------------------------- MODULE MCReviews -----------------------------
(* Instances of Reviews for TLC: the reviews, and the slots, are alike. *)
EXTENDS Reviews, TLC

Symmetry == Permutations(Reviews) \cup Permutations(Slots)
=============================================================================
