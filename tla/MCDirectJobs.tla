--------------------------- MODULE MCDirectJobs ---------------------------
(* Instances of DirectJobs for TLC: the jobs, and the slots, are alike. *)
EXTENDS DirectJobs, TLC

Symmetry == Permutations(Jobs) \cup Permutations(Slots)
=============================================================================
