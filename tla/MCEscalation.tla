---------------------------- MODULE MCEscalation ----------------------------
(* Instances of Escalation for TLC.  The symmetry is for safety only. *)
EXTENDS Escalation, TLC

Symmetry == Permutations(Workers) \cup Permutations(Clients)
=============================================================================
