----------------------------- MODULE MCAccounts -----------------------------
(* Instances of Accounts for TLC: two plans, the lower one allows fewer      *)
(* categories and has no trial. Requests and slots are alike.                *)
EXTENDS Accounts, TLC

PlanLimits == 1 :> 1 @@ 2 :> 2

Symmetry == Permutations(Changes) \cup Permutations(Slots)
=============================================================================
