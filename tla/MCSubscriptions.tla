--------------------------- MODULE MCSubscriptions ---------------------------
(* Instances of Subscriptions for TLC. *)
EXTENDS Subscriptions

\* Every plan has both prices, and a year costs ten months.
MCPrice == [p \in Tiers \X Cycles |-> IF p[2] = "YEARLY" THEN 10 * p[1] ELSE p[1]]
=============================================================================
