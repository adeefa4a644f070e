----------------------------- MODULE MCSessions -----------------------------
(* Instances of Sessions for TLC. Registrations, submissions, resets and       *)
(* slots are alike.                                                            *)
EXTENDS Sessions, TLC

Symmetry == Permutations(Registrations) \cup Permutations(Submissions)
            \cup Permutations(Resets) \cup Permutations(Slots)

\* The resets of passwords and the rest share no variable but req, so a behaviour
\* goes on with one of them only.
Apart ==
    \/ reset = [r \in Resets |-> "NONE"] /\ Doing("resend") = {}
    \/ /\ active /\ ~rejected /\ gone = {} /\ fcm = last
       /\ submission = [x \in Submissions |-> "NONE"]
       /\ \A s \in Slots : req[s].op \in {"idle", "resend", "verify", "password", "used"}
=============================================================================
