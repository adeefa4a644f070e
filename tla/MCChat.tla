------------------------------- MODULE MCChat -------------------------------
(* Instances of Chat for TLC. Sockets, servers, messages, jobs, rows and slots *)
(* are alike.                                                                  *)
EXTENDS Chat, TLC

Symmetry == Permutations(Sockets) \cup Permutations(Servers) \cup Permutations(Messages)
            \cup Permutations(Jobs) \cup Permutations(Rows) \cup Permutations(Slots)

\* Messages need a conversation and nothing else of it, so a behaviour goes on with
\* the conversations only, or with the rest and a single conversation.
Apart ==
    \/ ~isOnline /\ ~lapse /\ Connected = {} /\ msg = [m \in Messages |-> "none"]
    \/ Cardinality(Direct) = 1 /\ \A c \in Rows : row[c] \in {"NONE", "DIRECT"}
       /\ call = [k \in Slots |-> Idle]
=============================================================================
