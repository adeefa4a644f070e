------------------------------- MODULE Award -------------------------------
(***************************************************************************)
(* What the lifecycle of a job promises, with no request in sight: a job   *)
(* is awarded to one trader at a time, work starts on an award that is     *)
(* still standing, is completed or cancelled once, and the completion is   *)
(* credited to the trader whose work it was.  Every step is atomic.        *)
(*                                                                         *)
(* JobQuotes implements this when requests run one after the other.        *)
(***************************************************************************)
EXTENDS Naturals

CONSTANTS
    Traders,   \* who may win the job
    NoTrader   \* nobody has

VARIABLES
    phase,     \* where the job stands
    winner,    \* who won it last
    credited   \* completions credited to each trader

vars == <<phase, winner, credited>>

Init ==
    /\ phase = "OPEN"
    /\ winner = NoTrader
    /\ credited = [t \in Traders |-> 0]

\* The job goes back to the market: only a standing award prevents that.
Reopen ==
    /\ phase # "ASSIGNED"
    /\ phase' = "OPEN"
    /\ UNCHANGED <<winner, credited>>

\* The customer accepts an offer.  An award that stands is not replaced.
Accept(t) ==
    /\ phase # "ASSIGNED"
    /\ phase' = "ASSIGNED"
    /\ winner' = t
    /\ UNCHANGED credited

Start ==
    /\ phase = "ASSIGNED"
    /\ phase' = "IN_PROGRESS"
    /\ UNCHANGED <<winner, credited>>

Complete ==
    /\ phase = "IN_PROGRESS"
    /\ winner \in Traders
    /\ phase' = "COMPLETED"
    /\ credited' = [credited EXCEPT ![winner] = @ + 1]
    /\ UNCHANGED winner

Cancel ==
    /\ phase \in {"ASSIGNED", "IN_PROGRESS"}
    /\ winner \in Traders
    /\ phase' = "CANCELLED"
    /\ UNCHANGED <<winner, credited>>

Close ==
    /\ phase' = "CLOSED"
    /\ UNCHANGED <<winner, credited>>

Next ==
    \/ Reopen
    \/ \E t \in Traders : Accept(t)
    \/ Start
    \/ Complete
    \/ Cancel
    \/ Close

Spec == Init /\ [][Next]_vars
=============================================================================
