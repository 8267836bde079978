---------------------------- MODULE MCEventBinding ---------------------------
(* A finite instance of EventBinding for TLC.                              *)
EXTENDS EventBinding, TLC

CONSTANTS v1, v2

\* One value throughout, or another one in the first indexed argument.
MCValues(e) ==
    LET all == [n \in Names(e) |-> v1] IN
    IF Names(e) = {} THEN {all} ELSE {all, [all EXCEPT ![e.indexed[1]] = v2]}

\* The event itself, the ones of the same signature, and one of another.
MCNeighbours(e) ==
    {f \in Events : f.name = e.name}
        \cup {IF e = Bridge_Paused THEN Bridge_Unpaused ELSE Bridge_Paused}

MCEmittable ==
    [e \in Events |-> UNION {{[event |-> f, value |-> v] : v \in MCValues(f)} :
                                f \in MCNeighbours(e)}]
=============================================================================
