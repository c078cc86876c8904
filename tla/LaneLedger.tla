---------------------------- MODULE LaneLedger ----------------------------
(***************************************************************************)
(* What the lane store promises its callers: every lane has one growing    *)
(* history in which an event occurs at most once, and an event that was    *)
(* acknowledged is in it for good.                                         *)
(***************************************************************************)
EXTENDS Naturals, Sequences, Functions

CONSTANTS Lanes, Events

VARIABLES
    history,   \* lane -> the sequence of its durable events
    acked      \* lane -> the events a caller was told are committed

Init == /\ history = [l \in Lanes |-> <<>>]
        /\ acked = [l \in Lanes |-> {}]

Append1(l, e) ==
    /\ e \notin Range(history[l])
    /\ history' = [history EXCEPT ![l] = Append(@, e)]
    /\ UNCHANGED acked

Acknowledge(l, e) ==
    /\ e \in Range(history[l])
    /\ acked' = [acked EXCEPT ![l] = @ \cup {e}]
    /\ UNCHANGED history

Next == \E l \in Lanes, e \in Events : Append1(l, e) \/ Acknowledge(l, e)

Spec == Init /\ [][Next]_<<history, acked>>
=============================================================================
