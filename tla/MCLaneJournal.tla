--------------------------- MODULE MCLaneJournal ---------------------------
(* Small instances of LaneJournal for TLC. *)
EXTENDS LaneJournal, TLC

CONSTANTS event1, event2, dispatch1, state1, state2, lane1, lane2

\* Two events may leave the same state, and so the same index plan.
MCStateAfter == (event1 :> state1) @@ (event2 :> state1)
                   @@ (dispatch1 :> state2)

\* One lane dispatches a turn, the other takes two events that share a plan.
MCEventsOf == (lane1 :> {event1, dispatch1}) @@ (lane2 :> {event1, event2})

\* Both lanes dispatch a turn.
MCEventsOfBoth == [l \in Lanes |-> {event1, dispatch1}]

\* Inode numbers are not told apart.
MCSymmetry == Permutations(Inodes)
=============================================================================
