--------------------------- MODULE MCLaneResponse ---------------------------
(* A small instance of LaneResponse for TLC. *)
EXTENDS LaneResponse, TLC

CONSTANTS head0, response1, response2, turn1, turn2

\* _new_dialogue_head digests the expected head and what the authority adds;
\* a digest is the value it digests. The chain of heads is one turn long here.
MCNewHead(f) == <<f.expected_head, f.native, f.turn_id, f.response>>
MCHeads ==
    {head0} \cup
        ({head0} \X Natives \X {turn1, turn2} \X {response1, response2})

MCSymmetry == Permutations({turn1, turn2}) \cup Permutations(Natives)
                  \cup Permutations({response1, response2})
                  \cup Permutations(Evidence)
=============================================================================
