---------------------------- MODULE MCLaneTurn ----------------------------
(* Small instances of LaneTurn for TLC. *)
EXTENDS LaneTurn, TLC

\* Values that only differ by name may be exchanged.
AttemptSymmetry ==
    Permutations(Natives) \cup Permutations(Heads) \cup Permutations(TurnIds)
        \cup Permutations(Responses) \cup Permutations(Ops)
        \cup Permutations(Nonces)
TopologySymmetry ==
    Permutations(Steps) \cup Permutations(Records) \cup Permutations(Topologies)
        \cup Permutations(RecoveryOps) \cup Permutations(Links)
        \cup Permutations(Relationships)
=============================================================================
