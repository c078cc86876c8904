-------------------------- MODULE MCHerdrTransport --------------------------
(***************************************************************************)
(* Two lanes, two acts of the user, four mutating commands.                *)
(***************************************************************************)
EXTENDS HerdrTransport, TLC

MCSymmetry == Permutations(Lanes)
=============================================================================
