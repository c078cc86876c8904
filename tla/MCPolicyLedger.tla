--------------------------- MODULE MCPolicyLedger ---------------------------
(* A small instance of PolicyLedger for TLC. *)
EXTENDS PolicyLedger

CONSTANTS admission1, admission2, access1, access2, settlement1, settlement2

\* Two admissions under one receipt, two accesses that claim one UUID, and two
\* settlements of it.
MCKind ==
    [r \in Requests |-> IF r \in {admission1, admission2} THEN "admission"
                        ELSE IF r \in {access1, access2} THEN "access" ELSE "settlement"]
MCOwner == [r \in Requests |-> IF r = access2 THEN access1 ELSE r]
MCConsumes ==
    [r \in Requests |-> CASE MCKind[r] = "admission" -> admission1
                         [] MCKind[r] = "access" -> None
                         [] OTHER -> access1]
=============================================================================
