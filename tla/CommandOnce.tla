---------------------------- MODULE CommandOnce ----------------------------
(***************************************************************************)
(* What write-ahead provisioning promises about the commands it gives to   *)
(* Herdr: a command is sent at most once, whatever crashes, and only after *)
(* its intent is on disk for good; a later command of the same mutation is *)
(* intended only after the earlier ones are confirmed for good.            *)
(***************************************************************************)
EXTENDS Naturals

CONSTANTS
    Commands,
    Before      \* command -> the commands of its mutation that precede it

VARIABLES
    intended,   \* commands whose intent survives any crash
    sent,       \* command -> how often Herdr was given it
    confirmed   \* commands whose receipt survives any crash

vars == <<intended, sent, confirmed>>

Init ==
    /\ intended = {}
    /\ sent = [c \in Commands |-> 0]
    /\ confirmed = {}

Intend(c) ==
    /\ c \notin intended
    /\ Before[c] \subseteq confirmed
    /\ intended' = intended \cup {c}
    /\ UNCHANGED <<sent, confirmed>>

Send(c) ==
    /\ c \in intended
    /\ sent[c] = 0
    /\ sent' = [sent EXCEPT ![c] = 1]
    /\ UNCHANGED <<intended, confirmed>>

Confirm(c) ==
    /\ sent[c] = 1 /\ c \notin confirmed
    /\ confirmed' = confirmed \cup {c}
    /\ UNCHANGED <<intended, sent>>

Next == \E c \in Commands : Intend(c) \/ Send(c) \/ Confirm(c)

Spec == Init /\ [][Next]_vars
=============================================================================
