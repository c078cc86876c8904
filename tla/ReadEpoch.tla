------------------------------ MODULE ReadEpoch ------------------------------
(***************************************************************************)
(* The acquisition of a Project Read Epoch,                                *)
(* lib/ask_herdr_project_read_epoch.py: the heads of three stores, each    *)
(* read under a shared lock of the Project root that is released before    *)
(* the next, are read twice and accepted when both readings agree.         *)
(*                                                                         *)
(* Writers hold the exclusive lock of lib/ask_herdr_project_mutation_lease *)
(* .py and change any of the stores under it; one that dies leaves what it *)
(* has done. A head digest covers all records before it, so that it never  *)
(* comes back: it is counted here. A residue is an append that has begun.  *)
(***************************************************************************)
EXTENDS Naturals, Sequences

CONSTANTS
    None,
    Readers,
    MaximumCompleteAttempts,   \* _MAXIMUM_COMPLETE_ATTEMPTS
    MaxHead                    \* bound on the heads

ASSUME AttemptsAssumption ==
    /\ MaximumCompleteAttempts \in Nat \ {0}
    /\ MaxHead \in Nat
    /\ None \notin Nat /\ None \notin [1 .. 3 -> Nat]

\* Authority store, lane index, topology store: the order they are read in.
Stores == 1 .. 3
Lanes == 2

VARIABLES
    head,      \* store -> its head
    residue,   \* store -> whether an append to it is unfinished
    writer,    \* whether the exclusive lock is held
    reader     \* reader -> [reading, locked, attempt, seen, status, epoch]
               \* and, for the properties, what was true when the first
               \* reading ended: [actual, quiet]

vars == <<head, residue, writer, reader>>

Busy == [busy |-> TRUE, head |-> 0, residue |-> FALSE]
Observations == [busy : BOOLEAN, head : Nat, residue : BOOLEAN]

Init ==
    /\ head = [s \in Stores |-> 0]
    /\ residue = [s \in Stores |-> FALSE]
    /\ writer = FALSE
    /\ reader = [r \in Readers |->
                    [reading |-> FALSE, locked |-> FALSE, attempt |-> 1,
                     seen |-> <<>>, status |-> None, epoch |-> None,
                     actual |-> [s \in Stores |-> 0], quiet |-> TRUE]]

----------------------------------------------------------------------------
(* Writers. LOCK_EX | LOCK_NB: refused while anyone holds the lock.         *)

Lock ==
    /\ ~writer /\ \A r \in Readers : ~reader[r].locked
    /\ writer' = TRUE
    /\ UNCHANGED <<head, residue, reader>>

\* Released, by the end of the mutation or the death of the process.
Unlock ==
    /\ writer /\ writer' = FALSE
    /\ UNCHANGED <<head, residue, reader>>

BeginAppend(s) ==
    /\ writer /\ ~residue[s]
    /\ residue' = [residue EXCEPT ![s] = TRUE]
    /\ UNCHANGED <<head, writer, reader>>

Publish(s) ==
    /\ writer /\ residue[s] /\ head[s] < MaxHead
    /\ head' = [head EXCEPT ![s] = @ + 1]
    /\ residue' = [residue EXCEPT ![s] = FALSE]
    /\ UNCHANGED <<writer, reader>>

Discard(s) ==
    /\ writer /\ residue[s]
    /\ residue' = [residue EXCEPT ![s] = FALSE]
    /\ UNCHANGED <<head, writer, reader>>

----------------------------------------------------------------------------
(* Readers.                                                                *)

Acquire(r) ==
    /\ ~reader[r].reading
    /\ reader' = [reader EXCEPT ![r].reading = TRUE, ![r].attempt = 1,
                                ![r].seen = <<>>, ![r].status = None,
                                ![r].epoch = None,
                                ![r].actual = [s \in Stores |-> 0],
                                ![r].quiet = TRUE]
    /\ UNCHANGED <<head, residue, writer>>

NextStore(r) == (Len(reader[r].seen) % 3) + 1

\* The observation o is made; the first reading ends with the third.
Observe(r, o) ==
    LET ends == Len(reader[r].seen) = 2 IN
    reader' = [reader EXCEPT
        ![r].locked = FALSE, ![r].seen = Append(@, o),
        ![r].actual = IF ends THEN head ELSE @,
        ![r].quiet = IF ends THEN ~writer ELSE @]

\* LOCK_SH | LOCK_NB: an inspector that meets a writer says so.
LockShared(r) ==
    /\ reader[r].reading /\ ~reader[r].locked /\ Len(reader[r].seen) < 6
    /\ IF writer THEN Observe(r, Busy)
       ELSE reader' = [reader EXCEPT ![r].locked = TRUE]
    /\ UNCHANGED <<head, residue, writer>>

Inspect(r) ==
    /\ reader[r].locked
    /\ LET s == NextStore(r) IN
       Observe(r, [busy |-> FALSE, head |-> head[s], residue |-> residue[s]])
    /\ UNCHANGED <<head, residue, writer>>

\* Slip: a reading that met no writer is accepted without the second.
StableOnce(seen) == \A s \in Stores : ~seen[s].busy

\* _writer_busy, and first != second.
Stable(seen) ==
    \A s \in Stores : ~seen[s].busy /\ seen[s] = seen[s + 3]

\* The loop of _acquire_project_read_epoch_snapshot. The lane index gives no
\* digest while a transition is pending, and then there is no epoch.
Judge(r) ==
    LET seen == reader[r].seen IN
    /\ reader[r].reading /\ Len(seen) = 6
    /\ \/ /\ Stable(seen)
          /\ reader' = [reader EXCEPT
                ![r].reading = FALSE,
                ![r].status = IF \E s \in Stores : seen[s + 3].residue
                              THEN "reconciliation_required" ELSE "active",
                ![r].epoch = IF seen[Lanes + 3].residue THEN None
                             ELSE [s \in Stores |-> seen[s + 3].head]]
       \/ /\ ~Stable(seen) /\ reader[r].attempt < MaximumCompleteAttempts
          /\ reader' = [reader EXCEPT ![r].attempt = @ + 1, ![r].seen = <<>>]
       \/ /\ ~Stable(seen) /\ reader[r].attempt >= MaximumCompleteAttempts
          /\ reader' = [reader EXCEPT ![r].reading = FALSE,
                                      ![r].status = "busy"]
    /\ UNCHANGED <<head, residue, writer>>

Next ==
    \/ Lock \/ Unlock
    \/ \E s \in Stores : BeginAppend(s) \/ Publish(s) \/ Discard(s)
    \/ \E r \in Readers :
          Acquire(r) \/ LockShared(r) \/ Inspect(r) \/ Judge(r)

Spec == Init /\ [][Next]_vars

----------------------------------------------------------------------------
(* Properties.                                                             *)

TypeOK ==
    /\ head \in [Stores -> Nat]
    /\ residue \in [Stores -> BOOLEAN]
    /\ writer \in BOOLEAN
    /\ reader \in [Readers ->
          [reading : BOOLEAN, locked : BOOLEAN, attempt : Nat,
           seen : Seq(Observations),
           status : {None, "active", "reconciliation_required", "busy"},
           epoch : {None} \cup [Stores -> Nat],
           actual : [Stores -> Nat], quiet : BOOLEAN]]

\* "Accepts only a stable, authenticated tuple" (docs/architecture.md): the
\* heads of an epoch were the heads of the stores all three at one instant of
\* its acquisition, and no writer was half-way through a mutation then,
\* although the three are never locked together.
EpochExisted ==
    \A r \in Readers : reader[r].epoch # None =>
        reader[r].epoch = reader[r].actual /\ reader[r].quiet
=============================================================================
