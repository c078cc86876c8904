---------------------------- MODULE PolicyLedger ----------------------------
(***************************************************************************)
(* The append-only policy ledger of a Project: how                         *)
(* lib/ask_herdr_policy_ledger.py appends a record and recovers an append  *)
(* that was cut short, and how lib/ask_herdr_authority_store.py classifies *)
(* what it finds.                                                          *)
(*                                                                         *)
(* An append writes an object, stages the next head and renames it from    *)
(* the staging directory over the active head in the store directory: three *)
(* directories, each synced on its own. One process at a time holds the    *)
(* Project's lock. A record names its predecessor by digest, so that a head *)
(* digest stands for the whole chain up to it; here it is that chain.      *)
(***************************************************************************)
EXTENDS Naturals, Sequences, SequencesExt, FiniteSets

CONSTANTS
    None,
    Requests,      \* what callers ask to have recorded
    Kind,          \* request -> "admission", "access" or "settlement"
    Owner,         \* request -> the operation identity it owns
    Consumes,      \* request -> the one-use identity it consumes, or None
    MaxFailures    \* bound on crashes and power losses

Kinds == {"admission", "access", "settlement"}

ASSUME RequestsAssumption ==
    /\ Kind \in [Requests -> Kinds]
    /\ None \notin Requests
    /\ \A r \in Requests : (Kind[r] = "access") = (Consumes[r] = None)
    /\ MaxFailures \in Nat

VARIABLES
    objects,      \* [chain, torn]: the records, and whether the last is torn
    stage,        \* the staged head [head, torn], or None
    active,       \* the active head
    objectsDisk, stageDisk, activeDisk,   \* what a power loss may leave of each
    writer,       \* the call that holds the lock, or None
    acked,        \* the requests reported as recorded
    reply,        \* the last answer
    failures

files == <<objects, stage, active, objectsDisk, stageDisk, activeDisk>>
vars == <<objects, stage, active, objectsDisk, stageDisk, activeDisk,
          writer, acked, reply, failures>>

Heads == Seq(Requests)

----------------------------------------------------------------------------
(* _inspect_locked, _validate_active_records.                              *)

\* Identities are owned and consumed once, and what a settlement consumes is
\* an access admitted before.
IdentitiesHold(chain) ==
    /\ \A i, j \in DOMAIN chain : i # j =>
          /\ Owner[chain[i]] # Owner[chain[j]]
          /\ Consumes[chain[i]] = None \/ Consumes[chain[i]] # Consumes[chain[j]]
    /\ \A i \in DOMAIN chain : Kind[chain[i]] = "settlement" =>
          \E j \in 1 .. i - 1 : /\ Kind[chain[j]] = "access"
                                /\ Owner[chain[j]] = Consumes[chain[i]]

\* How objects o, stage s and active head a are classified. A file that
\* cannot be parsed is quarantined; an append one step ahead of the head is
\* "pending" or "orphaned"; a head that is also staged is "stale"; what is
\* left needs reconciliation and nothing does it: "unknown".
Classify(o, s, a) ==
    CASE o.torn \/ ~IdentitiesHold(o.chain) \/ ~IsPrefix(a, o.chain) ->
            "quarantined"
      [] OTHER ->
         LET ahead == Len(o.chain) - Len(a) IN
         CASE ahead = 0 /\ s = None -> "active"
           [] ahead = 1 /\ s = None -> "orphaned"
           [] ahead > 1 \/ (s # None /\ s.head # o.chain) -> "unknown"
           [] OTHER -> IF s.torn THEN "quarantined"
                       ELSE IF ahead = 0 THEN "stale" ELSE "pending"

Status == Classify(objects, stage, active)
Recoverable == {"pending", "orphaned", "stale"}

Records == {objects.chain[i] : i \in DOMAIN objects.chain}

----------------------------------------------------------------------------
Init ==
    /\ objects = [chain |-> <<>>, torn |-> FALSE] /\ objectsDisk = {objects}
    /\ stage = None /\ stageDisk = {stage}
    /\ active = <<>> /\ activeDisk = {active}
    /\ writer = None
    /\ acked = {}
    /\ reply = None
    /\ failures = 0

Refuse(answer) ==
    /\ reply' = answer
    /\ UNCHANGED <<files, writer, acked, failures>>

Ack(r) ==
    /\ acked' = acked \cup {r}
    /\ reply' = "recorded"

\* The call goes on with its file operations for record r, from step pc.
Proceed(r, pc) ==
    /\ writer' = [pc |-> pc, request |-> r]
    /\ UNCHANGED <<files, acked, reply, failures>>

\* Slip: what a request consumes is not looked up.
ConflictsByOwner(r) == \E q \in Records \ {r} : Owner[q] = Owner[r]

\* Another record has one of its identities.
Conflicts(r) ==
    \E q \in Records \ {r} :
        \/ Owner[q] = Owner[r]
        \/ Consumes[r] # None /\ Consumes[q] = Consumes[r]
        \/ Kind[r] = "access" /\ Consumes[q] = Owner[r]

\* An exact replay is answered from the records, with no barrier.
Replay(r) ==
    /\ writer = None /\ Status = "active" /\ r \in Records
    /\ Ack(r)
    /\ UNCHANGED <<files, writer, failures>>

IsAdmitted(r) ==
    \E q \in Records : Kind[q] = "access" /\ Owner[q] = Consumes[r]

\* While an append awaits recovery a settlement is still compared with the
\* records, an access with that append only, and an admission with none.
IsConflict(r) ==
    /\ r \notin Records
    /\ \/ Status = "active" /\ Conflicts(r)
       \/ /\ Status \in Recoverable
          /\ \/ Kind[r] = "settlement" /\ Conflicts(r)
             \/ Kind[r] = "access" /\ Owner[r] = Owner[Last(objects.chain)]

Conflict(r) ==
    /\ writer = None /\ IsConflict(r)
    /\ Refuse("conflict")

IsUnadmitted(r) ==
    /\ Status \in {"active"} \cup Recoverable
    /\ Kind[r] = "settlement" /\ r \notin Records
    /\ ~Conflicts(r) /\ ~IsAdmitted(r)

\* A receipt that has expired, or a settlement without its admission.
Deny(r) ==
    /\ writer = None
    /\ \/ IsUnadmitted(r)
       \/ /\ Status = "active" /\ Kind[r] = "admission"
          /\ r \notin Records /\ ~Conflicts(r)
    /\ Refuse("denied")

AppendRecord(r) ==
    /\ writer = None /\ Status = "active"
    /\ r \notin Records /\ ~Conflicts(r)
    /\ Kind[r] = "settlement" => IsAdmitted(r)
    /\ Proceed(r, "object")

\* The residue of an append is taken up by the content access call it is of.
ResidueOf(r) ==
    /\ Status \in Recoverable /\ Kind[r] # "admission"
    /\ r = Last(objects.chain)

RecoveryStep ==
    CASE Status = "pending" -> "sync_pending"
      [] Status = "orphaned" -> "sync_object"
      [] Status = "stale" -> "unlink_stale"

\* Slip: only an append that was staged is taken up.
RecoverPendingOnly(r) ==
    /\ writer = None /\ ResidueOf(r) /\ Status = "pending"
    /\ Proceed(r, "sync_pending")

Recover(r) ==
    /\ writer = None /\ ResidueOf(r)
    /\ Proceed(r, RecoveryStep)

\* Any other call is refused: admissions are never recovered, not even their
\* own. A settlement that is there already, below the residue, is told that
\* the ledger is quarantined.
Inactive(r) ==
    /\ writer = None /\ Status # "active"
    /\ ~ResidueOf(r) /\ ~IsConflict(r) /\ ~IsUnadmitted(r)
    /\ IF /\ Status \in Recoverable
          /\ Kind[r] = "settlement" /\ r \in Records
       THEN Refuse("quarantined") ELSE Refuse(Status)

----------------------------------------------------------------------------
(* _publish_policy_append_under_lease, the same steps in                   *)
(* _commit_human_admission_locked and                                      *)
(* _commit_recovery_operation_authority_under_lease, and the recoveries.   *)
(* Their checks that the store is still the one inspected cannot fail      *)
(* while the lock is held and are left out.                                *)

At(pc) == writer # None /\ writer.pc = pc
GoTo(pc) == writer' = [writer EXCEPT !.pc = pc]
Quiet == UNCHANGED <<acked, reply, failures>>

Object(torn) ==
    [chain |-> Append(objects.chain, writer.request), torn |-> torn]
Stage(torn) == [head |-> objects.chain, torn |-> torn]

WriteObject ==
    /\ At("object")
    /\ objects' = Object(FALSE)
    /\ objectsDisk' = objectsDisk \cup {objects'}
    /\ GoTo("sync_object") /\ Quiet
    /\ UNCHANGED <<stage, active, stageDisk, activeDisk>>

\* Slip: the object is staged before its directory entry is durable.
SyncObjectSkipped ==
    /\ At("sync_object")
    /\ GoTo("stage") /\ Quiet
    /\ UNCHANGED files

\* An orphan is taken up here.
SyncObject ==
    /\ At("sync_object")
    /\ objectsDisk' = {objects}
    /\ GoTo("stage") /\ Quiet
    /\ UNCHANGED <<objects, stage, active, stageDisk, activeDisk>>

WriteStage ==
    /\ At("stage")
    /\ stage' = Stage(FALSE)
    /\ stageDisk' = stageDisk \cup {stage'}
    /\ GoTo("sync_stage") /\ Quiet
    /\ UNCHANGED <<objects, active, objectsDisk, activeDisk>>

SyncStage ==
    /\ At("sync_stage")
    /\ stageDisk' = {stage}
    /\ GoTo("rename") /\ Quiet
    /\ UNCHANGED <<objects, stage, active, objectsDisk, activeDisk>>

\* A pending append is taken up here: both directories are synced again.
SyncPending ==
    /\ At("sync_pending")
    /\ objectsDisk' = {objects} /\ stageDisk' = {stage}
    /\ GoTo("rename") /\ Quiet
    /\ UNCHANGED <<objects, stage, active, activeDisk>>

\* os.rename of the stage over the active head.
Publish ==
    /\ At("rename")
    /\ active' = objects.chain /\ activeDisk' = activeDisk \cup {active'}
    /\ stage' = None /\ stageDisk' = stageDisk \cup {None}
    /\ GoTo("sync_active") /\ Quiet
    /\ UNCHANGED <<objects, objectsDisk>>

SyncActive ==
    /\ At("sync_active")
    /\ activeDisk' = {active}
    /\ GoTo("sync_staging") /\ Quiet
    /\ UNCHANGED <<objects, stage, active, objectsDisk, stageDisk>>

\* A stage that has become the head is synced with all the rest and removed.
UnlinkStale ==
    /\ At("unlink_stale")
    /\ objectsDisk' = {objects} /\ activeDisk' = {active}
    /\ stage' = None /\ stageDisk' = {stage, None}
    /\ GoTo("sync_staging") /\ Quiet
    /\ UNCHANGED <<objects, active>>

SyncStaging ==
    /\ At("sync_staging")
    /\ stageDisk' = {stage}
    /\ writer' = None
    /\ Ack(writer.request)
    /\ UNCHANGED <<objects, stage, active, objectsDisk, activeDisk, failures>>

Step ==
    \/ WriteObject \/ SyncObject \/ WriteStage \/ SyncStage \/ SyncPending
    \/ Publish \/ SyncActive \/ UnlinkStale \/ SyncStaging

----------------------------------------------------------------------------
(* Failures.                                                               *)

Fails == failures < MaxFailures /\ failures' = failures + 1

\* The process dies between two steps.
Crash ==
    /\ writer # None /\ Fails
    /\ writer' = None
    /\ UNCHANGED <<files, acked, reply>>

\* It dies while writing a file, which is torn, or whole but not synced.
CrashWriting ==
    /\ Fails /\ writer' = None
    /\ \/ /\ At("object")
          /\ objects' \in {Object(TRUE), Object(FALSE)}
          /\ objectsDisk' = objectsDisk \cup {Object(TRUE), objects'}
          /\ UNCHANGED <<stage, stageDisk>>
       \/ /\ At("stage")
          /\ stage' \in {Stage(TRUE), Stage(FALSE)}
          /\ stageDisk' = stageDisk \cup {Stage(TRUE), stage'}
          /\ UNCHANGED <<objects, objectsDisk>>
    /\ UNCHANGED <<active, activeDisk, acked, reply>>

\* Power is lost: each directory is left as any of its unsynced values.
PowerLoss ==
    /\ Fails /\ writer' = None
    /\ objects' \in objectsDisk /\ objectsDisk' = {objects'}
    /\ stage' \in stageDisk /\ stageDisk' = {stage'}
    /\ active' \in activeDisk /\ activeDisk' = {active'}
    /\ UNCHANGED <<acked, reply>>

----------------------------------------------------------------------------
Next ==
    \/ \E r \in Requests :
          \/ Replay(r) \/ Conflict(r) \/ Deny(r) \/ AppendRecord(r)
          \/ Recover(r) \/ Inactive(r)
    \/ Step
    \/ Crash \/ CrashWriting \/ PowerLoss

\* A call that holds the lock runs on, and a content access call that was cut
\* short is made again.
Spec ==
    /\ Init /\ [][Next]_vars
    /\ WF_vars(Step)
    /\ \A r \in Requests : WF_vars(Recover(r))

----------------------------------------------------------------------------
(* Properties.                                                             *)

\* Calls and failures never bring the ledger to a state its integrity check
\* takes for tampering, unless a file was torn: no identity is used twice, no
\* settlement is without its admission, the chain never forks from the head.
QuarantineOnlyIfTorn ==
    \A o \in objectsDisk, s \in stageDisk, a \in activeDisk :
        Classify(o, s, a) = "quarantined" => o.torn \/ (s # None /\ s.torn)

\* What was reported as recorded is in the ledger whatever fails later.
RecordedStays ==
    \A r \in acked : \A o \in objectsDisk :
        r \in ToSet(IF o.torn THEN Front(o.chain) ELSE o.chain)

\* An append that was cut short is not left for good if it is of a content
\* access call and that call is made again.
ResidueIsRecovered == \A r \in Requests : []<>~ResidueOf(r)

\* CommittedHumanAdmissionProof and _EvidenceContentAccessAdmissionProof call
\* what they prove durable: it stays under the active head.
ProofsAreDurable == acked \subseteq ToSet(active)
=============================================================================
