-------------------------- MODULE TopologyJournal --------------------------
(***************************************************************************)
(* The files of the topology journal, lib/ask_herdr_topology_store.py:     *)
(* committed record capsules, one candidate capsule, and what a loss of    *)
(* power may leave of them. A call takes the lock of the Project root      *)
(* without waiting, reads the whole journal, and either answers at once or *)
(* publishes one record: candidate directory, record file, rename to the   *)
(* next slot, barriers. A candidate left behind is taken up only by a call *)
(* that would write the same record.                                       *)
(***************************************************************************)
EXTENDS TopologyLedger

CONSTANTS
    Controllers,    \* processes that call the journal
    MaxFailures     \* bound on crashes of a controller and losses of power

ASSUME FailuresAssumption == MaxFailures \in Nat /\ None \notin Controllers

VARIABLES
    store,      \* [there, slots, cand]: whether it exists, its committed
                \* records, and None or the candidate [record, content]
    disk,       \* the values of store a power loss may leave
    writer,     \* the call that holds the lock, [by, record, pc], or None
    acked,      \* the records some call answered for
    failures    \* crashes and power losses so far

journal == <<store, disk, writer, acked>>

AbsentStore == [there |-> FALSE, slots |-> <<>>, cand |-> None]
EmptyStore == [there |-> TRUE, slots |-> <<>>, cand |-> None]

\* The file of a candidate: "empty", "torn" or "whole".
Candidate(record, content) == [record |-> record, content |-> content]

InitJournal ==
    /\ store = AbsentStore
    /\ disk = {AbsentStore}
    /\ writer = None
    /\ acked = {}
    /\ failures = 0

History == store.slots
Residue == store.cand # None

\* A change a power loss may still undo.
Write(new) ==
    /\ store' = new
    /\ disk' = disk \cup {new}

\* A change made to last; older is what it leaves of earlier uncertainty.
Sync(new, older) ==
    /\ store' = new
    /\ disk' = older \cup {new}

\* Slip: a reader trusts the slots it finds.
NoBarriers == disk

\* What a reader makes durable: _open_handles syncs the directories, and
\* _read_records puts the barriers of every slot again; the file of a
\* candidate stays as uncertain as it was.
AfterRead ==
    {store} \cup {d \in disk : /\ Residue /\ d.cand # None
                               /\ d.slots = store.slots
                               /\ d.cand.record = store.cand.record}

\* _open_handles, _read_records: the barriers of a reader.
ReadBarriers == disk' = IF store.there THEN AfterRead ELSE disk

----------------------------------------------------------------------------
(* One call. The lock is free or the call ends as writer_busy.             *)

At(pc) == writer # None /\ writer.pc = pc
GoTo(pc) == writer' = [writer EXCEPT !.pc = pc]

\* The outcome of a call that finds the lock free and writes nothing:
\* it is a reader that is told about a residue it may not take up.
Inspection ==
    IF ~store.there THEN "absent"
    ELSE IF ~Readable(store.slots) THEN "quarantined"
    ELSE IF Residue THEN "reconciliation_required"
    ELSE Status(store.slots)

\* A commit that stops after reading: an exact replay, a conflict, or a
\* candidate that is not the caller's own.
AnswerOf(record) ==
    IF ~Readable(History) THEN "quarantined"
    ELSE IF Residue
         THEN IF store.cand.record = record /\ Admits(History, record)
              THEN "recover" ELSE "quarantined"
    ELSE IF store.there THEN Commit(History, record)
    ELSE IF record.kind = "mutation" THEN "create" ELSE "conflict"

\* The call ends without writing.
EndsAtOnce(record) ==
    /\ writer = None
    /\ AnswerOf(record) \in {"replay", "conflict", "quarantined"}
    /\ ReadBarriers
    /\ acked' = IF AnswerOf(record) = "replay" THEN acked \cup {record} ELSE acked
    /\ UNCHANGED <<store, writer>>

\* The call goes on to write: create the store before anything is compared
\* with it, take up its own candidate, or make a new one.
StartsWriting(c, record) ==
    /\ writer = None
    /\ AnswerOf(record) \in {"create", "recover", "publish"}
    /\ ReadBarriers
    /\ writer' = [by |-> c, record |-> record, pc |-> AnswerOf(record)]
    /\ UNCHANGED <<store, acked>>

\* _create_store: a bootstrap candidate renamed to the store, then the root
\* directory synced; the candidate of a crash before the rename is not a store.
CreateStore ==
    /\ At("create")
    /\ Write(EmptyStore)
    /\ GoTo("created")
    /\ UNCHANGED acked

SyncStore ==
    /\ At("created")
    /\ Commit(History, writer.record) = "publish"
    /\ Sync(store, {})
    /\ GoTo("publish")
    /\ UNCHANGED acked

\* The mutation conflicts with an empty history; the store stays.
ConflictWithEmpty ==
    /\ At("created")
    /\ Commit(History, writer.record) # "publish"
    /\ Sync(store, {})
    /\ writer' = None
    /\ UNCHANGED acked

\* _publish_record: the candidate directory.
MakeCandidate ==
    /\ At("publish")
    /\ Write([store EXCEPT !.cand = Candidate(writer.record, "empty")])
    /\ GoTo("made")
    /\ UNCHANGED acked

\* _write_new, under way: a crash here leaves part of the record.
BeginRecordFile ==
    /\ At("made")
    /\ Write([store EXCEPT !.cand.content = "torn"])
    /\ GoTo("writing")
    /\ UNCHANGED acked

\* _write_new, the full sync of the file and the sync of the candidate
\* directory; whether the directory itself lasts is not settled yet.
EndRecordFile ==
    /\ At("writing")
    /\ Sync([store EXCEPT !.cand.content = "whole"],
            {d \in disk : d.cand = None})
    /\ GoTo("written")
    /\ UNCHANGED acked

\* commit_exclusive: the candidate becomes the next slot.
Promote ==
    /\ At("written")
    /\ Write([there |-> TRUE, slots |-> Append(store.slots, writer.record),
              cand |-> None])
    /\ GoTo("promoted")
    /\ UNCHANGED acked

\* _restore_event_barriers, then the journal is read again.
Barrier ==
    /\ At("promoted")
    /\ Sync(store, {})
    /\ writer' = None
    /\ acked' = IF Readable(store.slots) THEN acked \cup {writer.record} ELSE acked

\* _recover_candidate: a complete candidate is synced again and promoted, an
\* incomplete one is emptied and written anew.
TakeUpCandidate ==
    /\ At("recover")
    /\ IF store.cand.content = "whole"
       THEN Sync(store, {}) /\ GoTo("written")
       ELSE /\ Sync([store EXCEPT !.cand.content = "empty"], {})
            /\ GoTo("made")
    /\ UNCHANGED acked

WriterStep ==
    \/ CreateStore \/ SyncStore \/ MakeCandidate \/ BeginRecordFile
    \/ EndRecordFile \/ Promote \/ TakeUpCandidate

----------------------------------------------------------------------------
(* Failures.                                                               *)

Fails == failures < MaxFailures /\ failures' = failures + 1

\* The process dies; the kernel gives up its lock and keeps its writes.
Dies(c) ==
    /\ Fails
    /\ writer' = IF writer # None /\ writer.by = c THEN None ELSE writer
    /\ UNCHANGED <<store, disk, acked>>

PowerFails ==
    /\ Fails
    /\ \E d \in disk : store' = d /\ disk' = {d}
    /\ writer' = None
    /\ UNCHANGED acked

----------------------------------------------------------------------------
(* What the journal must keep.                                             *)

Entries(log) == {log[i] : i \in DOMAIN log}

\* Whatever a loss of power leaves of the journal reads back, and so will the
\* candidate it leaves once that is promoted: every record a commit function
\* decides to publish, from its own checks, is one that replay admits, so no
\* controller ever quarantines the store over its own history.
HistoryReplays ==
    \A d \in disk \cup {store} :
        /\ Readable(d.slots)
        /\ d.cand # None => Admits(d.slots, d.cand.record)

\* A record some call has answered for survives any loss of power, the record
\* another controller promoted just before it died included.
AckedSurvives == \A r \in acked, d \in disk : r \in Entries(d.slots)
=============================================================================
