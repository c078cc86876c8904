---------------------------- MODULE LaneJournal ----------------------------
(***************************************************************************)
(* The commit of one lane event, _commit_event_locked of                   *)
(* lib/ask_herdr_lane_store.py, with the Project-wide lane index of        *)
(* lib/ask_herdr_lane_index.py it prepares before and finalizes after.     *)
(*                                                                         *)
(* A commit runs under the exclusive lock of the Project root, so there is *)
(* one writer at a time; what interleaves are commits of several lanes cut *)
(* short by a crash of the process or a loss of power at any point.        *)
(*                                                                         *)
(* A file that was written but not synced is loose: a later call reads it  *)
(* and takes it for what it says, and only a sync of that file keeps a     *)
(* power loss from tearing it. A torn file is a strict prefix of what was  *)
(* written, the empty one included.                                        *)
(*                                                                         *)
(* An event capsule or candidate holds a lane record [event, intent], an   *)
(* index capsule or candidate an intent and, once written, the lane record *)
(* it projects. A digest is the value it digests. Since the intent names   *)
(* its own candidate's inode, an inode is kept. reduce_turn is StateAfter; *)
(* events it rejects never reach a file.                                   *)
(***************************************************************************)
EXTENDS Naturals, Sequences, Functions

CONSTANTS
    None,
    Lanes,            \* (lane_id, lane_generation)
    Events,           \* lane events, one fingerprint each
    EventsOf,         \* lane -> the events its callers may commit
    DispatchEvents,   \* those of type BeginDispatch
    StateAfter,       \* event -> digest of the state after it
    Inodes,           \* inode numbers a new directory may get
    MaxFailures       \* bound on crashes and power losses

\* The index intent of a record, and the states of one file.
Intents == [lane : Lanes, sequence : Nat, state : {StateAfter[e] : e \in Events},
            previous : Nat, inode : Inodes]
FileStates == {"none", "torn", "loose", "whole"}

ASSUME EventsAssumption ==
    /\ DispatchEvents \subseteq Events
    /\ EventsOf \in [Lanes -> SUBSET Events]
    /\ None \notin Lanes /\ None \notin Events /\ None # "integrity"
    /\ None \notin [intent : Intents, file : FileStates, transition : FileStates]
    /\ MaxFailures \in Nat

VARIABLES
    lane,       \* lane -> [slots, cand]: its event capsules [record, file]
                \* and the event candidate directory, or None
    index,      \* [log, cand]: the index capsules [intent, record, file] and
                \* the index candidate [intent, file, transition], or None
    laneDisk,   \* lane -> the directories a power loss may leave of lane[l]
    indexDisk,  \* the directories a power loss may leave of index; in both,
                \* what it leaves of their loose files is still open
    writer,     \* the commit that holds the lock, or None
    wanted,     \* lane -> the event its caller is trying to commit, or None
    acked,      \* lane -> the events reported as committed
    reply,      \* the last answer, [outcome, reason], or None
    failures    \* crashes and power losses so far

files == <<lane, index, laneDisk, indexDisk>>
vars == <<lane, index, laneDisk, indexDisk, writer, wanted, acked, reply,
          failures>>

----------------------------------------------------------------------------
(* Files.                                                                  *)

\* A file that can be read and says what it should.
Written == {"loose", "whole"}

\* _repair_strict_prefix_file: a file that is there is left as it is, synced
\* or not; one that is missing or torn is written and synced.
Repaired(file) == IF file \in Written THEN file ELSE "whole"

\* _intent_plan: what names the index candidate, everything but its inode.
Plan(intent) == <<intent.lane, intent.sequence, intent.state, intent.previous>>

\* A change of a directory that is not synced: a power loss may undo it.
WriteLane(l, new) ==
    /\ lane' = [lane EXCEPT ![l] = new]
    /\ laneDisk' = [laneDisk EXCEPT ![l] = @ \cup {new}]

WriteIndex(new) ==
    /\ index' = new
    /\ indexDisk' = indexDisk \cup {new}

\* A change followed by syncs of the directory and of the candidate in it.
SyncLane(l, new) ==
    /\ lane' = [lane EXCEPT ![l] = new]
    /\ laneDisk' = [laneDisk EXCEPT ![l] = {new}]

SyncIndex(new) ==
    /\ index' = new
    /\ indexDisk' = {new}

\* A change of a candidate followed by a sync of the candidate: whether the
\* candidate is in its directory is still open.
SyncLaneCandidate(l, new) ==
    /\ lane' = [lane EXCEPT ![l] = new]
    /\ laneDisk' = [laneDisk EXCEPT ![l] = {d \in @ : d.cand = None} \cup {new}]

SyncIndexCandidate(new) ==
    /\ index' = new
    /\ indexDisk' = {d \in indexDisk : d.cand = None} \cup {new}

\* What is left when only the directory is synced: the capsules and the
\* candidate are there, the files of the candidate are still open.
LaneNamed(l) ==
    {d \in laneDisk[l] : /\ d.slots = lane[l].slots
                         /\ (d.cand = None) = (lane[l].cand = None)}
IndexNamed ==
    {d \in indexDisk : /\ d.log = index.log
                       /\ (d.cand = None) = (index.cand = None)}

SyncIndexNames == UNCHANGED index /\ indexDisk' = IndexNamed

\* Slip: a barrier syncs the directory of a capsule and forgets its files.
WithNames(capsules, i) == capsules

\* The capsules with the files of the i-th one synced.
WithWhole(capsules, i) == [capsules EXCEPT ![i].file = "whole"]

Slots(l) == lane[l].slots
LastRecord(l) == Slots(l)[Len(Slots(l))].record
\* Slip: only the last record is looked at to detect a replay.
CommittedLast(l) ==
    IF Slots(l) = <<>> THEN {} ELSE {LastRecord(l).event}

Committed(l) == {Slots(l)[i].record.event : i \in DOMAIN Slots(l)}
Projected == {index.log[i].record : i \in DOMAIN index.log}

----------------------------------------------------------------------------
Init ==
    /\ lane = [l \in Lanes |-> [slots |-> <<>>, cand |-> None]]
    /\ index = [log |-> <<>>, cand |-> None]
    /\ laneDisk = [l \in Lanes |-> {[slots |-> <<>>, cand |-> None]}]
    /\ indexDisk = {[log |-> <<>>, cand |-> None]}
    /\ writer = None
    /\ wanted = [l \in Lanes |-> None]
    /\ acked = [l \in Lanes |-> {}]
    /\ reply = None
    /\ failures = 0

\* A caller takes up an event of its lane and retries it until it is done. What
\* callers want matters when the lock is free, and is changed only then.
Request(l, e) ==
    /\ writer = None /\ wanted[l] = None /\ e \notin acked[l]
    /\ wanted' = [wanted EXCEPT ![l] = e]
    /\ UNCHANGED <<files, writer, acked, reply, failures>>

\* A caller whose commit did not succeed turns to another event.
Abandon(l) ==
    /\ writer = None /\ wanted[l] # None
    /\ wanted' = [wanted EXCEPT ![l] = None]
    /\ UNCHANGED <<files, writer, acked, reply, failures>>

\* _apply_lane_turn_event_raw: lock the root, make the directory entries of
\* the lane durable, scan. A torn event capsule fails the scan for good.
Begin(l) ==
    /\ writer = None /\ wanted[l] # None
    /\ laneDisk' = [laneDisk EXCEPT ![l] = LaneNamed(l)]
    /\ IF \E i \in DOMAIN Slots(l) : Slots(l)[i].file = "torn"
       THEN /\ reply' = [outcome |-> "quarantined", reason |-> "integrity"]
            /\ UNCHANGED writer
       ELSE /\ writer' = [pc |-> "prior", lane |-> l, event |-> wanted[l],
                          record |-> None, then |-> None]
            /\ reply' = None
    /\ UNCHANGED <<lane, index, indexDisk, wanted, acked, failures>>

At(pc) == writer # None /\ writer.pc = pc
GoTo(pc) == writer' = [writer EXCEPT !.pc = pc]

\* The commit returns: outcome is the kind of its LaneMutationResult, reason
\* tells contention and residue from a failed integrity check.
Reply(outcome, reason) ==
    /\ reply' = [outcome |-> outcome, reason |-> reason]
    /\ writer' = None
    /\ UNCHANGED <<wanted, acked>>

ReplyCommitted ==
    LET l == writer.lane IN
    /\ reply' = [outcome |-> "committed", reason |-> None]
    /\ writer' = None
    /\ acked' = [acked EXCEPT ![l] = @ \cup {writer.event}]
    /\ wanted' = [wanted EXCEPT ![l] = None]

Continue(pc) == GoTo(pc) /\ UNCHANGED <<wanted, acked, reply>>

----------------------------------------------------------------------------
(* _finalize_lane_index_transition_under_root, for a lane record r.        *)

TransitionPresent == index.cand.transition # "none"

\* _scan: every capsule is whole, a torn intent has no transition beside it,
\* and one that can be read continues the index as it is.
ScanPasses ==
    /\ \A i \in DOMAIN index.log : index.log[i].file # "torn"
    /\ index.cand # None =>
          IF index.cand.file \in Written
          THEN index.cand.intent.previous = Len(index.log)
          ELSE ~TransitionPresent

\* What it finds before it changes anything.
Finding(l, r, allow_pending_successor) ==
    IF ~ScanPasses THEN "integrity"
    ELSE IF r \in Projected
    THEN IF index.cand = None THEN "replay"
         ELSE IF index.cand.intent.lane # l THEN "contention"
         ELSE IF ~allow_pending_successor THEN "pending"
         ELSE IF TransitionPresent THEN "integrity" ELSE "replay"
    ELSE IF /\ index.cand # None
            /\ index.cand.file \in Written
            /\ index.cand.intent = r.intent
         THEN "promote" ELSE "integrity"

\* _barrier_existing_transition: the files of that one capsule are synced.
BarrierCapsule(r) ==
    LET k == CHOOSE k \in DOMAIN index.log : index.log[k].record = r
        log == WithWhole(index.log, k)
    IN /\ index' = [index EXCEPT !.log = log]
       /\ indexDisk' = {[d EXCEPT !.log = log] : d \in IndexNamed}

\* Replayed, to be promoted, or refused. A foreign candidate is reported as
\* a changed candidate, hence as quarantined.
Finalize(l, r, allow, then) ==
    LET found == Finding(l, r, allow) IN
    \/ /\ found = "replay"
       /\ BarrierCapsule(r)
       /\ IF then = "reply" THEN ReplyCommitted ELSE Continue(then)
    \/ /\ found = "promote"
       /\ writer' = [writer EXCEPT !.pc = "transition", !.record = r,
                                   !.then = then]
       /\ UNCHANGED <<index, indexDisk, wanted, acked, reply>>
    \/ /\ found \in {"contention", "integrity"}
       /\ Reply("quarantined", found)
       /\ UNCHANGED <<index, indexDisk>>
    \/ /\ found = "pending"
       /\ Reply("reconciliation_required", found)
       /\ UNCHANGED <<index, indexDisk>>

\* Write or repair transition.json in the candidate and sync the candidate.
WriteTransition ==
    /\ At("transition")
    /\ SyncIndexCandidate([index EXCEPT !.cand.transition = Repaired(@)])
    /\ Continue("promote_transition")
    /\ UNCHANGED <<lane, laneDisk, failures>>

PromoteTransition ==
    /\ At("promote_transition")
    /\ LET synced == {index.cand.file, index.cand.transition} = {"whole"} IN
       WriteIndex([log |-> Append(index.log,
                             [intent |-> index.cand.intent,
                              record |-> writer.record,
                              file |-> IF synced THEN "whole" ELSE "loose"]),
                   cand |-> None])
    /\ Continue("barrier_transition")
    /\ UNCHANGED <<lane, laneDisk, failures>>

\* The first sync of an intent or a transition that was found written.
BarrierTransition ==
    /\ At("barrier_transition")
    /\ SyncIndex([index EXCEPT !.log = WithWhole(@, Len(@))])
    /\ IF writer.then = "reply" THEN ReplyCommitted ELSE Continue(writer.then)
    /\ UNCHANGED <<lane, laneDisk, failures>>

----------------------------------------------------------------------------
(* _commit_event_locked.                                                   *)

\* Slip: the index is not brought up to the last record before the next one.
FinalizePriorSkipped ==
    /\ At("prior")
    /\ Continue("decide")
    /\ UNCHANGED <<files, failures>>

\* The index is brought up to the last record first.
FinalizePrior ==
    /\ At("prior")
    /\ LET l == writer.lane IN
       IF Slots(l) = <<>>
       THEN Continue("decide") /\ UNCHANGED <<index, indexDisk>>
       ELSE Finalize(l, LastRecord(l), TRUE, "decide")
    /\ UNCHANGED <<lane, laneDisk, failures>>

\* An event that is already there is an exact replay: its capsule is made
\* durable and the index finalized for its record.
Replay ==
    /\ At("decide") /\ writer.event \in Committed(writer.lane)
    /\ LET l == writer.lane
           i == CHOOSE i \in DOMAIN Slots(l) :
                   Slots(l)[i].record.event = writer.event
       IN IF lane[l].cand # None
          THEN /\ Reply("reconciliation_required", "residue")
               /\ UNCHANGED files
          ELSE /\ SyncLane(l, [lane[l] EXCEPT !.slots = WithWhole(@, i)])
               /\ Finalize(l, Slots(l)[i].record, FALSE, "reply")
    /\ UNCHANGED failures

\* A dispatch is not retried over the residue of an earlier commit.
RefuseDispatch ==
    /\ At("decide") /\ writer.event \notin Committed(writer.lane)
    /\ writer.event \in DispatchEvents /\ lane[writer.lane].cand # None
    /\ Reply("reconciliation_required", "residue")
    /\ UNCHANGED <<files, failures>>

IndexAtHead(l) ==
    LET projected == {r \in Projected : r.intent.lane = l} IN
    IF Slots(l) = <<>> THEN projected = {}
    ELSE /\ LastRecord(l) \in projected
         /\ \A r \in projected : r.intent.sequence <= Len(Slots(l))

NewPlan(l, e) ==
    <<l, Len(Slots(l)) + 1, StateAfter[e], Len(index.log)>>

NewCandidate(plan, inode) ==
    [intent |-> [lane |-> plan[1], sequence |-> plan[2], state |-> plan[3],
                 previous |-> plan[4], inode |-> inode],
     file |-> "none", transition |-> "none"]

\* _barrier_store makes the names of the index durable, not the files of its
\* candidate; a candidate of this very plan is taken up.
PrepareIndex ==
    /\ At("decide") /\ writer.event \notin Committed(writer.lane)
    /\ writer.event \in DispatchEvents => lane[writer.lane].cand = None
    /\ LET l == writer.lane
           plan == NewPlan(l, writer.event)
           sound == ScanPasses /\ IndexAtHead(l)
           same == index.cand # None /\ Plan(index.cand.intent) = plan
       IN \/ /\ sound /\ index.cand = None
             /\ \E inode \in Inodes :
                   LET new == [index EXCEPT !.cand = NewCandidate(plan, inode)]
                   IN index' = new /\ indexDisk' = {index, new}
             /\ Continue("intent")
          \/ /\ sound /\ same /\ ~TransitionPresent
             /\ SyncIndexNames
             /\ Continue("intent")
          \/ /\ sound /\ index.cand # None /\ ~same
             /\ SyncIndexNames
             /\ Reply("reconciliation_required", "contention")
          \/ /\ ~sound \/ (same /\ TransitionPresent)
             /\ SyncIndexNames
             /\ Reply("quarantined", "integrity")
    /\ UNCHANGED <<lane, laneDisk, failures>>

\* intent.json is written or repaired, then the candidate and its parent are
\* synced: it is named before the event has a file at all, but loose if a
\* call that died had written it.
WriteIntent ==
    /\ At("intent")
    /\ SyncIndex([index EXCEPT !.cand.file = Repaired(@)])
    /\ writer' = [writer EXCEPT !.pc = "event_candidate",
                    !.record = [event |-> writer.event,
                                intent |-> index.cand.intent]]
    /\ UNCHANGED <<lane, laneDisk, wanted, acked, reply, failures>>

FreshCandidate(l) ==
    [lane[l] EXCEPT !.cand = [record |-> writer.record, file |-> "none"]]

\* Slip: a torn candidate of this very record is treated as foreign residue.
MakeEventCandidateUnrepaired ==
    /\ At("event_candidate")
    /\ LET l == writer.lane
           cand == lane[l].cand
       IN \/ /\ cand = None
             /\ WriteLane(l, FreshCandidate(l))
             /\ Continue("write_event")
          \/ /\ cand # None
             /\ IF cand.record = writer.record /\ cand.file \in Written
                THEN Continue("promote_event")
                ELSE Reply("reconciliation_required", "residue")
             /\ SyncLaneCandidate(l, lane[l])
    /\ UNCHANGED <<index, indexDisk, failures>>

\* A candidate of another record is residue. One of this record is taken up
\* if its file is written, synced or not, once the candidate is synced; it
\* is otherwise discarded and made again.
MakeEventCandidate ==
    /\ At("event_candidate")
    /\ LET l == writer.lane
           cand == lane[l].cand
       IN \/ /\ cand = None
             /\ WriteLane(l, FreshCandidate(l)) /\ Continue("write_event")
          \/ /\ cand # None /\ cand.record # writer.record
             /\ Reply("reconciliation_required", "residue")
             /\ UNCHANGED <<lane, laneDisk>>
          \/ /\ cand # None /\ cand.record = writer.record
             /\ cand.file \in Written
             /\ SyncLaneCandidate(l, lane[l]) /\ Continue("promote_event")
          \/ /\ cand # None /\ cand.record = writer.record
             /\ cand.file \notin Written
             /\ lane' = [lane EXCEPT ![l] = FreshCandidate(l)]
             /\ laneDisk' = [laneDisk EXCEPT ![l] =
                               {[lane[l] EXCEPT !.cand = None],
                                FreshCandidate(l)}]
             /\ Continue("write_event")
    /\ UNCHANGED <<index, indexDisk, failures>>

\* event.json and the candidate directory are synced, its parent is not.
WriteEvent ==
    /\ At("write_event")
    /\ SyncLaneCandidate(writer.lane,
                         [lane[writer.lane] EXCEPT !.cand.file = "whole"])
    /\ Continue("promote_event")
    /\ UNCHANGED <<index, indexDisk, failures>>

\* Slip: the candidate is copied to its slot and left behind.
PromoteEventByCopy ==
    /\ At("promote_event")
    /\ WriteLane(writer.lane,
                 [lane[writer.lane] EXCEPT
                    !.slots = Append(Slots(writer.lane),
                                     lane[writer.lane].cand)])
    /\ Continue("barrier_event")
    /\ UNCHANGED <<index, indexDisk, failures>>

\* commit_exclusive renames the candidate to its slot.
PromoteEvent ==
    /\ At("promote_event")
    /\ WriteLane(writer.lane,
                 [slots |-> Append(Slots(writer.lane), lane[writer.lane].cand),
                  cand |-> None])
    /\ Continue("barrier_event")
    /\ UNCHANGED <<index, indexDisk, failures>>

\* Slip: the index is finalized for a capsule that may not last.
BarrierEventUnsynced ==
    /\ At("barrier_event")
    /\ Finalize(writer.lane, writer.record, FALSE, "reply")
    /\ UNCHANGED <<lane, laneDisk, failures>>

\* The capsule is made durable, and only then the index finalized for it.
BarrierEvent ==
    /\ At("barrier_event")
    /\ SyncLane(writer.lane, [lane[writer.lane] EXCEPT
                               !.slots = WithWhole(@, Len(@))])
    /\ Finalize(writer.lane, writer.record, FALSE, "reply")
    /\ UNCHANGED failures

Step ==
    \/ FinalizePrior \/ Replay \/ RefuseDispatch \/ PrepareIndex
    \/ WriteIntent \/ MakeEventCandidate \/ WriteEvent \/ PromoteEvent
    \/ BarrierEvent \/ WriteTransition \/ PromoteTransition
    \/ BarrierTransition

----------------------------------------------------------------------------
(* Failures.                                                               *)

Fails == failures < MaxFailures /\ failures' = failures + 1

\* The process dies between two steps; its files stay as they are.
Crash ==
    /\ writer # None /\ Fails
    /\ writer' = None
    /\ UNCHANGED <<files, wanted, acked, reply>>

\* It dies while writing a file that was missing or torn: the file is gone,
\* torn, or loose, and so far not in its directory for good.
CrashWriting ==
    /\ writer # None /\ Fails
    /\ writer' = None
    /\ \E file \in {"none", "torn", "loose"} :
       \/ /\ At("intent") /\ index.cand.file \notin Written
          /\ index' = [index EXCEPT !.cand.file = file]
          /\ indexDisk' = indexDisk \cup
                             {[index EXCEPT !.cand.file = "none"], index'}
          /\ UNCHANGED <<lane, laneDisk>>
       \/ /\ At("transition") /\ index.cand.transition \notin Written
          /\ index' = [index EXCEPT !.cand.transition = file]
          /\ indexDisk' = indexDisk \cup
                             {[index EXCEPT !.cand.transition = "none"], index'}
          /\ UNCHANGED <<lane, laneDisk>>
       \/ /\ At("write_event")
          /\ WriteLane(writer.lane,
                       [lane[writer.lane] EXCEPT !.cand.file = file])
          /\ UNCHANGED <<index, indexDisk>>
    /\ UNCHANGED <<wanted, acked, reply>>

\* What a power loss may leave of a file, of capsules, of a lane, of the index.
FileLeft(file) == IF file = "loose" THEN {"torn", "whole"} ELSE {file}

CapsulesLeft(capsules) ==
    {[i \in DOMAIN capsules |-> [capsules[i] EXCEPT !.file = file[i]]] :
        file \in {f \in [DOMAIN capsules -> FileStates] :
                    \A i \in DOMAIN capsules : f[i] \in FileLeft(capsules[i].file)}}

LaneLeft(d) ==
    {[slots |-> slots, cand |-> cand] :
        slots \in CapsulesLeft(d.slots),
        cand \in IF d.cand = None THEN {None}
                 ELSE {[d.cand EXCEPT !.file = f] : f \in FileLeft(d.cand.file)}}

IndexLeft(d) ==
    {[log |-> log, cand |-> cand] :
        log \in CapsulesLeft(d.log),
        cand \in IF d.cand = None THEN {None}
                 ELSE {[intent |-> d.cand.intent, file |-> f, transition |-> t] :
                          f \in FileLeft(d.cand.file),
                          t \in FileLeft(d.cand.transition)}}

\* Power is lost: of what was not synced, anything may be gone or torn. The
\* callers are gone too, with the last answer.
PowerLoss ==
    /\ Fails
    /\ writer' = None /\ reply' = None
    /\ \E d \in [Lanes -> UNION {laneDisk[l] : l \in Lanes}] :
          /\ \A l \in Lanes : d[l] \in laneDisk[l]
          /\ lane' \in {f \in [Lanes -> UNION {LaneLeft(d[l]) : l \in Lanes}] :
                          \A l \in Lanes : f[l] \in LaneLeft(d[l])}
    /\ laneDisk' = [l \in Lanes |-> {lane'[l]}]
    /\ \E d \in indexDisk : index' \in IndexLeft(d)
    /\ indexDisk' = {index'}
    /\ UNCHANGED <<wanted, acked>>

----------------------------------------------------------------------------
Next ==
    \/ \E l \in Lanes :
          \/ \E e \in EventsOf[l] : Request(l, e)
          \/ Abandon(l) \/ Begin(l)
    \/ Step
    \/ Crash \/ CrashWriting \/ PowerLoss

Spec == Init /\ [][Next]_vars

\* A commit that holds the lock runs on, and a caller that is refused comes
\* back: it retries its event and never gives it up for another.
NextPatient ==
    \/ \E l \in Lanes : Begin(l) \/ \E e \in EventsOf[l] : Request(l, e)
    \/ Step
    \/ Crash \/ CrashWriting \/ PowerLoss

PatientSpec ==
    /\ Init /\ [][NextPatient]_vars
    /\ WF_vars(Step)
    /\ \A l \in Lanes : SF_vars(Begin(l))

----------------------------------------------------------------------------
(* Properties.                                                             *)

Positions == UNION {{l} \X DOMAIN Slots(l) : l \in Lanes}
RecordAt(p) == Slots(p[1])[p[2]].record
Trailing == {p \in Positions : RecordAt(p) \notin Projected}

\* The index never runs ahead of the journals, and trails them by one record
\* in the whole Project at most: the last record of one lane, whose own index
\* candidate is there with its intent.json, whole or torn, whatever failed.
IndexTrailsJournals ==
    /\ Projected \subseteq {RecordAt(p) : p \in Positions}
    /\ \A p, q \in Trailing : p = q
    /\ \A p \in Trailing :
          /\ p[2] = Len(Slots(p[1]))
          /\ index.cand # None
          /\ index.cand.intent = RecordAt(p).intent
          /\ index.cand.file # "none"

\* The residue of an interrupted event always belongs to the index candidate
\* that is pending, and to one its retry may take up: no two lanes leave
\* residue at once, and although the intent the residue names may be torn, the
\* candidate has no transition yet, so that it is written again.
ResidueIsBacked ==
    \A l \in Lanes : lane[l].cand # None =>
        /\ index.cand # None
        /\ index.cand.intent = lane[l].cand.record.intent
        /\ index.cand.intent.previous = Len(index.log)
        /\ ~TransitionPresent

\* An event that was acknowledged survives every later failure, in its lane
\* and in the index: both capsules are there and their files are whole.
AckedSurvives ==
    \A l \in Lanes : \A e \in acked[l] :
        /\ \A d \in laneDisk[l] : \E i \in DOMAIN d.slots :
              d.slots[i].record.event = e /\ d.slots[i].file = "whole"
        /\ \A d \in indexDisk : \E i \in DOMAIN d.log :
              /\ d.log[i].record.event = e /\ d.log[i].intent.lane = l
              /\ d.log[i].file = "whole"

\* A file under a committed record was lost: that of its event, those of its
\* index capsule, or the intent of the candidate that is to become one.
CommittedFileLost ==
    \/ \E p \in Positions : Slots(p[1])[p[2]].file = "torn"
    \/ \E i \in DOMAIN index.log : index.log[i].file = "torn"
    \/ Trailing # {} /\ index.cand.file = "torn"

\* Failures alone do not bring the stores to a state the code takes for
\* tampering: a commit is refused for a failed integrity check only if a file
\* that was taken up unsynced is lost under a committed record.
FailuresAreNotTampering ==
    reply # None /\ reply.reason = "integrity" => CommittedFileLost

\* "Durably apply one non-final already-validated lane event": what was applied
\* can be read back whatever a power loss leaves, so every capsule up to that
\* of an acknowledged event is whole.
AppliedCanBeRead ==
    \A l \in Lanes : \A d \in laneDisk[l] : \A i \in DOMAIN d.slots :
        d.slots[i].record.event \in acked[l] =>
            \A j \in 1..i : d.slots[j].file = "whole"

\* The durable part of the journals, with the acknowledgements, implements
\* the ledger. A slot is durable once its name is; only AckedSurvives speaks
\* of what its file holds.
DurableSlots(l) ==
    (CHOOSE d \in laneDisk[l] :
        \A other \in laneDisk[l] : Len(d.slots) <= Len(other.slots)).slots

DurableHistory ==
    [l \in Lanes |-> [i \in DOMAIN DurableSlots(l) |->
                        DurableSlots(l)[i].record.event]]

Ledger == INSTANCE LaneLedger WITH history <- DurableHistory

ImplementsLedger == Ledger!Spec

\* Patient callers get every event committed, except where the residue of an
\* interrupted dispatch is in the way: that one blocks for good the Project.
DispatchResidue ==
    \E l \in Lanes : /\ lane[l].cand # None
                     /\ lane[l].cand.record.event \in DispatchEvents

PatientCallersFinish ==
    <>[]DispatchResidue \/ \A l \in Lanes : []<>(wanted[l] = None)
=============================================================================
