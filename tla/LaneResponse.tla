--------------------------- MODULE LaneResponse ---------------------------
(***************************************************************************)
(* One lane generation of lib/ask_herdr_lane_store.py: the turn its        *)
(* committed events reduce to, and beside them the response of the one     *)
(* attempt, staged and promoted by publish_validated_final and turned      *)
(* into the final authority by settle_expected_response.                   *)
(*                                                                         *)
(* Every operation holds the exclusive lock of the Project root from its   *)
(* first read to its return, so operations do not overlap; a crash of the  *)
(* process or a loss of power may end publishing after any file operation. *)
(* The commit of an event is one step that lasts here: LaneJournal shows   *)
(* when it does and what else a failure may leave of an event nobody was   *)
(* told of. The lane has no open topology claim and no direct-human        *)
(* policy; LaneTurn covers those events.                                   *)
(***************************************************************************)
EXTENDS LaneTurnReducer, FiniteSets

CONSTANTS
    Evidence,      \* evidence_ref_id: tells two observations apart
    NewHead(_),    \* final authority -> _new_dialogue_head
    MaxFailures    \* bound on crashes and power losses

VARIABLES
    turn,          \* the state the committed events reduce to, or None
    history,       \* the committed events
    files,         \* [stage, capsule]: the response candidate directory
                   \* and the authoritative capsule, each None or the
                   \* state of the two files in it
    disk,          \* the values of files a power loss may leave
    publisher,     \* the publication that holds the lock, or None
    published,     \* the frames a caller was told are published
    failures

vars == <<turn, history, files, disk, publisher, published, failures>>

\* A frame carries the final authority settlement will derive from it: its
\* body and digests are validated before there is a frame.
Frames == {f \in FinalEvents : f.complete /\ f.new_head = NewHead(f)}

\* A file is not there, cut short, written but not synced (a loss of power
\* may cut it short), or synced. A file cut short fails its digest.
FileStates == {"none", "torn", "loose", "whole"}

\* The files frame and receipt.json that carry one authority.
Capsules ==
    [authority : Frames, frame : FileStates, receipt : FileStates]

Readable(c) == {c.frame, c.receipt} \subseteq {"loose", "whole"}

\* A publication that holds the lock.
Publishers == [pc : {"write", "promote", "barrier"}, frame : Frames]

\* None is no record.
ASSUME NoneIsNoRecord ==
    /\ None \notin TurnStates /\ None \notin FinalEvents
    /\ None \notin Capsules /\ None \notin Publishers

Init ==
    /\ turn = None
    /\ history = {}
    /\ files = [stage |-> None, capsule |-> None]
    /\ disk = {files}
    /\ publisher = None
    /\ published = {}
    /\ failures = 0

----------------------------------------------------------------------------
(* Files.                                                                  *)

\* The values a power loss may leave once the names in the directory of the
\* lane are synced. What is in the directories those names lead to is not.
Named ==
    {d \in disk : /\ (d.stage = None) = (files.stage = None)
                  /\ (d.capsule = None) = (files.capsule = None)}

\* _barrier_store_tree
SyncNames == disk' = Named /\ UNCHANGED files

\* _barrier_existing_capsule, _barrier_promoted_capsule: the files too.
SyncCapsule ==
    /\ files' = [files EXCEPT !.capsule.frame = "whole",
                              !.capsule.receipt = "whole"]
    /\ disk' = {files'}

\* _response_authority_scan_conflict: every operation but inspection gives up
\* on a lane whose capsule does not read.
ScanPasses == files.capsule # None => Readable(files.capsule)

\* _has_attempt_artifact
HasArtifact(d) == d.stage # None \/ d.capsule # None

\* The test _build_frame and _parse_authoritative_frame share: the reducer
\* would settle the turn with this authority.
Settles(f) ==
    /\ FinalAdmitted(turn, f)
    /\ FinalReduced(turn, f).recovery # "quarantined"
    /\ FinalReduced(turn, f).outcome = "turn_final"

----------------------------------------------------------------------------
(* Events.                                                                 *)

\* Slip: an event is committed although the reducer raises on it.
CommitUnadmitted(event, admitted, reduced) ==
    \/ event \in history /\ UNCHANGED <<turn, history>>
    \/ /\ event \notin history
       /\ history' = history \cup {event}
       /\ turn' = reduced

\* _commit_event_locked: an event that is already there is replayed and
\* changes nothing.
Commit(event, admitted, reduced) ==
    \/ event \in history /\ UNCHANGED <<turn, history>>
    \/ /\ event \notin history /\ admitted
       /\ history' = history \cup {event}
       /\ turn' = reduced

Event(type, e, evidence) == [type |-> type, event |-> e, evidence |-> evidence]

\* _apply_lane_turn_event_raw
Apply(event, admitted, reduced) ==
    /\ publisher = None /\ ScanPasses
    /\ SyncNames
    /\ Commit(event, admitted, reduced)
    /\ UNCHANGED <<publisher, published, failures>>

Prepare ==
    \E e \in PrepareEvents :
        Apply(Event("prepare", e, None),
              PrepareAdmitted(turn, e), PrepareReduced(turn, e))

\* A dispatch is refused where an artifact of its attempt is there before it.
BeginDispatch ==
    \E e \in DispatchEvents :
        /\ turn # None /\ ~HasArtifact(files)
        /\ Apply(Event("dispatch", e, None),
                 DispatchAdmitted(turn, e), DispatchReduced(turn, e))

DeliveryUncertain ==
    \E e \in ObservationEvents, evidence \in Evidence :
        /\ turn # None
        /\ Apply(Event("uncertain", e, evidence),
                 UncertainAdmitted(turn, e), UncertainReduced(turn, e))

\* Slip: the artifacts of the attempt are not looked at.
DefiniteNonStartUnchecked ==
    \E e \in ObservationEvents, evidence \in Evidence :
        /\ turn # None
        /\ Apply(Event("non_start", e, evidence),
                 NonStartAdmitted(turn, e), NonStartReduced(turn, e))

\* An artifact of the attempt contradicts the proof of a non-start.
DefiniteNonStart ==
    \E e \in ObservationEvents, evidence \in Evidence :
        /\ turn # None /\ ~HasArtifact(files)
        /\ Apply(Event("non_start", e, evidence),
                 NonStartAdmitted(turn, e), NonStartReduced(turn, e))

ProviderStarted ==
    \E e \in StartedEvents, evidence \in Evidence :
        /\ turn # None
        /\ Apply(Event("started", e, evidence),
                 StartedAdmitted(turn, e), StartedReduced(turn, e))

WaitTimeout ==
    \E e \in ObservationEvents, evidence \in Evidence :
        /\ turn # None
        /\ Apply(Event("timeout", e, evidence),
                 WaitTimeoutAdmitted(turn, e), WaitTimeoutReduced(turn, e))

\* Reported by a caller that validated the stream itself.
ResponseConflict ==
    \E e \in ObservationEvents, evidence \in Evidence :
        /\ turn # None
        /\ Apply(Event("conflict", e, evidence),
                 ConflictAdmitted(turn, e), ConflictReduced(turn, e))

\* A call that is refused, the one on a lane whose capsule does not read
\* among them, has synced the names before it looked.
Refused ==
    /\ publisher = None
    /\ SyncNames
    /\ UNCHANGED <<turn, history, publisher, published, failures>>

----------------------------------------------------------------------------
(* publish_validated_final.                                                *)

MayPublish ==
    /\ publisher = None /\ turn # None /\ ScanPasses
    /\ turn.dispatch # None /\ turn.recovery # "quarantined"
    /\ turn.phase \in {"dispatching", "in_flight", "validating"}

\* A final that does not correlate with the turn is recorded as a conflict.
PublishConflicting(f) ==
    /\ MayPublish /\ ~Settles(f)
    /\ SyncNames
    /\ \E evidence \in Evidence :
          LET e == [op |-> turn.admitted.op] IN
          Commit(Event("conflict", e, evidence),
                 ConflictAdmitted(turn, e), ConflictReduced(turn, e))
    /\ UNCHANGED <<publisher, published, failures>>

\* Its own capsule is there already; any other is a collision.
PublishAgain(f) ==
    /\ MayPublish /\ Settles(f)
    /\ files.capsule # None /\ files.capsule.authority = f
    /\ SyncCapsule
    /\ published' = published \cup {f}
    /\ UNCHANGED <<turn, history, publisher, failures>>

\* _response_candidate_matches: a stage of another frame, an empty one, a torn
\* file and a receipt without a frame are staging conflicts.
Resumes(f) ==
    /\ files.stage # None /\ files.stage.authority = f
    /\ files.stage.frame \in {"loose", "whole"}
    /\ files.stage.receipt # "torn"

\* The files a stage already has are taken as they are, unsynced or not.
PublishStage(f) ==
    /\ MayPublish /\ Settles(f) /\ files.capsule = None
    /\ \/ /\ files.stage = None
          /\ files' = [stage |-> [authority |-> f, frame |-> "none",
                                  receipt |-> "none"],
                       capsule |-> None]
          /\ disk' = Named \cup {files'}
       \/ Resumes(f) /\ SyncNames
    /\ publisher' = [pc |-> "write", frame |-> f]
    /\ UNCHANGED <<turn, history, published, failures>>

Publishing(pc) == publisher # None /\ publisher.pc = pc

WithFrame(d, state) == [d EXCEPT !.stage.frame = state]

WithReceipt(d, state) == [d EXCEPT !.stage.receipt = state]

\* The stage is not synced: each file's name in it may be lost on its own.
Staged == {d \in disk : d.stage # None}

\* _write_new: the first file that is missing gets this state.
Writes(state) ==
    \/ /\ files.stage.frame = "none"
       /\ files' = WithFrame(files, state)
       /\ disk' = disk \cup {WithFrame(d, state) : d \in Staged}
    \/ /\ files.stage.frame # "none" /\ files.stage.receipt = "none"
       /\ files' = WithReceipt(files, state)
       /\ disk' = disk \cup {WithReceipt(d, state) : d \in Staged}

\* The file that is missing is written and synced, then the next; then the
\* names in the stage are synced, not the files it had before.
WriteStage ==
    /\ Publishing("write")
    /\ \/ Writes("whole") /\ UNCHANGED publisher
       \/ /\ files.stage.frame # "none" /\ files.stage.receipt # "none"
          /\ disk' = (disk \ Staged) \cup {files}
          /\ publisher' = [publisher EXCEPT !.pc = "promote"]
          /\ UNCHANGED files
    /\ UNCHANGED <<turn, history, published, failures>>

\* commit_exclusive
PromoteResponse ==
    /\ Publishing("promote")
    /\ files' = [stage |-> None, capsule |-> files.stage]
    /\ disk' = disk \cup {files'}
    /\ publisher' = [publisher EXCEPT !.pc = "barrier"]
    /\ UNCHANGED <<turn, history, published, failures>>

\* Slip: the publication is reported before its directory is synced.
BarrierResponseUnsynced ==
    /\ Publishing("barrier")
    /\ published' = published \cup {publisher.frame}
    /\ publisher' = None
    /\ UNCHANGED <<turn, history, files, disk, failures>>

\* Slip: the directories are synced, the files taken from the stage are not.
BarrierResponseNames ==
    /\ Publishing("barrier")
    /\ SyncNames
    /\ published' = published \cup {publisher.frame}
    /\ publisher' = None
    /\ UNCHANGED <<turn, history, failures>>

BarrierResponse ==
    /\ Publishing("barrier")
    /\ SyncCapsule
    /\ published' = published \cup {publisher.frame}
    /\ publisher' = None
    /\ UNCHANGED <<turn, history, failures>>

----------------------------------------------------------------------------
\* Slip: the capsule is settled before its name is synced.
SettleUnsynced ==
    /\ publisher = None /\ turn # None
    /\ files.capsule # None /\ ScanPasses
    /\ LET f == files.capsule.authority IN
       /\ Settles(f)
       /\ Commit(Event("final", f, None), FinalAdmitted(turn, f),
                 FinalReduced(turn, f))
    /\ UNCHANGED <<files, disk, publisher, published, failures>>

\* settle_expected_response: read the one capsule and commit what it says.
\* The name of the capsule is synced, its files are not.
Settle ==
    /\ publisher = None /\ turn # None
    /\ files.capsule # None /\ ScanPasses
    /\ SyncNames
    /\ LET f == files.capsule.authority IN
       /\ Settles(f)
       /\ Commit(Event("final", f, None), FinalAdmitted(turn, f),
                 FinalReduced(turn, f))
    /\ UNCHANGED <<publisher, published, failures>>

----------------------------------------------------------------------------
(* Failures.                                                               *)

Fails == failures < MaxFailures /\ failures' = failures + 1

\* Publishing stops between two steps, in the middle of writing a file, or
\* between writing it and syncing it.
Crash ==
    /\ publisher # None /\ Fails
    /\ publisher' = None
    /\ \/ UNCHANGED <<files, disk>>
       \/ Publishing("write") /\ (Writes("torn") \/ Writes("loose"))
    /\ UNCHANGED <<turn, history, published>>

\* What a power loss leaves of a file and of the files.
FileLeft(state) == IF state = "loose" THEN {"torn", "whole"} ELSE {state}

CapsuleLeft(c) ==
    IF c = None THEN {None}
    ELSE {[authority |-> c.authority, frame |-> f, receipt |-> r] :
              f \in FileLeft(c.frame), r \in FileLeft(c.receipt)}

Left(d) ==
    {[stage |-> s, capsule |-> c] :
         s \in CapsuleLeft(d.stage), c \in CapsuleLeft(d.capsule)}

PowerLoss ==
    /\ Fails
    /\ publisher' = None
    /\ \E d \in disk : files' \in Left(d)
    /\ disk' = {files'}
    /\ UNCHANGED <<turn, history, published>>

Next ==
    \/ Prepare \/ BeginDispatch \/ DeliveryUncertain \/ DefiniteNonStart
    \/ ProviderStarted \/ WaitTimeout \/ ResponseConflict
    \/ \E f \in Frames :
          PublishConflicting(f) \/ PublishAgain(f) \/ PublishStage(f)
    \/ WriteStage \/ PromoteResponse \/ BarrierResponse
    \/ Settle \/ Refused
    \/ Crash \/ PowerLoss

Spec == Init /\ [][Next]_vars

----------------------------------------------------------------------------
(* Properties.                                                             *)

\* An artifact is there for a dispatched attempt only, is one stage or one
\* capsule and never both, and never beside a definite non-start: an attempt
\* that may be retried safely has left no response behind, and none appears.
ArtifactsFollowDispatch ==
    \A d \in disk : HasArtifact(d) =>
        /\ turn # None /\ turn.dispatch # None
        /\ turn.outcome # "turn_definite_non_start"
        /\ d.stage = None \/ d.capsule = None

\* The response a turn has accepted is the one in its capsule, also when a
\* later conflict puts the turn in quarantine. No failure takes the capsule
\* away; one may tear it, unless its publication was reported.
SettledResponseIsPublished ==
    turn # None /\ turn.response # None =>
        \A d \in disk :
            /\ d.capsule # None
            /\ LET f == d.capsule.authority IN
               /\ f.response = turn.response /\ f.new_head = turn.head
               /\ f.turn_id = turn.turn_id /\ f.native = turn.native
            /\ published # {} => Readable(d.capsule)

\* A frame reported as published stays the one response of its attempt,
\* whole on disk.
PublishedStays ==
    \A f \in published : \A d \in disk :
        d.capsule = [authority |-> f, frame |-> "whole", receipt |-> "whole"]

\* inspect_lane_turn, on the files a power loss would leave.
FinalAuthorities == {h \in history : h.type = "final"}

Torn(d) == d.capsule # None /\ ~Readable(d.capsule)

Inspect(d) ==
    IF Torn(d)
    THEN "quarantined"
    ELSE IF turn.phase = "settled" /\ turn.outcome = "turn_final"
       /\ ~(/\ d.capsule # None /\ Settles(d.capsule.authority)
            /\ FinalAuthorities =
                   {Event("final", d.capsule.authority, None)})
    THEN "quarantined"
    ELSE IF turn.phase = "settled" /\ turn.outcome = "turn_definite_non_start"
            /\ HasArtifact(d)
    THEN "quarantined"
    ELSE IF turn.phase = "settled" /\ d.stage # None
    THEN "reconciliation_required"
    ELSE "active"

\* Without tampering no inspection finds the response and the turn at odds:
\* the store itself brings about one conflict only, a torn capsule, and only
\* while no caller was told that the response is published.
InspectionFindsNoConflict ==
    turn # None =>
        \A d \in disk : \A left \in Left(d) :
            Inspect(left) = "active" \/ (Torn(left) /\ published = {})

\* Whatever happens to the files, the lane behaves as its reducer: every
\* theorem about LaneTurn holds of the stored turn.
Turn == INSTANCE LaneTurn

ImplementsTurn == Turn!Spec
=============================================================================
