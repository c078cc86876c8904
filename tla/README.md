# Formal verification of ask-herdr

ask-herdr lets a coding agent consult other agents through a terminal
multiplexer ("Herdr") and keeps, in a private directory of the Project, a
durable account of every lane (a dialogue with one consultant), every attempt
to deliver a turn, and every effect it had on the terminals. Its core is not
the delivery: it is the promise that after a crash, a timeout, a lost or a late
answer the records still say truthfully what may have happened, and that
nothing is sent, settled or answered twice.

This directory holds TLA+ modules of that core, the TLC configurations that
check them, and theorems that TLAPS proves. Modules describe the Python sources
in `lib/`; `PROJECT.json` gives, for every definition, the lines it stands for.

## 1. Inventory

| Component | State | Operations | Hard behaviour | What makes it correct |
|---|---|---|---|---|
| **Lane turn reducer** `ask_herdr_lane_turn.py` | the `LaneTurnState` of an attempt (phase, recovery, promotion, reservation, outcome, retry, topology facts, provider turn and identity, response, head) | `reduce_turn` over 13 event types | observations arrive late, twice, out of order, from another attempt; each handler must be idempotent and must not undo what others recorded | retry only without effect; reservation follows promotion; a settled answer is never replaced; quarantine is sticky; topology facts account for each other |
| **Lane journal** `ask_herdr_lane_store.py` | per lane: slots of hash-chained event capsules, one event candidate | `apply_lane_turn_event`, `_commit_event_locked`: finalize the index for the last record, replay, prepare the index, write, promote, sync, finalize | crash or power loss at any file operation; files of a dead call taken up unsynced; residue; replays of old events; two stores written one after the other | acknowledged events survive; nothing is committed twice; residue can be finished or recognised; a false alarm of tampering only over a file that was lost |
| **Lane index** `ask_herdr_lane_index.py` | Project-wide chain of transitions, one candidate (intent, then transition) | prepare, finalize, inspect | shared by all lanes: the candidate of one stands in the way of the others | trails the journals by one record at most, and that one can be finished |
| **Response authority** `ask_herdr_lane_store.py` | per attempt: stage directory, published capsule (frame, receipt) | `publish_validated_final`, `settle_expected_response`, `inspect_lane_turn` | a stage is a directory of two files; other events come between publication and settlement | only a dispatched attempt has artifacts; a settled response is the published one, and whole once its publication was reported; inspection finds no contradiction |
| **Capsule promotion** `ask_herdr_capsule*.py`, `ask_herdr_{darwin,linux}_capsule.py` | none | `commit_exclusive`: rename without replacement | platform calls | atomic and exclusive |
| **Policy ledger** `ask_herdr_policy_ledger.py` | objects, staged heads, the active head | append (admissions, recovery authority, content access), recovery of pending, orphaned and stale appends | a rename between two directories that are synced one by one | one chain; an append is recovered or recognised |
| **Authority store** `ask_herdr_authority_store.py` | the Project authority: candidate, store, active pointer | activate, inspect | partial activation | one authority per Project |
| **Topology journal** `ask_herdr_topology_store.py` | a directory of record capsules (mutations, commands, receipts, settlements), one candidate | four commits, replay, candidate recovery, inspection | a record renamed into place and not yet durable; a candidate of a dead call; checks of the commits and of replay, written separately | replay admits whatever a commit published; what was answered for survives |
| **Journaled provision** `ask_herdr_journaled_provision.py` | the program of one provisioning | mutation, then for each command intent, command, receipt; settlement | crash between a command and its record; two controllers with one mutation | a command is given once at most, after its durable intent and the durable receipts of those before it |
| **Herdr transport** `ask_herdr_herdr_transport.py`, `ask_herdr_topology_contract.py` | what it remembers of its last look | provision, dispatch, release: looks and commands | the user acts on the session between any two commands; answers are lost | what a proof names was made by it; what it closes or deletes is what it saw |
| **Project mutation lease** `ask_herdr_project_mutation_lease.py` | one lock on the root, tokens that borrow it | hold, borrow, release | refused, never queued; the lock goes with the process | at most one live lease |
| **Project read epoch** `ask_herdr_project_read_epoch.py` | none; reads three heads | acquire | three stores, three locks, writers in between | the tuple it reports existed at one instant |
| **Direct-human first lane** `ask_herdr_human_first_lane.py` | none of its own | prepare, execute, inspect, finalize: policy, lane and topology records in order | stops anywhere; several processes; a digest that goes stale | a command is witnessed in the lane before it is recorded, recorded before it is given; recovery tells the truth; an offered finalization can be finished |
| **Recovery reconciliation**, **Project status** `ask_herdr_recovery_reconcile.py`, `ask_herdr_{project,public}_status.py` | none | read-only compilation | stale reads | classification agrees with the records |
| **Machine requests, command line, schemas** (the other modules of `lib/`) | none | validation, rendering, constant tables | | |

How they interact: a mutation takes `flock(LOCK_EX | LOCK_NB)` on the Project
root, either itself or by borrowing the descriptor of a mutation lease, so one
writer works at a time and a second one is refused, not queued. The journal
calls the reducer for every event and the index before and after. The response
authority scans the journal, writes its own capsule beside it and commits the
final authority as one more event of the lane. The coordinator calls policy
ledger, journal, topology journal and transport in that order. Readers take
shared locks on each store in turn.

Hard behaviours, each with its line, are the `hazards` of `PROJECT.json`.

## 2. Plan

| Order | Modules | Status |
|---|---|---|
| 1 | `LaneTurnReducer`, `LaneTurn`: the reducer; `LaneTurnProofs` | done |
| 2 | `LaneLedger` (abstract), `LaneJournal`: journal and index under failures, refinement of the ledger | done |
| 3 | `LaneResponse`: publication and settlement, composed with the reducer, refinement of `LaneTurn` | done |
| 4 | `PolicyLedger`: append and its three recoveries | done |
| 5 | `ReadEpoch` with the writers' locks; the snapshot theorem in `ReadEpochProofs` | done |
| 6 | `TopologyLedger`, `TopologyJournal`, `JournaledProvision`; abstract specification `CommandOnce`; all of it proved in `JournaledProvisionProofs` | done |
| 7 | `HerdrTransport`: the commands against a user who acts on the same session | done |
| 8 | `FirstLane`: the coordinator over the ledger of 6 and the promises of 2 and 4 | done |
| 9 | proofs: the chains of a turn and its redelivery (`LaneTurnProofs`) | done |
| 10 | proofs: `LaneJournalProofs` with the refinement of `LaneLedger`, `LaneResponseProofs` with that of `LaneTurn`, `PolicyLedgerProofs`, `HerdrTransportProofs` | done |
| 11 | proofs: the invariants of `FirstLane` for any number of processes (`FirstLaneProofs`) | done |
| 12 | `AuthorityStore`: candidate, promotion, activation; the anchors of `lane_store` | planned |

## 3. The modules

### LaneTurnReducer, LaneTurn

`LaneTurnReducer` translates `reduce_turn`. For every event type there are a
set of events, an operator `...Admitted` (the handler does not raise) and an
operator `...Reduced` (the state it returns, which is the same state when the
event is a replay). A state is a record with the fields of `LaneTurnState` the
handlers read; identifiers are model values and are only compared. The set of
events covers correlated events and those of another attempt, another provider
turn, another native identity, another head.

`LaneTurn` has one variable, `turn`, and one action for each event type. It
lets every event arrive in every state: the callers (stores, transport,
coordinator) promise nothing about their order.

### LaneLedger, LaneJournal

`LaneLedger` says what a journal promises: a history of events per lane, each
there once, that only grows, and acknowledgements of what is there.

`LaneJournal` is `_commit_event_locked` with the index operations it calls, one
action for every step that a failure may separate from the next: prepare the
index candidate, write its intent, make, write and promote the event capsule,
sync it, write, promote and sync the index transition. `lane` and `index` are
what a process sees; `laneDisk` and `indexDisk` are the directories a power
loss may leave, which a sync makes singletons.

A file is `"none"`, `"torn"` (a strict prefix, the empty one included),
`"loose"` (written and not synced) or `"whole"`. What matters is what the code
does with a loose file it finds: `_repair_strict_prefix_file` returns when the
bytes match, and a whole event candidate is promoted, both without an fsync, so
`Repaired` leaves it loose and `PrepareIndex`, `WriteIntent`,
`WriteTransition` and `MakeEventCandidate` take it up as it is. The barriers
are told apart accordingly: `LaneNamed` and `IndexNamed` are what is left when
only names are synced (`_barrier_store_tree`, `_barrier_store`),
`SyncLaneCandidate` and `SyncIndexCandidate` sync the directory of a candidate,
`SyncLane` and `SyncIndex` its parent as well, and `WithWhole` the files of one
capsule. The files of an event are synced first by `BarrierEvent` or `Replay`,
those of an intent or transition by `BarrierTransition` or `BarrierCapsule`.

`Crash` stops the writer between steps, `CrashWriting` inside a write, `PowerLoss`
chooses one of the directories and for every loose file whether it is torn.
`Begin` is a caller that finds the lock free; `Request` and `Abandon` are the
callers, who may retry or turn to another event while the lock is free (what
they want is not looked at while it is held). `reply` keeps the last outcome,
and tells a failed integrity check from contention, which the code answers with
the same words; a power loss takes it with the caller.

The reducer is here `StateAfter`, what an event leaves. `EventsOf` gives each
lane the events its callers may commit, so that the two shapes that matter stand
side by side: a lane that dispatches, and a lane with two events that lead to
the same state and so share an index plan.

### LaneResponse

`LaneResponse` composes the reducer with the files of one attempt's response.
`Publish...`, `WriteStage`, `PromoteResponse`, `BarrierResponse` are
`publish_validated_final` in the order of its file operations, `Settle` is
`settle_expected_response`, `Refused` a call that only syncs before it is
turned away. The event actions are those a lane accepts without a Project
lease. The commit of an event is here one step that lasts: `LaneJournal` shows
when it does, and what a failure may leave of an event nobody was told of.

Stage and capsule are two files, `frame` and `receipt`, each in one of the
states above. `Crash` leaves the file under way torn or loose; a resumed
publication (`Resumes`) takes a loose file as it is, and renames it. `SyncNames`
is `_barrier_store_tree`, which every operation begins with and which syncs no
file of a stage or a capsule; only `SyncCapsule`, before a publication is
reported, does. `Settle` therefore commits a final authority on a capsule that a
power loss may tear, as the code does. `Left` is what a power loss makes of
loose files.

`ImplementsTurn` is the refinement of `LaneTurn`: whatever the stores do, the
turn moves as the reducer alone would let it.

### PolicyLedger

`PolicyLedger` is the append protocol of the policy ledger with the
classification the authority store makes of its files. A record names its
predecessor by digest, so a head digest stands for the chain below it; the
module has the chain. `objects`, `stage` and `active` are the three
directories, `objectsDisk`, `stageDisk` and `activeDisk` what a power loss may
leave of each: the rename of the stage over the active head touches two
directories, and either may be durable without the other. `Replay`,
`Conflict`, `Deny`, `AppendRecord`, `Recover` and `Inactive` are the ways a
call is answered or goes on; `WriteObject` to `SyncStaging` are its file
operations, which recoveries enter in the middle. Genesis is left out: it is
below every chain. The creation of the store belongs to `AuthorityStore`.

### ReadEpoch

`ReadEpoch` has readers that acquire an epoch and writers that change the three
stores behind it. Stores are reduced to a head and whether an append to it is
unfinished; the lock is that of the Project root, shared for one inspection and
exclusive for a mutation. A reader's `actual` and `quiet` are not program
state: they keep what was true when its first reading ended, which is what
`EpochExisted` compares the epoch with.

### TopologyLedger, TopologyJournal

`TopologyLedger` is the topology journal as a value. A history is a sequence of
records; `Admits` is what replay (`_apply_event`) demands of the next one,
`Commit` what the four commit functions decide. The code writes these rules
twice, and `HistoryReplays` says that the two agree. A digest is the part of
the value that the callers can tell apart: that of a receipt is its mutation,
step and request, that of a proof the set of its lanes.

`TopologyJournal` is the directory. `store` is what a process sees, `disk` the
set of values a power loss may leave. A call finds the lock free, reads
(`ReadBarriers`: it makes durable what it reads), and ends at once or starts
writing; then one action for every file operation that a failure may separate
from the next: create the store, sync it (a mutation is compared with an empty
history only then, and may leave an empty store: `ConflictWithEmpty`),
candidate directory, record file, rename, barriers. `TakeUpCandidate` repairs a
candidate of the caller's own record. `acked` keeps the records some call
answered for.

### JournaledProvision, CommandOnce

`JournaledProvision` has controllers that take a mutation from its commit to
its settlement over that journal, each in one of the two ways the code has
(`provision_journaled`, or prepared by one call and taken up by another).
Herdr is the set of workspaces of its session; a command may take effect and
not be answered, a command number may be used again after a restart of Herdr
(`request \in {Fresh, 1}`), and the user may end the session or replace the
workspace of the lane.

`CommandOnce` is the promise: intend, send, confirm, each once, in this order,
a later command after the earlier is confirmed. `ImplementsCommandOnce` maps
`intended` and `confirmed` to the records that every value in `disk` has, so
they are what no failure can take back.

### HerdrTransport

One operation (provision, dispatch, release of a lane or of the session) at a
time, one action per command given to Herdr: lists, snapshots, and the commands
that change something. Between any two of them the user may make or close
workspaces, or end and replace the session. `trust` is what the transport
remembers from one look to the next, `project` the caller's proof. `acts`,
`swaps` and `owned` are not program state: they keep what the transport cannot
see, for the properties to compare with.

### FirstLane

`prepare_human_first_lane`, `execute_prepared_journaled_provision`,
`inspect_...` and `finalize_prepared_topology_reconciliation` by any of several
processes, over the policy ledger, the lane and the topology journal. A record
is staged, shown (for the lane, whose index plans it before the scan of the
lane shows it) and promoted. `Classify` is the recovery classification,
`StateDigest` the state a digest stands for, `Offers` what the recovery preview
demands. A process holds the lease during preparation, each command's two
commits, and finalization, and stops anywhere. Power loss is not repeated here:
`LaneJournal`, `PolicyLedger` and `TopologyJournal` have it for each journal.

## 4. Runs

All run with `CHECK_DEADLOCK FALSE`: a lane that is settled, or callers that
have had every event, may stop.

| Run | Question | Bounds and why they are enough |
|---|---|---|
| `turn_attempt` | do the guarantees of an attempt hold in every order of its observations? | two attempts, turns, identities, evidences: own and foreign, first and second; no direct-human policy |
| `turn_topology` | are the topology facts consistent? | a direct-human attempt; two claims, effects, commands and operations |
| `journal_commit` | do journal and index survive failures? | two lanes, one with an ordinary event and a dispatch, one with two events that share an index plan; two failures: a crash before a sync, a retry that takes up what it left, and a power loss after it |
| `journal_applied` | can what was applied be read back? (no: see the findings) | the same, one inode |
| `journal_patient` | does every retrying caller finish? | one failure, fair scheduling: two can tear an intent behind a durable event, which blocks its lane for good (section 6) |
| `response` | do turn and response agree through failures? | one native identity, one evidence, two frames, three failures: a stage is left unsynced, its resumption dies after the rename, it is settled, and power is lost |
| `policy_append` | does the ledger survive failures, and are identities used once? | two admissions under one receipt, two accesses with one identity, two settlements of it; two failures |
| `policy_proof` | is a proof that is handed out durable? (no: see the finding) | the same |
| `read_epoch` | did every epoch exist? | one reader (readers do not see each other), one retry, each head moves once: a writer may still come between any two observations, die and come again |
| `journaled_provision` | is a command given twice, or before its intent is durable? does the journal read back? | two controllers, a first mutation and one that names its topology as prior, two failures (each a crash or a power loss) anywhere: one may strike the repair of the other |
| `herdr_transport` | is what a proof names the transport's own, and what it strikes what it saw? | two lanes, two acts of the user (one before, one after a look), four commands that change something: a session is made, filled, emptied and made again |
| `first_lane` | do the three journals tell one story wherever processes stop? does an offered finalization end? | two processes, three stops, one request: one process stops in preparation or execution, another in finalization, and a third stop strikes the repair. A second request of the Project only adds its refusal (its mutation conflicts) and a residue that bars the first |

Properties worth reading first:

- `SafeRetryOnlyWithoutEffect`, `QuarantineLeftOnlyByNonStart`: a caller may
  resend only what certainly had no effect.
- `AuthorityNeverReplaced`, `ProgressIsMonotone`, `RedeliveryChangesNothing`:
  late and repeated events do no harm.
- `IndexTrailsJournals`, `ResidueIsBacked`: why every interrupted commit can be
  taken up again: the pending index candidate always is that of the residue or
  of the one trailing record. Its intent may be torn; before the event is
  durable it is then written again, afterwards the lane is stuck (section 6).
- `AckedSurvives`, `ImplementsLedger`: what was reported committed lasts, once,
  in a file that is whole.
- `FailuresAreNotTampering`: failures lead the code to the answer it reserves
  for tampering in one way only, a file that was taken up unsynced and lost
  under a committed record.
- `QuarantineOnlyIfTorn`, `RecordedStays`: competing calls and failures never
  make the ledger look forged, and never lose a reported record.
- `EpochExisted`: three stores that are never locked together are still seen as
  they were at one instant.
- `ImplementsCommandOnce`: no command is given to Herdr twice, whoever crashes.
- `HistoryReplays`: no controller quarantines the store over its own history.
- `StrikesOnlyWhatItSaw`, `LanesAreOwn`: the transport does not close, stop or
  claim what is the user's.
- `CommandsAreWitnessed`, `RecoveryTellsTruth`, `QuarantineOnlyInTheGap`: what
  recovery says of an interrupted provisioning is so, and it is called tampered
  with in one gap only.
- `SettledResponseIsPublished`, `ArtifactsFollowDispatch`,
  `InspectionFindsNoConflict`: journal and response files tell one story; the one
  exception is a torn capsule nobody was told of.

Every property of every passing run has a mutant: a plausible slip of the code, written
in the modules under a comment that starts with "Slip", under which it fails.

### Fairness

Safety runs assume none. `PatientSpec` assumes weak fairness of `Step` (a
process that holds the lock runs on: it blocks on nothing) and strong fairness
of `Begin` for each lane: a refused caller is answered, not queued, so it is
the caller that comes back, and strong fairness says it does so at a moment
when the lock is free. Callers of the code that give up are `Abandon`, which
`PatientSpec` leaves out. `PatientCallersFinish` excepts the residue of an
interrupted dispatch, which the code refuses to retry on purpose.

`PolicyLedger` assumes weak fairness of `Step`, as above, and of `Recover(r)`:
`ResidueIsRecovered` is about content access calls that are made again, which
is the only way their residue goes.

`FirstLane` assumes weak fairness of a process at work (`Goes`, or the refusal
`Busy`), since it blocks on nothing but the lease and that refuses at once, and
strong fairness of `Finalize(c, m)`: a finalization that is tried again finds
the lease free at some time. `FinalizationEnds` excepts the residue whose
digest nobody has any more.

`JournaledProvision` and `HerdrTransport` are checked for safety only: neither
promises progress, since a controller that fails leaves the rest to recovery.

## 5. Proofs

`LaneTurnProofs` proves, for all values of the constants, `Spec => []IInv` and
from it the properties listed in `PROJECT.json`.

The inductive invariant `IInv` is the type of the turn, a predicate for each
property about one state, and `Linked`, which says what the handlers of
topology events rely on: a settled provisioning names the effects that began,
and an open claim covers the latest. The properties alone are not inductive:
that a definite non-start releases the lane, for instance, needs that the
reservation was not promoted, which needs that no effect was observed. The
proof has one lemma for each handler (what `...Admitted` and `IInv` give for
`...Reduced`), and one step for each action. The properties of steps follow
from the same lemmas.

`ReadEpochProofs` proves `EpochExisted` for any number of readers, attempts and
mutations. That an epoch equals the state at one instant says nothing about how
it was read, so its inductive invariant does: heads only grow, so each head the
first reading saw is at most the actual one when that reading ended
(`ReadingsSound`), each head the second saw at least that, and when the two
agree they enclose it. The last observation of the first reading holds the
shared lock, which excludes writers (`LockSound`). There is one lemma for each
reader action, one for a step of any writer (`WriterStep`), and one for a reader
that others leave alone (`Undisturbed`).

A second invariant of `LaneTurn`, `Chained`, needs the first: command effects
and recovery anchors are sequences and functions that four events extend, and
`IInv` tells that the effect precedes every command effect. `Chains` states it,
`CommandChain` and `Anchors` follow. `CommandEffectsChain` is proved and not
run.

`JournaledProvisionProofs` proves the three properties of
`journaled_provision` for any controllers, requests and number of failures,
the refinement included. No assumption is made but those of the modules.
The argument:

- `CommitAdmits`: what a commit publishes is what replay admits, by cases over
  the four kinds. `ReadableAppend`: a readable history and an admitted record
  make a readable history. The two carry `HistoryReplays`.
- `JInv` is about the journal alone: every value in `disk` is readable, its
  candidate admitted, and has every acknowledged record, and the call that
  holds the lock has established what its program counter says (`WriterOK`).
- `LogInv`: all values in `disk` have the history of `store`, or that without
  its last record; while a call writes, up to its rename, they have that of
  `store`. Commands in a history are numbered without a gap, so one that is
  there is never admitted again (`AdmittedIsNew`).
- `CtlInv`: what controllers may submit. In particular a receipt is only
  submitted for a command that was given.
- `SentInv`: who is about to give a command is the only one, its intent is
  acknowledged, and it was not given before; no call writes an intent that was
  acknowledged. This is what makes "at most once" inductive: the count alone
  says nothing of a controller that has the acknowledgement in hand.
- `DurableMoves`: the histories in `disk` have a shortest one (`Base`), which
  is what is durable, and a step leaves it or adds one record that replay
  admits. `RecordImplements` maps such a record to `Intend`, `Confirm` or a
  stutter; a command that is given is `Send`.

`Redelivery` adds to `LaneTurnProofs` that the last event may always come
again: one lemma for each event type, that what `...Reduced` leaves satisfies
the condition under which the same event is a replay. `IInv` is needed where a
handler looks at more than it wrote.

`LaneJournalProofs` proves all properties of `journal_commit`, for any lanes,
events, inodes and failures. A power loss chooses the lane and the index apart
from each other, so its `IInv` is about pairs of values:

- `Fits`: a lane value and an index value that may be read together agree:
  index records are in the lane, the lane's are in the index or pending there,
  a candidate of the lane has its own index candidate behind it. It speaks of
  names, and of files only in that the intent of a trailing record has one,
  torn or not: that is why a power loss, which tears loose files, keeps it.
- `UncertainOK`: one lane at most has several values, which differ in its last
  record; the index candidate is that record's. `WriterOK`: what the commit that
  holds the lock has made durable at each step, and that no capsule of its lane
  has been torn since it scanned (`SoundOK`). Without these, `Fits` says nothing
  after the next rename.
- `NeverTampering` is not about states alone: `reply` is set by a step, so each
  step that answers with a failed check is shown to do so over a lost file, and
  each other step to leave that file lost (`LostSame`) or the reply empty.
- `AckedSurvivesAll` has an invariant of its own: the capsules of acknowledged
  events are whole in every value of lane and index, and no step makes a whole
  file anything else.
- `LedgerRefined`: `LaneLedger`'s history is what every disk value of a lane
  has; a step leaves the shortest of them or adds one event that is not there.

`LaneResponseProofs` proves the four invariants of `response` and that it
implements `LaneTurn`, so the theorems of `LaneTurnProofs` hold with the files
beside it. `IInv` states the properties of every value a power loss may leave
and adds what holds between the steps of a publication (`PublisherOK`: nothing
was published before, and no final is committed meanwhile), that one capsule is
all the values have (`OneCapsule`), and what holds after a final (`FinalsOK`,
`SettledOK`: the capsule in every value is the one it settled). Torn files enter
in two places: `CapsulesLeft` and `DirsLeft` say what a power loss keeps of a
capsule (its authority, and a whole file), and `ReportedIsNotTorn` that a
capsule is synced before its publication is reported.

`PolicyLedgerProofs` proves `RecordedStays` and `QuarantineOnlyIfTorn` for any
requests and any number of failures. Objects, stage and active head are synced
apart, so `ChainsOK` is about every chain with every head a power loss may
leave: the chain is torn, or it extends the head and uses no identity twice.
`HeadIsSynced` (a head names only a durable chain) and `WriterOK` (after its
object is synced, an append runs on a durable chain) make it inductive.
`ResidueIsRecovered` is liveness, and `ProofsAreDurable` is false.

`HerdrTransportProofs` proves the three properties of `herdr_transport` for any
number of lanes, commands and acts of the user. That the lanes of a proof are
the transport's own is not inductive, since the user may replace the session at
any time: `Attributed` says that a proof names a generation in which its lanes
are own, or which is gone and does not come back. `Seen` and `Calm` say what
the last list and the last snapshot established as long as the user has not
acted since; `StrikesOnlyWhatItSaw` follows from them as an action property.

`FirstLaneProofs` proves the four invariants of `first_lane` for any number of
processes, requests and stops, at every instant for the two that are about the
journals, and between two holders of the lease for the two about the
classification. The argument:

- `HistoryOK`: no record stands twice, at most one mutation is open, a command
  comes before its receipt, the receipt before the next command and before the
  settlement. `HistoryKept` shows that each kind of record that is promoted
  keeps it (`Extends`).
- `LaneOK` puts a lane beside the history. Its events come in one order; a
  witness names the record of the mutation, and where the command is recorded,
  the very record. The two journals are never written in one step, so before
  the promotion of a command the writer knows that the witness names the record
  that is about to come (`WriterOK`).
- `Knows` is what a process that does not hold the lease may rely on: records
  that stand in the history, a command that was not given, or was proved. All
  of it survives what others do (`KnowsKept`). `WriterOK` is what the holder
  has established at each step; nobody else disturbs it (`WriterKept`).
- `OneSends`: a command is about to be given by one process at most, since its
  record was appended by that process. The count alone is not inductive.
- `Witnesses` computes from this what each lane shows of a command, and
  `Unbarred` what the classification then says. Only one case of a mismatch
  remains, and it is the exception of `QuarantineOnlyInTheGap`.

A lease that is held by a process that stopped is no case of its own: the lock
goes with the process, so the invariant is also what its successor finds.

The assumptions are those of the modules: numbers that bound a run are natural
numbers (any, they bound nothing in a proof), and `None` is a value apart from
those it stands beside (`EventsAssumption`, `NoneIsNoRecord`,
`NoneIsNoSession`, `NoneAssumption`). The code tells absence by Python's `None` or by a file that
is not there.

Only model-checked: liveness (`PatientCallersFinish`, `ResidueIsRecovered`,
`FinalizationEnds`), which is beyond the prover. All other properties of the
passing runs are stated by a theorem. Those of the two violation runs are
refuted.

## 6. What the code does that its callers should know

Two behaviours contradict a statement of the repository; each is a `finding`:

- Docstrings call the admission proofs durable, but an exact replay hands one
  out from the records it reads, without a barrier (`policy_proof`). When the
  process that appended the record died after the rename of the head and before
  the sync of its directory, a power loss can take the head back after the
  proof was given. The record itself stays (`RecordedStays`), as an orphan.

- `_apply_lane_turn_event_raw` is to "durably apply" an event
  (`journal_applied`). An event candidate that a dead call wrote and did not
  sync is promoted as it is; when the promoting call dies before its barrier,
  the next event is applied on top without a sync of that file. A power loss may
  then tear it, and every scan of the lane fails, with the acknowledged event
  behind it whole and out of reach.

The others contradict nothing; the models have them.

- The same reuse of unsynced files loses others for good, each after a crash
  between a write and its sync, a retry, and a power loss. A torn intent behind
  a durable event: the index cannot be finalized, so that lane is answered as
  quarantined and its candidate refuses every other lane
  (`ask_herdr_lane_index.py:379`). A torn capsule of the index: no index
  operation passes its scan. A torn event slot: as above. A torn response
  capsule: every call of that lane is quarantined, also after the turn was
  settled by it. None of it can happen to an event that was reported as
  committed or a response that was reported as published (`AckedSurvives`,
  `PublishedStays`); what can be lost is the way to read them.

- An interrupted dispatch cannot be retried. Its pending index candidate then
  refuses every commit of every lane in the Project.
- A lane whose own record is complete but that finds the pending candidate of
  another lane is answered as quarantined (`lane_index.candidate_changed`),
  although nothing was tampered with. It goes away when the other lane is
  retried.
- A response stage left empty or torn is not repaired: it refuses every later
  publication and also a definite non-start of the attempt.
- A torn object or stage quarantines the policy ledger for good; no call repairs
  or removes it.
- The residue of a human or recovery admission is taken up by no call and
  refuses every later one.
- A settlement that is recorded and then replayed while another append awaits
  recovery is told that the ledger is quarantined.
- A crash before the sync of the store directory, another append and a power
  loss leave the head two records behind. The classification is the detail code
  of an orphan but carries no records; no call reconciles it, and
  `_recover_pending_evidence_content_access_settlement_under_lease`, which has
  no caller yet, would index an empty list.
- A read epoch reports heads that need not be durable yet, and its residue flag
  is not that of one instant: an append may begin and be discarded between the
  two readings.
- A turn in quarantine leaves it by a definite non-start if it had no effect.
- A topology candidate is taken up only by a call with the same record. That of
  a receipt or a settlement whose controller died can be made again by nobody,
  and the store stays unusable for every other commit. After a candidate of a
  mutation, or an empty store, `provision_journaled` refuses for good; only
  `commit_mutation_intent` takes it up.
- A second lane of a Project cannot settle: its settlement proves one lane,
  and replay demands the prior lanes as well
  (`HerdrTransport.provision` is given no known topology).
- A process that stops between the lane's witness of the second command and
  its record in the topology journal leaves a state that is classified as
  quarantined (`cross_journal_mismatch`); the same gap at the first command is
  an unresolved command. `QuarantineOnlyInTheGap` has this exception.
- A visible residue of the first witness is never taken up; one that is only
  in the index is.
- The residue of the execution's own provisioned record carries no recovery
  digest, so no finalization can finish it; one whose finalizer's digest is
  lost is finished by nobody. `FinalizationEnds` excepts these.
- Where the classification is already complete, or wants a reconciliation of
  the lane, finalization does not compare the digest it was given.
- A process that stops after the claim and before the mutation is classified
  as quarantined by the preview, while a repeated preparation goes on.
- Between the snapshot of a release and its `session stop` the user may make a
  workspace; it is deleted with the session. `StrikesOnlyWhatItSaw` is about
  what was there when the operation last looked.
- A session replaced between the list and the snapshot is not noticed, since a
  snapshot names no generation; `LanesAreOwn` excepts it.
- A workspace of the user's that looks like the one Herdr makes by itself, made
  right after the start, is taken for it, as a side effect and not as a lane.
- A Herdr that reports no generations lets a first lane be provisioned, and
  every later operation on it fails.

## 7. Not modelled

Hashes, signatures and canonical JSON (a digest is the value it digests);
syntax of identifiers; ownership and modes of files, replacement of directories
by other programs, except where a lock or an inode matters; the native calls of
capsule promotion. `flock` and a file system that honours `fsync` are assumed.

Of the modelled components: the creation of the lane and policy stores and of
the index; evidence anchors and their candidates in the lane store; the
validators of a topology record's prefix and the inspection of its head; the
digest of a historical state in the coordinator, dispositions that no code
writes, and the mismatch of a command's specification; the read-only
`rehydrate_journaled_provision`; the tokens that borrow the descriptor of a
lease.

Of the others: Project status and the public status render a read epoch and
keep no state; machine requests, schemas and the command line are pure
functions of one request. Components are listed in `PROJECT.json` with the
reason. Type invariants of the larger modules are not run: their records are
built in one place each, and the invariants above speak of their fields.
