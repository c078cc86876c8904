----------------------------- MODULE FirstLane -----------------------------
(***************************************************************************)
(* The first lane of a Project that a human asks for,                      *)
(* lib/ask_herdr_human_first_lane.py, over three journals: the policy      *)
(* ledger admits the request, the lane journal prepares the attempt,       *)
(* claims the provisioning and witnesses every command before it is        *)
(* recorded, the topology journal records mutation, commands, receipts and *)
(* settlement. Preparing, each command and finalizing hold the Project     *)
(* mutation lease; between them a process may stop, and the recovery       *)
(* classifies what it left.                                                *)
(*                                                                         *)
(* A record is staged, then promoted; a lane record is first planned in    *)
(* the lane index, which a scan of the lane does not show. What a loss of  *)
(* power does to one journal is the subject of LaneJournal, PolicyLedger   *)
(* and TopologyJournal. The digest of a record is the history up to it.    *)
(***************************************************************************)
EXTENDS TopologyLedger

CONSTANTS
    Controllers,    \* processes that prepare, execute and finalize
    MaxStops        \* bound on processes that stop on their way

----------------------------------------------------------------------------
(* The records of the topology journal.                                    *)

MutationRecord(m) == [kind |-> "mutation", intent |-> m]
CommandRecord(m, step) == [kind |-> "command", mutation |-> m.mutation, step |-> step]
ReceiptRecord(m, step) ==
    [kind |-> "receipt", mutation |-> m.mutation, step |-> step,
     request |-> <<m.mutation, step>>, session |-> m.mutation, confirmed |-> TRUE,
     resources |-> IF step = 1 THEN {} ELSE {<<m.mutation, 2>>}]
\* The topology the two commands leave.
ProofOf(m) ==
    LET id == m.mutation IN
    [epoch |-> m.nonce, session |-> id, sides |-> {},
     lanes |-> {[lane |-> m.lane, workspace |-> <<id, 2>>,
                 receipt |-> <<id, 2, <<id, 2>>>>]}]
SettlementRecord(m, receipts) ==
    [kind |-> "settlement", mutation |-> m.mutation, session |-> m.mutation,
     receipts |-> {ReceiptDigest(r) : r \in receipts}, proof |-> ProofOf(m)]

Receipts == {ReceiptRecord(m, step) : m \in Requests, step \in Steps}
Records ==
    {MutationRecord(m) : m \in Requests}
    \cup {CommandRecord(m, step) : m \in Requests, step \in Steps}
    \cup Receipts
    \cup {SettlementRecord(m, receipts) : m \in Requests, receipts \in SUBSET Receipts}
Stores == [slots : Seq(Records), cand : Records \cup {None}]

ASSUME StopsAssumption == MaxStops \in Nat /\ None \notin Controllers

\* None is no store and no proof.
ASSUME NoneAssumption == None \notin Stores /\ \A m \in Requests : ProofOf(m) # None

----------------------------------------------------------------------------
VARIABLES
    policy,     \* request -> "none", "staged" or "admitted"
    lane,       \* request -> [slots, cand] of its lane; cand is None or
                \* [event, shown]
    topo,       \* None, or [slots, cand] of the topology journal
    holder,     \* who holds the Project root, or None
    run,        \* controller -> [pc, at, req, step, receipts, token]
    sent,       \* <<mutation, step>> -> how often Herdr was given it
    proved,     \* the commands whose postcondition was proved
    stops       \* processes that have stopped

journals == <<policy, lane, topo>>
vars == <<journals, holder, run, sent, proved, stops>>

Commands == {m.mutation : m \in Requests} \X Steps
Idle == [pc |-> "idle", at |-> "begin", req |-> None, step |-> 1,
         receipts |-> {}, token |-> None]

Init ==
    /\ policy = [m \in Requests |-> "none"]
    /\ lane = [m \in Requests |-> [slots |-> <<>>, cand |-> None]]
    /\ topo = None
    /\ holder = None
    /\ run = [c \in Controllers |-> Idle]
    /\ sent = [x \in Commands |-> 0] /\ proved = {}
    /\ stops = 0

History == IF topo = None THEN <<>> ELSE topo.slots
Pending == topo # None /\ topo.cand # None
EventsOf(m) == {lane[m].slots[i] : i \in DOMAIN lane[m].slots}
HeadType(m) == IF lane[m].slots = <<>> THEN "none"
               ELSE lane[m].slots[Len(lane[m].slots)].type
\* What the scan of a lane shows: its status is active.
Clean(m) == lane[m].cand # None => ~lane[m].cand.shown

DigestAt(i) == SubSeq(History, 1, i)
DigestsOf(record) == {DigestAt(i) : i \in {j \in DOMAIN History : History[j] = record}}

----------------------------------------------------------------------------
(* Lane events and what the turn reducer admits.                           *)

PrepareEvent == [type |-> "prepare"]
ClaimEvent == [type |-> "claim"]
Marker(step, mutation, command) ==
    [type |-> "marker", step |-> step, mutation |-> mutation, command |-> command]
Provisioned(settlement, token) ==
    [type |-> "provisioned", settlement |-> settlement, token |-> token]

Markers(m) == {e \in EventsOf(m) : e.type = "marker"}
Witness(m, step) == {e \in Markers(m) : e.step = step}
ProvisionedOf(m) == {e \in EventsOf(m) : e.type = "provisioned"}

Reduces(m, e) ==
    CASE e.type = "prepare" -> HeadType(m) = "none"
      [] e.type = "claim" -> HeadType(m) = "prepare"
      [] e.type = "marker" -> /\ HeadType(m) = IF e.step = 1 THEN "claim" ELSE "marker"
                              /\ Cardinality(Markers(m)) = e.step - 1
      [] e.type = "provisioned" -> HeadType(m) \in {"claim", "marker"}

----------------------------------------------------------------------------
(* The classification of an interrupted prefix, for a mutation that was    *)
(* prepared, from both journals under one lease.                           *)

Recorded(m, step) == DigestsOf(CommandRecord(m, step))
SettlementsOf(m) == {r \in RecordsOf(History, "settlement") : r.mutation = m.mutation}
StepsRecorded(m) == {r.step : r \in CommandsOf(History, m.mutation)}

\* Slip: what is recorded counts as answered.
Assumed(m) == StepsRecorded(m)

Answered(m) == {r.step : r \in ReceiptsOf(History, m.mutation)}

Result(status, detail, confirmed, pending) ==
    [status |-> status, detail |-> detail, confirmed |-> confirmed,
     pending |-> pending]

\* A residue bars everything else, that of the lane first.
Barred(m) == ~Clean(m) \/ Pending
BarrierResult(m) ==
    Result("reconciliation_required",
           IF Clean(m) THEN "topology_reconciliation_required"
           ELSE "lane_reconciliation_required", {}, {})

NothingBegan(m) == StepsRecorded(m) = {} /\ HeadType(m) = "claim"

\* Markers and commands that do not answer to each other one by one.
WitnessMismatch(m) ==
    \/ Markers(m) = {}
    \/ \E e \in Markers(m) : e.mutation \notin DigestsOf(MutationRecord(m))
    \/ StepsRecorded(m) # {} /\ \E step \in Steps :
          {e.command : e \in Witness(m, step)} # Recorded(m, step)

\* What the lane says of its provisioning is not the settlement.
ProvisionedMismatch(m) ==
    \/ SettlementsOf(m) = {} /\ ProvisionedOf(m) # {}
    \/ \E e \in ProvisionedOf(m), s \in SettlementsOf(m) :
          s.proof # None /\ e.settlement \notin DigestsOf(s)

SettledResult(m) ==
    LET confirmed == ConfirmedSteps(History, m.mutation) IN
    IF \E s \in SettlementsOf(m) : s.proof = None
    THEN Result("reconciliation_required", "confirmed_postcondition_proof_unavailable",
                confirmed, {})
    ELSE IF ProvisionedOf(m) # {}
    THEN Result("not_interrupted", "already_complete", confirmed, {})
    ELSE Result("reconciliation_required", "lane_finalization_required", confirmed, {})

\* Every receipt is a confirmed one: no other is ever committed.
UnsettledResult(m) ==
    LET confirmed == ConfirmedSteps(History, m.mutation)
        unresolved == StepsRecorded(m) \ Answered(m)
        detail == IF unresolved # {} THEN "command_outcome_unresolved"
                  ELSE IF confirmed = Steps
                  THEN "confirmed_postcondition_proof_unavailable"
                  ELSE "confirmed_prefix_observation_required"
    IN Result("reconciliation_required", detail, confirmed, unresolved)

\* _inspect_prepared_topology_reconciliation.
Classify(m) ==
    IF Barred(m) THEN BarrierResult(m)
    ELSE IF NothingBegan(m)
    THEN Result("not_interrupted", "not_interrupted", {}, {})
    ELSE IF WitnessMismatch(m) \/ ProvisionedMismatch(m)
    THEN Result("quarantined", "cross_journal_mismatch",
                ConfirmedSteps(History, m.mutation), {})
    ELSE IF StepsRecorded(m) = {}
    THEN Result("reconciliation_required", "witnessed_command_unresolved", {}, {})
    ELSE IF SettlementsOf(m) # {} THEN SettledResult(m) ELSE UnsettledResult(m)

\* recovery_state_digest: the classification and the evidence it rests on.
StateDigest(m) == <<Classify(m), lane[m].slots, History>>

----------------------------------------------------------------------------
(* One call at a time holds the Project root, and no call waits for it.    *)

Set(c, new) == run' = [run EXCEPT ![c] = new]
At(c, pc, at) == run[c].pc = pc /\ run[c].at = at

\* The process ends its work with or without an error; a token it was given
\* is its caller's, and stays.
Ends(c) == [Idle EXCEPT !.token = run[c].token]

\* The lease is given up on every way out.
Raise(c) == Set(c, Ends(c)) /\ holder' = IF holder = c THEN None ELSE holder

\* hold_project_mutation_lease, or the lock of a topology commit.
Take(c, pc) ==
    /\ holder = None /\ holder' = c
    /\ Set(c, [run[c] EXCEPT !.pc = pc, !.at = "begin"])

Unlocked == {"command", "answer", "settling", "settled"}

\* writer_busy: the work under way ends.
Busy(c) ==
    /\ holder \notin {None, c} /\ run[c].pc \in Unlocked
    /\ Set(c, Ends(c))
    /\ UNCHANGED <<journals, holder, sent, proved, stops>>

\* The next piece of work, with the lease kept or given up.
Then(c, pc, locked) ==
    /\ Set(c, [run[c] EXCEPT !.pc = pc, !.at = "begin"])
    /\ holder' = IF locked THEN c ELSE None

----------------------------------------------------------------------------
(* prepare_human_first_lane.                                               *)

BeginPrepare(c, m) ==
    /\ run[c].pc = "idle" /\ holder = None /\ holder' = c
    /\ Set(c, [Ends(c) EXCEPT !.pc = "admit", !.req = m])
    /\ UNCHANGED <<journals, sent, proved, stops>>

\* commit_human_admission_under_lease: its residue is taken up by no call.
Admit(c) ==
    /\ At(c, "admit", "begin")
    /\ LET m == run[c].req IN
       IF \E o \in Requests : policy[o] = "staged"
       THEN Raise(c) /\ UNCHANGED policy
       ELSE IF policy[m] = "admitted"
       THEN Then(c, "prepare", TRUE) /\ UNCHANGED policy
       ELSE /\ policy' = [policy EXCEPT ![m] = "staged"]
            /\ Set(c, [run[c] EXCEPT !.at = "staged"]) /\ UNCHANGED holder
    /\ UNCHANGED <<lane, topo, sent, proved, stops>>

Admitted(c) ==
    /\ At(c, "admit", "staged")
    /\ policy' = [policy EXCEPT ![run[c].req] = "admitted"]
    /\ Then(c, "prepare", TRUE)
    /\ UNCHANGED <<lane, topo, sent, proved, stops>>

\* _ensure_topology_store_incarnation_under_lease.
EnsureStore(c) ==
    /\ run[c].pc = "ensure"
    /\ topo' = IF topo = None THEN [slots |-> <<>>, cand |-> None] ELSE topo
    /\ Then(c, "claim", TRUE)
    /\ UNCHANGED <<policy, lane, sent, proved, stops>>

----------------------------------------------------------------------------
(* execute_prepared_journaled_provision.                                   *)

\* _authenticate_pristine_mutation_under_lease, which the coordinator calls
\* and provision_prepared_journaled again: the claim heads the lane, and the
\* mutation has no command.
Execute(c, m) ==
    /\ run[c].pc = "idle" /\ holder = None
    /\ HeadType(m) = "claim" /\ Clean(m) /\ ~Pending
    /\ m \in Mutations(History) /\ Open(History) = {m.mutation}
    /\ CommandsOf(History, m.mutation) = {}
    /\ Set(c, [Ends(c) EXCEPT !.pc = "command", !.req = m])
    /\ UNCHANGED <<journals, holder, sent, proved, stops>>

\* Slip: the record is chained to the mutation, not to the last record.
ProspectiveOfMutation(m, step) == <<MutationRecord(m), CommandRecord(m, step)>>

\* The record the command is going to have.
Prospective(m, step) == Append(History, CommandRecord(m, step))

\* _derive_claimed_command_plan: the command is not recorded and next in
\* order, on a history without residue.
Planned(m, step) ==
    /\ ~Pending /\ Open(History) = {m.mutation}
    /\ CommandRecord(m, step) \notin CommandsOf(History, m.mutation)
    /\ ~OutOfOrder(History, CommandRecord(m, step))
    /\ step = 1 => History[Len(History)] = MutationRecord(m)

\* Slip: the first witness stands for the commands after it as well.
BeginCommandUnwitnessed(c) ==
    /\ run[c].pc = "command" /\ holder = None
    /\ IF Planned(run[c].req, run[c].step)
       THEN Take(c, IF run[c].step = 1 THEN "marker" ELSE "record")
       ELSE Raise(c)
    /\ UNCHANGED <<journals, sent, proved, stops>>

\* commit_claimed_command_intent_under_lease, unless the transport does not
\* find Herdr as it expects it.
BeginCommand(c) ==
    /\ run[c].pc = "command" /\ holder = None
    /\ \/ Planned(run[c].req, run[c].step) /\ Take(c, "marker")
       \/ Raise(c)
    /\ UNCHANGED <<journals, sent, proved, stops>>

\* The runner gives Herdr the command; its answer is proved or the work ends.
Send(c) ==
    LET command == <<run[c].req.mutation, run[c].step>> IN
    /\ run[c].pc = "send"
    /\ sent' = [sent EXCEPT ![command] = @ + 1]
    /\ \/ /\ proved' = proved \cup {command}
          /\ Set(c, [run[c] EXCEPT !.pc = "answer"])
          /\ UNCHANGED holder
       \/ Raise(c) /\ UNCHANGED proved
    /\ UNCHANGED <<journals, stops>>

\* after_command, settlement: commits of their own.
BeginAnswer(c) ==
    /\ run[c].pc = "answer" /\ Take(c, "receipt")
    /\ UNCHANGED <<journals, sent, proved, stops>>
BeginSettle(c) ==
    /\ run[c].pc = "settling" /\ Take(c, "settle")
    /\ UNCHANGED <<journals, sent, proved, stops>>

\* _authenticate_lane_settlement_under_lease: the settlement is the end of
\* the topology journal and the markers are those of its commands.
Settles(m) ==
    /\ ~Pending /\ Open(History) = {} /\ SettlementsOf(m) # {}
    /\ History[Len(History)] \in SettlementsOf(m)
    /\ \A step \in Steps : {e.command : e \in Witness(m, step)} = Recorded(m, step)

\* record_topology_provisioned_under_lease, of the execution itself.
BeginProvisioned(c) ==
    /\ run[c].pc = "settled" /\ holder = None
    /\ IF Settles(run[c].req)
       THEN /\ holder' = c
            /\ Set(c, [run[c] EXCEPT !.pc = "provide", !.token = None])
       ELSE Raise(c)
    /\ UNCHANGED <<journals, sent, proved, stops>>

----------------------------------------------------------------------------
(* The commits under the lease.                                            *)

\* The record a controller is about to commit to its lane ...
LaneEvent(c) ==
    LET m == run[c].req IN
    CASE run[c].pc = "prepare" -> PrepareEvent
      [] run[c].pc = "claim" -> ClaimEvent
      [] run[c].pc = "marker" ->
           Marker(run[c].step, CHOOSE d \in DigestsOf(MutationRecord(m)) : TRUE,
                  Prospective(m, run[c].step))
      [] run[c].pc = "provide" -> Provisioned(History, run[c].token)

\* ... or to the topology journal.
TopologyRecord(c) ==
    LET m == run[c].req IN
    CASE run[c].pc = "intend" -> MutationRecord(m)
      [] run[c].pc = "record" -> CommandRecord(m, run[c].step)
      [] run[c].pc = "receipt" -> ReceiptRecord(m, run[c].step)
      [] run[c].pc = "settle" -> SettlementRecord(m, run[c].receipts)

LanePcs == {"prepare", "claim", "marker", "provide"}
TopologyPcs == {"intend", "record", "receipt", "settle"}

\* What follows a commit.
LaneDone(c) ==
    CASE run[c].pc = "prepare" -> Then(c, "ensure", TRUE)
      [] run[c].pc = "claim" -> Then(c, "intend", TRUE)
      [] run[c].pc = "marker" -> Then(c, "record", TRUE)
      [] run[c].pc = "provide" -> Raise(c)

TopologyDone(c) ==
    CASE run[c].pc = "intend" -> Raise(c)
      [] run[c].pc = "record" -> Then(c, "send", FALSE)
      [] run[c].pc = "receipt" ->
           /\ holder' = None
           /\ Set(c, [run[c] EXCEPT
                        !.pc = IF run[c].step = 1 THEN "command" ELSE "settling",
                        !.at = "begin", !.step = 2,
                        !.receipts = @ \cup {TopologyRecord(c)}])
      [] run[c].pc = "settle" -> Then(c, "settled", FALSE)

\* A witness is only ever fresh, and not written over a residue in sight.
MarkerRefused(c) ==
    /\ run[c].pc = "marker"
    /\ Witness(run[c].req, run[c].step) # {} \/ ~Clean(run[c].req)

\* _commit_event_locked: a replay, its own residue, or a new record; with a
\* residue of another record or lane, or against the reducer, it is refused.
LaneRefuses(c) ==
    LET m == run[c].req
        e == LaneEvent(c)
    IN \/ MarkerRefused(c)
       \/ \E o \in Requests \ {m} : lane[o].cand # None
       \/ e \in EventsOf(m) /\ lane[m].cand # None
       \/ e \notin EventsOf(m) /\ ( \/ ~Reduces(m, e)
                                    \/ lane[m].cand # None /\ lane[m].cand.event # e )

LaneStages(c) ==
    LET m == run[c].req
        e == LaneEvent(c)
    IN /\ run[c].pc \in LanePcs /\ run[c].at = "begin"
       /\ IF LaneRefuses(c) THEN Raise(c) /\ UNCHANGED lane
          ELSE IF e \in EventsOf(m) THEN LaneDone(c) /\ UNCHANGED lane
          ELSE /\ lane' = [lane EXCEPT ![m].cand =
                              IF @ = None THEN [event |-> e, shown |-> FALSE] ELSE @]
               /\ Set(c, [run[c] EXCEPT !.at = "planned"])
               /\ UNCHANGED holder
       /\ UNCHANGED <<policy, topo, sent, proved, stops>>

LaneShows(c) ==
    /\ run[c].pc \in LanePcs /\ run[c].at = "planned"
    /\ lane' = [lane EXCEPT ![run[c].req].cand.shown = TRUE]
    /\ Set(c, [run[c] EXCEPT !.at = "staged"])
    /\ UNCHANGED <<policy, topo, holder, sent, proved, stops>>

LanePromotes(c) ==
    /\ run[c].pc \in LanePcs /\ run[c].at = "staged"
    /\ LET m == run[c].req IN
       lane' = [lane EXCEPT ![m] = [slots |-> Append(@.slots, @.cand.event),
                                    cand |-> None]]
    /\ LaneDone(c)
    /\ UNCHANGED <<policy, topo, sent, proved, stops>>

\* The claim a mutation rests on heads its lane; a candidate is taken up by
\* its own mutation alone; a new record is published if the journal admits it.
TopologyStages(c) ==
    LET m == run[c].req
        r == TopologyRecord(c)
        mine == Pending /\ topo.cand = r /\ r.kind = "mutation" /\ Admits(History, r)
    IN /\ run[c].pc \in TopologyPcs /\ run[c].at = "begin"
       /\ IF \/ r.kind = "mutation" /\ (HeadType(m) # "claim" \/ ~Clean(m))
             \/ Pending /\ ~mine
             \/ ~Pending /\ Commit(History, r) # "publish"
                /\ ~(r.kind = "mutation" /\ Commit(History, r) = "replay")
          THEN Raise(c) /\ UNCHANGED topo
          ELSE IF ~Pending /\ Commit(History, r) = "replay"
          THEN TopologyDone(c) /\ UNCHANGED topo
          ELSE /\ topo' = [topo EXCEPT !.cand = r]
               /\ Set(c, [run[c] EXCEPT !.at = "staged"])
               /\ UNCHANGED holder
       /\ UNCHANGED <<policy, lane, sent, proved, stops>>

TopologyPromotes(c) ==
    /\ run[c].pc \in TopologyPcs /\ run[c].at = "staged"
    /\ topo' = [slots |-> Append(topo.slots, topo.cand), cand |-> None]
    /\ TopologyDone(c)
    /\ UNCHANGED <<policy, lane, sent, proved, stops>>

----------------------------------------------------------------------------
(* Recovery.                                                               *)

Prepared(m) == m \in Mutations(History)

\* inspect_prepared_topology_reconciliation: its caller keeps the digest.
Inspect(c, m) ==
    /\ run[c].pc = "idle" /\ holder = None /\ Prepared(m)
    /\ Set(c, [run[c] EXCEPT !.token = StateDigest(m)])
    /\ UNCHANGED <<journals, holder, sent, proved, stops>>

\* Slip: any digest will do for what is to be finalized.
MayFinalizeAny(m, token) ==
    Classify(m).detail \in {"already_complete", "lane_reconciliation_required",
                            "lane_finalization_required"}

\* What is complete, or barred by a residue of the lane, is recorded again
\* with the digest the caller names; anything else must be the state of that
\* digest, and one to finalize.
MayFinalize(m, token) ==
    \/ Classify(m).detail \in {"already_complete", "lane_reconciliation_required"}
    \/ token = StateDigest(m) /\ Classify(m).detail = "lane_finalization_required"

\* Slip: a residue of the lane bars its own finalization.
FinalizeUnbarred(c, m) ==
    /\ run[c].pc = "idle" /\ holder = None
    /\ Prepared(m) /\ run[c].token # None /\ run[c].token = StateDigest(m)
    /\ Classify(m).detail = "lane_finalization_required"
    /\ Settles(m)
    /\ holder' = c
    /\ Set(c, [run[c] EXCEPT !.pc = "provide", !.at = "begin", !.req = m])
    /\ UNCHANGED <<journals, sent, proved, stops>>

\* finalize_prepared_topology_reconciliation.
Finalize(c, m) ==
    /\ run[c].pc = "idle" /\ holder = None
    /\ Prepared(m) /\ run[c].token # None
    /\ MayFinalize(m, run[c].token)
    /\ Settles(m)
    /\ holder' = c
    /\ Set(c, [run[c] EXCEPT !.pc = "provide", !.at = "begin", !.req = m])
    /\ UNCHANGED <<journals, sent, proved, stops>>

----------------------------------------------------------------------------
\* The process dies, or raises and stops where it is.
Stop(c) ==
    /\ stops < MaxStops /\ run[c].pc # "idle"
    /\ stops' = stops + 1
    /\ Raise(c)
    /\ UNCHANGED <<journals, sent, proved>>

Goes(c) ==
    \/ Admit(c) \/ Admitted(c) \/ EnsureStore(c)
    \/ BeginCommand(c) \/ Send(c) \/ BeginAnswer(c) \/ BeginSettle(c)
    \/ BeginProvisioned(c)
    \/ LaneStages(c) \/ LaneShows(c) \/ LanePromotes(c)
    \/ TopologyStages(c) \/ TopologyPromotes(c)

Next ==
    \E c \in Controllers :
      \/ \E m \in Requests : \/ BeginPrepare(c, m) \/ Execute(c, m)
                             \/ Inspect(c, m) \/ Finalize(c, m)
      \/ Goes(c) \/ Busy(c) \/ Stop(c)

Spec == Init /\ [][Next]_vars

----------------------------------------------------------------------------
\* Herdr is given a command once at most, and only one that both journals know:
\* its record stands in the topology journal, and the lane holds the one witness
\* that names exactly this record; a witness runs ahead of its record by one
\* command at most.
CommandsAreWitnessed ==
    /\ \A m \in Requests, step \in Steps :
          /\ sent[<<m.mutation, step>>] <= 1
          /\ sent[<<m.mutation, step>>] > 0 => step \in StepsRecorded(m)
    /\ \A r \in RecordsOf(History, "command") : \E m \in Mutations(History) :
          /\ m.mutation = r.mutation
          /\ {e.command : e \in Witness(m, r.step)} = DigestsOf(r)
    /\ \A m \in Requests :
          Cardinality(Markers(m)) <= Cardinality(StepsRecorded(m)) + 1

\* Whoever stopped wherever: unless the classification is barred by a residue,
\* a command Herdr was given is confirmed or pending in it, and one it calls
\* confirmed was proved; so "not interrupted" and "to be finalized" are true.
RecoveryTellsTruth ==
    holder = None => \A m \in {o \in Requests : Prepared(o)} :
        LET k == Classify(m) IN
        k.detail \notin {"lane_reconciliation_required",
                         "topology_reconciliation_required"} =>
            \A step \in Steps :
                /\ sent[<<m.mutation, step>>] > 0 =>
                      step \in k.confirmed \cup k.pending
                /\ step \in k.confirmed => <<m.mutation, step>> \in proved
                /\ k.detail \in {"already_complete", "lane_finalization_required"}
                      => step \in k.confirmed

\* Stopping processes are not taken for tampering, but for one place: after
\* the witness of the second command, before its record.
QuarantineOnlyInTheGap ==
    holder = None => \A m \in {o \in Requests : Prepared(o)} :
        Classify(m).status = "quarantined" =>
            Witness(m, 2) # {} /\ StepsRecorded(m) = {1}

\* What the lane says of its provisioning is the settlement of the topology
\* journal, and the digest a finalization leaves there is that of the very
\* state it finalized.
ProvisionedAsInspected ==
    \A m \in Requests : \A i \in DOMAIN lane[m].slots :
        LET e == lane[m].slots[i] IN
        e.type = "provisioned" =>
            /\ \E s \in SettlementsOf(m) : e.settlement \in DigestsOf(s)
            /\ e.token # None =>
                  e.token = <<Result("reconciliation_required",
                                     "lane_finalization_required", Steps, {}),
                              SubSeq(lane[m].slots, 1, i - 1), e.settlement>>

\* compile_lane_recovery_reconcile_preview: the digest is that of the current
\* state, the command plan complete, and the finalization available.
Offers(m, token) ==
    /\ Prepared(m) /\ Clean(m) /\ ~Pending
    /\ StepsRecorded(m) = Steps
    /\ token = StateDigest(m)
    /\ Classify(m).detail = "lane_finalization_required"

\* A finalization was cut short and nobody has its digest any more; the
\* execution itself has none.
Orphaned(m) ==
    /\ lane[m].cand # None
    /\ lane[m].cand.event.type = "provisioned"
    /\ lane[m].cand.event.token \notin {run[c].token : c \in Controllers} \ {None}

\* Processes that work go on, and one that finalizes is not forever unlucky
\* with the lease, which it asks for without waiting.
Fairness ==
    \A c \in Controllers :
        /\ WF_vars(Goes(c) \/ Busy(c))
        /\ \A m \in Requests : SF_vars(Finalize(c, m))

FairSpec == Spec /\ Fairness

\* A finalization that a preview offered is recorded in the end, whoever stops
\* on the way, or left a residue whose digest is lost.
FinalizationEnds ==
    \A m \in Requests :
        (\E c \in Controllers : Offers(m, run[c].token))
            ~> (ProvisionedOf(m) # {} \/ Orphaned(m))
=============================================================================
