-------------------------- MODULE LaneTurnReducer --------------------------
(***************************************************************************)
(* The pure lane/turn reducer of lib/ask_herdr_lane_turn.py.               *)
(*                                                                         *)
(* reduce_turn(state, event) is given as two operators per event type:     *)
(* XAdmitted(s, e) is FALSE where the handler raises TurnTransitionError,  *)
(* and XReduced(s, e) is the state it returns otherwise.                   *)
(*                                                                         *)
(* The code only compares identifiers and digests for equality, so they    *)
(* are members of small sets:                                              *)
(*   op     (operation_id, canonical_request_digest, attempt_id), which    *)
(*          _common_correlates compares as a whole;                        *)
(*   place  (lane_id, lane_generation);                                    *)
(*   key    the claim fields every later topology fact has to repeat.      *)
(* turn_sequence is written only with the value expected_turn_sequence     *)
(* already has, and resend_allowed is False in every state the reducer     *)
(* builds: neither is part of the modelled state.                          *)
(***************************************************************************)
EXTENDS Naturals, Sequences

CONSTANTS
    None,             \* Python's None
    Ops,              \* (operation_id, canonical_request_digest, attempt_id)
    Places,           \* (lane_id, lane_generation)
    TurnSequences,    \* expected turn sequences
    Operations,       \* the turn operations in use
    Policies,         \* direct-human policy record digests
    Reservations,     \* reservation ids
    Natives,          \* native correlation digests
    Heads,            \* dialogue head digests
    Responses,        \* response digests
    TurnIds,          \* turn ids
    Nonces,           \* dispatch nonces
    Topologies,       \* project topology digests
    Mutations,        \* (topology_mutation_id, topology_nonce)
    Incarnations,     \* topology store incarnation digests
    Records,          \* digests of durable records
    Steps,            \* topology command step ids
    CommandSequences, \* topology command sequence numbers
    ResultStores,     \* recovery result store binding digests
    RecoveryOps,      \* recovery operation ids
    Links,            \* evidence link record digests
    Relationships,    \* source relationship digests
    Registries        \* evidence registry binding digests

Maybe(S) == S \cup {None}

Phases == {"prepared", "dispatching", "in_flight", "validating", "settled"}
RecoveryStates == {"clear", "reconciliation_required", "quarantined"}
Promotions == {"attempt_only", "consultant_turn"}
ReservationStates == {"not_counted", "held", "counted", "released"}
RetryDispositions == {"none", "safe_retry_eligible", "reconcile_first"}
Outcomes == {"delivery_uncertain", "turn_definite_non_start", "turn_final",
             "turn_quarantined", "turn_reconciliation_required"}
Modes == {"establish_new", "exact_resume", "fork_from"}
TurnOperations == {"turn.consult", "turn.answer", "turn.recovery_continue",
                   "turn.review", "turn.safe_retry"}

\* The native identity modes an operation may be admitted with.
AllowedModes == [operation \in TurnOperations |->
    IF operation = "turn.consult" THEN {"establish_new"}
    ELSE IF operation = "turn.review" THEN {"fork_from"}
    ELSE IF operation = "turn.safe_retry" THEN Modes
    ELSE {"exact_resume"}]

----------------------------------------------------------------------------
(* The events.                                                             *)

PrepareEvents ==
    {e \in [operation : Operations, op : Ops, place : Places,
            sequence : TurnSequences, expected_head : Heads, mode : Modes,
            expected_native : Maybe(Natives),
            reservation_id : Maybe(Reservations), policy : Maybe(Policies)] :
        /\ e.mode \in AllowedModes[e.operation]
        /\ (e.mode = "establish_new") = (e.expected_native = None)}

Keys == [op : Ops, place : Places, policy : Policies, prepared : Records,
         mutation : Mutations]

ClaimEvents == [key : Keys, incarnation : Maybe(Incarnations)]

EffectEvents ==
    [key : Keys, incarnation : Incarnations,
     claim_record : Records, mutation_record : Records]

\* first is what a later command has to repeat of the first effect.
CommandEffectEvents ==
    [first : EffectEvents, effect_record : Records, previous_record : Records,
     sequence : CommandSequences, step : Steps]

ProvisionedEvents ==
    [key : Keys, topology : Topologies, effect_record : Maybe(Records),
     last_command_record : Maybe(Records), result_store : Maybe(ResultStores)]

AnchorEvents ==
    [op : Ops, place : Places, mutation : Mutations,
     result_store : ResultStores, recovery_op : RecoveryOps, link : Links,
     relationship : Relationships, registry : Registries]

DispatchIntents == [nonce : Nonces, topology : Maybe(Topologies)]

DispatchEvents == [op : Ops, intent : DispatchIntents]

\* RecordDeliveryUncertain, RecordDefiniteNonStart, RecordAdvisoryWaitTimeout
\* and RecordResponseValidationConflict are only read for their correlation.
ObservationEvents == [op : Ops]

StartedEvents ==
    [op : Ops, place : Places, sequence : TurnSequences, native : Natives,
     source : Maybe(Natives), turn_id : TurnIds]

\* fresh is response_present /\ response_fresh; complete is the conjunction
\* _authority_complete evaluates, of which fresh is a part.
FinalEvents ==
    {e \in [operation : Operations, op : Ops, place : Places,
            sequence : TurnSequences, expected_head : Heads, native : Natives,
            source : Maybe(Natives), turn_id : TurnIds, response : Responses,
            new_head : Heads, fresh : BOOLEAN, complete : BOOLEAN] :
        e.complete => e.fresh}

\* None is not one of the values it stands for the absence of.
ASSUME NoneIsFresh ==
    /\ None \notin Policies /\ None \notin Reservations
    /\ None \notin Natives /\ None \notin Responses /\ None \notin TurnIds
    /\ None \notin Topologies /\ None \notin Incarnations
    /\ None \notin Records /\ None \notin ResultStores
    /\ None \notin ClaimEvents /\ None \notin EffectEvents
    /\ None \notin ProvisionedEvents /\ None \notin DispatchIntents
    /\ None \notin Outcomes

ASSUME SequencesArePositive ==
    /\ TurnSequences \subseteq Nat \ {0}
    /\ CommandSequences \subseteq Nat \ {0, 1}

ASSUME OperationsAreTurns == Operations \subseteq TurnOperations

----------------------------------------------------------------------------
(* The state.                                                              *)

TurnStates ==
    [admitted : PrepareEvents, native : Maybe(Natives), phase : Phases,
     recovery : RecoveryStates, promotion : Promotions,
     reservation : ReservationStates, retry : RetryDispositions,
     outcome : Maybe(Outcomes), head : Heads, response : Maybe(Responses),
     turn_id : Maybe(TurnIds), dispatch : Maybe(DispatchIntents),
     wait_timed_out : BOOLEAN, effect_observed : BOOLEAN,
     release_allowed : BOOLEAN, claim : Maybe(ClaimEvents),
     provisioned : Maybe(ProvisionedEvents),
     effect_started : Maybe(EffectEvents),
     command_effects : Seq(CommandEffectEvents),
     anchors : Seq(AnchorEvents)]

Prepared(e) ==
    [admitted |-> e, native |-> None, phase |-> "prepared",
     recovery |-> "clear", promotion |-> "attempt_only",
     reservation |-> IF e.reservation_id = None THEN "not_counted" ELSE "held",
     retry |-> "none", outcome |-> None, head |-> e.expected_head,
     response |-> None, turn_id |-> None, dispatch |-> None,
     wait_timed_out |-> FALSE, effect_observed |-> FALSE,
     release_allowed |-> FALSE, claim |-> None, provisioned |-> None,
     effect_started |-> None, command_effects |-> <<>>, anchors |-> <<>>]

PhaseRank == [prepared |-> 0, dispatching |-> 1, in_flight |-> 2,
              validating |-> 3, settled |-> 4]

\* Slip: the phase follows the last event.
LatestPhase(current, candidate) == candidate

\* _monotonic_phase
Later(current, candidate) ==
    IF PhaseRank[current] >= PhaseRank[candidate] THEN current ELSE candidate

\* Slip: the promotion of the attempt is stored as its reservation.
ReserveStartedPromotion(r) == IF r = "held" THEN "consultant_turn" ELSE r

\* _reserve_started and _reserve_non_start
ReserveStarted(r) == IF r = "held" THEN "counted" ELSE r
\* Slip: a non-start keeps its reservation.
ReserveNonStartKept(r) == r

ReserveNonStart(r) == IF r = "held" THEN "released" ELSE r

\* Slip: quarantine of a settled turn leaves the lane released.
QuarantineStillReleased(s) ==
    [s EXCEPT !.phase = IF @ = "settled" THEN "settled" ELSE "validating",
              !.recovery = "quarantined", !.outcome = "turn_quarantined",
              !.retry = "none"]

\* Slip: quarantine drops the response it calls into doubt.
QuarantineForgets(s) ==
    [s EXCEPT !.phase = IF @ = "settled" THEN "settled" ELSE "validating",
              !.recovery = "quarantined", !.outcome = "turn_quarantined",
              !.retry = "none", !.release_allowed = FALSE,
              !.response = None, !.head = s.admitted.expected_head]

Quarantine(s) ==
    [s EXCEPT !.phase = IF @ = "settled" THEN "settled" ELSE "validating",
              !.recovery = "quarantined", !.outcome = "turn_quarantined",
              !.retry = "none", !.release_allowed = FALSE]

QuarantineAfterEffect(s) ==
    [Quarantine(s) EXCEPT !.effect_observed = TRUE]

\* Slip: a fork may come back as the session it was forked from.
NativeCorrelatesAnyFork(s, e) ==
    LET expected == s.admitted.expected_native IN
    /\ e.source = expected
    /\ s.admitted.mode = "exact_resume" => e.native = expected
    /\ s.native \in {None, e.native}

\* _native_identity_correlates
NativeCorrelates(s, e) ==
    LET expected == s.admitted.expected_native IN
    /\ e.source = expected
    /\ s.admitted.mode = "exact_resume" => e.native = expected
    /\ s.admitted.mode = "fork_from" => e.native # expected
    /\ s.native \in {None, e.native}

----------------------------------------------------------------------------
(* Topology provisioning facts.                                            *)

PrepareAdmitted(s, e) == s # None => s.admitted = e
PrepareReduced(s, e) == IF s = None THEN Prepared(e) ELSE s

\* _claim_is_admissible
ClaimAdmissible(s, e) ==
    /\ s.admitted.operation = "turn.consult"
    /\ s.admitted.mode = "establish_new"
    /\ s.admitted.sequence = 1
    /\ s.phase = "prepared" /\ s.recovery = "clear"
    /\ s.promotion = "attempt_only"
    /\ s.admitted.reservation_id = None /\ s.reservation = "not_counted"
    /\ s.dispatch = None /\ s.outcome = None
    /\ ~s.effect_observed /\ ~s.release_allowed
    /\ s.admitted.policy = e.key.policy
    /\ s.admitted.op = e.key.op /\ s.admitted.place = e.key.place

ClaimAdmitted(s, e) ==
    \/ s.provisioned # None /\ s.provisioned.key = e.key
    \/ s.provisioned = None /\ s.claim = e
    \/ s.provisioned = None /\ s.claim = None /\ ClaimAdmissible(s, e)

ClaimReduced(s, e) ==
    IF s.provisioned # None \/ s.claim # None THEN s
    ELSE [s EXCEPT !.claim = e, !.release_allowed = FALSE]

\* _claim_matches_effect_started
ClaimCovers(s, effect) ==
    /\ s.claim # None /\ s.provisioned = None
    /\ s.claim.key = effect.key /\ s.claim.incarnation = effect.incarnation

EffectAdmitted(s, e) ==
    \/ s.effect_started = e
    \/ s.effect_started = None /\ ClaimCovers(s, e)

EffectReduced(s, e) ==
    IF s.effect_started # None THEN s
    ELSE [s EXCEPT !.effect_started = e, !.release_allowed = FALSE]

IsLastCommand(s, e) ==
    /\ s.command_effects # <<>>
    /\ s.command_effects[Len(s.command_effects)] = e

\* Slip: only the first effect is compared, not whether its claim is open.
CommandEffectAdmittedLate(s, e) ==
    LET existing == s.command_effects IN
    \/ IsLastCommand(s, e)
    \/ /\ s.effect_started = e.first
       /\ e.sequence = Len(existing) + 2
       /\ \A i \in DOMAIN existing : existing[i].step # e.step
       /\ IF existing = <<>>
          THEN e.previous_record = e.effect_record
          ELSE e.effect_record = existing[Len(existing)].effect_record

CommandEffectAdmitted(s, e) ==
    LET existing == s.command_effects IN
    \/ IsLastCommand(s, e)
    \/ /\ s.effect_started = e.first
       /\ ClaimCovers(s, e.first)
       /\ e.sequence = Len(existing) + 2
       /\ \A i \in DOMAIN existing : existing[i].step # e.step
       /\ IF existing = <<>>
          THEN e.previous_record = e.effect_record
          ELSE e.effect_record = existing[Len(existing)].effect_record

CommandEffectReduced(s, e) ==
    IF IsLastCommand(s, e) THEN s
    ELSE [s EXCEPT !.command_effects = Append(@, e), !.release_allowed = FALSE]

\* Slip: a settlement need not name the last command that began.
RecordsMatchFirstEffect(s, e) ==
    IF s.claim.incarnation = None
    THEN /\ s.effect_started = None /\ s.command_effects = <<>>
         /\ e.effect_record = None /\ e.last_command_record = None
    ELSE s.effect_started # None /\ e.effect_record # None

\* The records a settlement has to name: those of the effects that began.
RecordsMatchEffects(s, e) ==
    IF s.claim.incarnation = None
    THEN /\ s.effect_started = None /\ s.command_effects = <<>>
         /\ e.effect_record = None /\ e.last_command_record = None
    ELSE /\ s.effect_started # None /\ e.effect_record # None
         /\ (e.last_command_record = None) = (s.command_effects = <<>>)

ProvisionedAdmitted(s, e) ==
    \/ s.provisioned = e
    \/ /\ s.provisioned = None /\ s.claim # None
       /\ s.claim.key = e.key
       /\ RecordsMatchEffects(s, e)

ProvisionedReduced(s, e) ==
    IF s.provisioned # None THEN s
    ELSE [s EXCEPT !.claim = None, !.provisioned = e, !.release_allowed = FALSE]

\* Slip: only the operations of two anchors are told apart.
AnchorsOfOtherOperations(a, b) == a.recovery_op # b.recovery_op

\* Two anchors of one lane may not share an operation, a link or a
\* relationship, nor name two registries.
AnchorsCompatible(a, b) ==
    /\ a.recovery_op # b.recovery_op /\ a.link # b.link
    /\ a.relationship # b.relationship /\ a.registry = b.registry

AnchorReplayed(s, e) ==
    \E i \in DOMAIN s.anchors :
        /\ s.anchors[i] = e
        /\ \A j \in 1 .. i - 1 : AnchorsCompatible(s.anchors[j], e)

AnchorAdmitted(s, e) ==
    \/ AnchorReplayed(s, e)
    \/ /\ \A i \in DOMAIN s.anchors : AnchorsCompatible(s.anchors[i], e)
       /\ s.provisioned # None
       /\ s.provisioned.result_store = e.result_store
       /\ s.provisioned.key.mutation = e.mutation
       /\ s.admitted.op = e.op /\ s.admitted.place = e.place

AnchorReduced(s, e) ==
    IF AnchorReplayed(s, e) THEN s ELSE [s EXCEPT !.anchors = Append(@, e)]

----------------------------------------------------------------------------
(* The attempt itself.                                                     *)

\* Slip: the second delivery of the recorded dispatch is refused.
DispatchAdmittedOnce(s, e) ==
    /\ s.admitted.op = e.op
    /\ IF s.admitted.policy # None
       THEN s.provisioned # None /\ e.intent.topology = s.provisioned.topology
       ELSE e.intent.topology = None
    /\ s.dispatch = None
    /\ s.phase = "prepared" /\ s.recovery = "clear" /\ s.outcome = None

\* Slip: any settled provisioning will do.
DispatchAdmittedAnyTopology(s, e) ==
    /\ s.admitted.op = e.op
    /\ (s.admitted.policy # None) =
           (s.provisioned # None /\ e.intent.topology # None)
    /\ \/ s.dispatch = e.intent
       \/ /\ s.dispatch = None
          /\ s.phase = "prepared" /\ s.recovery = "clear" /\ s.outcome = None

DispatchAdmitted(s, e) ==
    /\ s.admitted.op = e.op
    /\ IF s.admitted.policy # None
       THEN s.provisioned # None /\ e.intent.topology = s.provisioned.topology
       ELSE e.intent.topology = None
    /\ \/ s.dispatch = e.intent
       \/ /\ s.dispatch = None
          /\ s.phase = "prepared" /\ s.recovery = "clear" /\ s.outcome = None

DispatchReduced(s, e) ==
    IF s.dispatch # None THEN s
    ELSE [s EXCEPT !.phase = Later(@, "dispatching"), !.dispatch = e.intent]

UncertainAdmitted(s, e) ==
    /\ s.admitted.op = e.op
    /\ \/ s.recovery = "quarantined"
       \/ /\ s.dispatch # None /\ s.phase # "settled"
          /\ s.promotion # "consultant_turn"

\* Slip: quarantine is overwritten by a late delivery report.
UncertainReducedAlways(s, e) ==
    [s EXCEPT !.phase = Later(@, "dispatching"),
              !.recovery = "reconciliation_required",
              !.outcome = "delivery_uncertain",
              !.retry = "reconcile_first", !.release_allowed = FALSE]

UncertainReduced(s, e) ==
    IF s.recovery = "quarantined" THEN s
    ELSE [s EXCEPT !.phase = Later(@, "dispatching"),
                   !.recovery = "reconciliation_required",
                   !.outcome = "delivery_uncertain",
                   !.retry = "reconcile_first", !.release_allowed = FALSE]

NonStartAdmitted(s, e) == s.admitted.op = e.op /\ s.dispatch # None

\* Slip: an observed effect is not asked for.
NonStartReducedAfterEffect(s, e) ==
    IF s.promotion # "attempt_only" THEN Quarantine(s)
    ELSE IF s.phase = "settled"
    THEN IF s.outcome = "turn_definite_non_start" THEN s ELSE Quarantine(s)
    ELSE [s EXCEPT !.phase = "settled", !.recovery = "clear",
                   !.reservation = ReserveNonStart(@),
                   !.outcome = "turn_definite_non_start",
                   !.retry = "safe_retry_eligible", !.release_allowed = TRUE]

NonStartReduced(s, e) ==
    IF s.effect_observed \/ s.promotion # "attempt_only" THEN Quarantine(s)
    ELSE IF s.phase = "settled"
    THEN IF s.outcome = "turn_definite_non_start" THEN s ELSE Quarantine(s)
    ELSE [s EXCEPT !.phase = "settled", !.recovery = "clear",
                   !.reservation = ReserveNonStart(@),
                   !.outcome = "turn_definite_non_start",
                   !.retry = "safe_retry_eligible", !.release_allowed = TRUE]

ConflictAdmitted(s, e) == s.admitted.op = e.op /\ s.dispatch # None

ConflictReduced(s, e) ==
    IF s.recovery = "quarantined" THEN s ELSE QuarantineAfterEffect(s)

StartedCorrelates(s, e) ==
    /\ s.admitted.op = e.op /\ s.admitted.place = e.place
    /\ s.admitted.sequence = e.sequence
    /\ NativeCorrelates(s, e)

StartedAdmitted(s, e) ==
    \/ s.recovery = "quarantined"
    \/ ~StartedCorrelates(s, e)
    \/ s.dispatch # None

StartedReduced(s, e) ==
    IF s.recovery = "quarantined" THEN s
    ELSE IF ~StartedCorrelates(s, e) THEN QuarantineAfterEffect(s)
    ELSE IF s.promotion = "consultant_turn"
    THEN IF s.turn_id = e.turn_id /\ s.native = e.native THEN s ELSE Quarantine(s)
    ELSE IF s.phase = "settled" THEN Quarantine(s)
    ELSE LET reconciling == s.recovery = "reconciliation_required" IN
         [s EXCEPT !.phase = Later(@, "in_flight"),
                   !.promotion = "consultant_turn",
                   !.reservation = ReserveStarted(@),
                   !.outcome = IF reconciling
                               THEN "turn_reconciliation_required" ELSE None,
                   !.retry = IF reconciling THEN "reconcile_first" ELSE "none",
                   !.turn_id = e.turn_id, !.native = e.native,
                   !.effect_observed = TRUE, !.release_allowed = FALSE]

WaitTimeoutAdmitted(s, e) ==
    /\ s.admitted.op = e.op
    /\ \/ s.recovery = "quarantined"
       \/ s.dispatch # None /\ s.phase # "settled"

WaitTimeoutReduced(s, e) ==
    IF s.recovery = "quarantined" THEN s
    ELSE [s EXCEPT !.recovery = "reconciliation_required",
                   !.outcome = "turn_reconciliation_required",
                   !.retry = "reconcile_first", !.wait_timed_out = TRUE,
                   !.release_allowed = FALSE]

\* _authority_correlates
FinalCorrelates(s, e) ==
    /\ s.admitted.operation = e.operation /\ s.admitted.op = e.op
    /\ s.admitted.place = e.place /\ s.admitted.sequence = e.sequence
    /\ s.admitted.expected_head = e.expected_head
    /\ NativeCorrelates(s, e)
    /\ s.promotion = "consultant_turn" => s.turn_id = e.turn_id

\* _settled_authority_replay
FinalReplayed(s, e) ==
    /\ s.phase = "settled" /\ s.outcome = "turn_final"
    /\ FinalCorrelates(s, e) /\ e.complete
    /\ s.turn_id = e.turn_id /\ s.response = e.response /\ s.head = e.new_head

FinalAdmitted(s, e) == s.dispatch # None

\* Slip: a final authority that leaves the head where it was is accepted.
FinalReducedSameHead(s, e) ==
    IF s.recovery = "quarantined" \/ FinalReplayed(s, e) THEN s
    ELSE IF ~FinalCorrelates(s, e) \/ s.phase = "settled" THEN Quarantine(s)
    ELSE IF ~e.complete
    THEN [s EXCEPT !.phase = "validating",
                   !.recovery = "reconciliation_required",
                   !.outcome = "turn_reconciliation_required",
                   !.retry = "reconcile_first",
                   !.effect_observed = @ \/ e.fresh, !.release_allowed = FALSE]
    ELSE [s EXCEPT !.phase = "settled", !.recovery = "clear",
                   !.promotion = "consultant_turn",
                   !.reservation = ReserveStarted(@), !.retry = "none",
                   !.outcome = "turn_final", !.head = e.new_head,
                   !.response = e.response, !.turn_id = e.turn_id,
                   !.native = e.native, !.effect_observed = TRUE,
                   !.release_allowed = TRUE]

FinalReduced(s, e) ==
    IF s.recovery = "quarantined" \/ FinalReplayed(s, e) THEN s
    ELSE IF ~FinalCorrelates(s, e) \/ s.phase = "settled" THEN Quarantine(s)
    ELSE IF ~e.complete
    THEN [s EXCEPT !.phase = "validating",
                   !.recovery = "reconciliation_required",
                   !.outcome = "turn_reconciliation_required",
                   !.retry = "reconcile_first",
                   !.effect_observed = @ \/ e.fresh, !.release_allowed = FALSE]
    ELSE IF e.new_head = s.admitted.expected_head THEN Quarantine(s)
    ELSE [s EXCEPT !.phase = "settled", !.recovery = "clear",
                   !.promotion = "consultant_turn",
                   !.reservation = ReserveStarted(@), !.retry = "none",
                   !.outcome = "turn_final", !.head = e.new_head,
                   !.response = e.response, !.turn_id = e.turn_id,
                   !.native = e.native, !.effect_observed = TRUE,
                   !.release_allowed = TRUE]
=============================================================================
