----------------------------- MODULE LaneTurn -----------------------------
(***************************************************************************)
(* One lane and one attempt, driven by every event the stores may hand to  *)
(* reduce_turn (lib/ask_herdr_lane_turn.py), in any order: provider        *)
(* observations race with timeouts, final authorities, redeliveries and    *)
(* observations of other attempts.                                         *)
(***************************************************************************)
EXTENDS LaneTurnReducer

VARIABLE turn    \* the LaneTurnState, or None before PrepareAdmittedAttempt

Init == turn = None

----------------------------------------------------------------------------
(* One action per event type. An event the reducer raises on is no step.   *)

Prepare ==
    \E e \in PrepareEvents :
        PrepareAdmitted(turn, e) /\ turn' = PrepareReduced(turn, e)

ClaimTopology ==
    \E e \in ClaimEvents :
        /\ turn # None /\ ClaimAdmitted(turn, e)
        /\ turn' = ClaimReduced(turn, e)

EffectStarted ==
    \E e \in EffectEvents :
        /\ turn # None /\ EffectAdmitted(turn, e)
        /\ turn' = EffectReduced(turn, e)

CommandEffectStarted ==
    \E e \in CommandEffectEvents :
        /\ turn # None /\ CommandEffectAdmitted(turn, e)
        /\ turn' = CommandEffectReduced(turn, e)

TopologyProvisioned ==
    \E e \in ProvisionedEvents :
        /\ turn # None /\ ProvisionedAdmitted(turn, e)
        /\ turn' = ProvisionedReduced(turn, e)

AnchorRecoveryResult ==
    \E e \in AnchorEvents :
        /\ turn # None /\ AnchorAdmitted(turn, e)
        /\ turn' = AnchorReduced(turn, e)

Dispatch ==
    \E e \in DispatchEvents :
        /\ turn # None /\ DispatchAdmitted(turn, e)
        /\ turn' = DispatchReduced(turn, e)

DeliveryUncertain ==
    \E e \in ObservationEvents :
        /\ turn # None /\ UncertainAdmitted(turn, e)
        /\ turn' = UncertainReduced(turn, e)

DefiniteNonStart ==
    \E e \in ObservationEvents :
        /\ turn # None /\ NonStartAdmitted(turn, e)
        /\ turn' = NonStartReduced(turn, e)

ResponseConflict ==
    \E e \in ObservationEvents :
        /\ turn # None /\ ConflictAdmitted(turn, e)
        /\ turn' = ConflictReduced(turn, e)

ProviderStarted ==
    \E e \in StartedEvents :
        /\ turn # None /\ StartedAdmitted(turn, e)
        /\ turn' = StartedReduced(turn, e)

WaitTimeout ==
    \E e \in ObservationEvents :
        /\ turn # None /\ WaitTimeoutAdmitted(turn, e)
        /\ turn' = WaitTimeoutReduced(turn, e)

FinalAuthority ==
    \E e \in FinalEvents :
        /\ turn # None /\ FinalAdmitted(turn, e)
        /\ turn' = FinalReduced(turn, e)

Next ==
    \/ Prepare \/ ClaimTopology \/ EffectStarted \/ CommandEffectStarted
    \/ TopologyProvisioned \/ AnchorRecoveryResult
    \/ Dispatch \/ DeliveryUncertain \/ DefiniteNonStart \/ ResponseConflict
    \/ ProviderStarted \/ WaitTimeout \/ FinalAuthority

Spec == Init /\ [][Next]_turn

----------------------------------------------------------------------------
(* Properties of one turn state s, and of a step from s to t.              *)

\* A retry is called safe only for a dispatched attempt that settled as a
\* definite non-start with no sign of a provider effect: no response, the
\* dialogue head untouched and the reservation given back.
RetrySound(s) ==
    s.retry = "safe_retry_eligible" =>
        /\ s.dispatch # None
        /\ s.phase = "settled" /\ s.recovery = "clear"
        /\ s.promotion = "attempt_only" /\ ~s.effect_observed
        /\ s.response = None /\ s.head = s.admitted.expected_head
        /\ s.reservation \in {"not_counted", "released"}

\* A reservation is counted exactly when the attempt became a consultant
\* turn, is still held while that is open, and is released only by the
\* settlement of an attempt that never became one.
ReservationSound(s) ==
    IF s.admitted.reservation_id = None THEN s.reservation = "not_counted"
    ELSE /\ (s.reservation = "counted") = (s.promotion = "consultant_turn")
         /\ (s.reservation = "held")
                = (s.promotion = "attempt_only" /\ s.phase # "settled")

\* A lane is released by a settlement that nothing has put in doubt since,
\* and by nothing else.
ReleaseSound(s) ==
    s.release_allowed <=>
        /\ s.phase = "settled" /\ s.recovery = "clear"
        /\ s.outcome \in {"turn_final", "turn_definite_non_start"}

\* The dialogue head moves only with a response: a head other than the
\* admitted one is there exactly when a response is, on a consultant turn
\* that reached settlement.
HeadSound(s) ==
    /\ (s.response # None) = (s.head # s.admitted.expected_head)
    /\ s.response # None =>
           s.phase = "settled" /\ s.promotion = "consultant_turn"

\* The provider identity a consultant turn is bound to is one its admission
\* allows: the admitted one for a resume, another one for a fork.
IdentitySound(s) ==
    /\ (s.native # None) = (s.promotion = "consultant_turn")
    /\ (s.turn_id # None) = (s.promotion = "consultant_turn")
    /\ s.native # None /\ s.admitted.mode = "exact_resume" =>
           s.native = s.admitted.expected_native
    /\ s.native # None /\ s.admitted.mode = "fork_from" =>
           s.native # s.admitted.expected_native

\* An attempt under a direct-human policy is dispatched only into the
\* topology its own settled provisioning names, with no claim still open.
DispatchSound(s) ==
    s.dispatch # None =>
        IF s.admitted.policy = None THEN s.dispatch.topology = None
        ELSE /\ s.claim = None /\ s.provisioned # None
             /\ s.provisioned.topology = s.dispatch.topology
             /\ s.provisioned.key.policy = s.admitted.policy
             /\ s.provisioned.key.op = s.admitted.op

\* Every topology effect that began is covered by the one claim of the turn,
\* and a settled provisioning accounts for the first and the last of them.
EffectsSound(s) ==
    s.effect_started # None =>
        \/ ClaimCovers(s, s.effect_started)
        \/ /\ s.claim = None /\ s.provisioned # None
           /\ s.provisioned.key = s.effect_started.key
           /\ s.provisioned.effect_record # None
           /\ (s.provisioned.last_command_record # None)
                  = (s.command_effects # <<>>)

\* The command effects of one turn are numbered without a gap, name every
\* step once and hang off the same first effect.
CommandsSound(s) ==
    \A i \in DOMAIN s.command_effects :
        LET c == s.command_effects[i] IN
        /\ c.sequence = i + 1
        /\ c.first = s.effect_started
        /\ c.effect_record = s.command_effects[1].previous_record
        /\ \A j \in 1 .. i - 1 : s.command_effects[j].step # c.step

\* The recovery results anchored on a turn belong to its own provisioning and
\* never share an operation, a link or a relationship.
AnchorsSound(s) ==
    \A i \in DOMAIN s.anchors :
        /\ s.provisioned # None
        /\ s.anchors[i].mutation = s.provisioned.key.mutation
        /\ s.anchors[i].result_store = s.provisioned.result_store
        /\ \A j \in 1 .. i - 1 :
              /\ s.anchors[j].recovery_op # s.anchors[i].recovery_op
              /\ s.anchors[j].link # s.anchors[i].link
              /\ s.anchors[j].relationship # s.anchors[i].relationship

\* Once a response has been accepted, no later event replaces it, the head it
\* produced or the identity it came from, not even a conflicting authority.
AuthorityKept(s, t) ==
    s.response # None =>
        /\ t.response = s.response /\ t.head = s.head
        /\ t.turn_id = s.turn_id /\ t.native = s.native

\* The phase never goes back, a reservation leaves "held" at most once, and an
\* effect once observed is never forgotten.
ProgressKept(s, t) ==
    /\ PhaseRank[t.phase] >= PhaseRank[s.phase]
    /\ s.reservation # "held" => t.reservation = s.reservation
    /\ s.effect_observed => t.effect_observed
    /\ s.promotion = "consultant_turn" => t.promotion = "consultant_turn"

\* A quarantined turn leaves quarantine in one way only: a definite non-start
\* proof for a turn with no observed effect. It never comes out as a turn
\* with a response, nor goes back to waiting for one.
QuarantineKept(s, t) ==
    s.recovery = "quarantined" /\ t.recovery # "quarantined" =>
        /\ ~s.effect_observed /\ s.promotion = "attempt_only"
        /\ s.phase # "settled"
        /\ t.outcome = "turn_definite_non_start" /\ t.response = None

\* Once an attempt has been dispatched the topology it was dispatched into is
\* history: no event adds, changes or removes a provisioning fact.
TopologyKept(s, t) ==
    s.dispatch # None =>
        /\ t.dispatch = s.dispatch
        /\ t.claim = s.claim /\ t.provisioned = s.provisioned
        /\ t.effect_started = s.effect_started
        /\ t.command_effects = s.command_effects

----------------------------------------------------------------------------
(* Properties of the specification.                                        *)

\* The turn is a LaneTurnState, or there is none yet.
TypeOK == turn \in Maybe(TurnStates)

\* A retry is called safe only after a definite non-start (RetrySound).
SafeRetryOnlyWithoutEffect == turn # None => RetrySound(turn)

\* A reservation follows the promotion of its attempt (ReservationSound).
ReservationTracksPromotion == turn # None => ReservationSound(turn)

\* A lane is released by settlement alone (ReleaseSound).
ReleaseOnlyBySettlement == turn # None => ReleaseSound(turn)

\* The head moves with an accepted response alone (HeadSound).
HeadMovesWithResponse == turn # None => HeadSound(turn)

\* The provider identity is one the admission allows (IdentitySound).
IdentityMatchesAdmission == turn # None => IdentitySound(turn)

\* Dispatch goes into the provisioned topology (DispatchSound).
DispatchUsesProvisionedTopology == turn # None => DispatchSound(turn)

\* No topology effect is left out of the account (EffectsSound).
EffectsAccountedFor == turn # None => EffectsSound(turn)

\* Command effects form one chain (CommandsSound).
CommandEffectsChain == turn # None => CommandsSound(turn)

\* Anchors belong to the provisioning (AnchorsSound).
AnchorsBelongToProvisioning == turn # None => AnchorsSound(turn)

\* Redelivering the event that was just applied is accepted and changes
\* nothing, whatever it was: a store may repeat its last event after a crash.
Redelivered(Events, Admitted(_, _), Reduced(_, _)) ==
    \A e \in Events :
        Admitted(turn, e) =>
            LET after == Reduced(turn, e) IN
            Admitted(after, e) /\ Reduced(after, e) = after

RedeliveryChangesNothing ==
    turn # None =>
        /\ Redelivered(ClaimEvents, ClaimAdmitted, ClaimReduced)
        /\ Redelivered(EffectEvents, EffectAdmitted, EffectReduced)
        /\ Redelivered(CommandEffectEvents, CommandEffectAdmitted,
                       CommandEffectReduced)
        /\ Redelivered(ProvisionedEvents, ProvisionedAdmitted,
                       ProvisionedReduced)
        /\ Redelivered(AnchorEvents, AnchorAdmitted, AnchorReduced)
        /\ Redelivered(DispatchEvents, DispatchAdmitted, DispatchReduced)
        /\ Redelivered(ObservationEvents, UncertainAdmitted, UncertainReduced)
        /\ Redelivered(ObservationEvents, NonStartAdmitted, NonStartReduced)
        /\ Redelivered(ObservationEvents, ConflictAdmitted, ConflictReduced)
        /\ Redelivered(StartedEvents, StartedAdmitted, StartedReduced)
        /\ Redelivered(ObservationEvents, WaitTimeoutAdmitted,
                       WaitTimeoutReduced)
        /\ Redelivered(FinalEvents, FinalAdmitted, FinalReduced)

\* An accepted response is final (AuthorityKept).
AuthorityNeverReplaced == [][turn # None => AuthorityKept(turn, turn')]_turn

\* Progress is never undone (ProgressKept).
ProgressIsMonotone == [][turn # None => ProgressKept(turn, turn')]_turn

\* Quarantine is left by a definite non-start alone (QuarantineKept).
QuarantineLeftOnlyByNonStart == [][turn # None => QuarantineKept(turn, turn')]_turn

\* Dispatch freezes the topology facts (TopologyKept).
TopologyFrozenByDispatch == [][turn # None => TopologyKept(turn, turn')]_turn
=============================================================================
