-------------------------- MODULE LaneTurnProofs --------------------------
(***************************************************************************)
(* Proofs about LaneTurn, for every choice of its constants.               *)
(*                                                                         *)
(* The inductive invariant is IInv. It adds to the properties of LaneTurn  *)
(* what ties the attempt to its topology facts (Linked): an undispatched   *)
(* turn cannot have settled, and a claim is open only before dispatch and  *)
(* repeats the admission. Each event type has one lemma, XPreserves: the   *)
(* state it leaves is typed and sound, and the step keeps what a step may  *)
(* never lose.                                                             *)
(***************************************************************************)
EXTENDS LaneTurn, SequenceTheorems, TLAPS

Linked(s) ==
    /\ s.dispatch = None => s.phase # "settled" /\ s.promotion = "attempt_only"
    /\ s.claim # None =>
           /\ s.dispatch = None /\ s.provisioned = None
           /\ s.admitted.policy = s.claim.key.policy
           /\ s.admitted.op = s.claim.key.op
    /\ s.provisioned # None =>
           /\ s.admitted.policy = s.provisioned.key.policy
           /\ s.admitted.op = s.provisioned.key.op
    /\ s.effect_started = None => s.command_effects = <<>>

Sound(s) ==
    /\ RetrySound(s) /\ ReservationSound(s) /\ ReleaseSound(s)
    /\ HeadSound(s) /\ IdentitySound(s)
    /\ Linked(s) /\ DispatchSound(s) /\ EffectsSound(s)

Kept(s, t) ==
    /\ AuthorityKept(s, t) /\ ProgressKept(s, t)
    /\ QuarantineKept(s, t) /\ TopologyKept(s, t)

GoodStep(s, t) == t \in TurnStates /\ Sound(t) /\ Kept(s, t)

IInv == turn \in Maybe(TurnStates) /\ (turn # None => Sound(turn))

----------------------------------------------------------------------------
(* Typing.                                                                 *)

\* The literals the handlers assign belong to their types.
LEMMA Values ==
  /\ \A p \in {"prepared", "dispatching", "in_flight", "validating", "settled"} :
        p \in Phases
  /\ \A r \in {"clear", "reconciliation_required", "quarantined"} :
        r \in RecoveryStates
  /\ \A p \in {"attempt_only", "consultant_turn"} : p \in Promotions
  /\ \A r \in {"none", "safe_retry_eligible", "reconcile_first"} :
        r \in RetryDispositions
  /\ \A r \in {"not_counted", "held", "counted", "released"} :
        r \in ReservationStates
  /\ \A o \in {"delivery_uncertain", "turn_definite_non_start", "turn_final",
               "turn_quarantined", "turn_reconciliation_required", None} :
        o \in Maybe(Outcomes)
BY DEF Phases, RecoveryStates, Promotions, RetryDispositions,
       ReservationStates, Outcomes, Maybe

LEMMA HelperTypes ==
  ASSUME NEW s \in TurnStates, NEW p \in Phases
  PROVE  /\ Later(s.phase, p) \in Phases
         /\ ReserveStarted(s.reservation) \in ReservationStates
         /\ ReserveNonStart(s.reservation) \in ReservationStates
BY Values DEF Later, ReserveStarted, ReserveNonStart, TurnStates

LEMMA QuarantineType ==
  ASSUME NEW s \in TurnStates
  PROVE  Quarantine(s) \in TurnStates /\ QuarantineAfterEffect(s) \in TurnStates
<1>1. Quarantine(s) \in TurnStates
  BY Values DEF TurnStates, Quarantine
<1>2. QuarantineAfterEffect(s) \in TurnStates
  BY <1>1 DEF TurnStates, QuarantineAfterEffect
<1> QED BY <1>1, <1>2

----------------------------------------------------------------------------
(* Soundness, one event type at a time.                                    *)

LEMMA UnchangedGood ==
  ASSUME NEW s \in TurnStates, Sound(s)
  PROVE  GoodStep(s, s)
BY DEF GoodStep, Kept, AuthorityKept, ProgressKept, QuarantineKept,
       TopologyKept, TurnStates, Phases, PhaseRank

LEMMA QuarantineGood ==
  ASSUME NEW s \in TurnStates, Sound(s)
  PROVE  GoodStep(s, Quarantine(s)) /\ GoodStep(s, QuarantineAfterEffect(s))
<1>1. Sound(Quarantine(s)) /\ Sound(QuarantineAfterEffect(s))
  BY DEF TurnStates, Quarantine, QuarantineAfterEffect, Sound, RetrySound,
     ReservationSound, ReleaseSound, HeadSound, IdentitySound, Linked,
     DispatchSound, EffectsSound, ClaimCovers, Phases
<1>2. Kept(s, Quarantine(s)) /\ Kept(s, QuarantineAfterEffect(s))
  BY DEF TurnStates, Quarantine, QuarantineAfterEffect, Kept, AuthorityKept,
     ProgressKept, QuarantineKept, TopologyKept, Phases, PhaseRank
<1> QED BY <1>1, <1>2, QuarantineType DEF GoodStep

LEMMA PreparedGood ==
  ASSUME NEW e \in PrepareEvents
  PROVE  Prepared(e) \in TurnStates /\ Sound(Prepared(e))
<1>1. Prepared(e) \in TurnStates
  BY Values DEF TurnStates, Prepared, PrepareEvents, Maybe
<1>2. Sound(Prepared(e))
  BY DEF Prepared, Sound, RetrySound, ReservationSound, ReleaseSound,
     HeadSound, IdentitySound, Linked, DispatchSound, EffectsSound
<1> QED BY <1>1, <1>2

LEMMA StartedPreserves ==
  ASSUME NEW s \in TurnStates, Sound(s), NEW e \in StartedEvents,
         StartedAdmitted(s, e)
  PROVE  GoodStep(s, StartedReduced(s, e))
<1> DEFINE t == StartedReduced(s, e)
           Kinds == \/ s.recovery = "quarantined" \/ ~StartedCorrelates(s, e)
                    \/ s.promotion = "consultant_turn" \/ s.phase = "settled"
<1>1. CASE Kinds
  <2>1. t \in {s, Quarantine(s), QuarantineAfterEffect(s)}
    BY <1>1 DEF StartedReduced
  <2> QED BY <2>1, UnchangedGood, QuarantineGood
<1>2. CASE ~Kinds
  <2>1. t \in TurnStates
    <3>1. e.turn_id \in Maybe(TurnIds) /\ e.native \in Maybe(Natives)
      BY DEF StartedEvents, Maybe
    <3>2. "in_flight" \in Phases
      BY Values
    <3> QED BY <1>2, <3>1, <3>2, HelperTypes, Values
            DEF StartedReduced, TurnStates
  <2>2. s.dispatch # None /\ s.promotion = "attempt_only"
    BY <1>2 DEF StartedAdmitted, TurnStates, Promotions
  <2>3. e.turn_id # None /\ e.native # None
    BY NoneIsFresh DEF StartedEvents
  <2>4. Sound(t)
    BY <1>2, <2>2, <2>3
       DEF TurnStates, StartedReduced, StartedCorrelates, NativeCorrelates,
       Later, ReserveStarted, Sound, RetrySound, ReservationSound,
       ReleaseSound, HeadSound, IdentitySound, Linked, DispatchSound,
       EffectsSound, ClaimCovers, Phases, PhaseRank, Maybe
  <2>5. Kept(s, t)
    BY <1>2, <2>2
       DEF TurnStates, StartedReduced, Later, ReserveStarted, Sound,
       ReservationSound, HeadSound, Kept, AuthorityKept, ProgressKept,
       QuarantineKept, TopologyKept, Phases, PhaseRank, ReservationStates
  <2> QED BY <2>1, <2>4, <2>5 DEF GoodStep
<1> QED BY <1>1, <1>2

LEMMA FinalPreserves ==
  ASSUME NEW s \in TurnStates, Sound(s), NEW e \in FinalEvents,
         FinalAdmitted(s, e)
  PROVE  GoodStep(s, FinalReduced(s, e))
<1> DEFINE t == FinalReduced(s, e)
<1> USE DEF FinalAdmitted
<1>1. CASE t \in {s, Quarantine(s)}
  BY <1>1, UnchangedGood, QuarantineGood
<1>2. CASE t \notin {s, Quarantine(s)}
  <2>1. /\ s.recovery # "quarantined" /\ s.phase # "settled"
        /\ FinalCorrelates(s, e)
        /\ e.complete => e.new_head # s.admitted.expected_head
    BY <1>2 DEF FinalReduced
  <2>2. /\ e.turn_id \in TurnIds /\ e.native \in Natives
        /\ e.response \in Responses /\ e.new_head \in Heads
        /\ e.fresh \in BOOLEAN /\ e.complete \in BOOLEAN
    BY DEF FinalEvents
  <2>3. e.turn_id # None /\ e.native # None /\ e.response # None
    BY <2>2, NoneIsFresh
  <2>4. t \in TurnStates
    <3>1. /\ e.turn_id \in Maybe(TurnIds) /\ e.native \in Maybe(Natives)
          /\ e.response \in Maybe(Responses)
      BY <2>2 DEF Maybe
    <3> QED BY <1>2, <2>2, <3>1, HelperTypes, Values
            DEF FinalReduced, TurnStates
  <2>5. Sound(t)
    BY <1>2, <2>1, <2>2, <2>3
       DEF TurnStates, FinalReduced, FinalCorrelates, NativeCorrelates,
       ReserveStarted, Sound, RetrySound, ReservationSound, ReleaseSound,
       HeadSound, IdentitySound, Linked, DispatchSound, EffectsSound,
       ClaimCovers, Phases, Promotions, Maybe
  <2>6. Kept(s, t)
    BY <1>2, <2>1, <2>2
       DEF TurnStates, FinalReduced, ReserveStarted, Sound, HeadSound, Kept,
       AuthorityKept, ProgressKept, QuarantineKept, TopologyKept, Phases,
       PhaseRank, ReservationStates
  <2> QED BY <2>4, <2>5, <2>6 DEF GoodStep
<1> QED BY <1>1, <1>2

LEMMA NonStartPreserves ==
  ASSUME NEW s \in TurnStates, Sound(s), NEW e \in ObservationEvents,
         NonStartAdmitted(s, e)
  PROVE  GoodStep(s, NonStartReduced(s, e))
<1> DEFINE t == NonStartReduced(s, e)
<1>1. CASE t \in {s, Quarantine(s)}
  BY <1>1, UnchangedGood, QuarantineGood
<1>2. CASE t \notin {s, Quarantine(s)}
  <2>1. /\ s.promotion = "attempt_only" /\ ~s.effect_observed
        /\ s.phase # "settled" /\ s.dispatch # None
    BY <1>2 DEF NonStartReduced, NonStartAdmitted
  <2>2. t \in TurnStates
    BY <1>2, HelperTypes, Values DEF NonStartReduced, TurnStates
  <2>3. Sound(t)
    BY <1>2, <2>1
       DEF TurnStates, NonStartReduced, ReserveNonStart, Sound, RetrySound,
       ReservationSound, ReleaseSound, HeadSound, IdentitySound, Linked,
       DispatchSound, EffectsSound, ClaimCovers, ReservationStates
  <2>4. Kept(s, t)
    BY <1>2, <2>1
       DEF TurnStates, NonStartReduced, ReserveNonStart, Sound, HeadSound,
       Kept, AuthorityKept, ProgressKept, QuarantineKept, TopologyKept,
       Phases, PhaseRank, ReservationStates
  <2> QED BY <2>2, <2>3, <2>4 DEF GoodStep
<1> QED BY <1>1, <1>2

LEMMA ConflictPreserves ==
  ASSUME NEW s \in TurnStates, Sound(s), NEW e \in ObservationEvents
  PROVE  GoodStep(s, ConflictReduced(s, e))
BY UnchangedGood, QuarantineGood DEF ConflictReduced

LEMMA UncertainPreserves ==
  ASSUME NEW s \in TurnStates, Sound(s), NEW e \in ObservationEvents,
         UncertainAdmitted(s, e)
  PROVE  GoodStep(s, UncertainReduced(s, e))
<1> DEFINE t == UncertainReduced(s, e)
<1>1. CASE s.recovery = "quarantined"
  BY <1>1, UnchangedGood DEF UncertainReduced
<1>2. CASE s.recovery # "quarantined"
  <2>1. t \in TurnStates
    <3>1. "dispatching" \in Phases
      BY Values
    <3> QED BY <1>2, <3>1, HelperTypes, Values DEF UncertainReduced, TurnStates
  <2>2. Sound(t)
    BY <1>2
       DEF TurnStates, UncertainReduced, UncertainAdmitted, Later, Sound,
       RetrySound, ReservationSound, ReleaseSound, HeadSound, IdentitySound,
       Linked, DispatchSound, EffectsSound, ClaimCovers, Phases, PhaseRank
  <2>3. Kept(s, t)
    BY <1>2
       DEF TurnStates, UncertainReduced, Later, Kept, AuthorityKept,
       ProgressKept, QuarantineKept, TopologyKept, Phases, PhaseRank
  <2> QED BY <2>1, <2>2, <2>3 DEF GoodStep
<1> QED BY <1>1, <1>2

LEMMA WaitTimeoutPreserves ==
  ASSUME NEW s \in TurnStates, Sound(s), NEW e \in ObservationEvents,
         WaitTimeoutAdmitted(s, e)
  PROVE  GoodStep(s, WaitTimeoutReduced(s, e))
<1> DEFINE t == WaitTimeoutReduced(s, e)
<1>1. CASE s.recovery = "quarantined"
  BY <1>1, UnchangedGood DEF WaitTimeoutReduced
<1>2. CASE s.recovery # "quarantined"
  <2>1. t \in TurnStates
    BY <1>2, Values DEF WaitTimeoutReduced, TurnStates
  <2>2. Sound(t)
    BY <1>2
       DEF TurnStates, WaitTimeoutReduced, WaitTimeoutAdmitted, Sound,
       RetrySound, ReservationSound, ReleaseSound, HeadSound, IdentitySound,
       Linked, DispatchSound, EffectsSound, ClaimCovers
  <2>3. Kept(s, t)
    BY <1>2
       DEF TurnStates, WaitTimeoutReduced, Kept, AuthorityKept, ProgressKept,
       QuarantineKept, TopologyKept, Phases, PhaseRank
  <2> QED BY <2>1, <2>2, <2>3 DEF GoodStep
<1> QED BY <1>1, <1>2

LEMMA DispatchPreserves ==
  ASSUME NEW s \in TurnStates, Sound(s), NEW e \in DispatchEvents,
         DispatchAdmitted(s, e)
  PROVE  GoodStep(s, DispatchReduced(s, e))
<1> DEFINE t == DispatchReduced(s, e)
<1>1. CASE s.dispatch # None
  BY <1>1, UnchangedGood DEF DispatchReduced
<1>2. CASE s.dispatch = None
  <2>1. e.intent \in DispatchIntents /\ e.intent # None
    BY NoneIsFresh DEF DispatchEvents
  <2>2. s.phase = "prepared" /\ s.recovery = "clear" /\ s.outcome = None
    BY <1>2, <2>1 DEF DispatchAdmitted
  <2>3. t \in TurnStates
    <3>1. "dispatching" \in Phases /\ e.intent \in Maybe(DispatchIntents)
      BY <2>1, Values DEF Maybe
    <3> QED BY <1>2, <3>1, HelperTypes DEF DispatchReduced, TurnStates
  <2>4. s.claim = None
    <3>1. s.claim # None => s.claim.key.policy # None
      BY NoneIsFresh DEF TurnStates, ClaimEvents, Keys, Maybe
    <3> QED BY <3>1 DEF DispatchAdmitted, Sound, Linked
  <2>5. Sound(t)
    BY <1>2, <2>1, <2>2, <2>4
       DEF TurnStates, DispatchReduced, DispatchAdmitted, Later, Sound,
       RetrySound, ReservationSound, ReleaseSound, HeadSound, IdentitySound,
       Linked, DispatchSound, EffectsSound, ClaimCovers, PhaseRank
  <2>6. Kept(s, t)
    BY <1>2, <2>2
       DEF TurnStates, DispatchReduced, Later, Kept, AuthorityKept,
       ProgressKept, QuarantineKept, TopologyKept, PhaseRank
  <2> QED BY <2>3, <2>5, <2>6 DEF GoodStep
<1> QED BY <1>1, <1>2

LEMMA ClaimPreserves ==
  ASSUME NEW s \in TurnStates, Sound(s), NEW e \in ClaimEvents,
         ClaimAdmitted(s, e)
  PROVE  GoodStep(s, ClaimReduced(s, e))
<1> DEFINE t == ClaimReduced(s, e)
<1>1. CASE s.provisioned # None \/ s.claim # None
  BY <1>1, UnchangedGood DEF ClaimReduced
<1>2. CASE s.provisioned = None /\ s.claim = None
  <2>1. e # None /\ e \in Maybe(ClaimEvents)
    BY NoneIsFresh DEF Maybe
  <2>2. ClaimAdmissible(s, e)
    BY <1>2, <2>1 DEF ClaimAdmitted
  <2>3. t \in TurnStates
    BY <1>2, <2>1 DEF ClaimReduced, TurnStates
  <2>4. s.effect_started = None
    BY <1>2 DEF Sound, EffectsSound, ClaimCovers
  <2>5. Sound(t)
    BY <1>2, <2>1, <2>2, <2>4
       DEF TurnStates, ClaimReduced, ClaimAdmissible, Sound, RetrySound,
       ReservationSound, ReleaseSound, HeadSound, IdentitySound, Linked,
       DispatchSound, EffectsSound
  <2>6. Kept(s, t)
    BY <1>2, <2>2
       DEF TurnStates, ClaimReduced, ClaimAdmissible, Kept, AuthorityKept,
       ProgressKept, QuarantineKept, TopologyKept, PhaseRank
  <2> QED BY <2>3, <2>5, <2>6 DEF GoodStep
<1> QED BY <1>1, <1>2

\* What the handlers of a topology fact may rely on while a claim is open.
LEMMA OpenClaimIsUndispatched ==
  ASSUME NEW s \in TurnStates, Sound(s), s.claim # None
  PROVE  /\ s.dispatch = None /\ s.provisioned = None
         /\ s.phase # "settled" /\ ~s.release_allowed
BY DEF Sound, Linked, ReleaseSound

LEMMA EffectPreserves ==
  ASSUME NEW s \in TurnStates, Sound(s), NEW e \in EffectEvents,
         EffectAdmitted(s, e)
  PROVE  GoodStep(s, EffectReduced(s, e))
<1> DEFINE t == EffectReduced(s, e)
<1>1. CASE s.effect_started # None
  BY <1>1, UnchangedGood DEF EffectReduced
<1>2. CASE s.effect_started = None
  <2>1. e # None /\ e \in Maybe(EffectEvents)
    BY NoneIsFresh DEF Maybe
  <2>2. ClaimCovers(s, e) /\ s.claim # None
    BY <1>2, <2>1 DEF EffectAdmitted, ClaimCovers
  <2>3. t \in TurnStates
    BY <1>2, <2>1 DEF EffectReduced, TurnStates
  <2>4. Sound(t)
    BY <1>2, <2>1, <2>2, OpenClaimIsUndispatched
       DEF TurnStates, EffectReduced, Sound, RetrySound, ReservationSound,
       ReleaseSound, HeadSound, IdentitySound, Linked, DispatchSound,
       EffectsSound, ClaimCovers
  <2>5. Kept(s, t)
    BY <1>2, <2>2, OpenClaimIsUndispatched
       DEF TurnStates, EffectReduced, Kept, AuthorityKept, ProgressKept,
       QuarantineKept, TopologyKept, Phases, PhaseRank
  <2> QED BY <2>3, <2>4, <2>5 DEF GoodStep
<1> QED BY <1>1, <1>2

LEMMA CommandEffectPreserves ==
  ASSUME NEW s \in TurnStates, Sound(s), NEW e \in CommandEffectEvents,
         CommandEffectAdmitted(s, e)
  PROVE  GoodStep(s, CommandEffectReduced(s, e))
<1> DEFINE t == CommandEffectReduced(s, e)
<1>1. CASE IsLastCommand(s, e)
  BY <1>1, UnchangedGood DEF CommandEffectReduced
<1>2. CASE ~IsLastCommand(s, e)
  <2>1. ClaimCovers(s, e.first) /\ s.claim # None /\ s.effect_started = e.first
    BY <1>2 DEF CommandEffectAdmitted, ClaimCovers
  <2>2. s.effect_started # None
    BY <2>1, NoneIsFresh DEF CommandEffectEvents
  <2>3. /\ Append(s.command_effects, e) \in Seq(CommandEffectEvents)
        /\ Append(s.command_effects, e) # <<>>
    BY AppendProperties DEF TurnStates
  <2>4. t \in TurnStates
    BY <1>2, <2>3 DEF CommandEffectReduced, TurnStates
  <2>5. Sound(t)
    BY <1>2, <2>1, <2>2, <2>3, OpenClaimIsUndispatched
       DEF TurnStates, CommandEffectReduced, Sound, RetrySound,
       ReservationSound, ReleaseSound, HeadSound, IdentitySound, Linked,
       DispatchSound, EffectsSound, ClaimCovers
  <2>6. Kept(s, t)
    BY <1>2, <2>1, OpenClaimIsUndispatched
       DEF TurnStates, CommandEffectReduced, Kept, AuthorityKept,
       ProgressKept, QuarantineKept, TopologyKept, Phases, PhaseRank
  <2> QED BY <2>4, <2>5, <2>6 DEF GoodStep
<1> QED BY <1>1, <1>2

LEMMA ProvisionedPreserves ==
  ASSUME NEW s \in TurnStates, Sound(s), NEW e \in ProvisionedEvents,
         ProvisionedAdmitted(s, e)
  PROVE  GoodStep(s, ProvisionedReduced(s, e))
<1> DEFINE t == ProvisionedReduced(s, e)
<1>1. CASE s.provisioned # None
  BY <1>1, UnchangedGood DEF ProvisionedReduced
<1>2. CASE s.provisioned = None
  <2>1. e # None /\ e \in Maybe(ProvisionedEvents)
    BY NoneIsFresh DEF Maybe
  <2>2. s.claim # None /\ s.claim.key = e.key /\ RecordsMatchEffects(s, e)
    BY <1>2, <2>1 DEF ProvisionedAdmitted
  <2>3. t \in TurnStates
    <3>1. None \in Maybe(ClaimEvents)
      BY DEF Maybe
    <3> QED BY <1>2, <2>1, <3>1 DEF ProvisionedReduced, TurnStates
  <2>4. s.effect_started # None =>
           /\ e.key = s.effect_started.key /\ e.effect_record # None
           /\ (e.last_command_record # None) = (s.command_effects # <<>>)
    BY <1>2, <2>2
       DEF RecordsMatchEffects, Sound, EffectsSound, ClaimCovers
  <2>5. Sound(t)
    BY <1>2, <2>1, <2>2, <2>4, OpenClaimIsUndispatched
       DEF TurnStates, ProvisionedReduced, Sound, RetrySound,
       ReservationSound, ReleaseSound, HeadSound, IdentitySound, Linked,
       DispatchSound, EffectsSound
  <2>6. Kept(s, t)
    BY <1>2, <2>2, OpenClaimIsUndispatched
       DEF TurnStates, ProvisionedReduced, Kept, AuthorityKept, ProgressKept,
       QuarantineKept, TopologyKept, Phases, PhaseRank
  <2> QED BY <2>3, <2>5, <2>6 DEF GoodStep
<1> QED BY <1>1, <1>2

LEMMA AnchorPreserves ==
  ASSUME NEW s \in TurnStates, Sound(s), NEW e \in AnchorEvents
  PROVE  GoodStep(s, AnchorReduced(s, e))
<1> DEFINE t == AnchorReduced(s, e)
<1>1. CASE AnchorReplayed(s, e)
  BY <1>1, UnchangedGood DEF AnchorReduced
<1>2. CASE ~AnchorReplayed(s, e)
  <2>1. Append(s.anchors, e) \in Seq(AnchorEvents)
    BY DEF TurnStates
  <2>2. t \in TurnStates
    BY <1>2, <2>1 DEF AnchorReduced, TurnStates
  <2>3. Sound(t)
    BY <1>2
       DEF TurnStates, AnchorReduced, Sound, RetrySound, ReservationSound,
       ReleaseSound, HeadSound, IdentitySound, Linked, DispatchSound,
       EffectsSound, ClaimCovers
  <2>4. Kept(s, t)
    BY <1>2
       DEF TurnStates, AnchorReduced, Kept, AuthorityKept, ProgressKept,
       QuarantineKept, TopologyKept, Phases, PhaseRank
  <2> QED BY <2>2, <2>3, <2>4 DEF GoodStep
<1> QED BY <1>1, <1>2

----------------------------------------------------------------------------
(* The invariant.                                                          *)

\* Every step from a sound turn leaves one, and keeps what has to be kept.
LEMMA StepIsGood ==
  ASSUME turn \in TurnStates, turn # None, Sound(turn), [Next]_turn
  PROVE  GoodStep(turn, turn')
<1> USE DEF PrepareAdmitted, PrepareReduced
<1>1. CASE UNCHANGED turn
  BY <1>1, UnchangedGood
<1>2. CASE Prepare
  BY <1>2, UnchangedGood DEF Prepare
<1>3. CASE ClaimTopology
  BY <1>3, ClaimPreserves DEF ClaimTopology
<1>4. CASE EffectStarted
  BY <1>4, EffectPreserves DEF EffectStarted
<1>5. CASE CommandEffectStarted
  BY <1>5, CommandEffectPreserves DEF CommandEffectStarted
<1>6. CASE TopologyProvisioned
  BY <1>6, ProvisionedPreserves DEF TopologyProvisioned
<1>7. CASE AnchorRecoveryResult
  BY <1>7, AnchorPreserves DEF AnchorRecoveryResult
<1>8. CASE Dispatch
  BY <1>8, DispatchPreserves DEF Dispatch
<1>9. CASE DeliveryUncertain
  BY <1>9, UncertainPreserves DEF DeliveryUncertain
<1>10. CASE DefiniteNonStart
  BY <1>10, NonStartPreserves DEF DefiniteNonStart
<1>11. CASE ResponseConflict
  BY <1>11, ConflictPreserves DEF ResponseConflict
<1>12. CASE ProviderStarted
  BY <1>12, StartedPreserves DEF ProviderStarted
<1>13. CASE WaitTimeout
  BY <1>13, WaitTimeoutPreserves DEF WaitTimeout
<1>14. CASE FinalAuthority
  BY <1>14, FinalPreserves DEF FinalAuthority
<1> QED
  BY <1>1, <1>2, <1>3, <1>4, <1>5, <1>6, <1>7, <1>8, <1>9, <1>10, <1>11,
     <1>12, <1>13, <1>14 DEF Next

\* The invariant holds of every behaviour.
THEOREM Invariance == Spec => []IInv
<1>1. Init => IInv
  BY DEF Init, IInv, Maybe
<1>2. IInv /\ [Next]_turn => IInv'
  <2> SUFFICES ASSUME IInv, [Next]_turn
               PROVE  IInv'
    OBVIOUS
  <2>1. CASE turn # None
    <3>1. GoodStep(turn, turn')
      BY <2>1, StepIsGood DEF IInv, Maybe
    <3> QED BY <3>1 DEF GoodStep, IInv, Maybe
  <2>2. CASE turn = None
    <3>1. UNCHANGED turn \/ \E e \in PrepareEvents : turn' = Prepared(e)
      BY <2>2 DEF Next, Prepare, PrepareReduced, ClaimTopology, EffectStarted,
         CommandEffectStarted, TopologyProvisioned, AnchorRecoveryResult,
         Dispatch, DeliveryUncertain, DefiniteNonStart, ResponseConflict,
         ProviderStarted, WaitTimeout, FinalAuthority
    <3> QED BY <2>2, <3>1, PreparedGood DEF IInv, Maybe
  <2> QED BY <2>1, <2>2
<1> QED BY <1>1, <1>2, PTL DEF Spec

\* Every state reduce_turn builds is a well-formed LaneTurnState.
THEOREM TypeCorrect == Spec => []TypeOK
<1>1. IInv => TypeOK
  BY DEF IInv, TypeOK
<1> QED BY <1>1, Invariance, PTL

\* A retry is offered as safe only where no provider effect was observed and
\* the attempt settled as a definite non-start.
THEOREM SafeRetry == Spec => []SafeRetryOnlyWithoutEffect
<1>1. IInv => SafeRetryOnlyWithoutEffect
  BY DEF IInv, SafeRetryOnlyWithoutEffect, Sound
<1> QED BY <1>1, Invariance, PTL

\* A budget reservation is counted exactly when its attempt became a turn.
THEOREM Reservation == Spec => []ReservationTracksPromotion
<1>1. IInv => ReservationTracksPromotion
  BY DEF IInv, ReservationTracksPromotion, Sound
<1> QED BY <1>1, Invariance, PTL

\* The lane is released by a settlement alone.
THEOREM Release == Spec => []ReleaseOnlyBySettlement
<1>1. IInv => ReleaseOnlyBySettlement
  BY DEF IInv, ReleaseOnlyBySettlement, Sound
<1> QED BY <1>1, Invariance, PTL

\* The dialogue head moves with an accepted response alone.
THEOREM HeadMoves == Spec => []HeadMovesWithResponse
<1>1. IInv => HeadMovesWithResponse
  BY DEF IInv, HeadMovesWithResponse, Sound
<1> QED BY <1>1, Invariance, PTL

\* A consultant turn is bound to a provider identity its admission allows.
THEOREM Identity == Spec => []IdentityMatchesAdmission
<1>1. IInv => IdentityMatchesAdmission
  BY DEF IInv, IdentityMatchesAdmission, Sound
<1> QED BY <1>1, Invariance, PTL

\* Dispatch under a policy goes into the topology that was provisioned.
THEOREM DispatchTopology == Spec => []DispatchUsesProvisionedTopology
<1>1. IInv => DispatchUsesProvisionedTopology
  BY DEF IInv, DispatchUsesProvisionedTopology, Sound
<1> QED BY <1>1, Invariance, PTL

\* No topology effect that began drops out of the account.
THEOREM EffectsAreAccountedFor == Spec => []EffectsAccountedFor
<1>1. IInv => EffectsAccountedFor
  BY DEF IInv, EffectsAccountedFor, Sound
<1> QED BY <1>1, Invariance, PTL

\* What a step may never lose, for every step of every behaviour.
LEMMA StepsKeep ==
  ASSUME IInv, [Next]_turn
  PROVE  turn # None => Kept(turn, turn')
BY StepIsGood DEF IInv, Maybe, GoodStep

\* An accepted response is never replaced.
THEOREM Authority == Spec => AuthorityNeverReplaced
<1>1. IInv /\ [Next]_turn => [turn # None => AuthorityKept(turn, turn')]_turn
  BY StepsKeep DEF Kept
<1> QED BY <1>1, Invariance, PTL DEF Spec, AuthorityNeverReplaced

\* Phases, reservations and observed effects never go back.
THEOREM Progress == Spec => ProgressIsMonotone
<1>1. IInv /\ [Next]_turn => [turn # None => ProgressKept(turn, turn')]_turn
  BY StepsKeep DEF Kept
<1> QED BY <1>1, Invariance, PTL DEF Spec, ProgressIsMonotone

\* Quarantine is left by a definite non-start of an unobserved effect alone.
THEOREM QuarantineExit == Spec => QuarantineLeftOnlyByNonStart
<1>1. IInv /\ [Next]_turn => [turn # None => QuarantineKept(turn, turn')]_turn
  BY StepsKeep DEF Kept
<1> QED BY <1>1, Invariance, PTL DEF Spec, QuarantineLeftOnlyByNonStart

\* Dispatch freezes the topology facts of the turn.
THEOREM TopologyFrozen == Spec => TopologyFrozenByDispatch
<1>1. IInv /\ [Next]_turn => [turn # None => TopologyKept(turn, turn')]_turn
  BY StepsKeep DEF Kept
<1> QED BY <1>1, Invariance, PTL DEF Spec, TopologyFrozenByDispatch

----------------------------------------------------------------------------
(* The chains of a turn: its command effects and its anchored recovery     *)
(* results. Only four events touch them, and Sound tells that the first    *)
(* effect precedes every command effect.                                   *)

Chained(s) == CommandsSound(s) /\ AnchorsSound(s)

SameChains(s, t) ==
    /\ t.effect_started = s.effect_started /\ t.provisioned = s.provisioned
    /\ t.command_effects = s.command_effects /\ t.anchors = s.anchors

LEMMA SameChainsKept ==
  ASSUME NEW s \in TurnStates, NEW t, Chained(s), SameChains(s, t)
  PROVE  Chained(t)
BY DEF Chained, SameChains, CommandsSound, AnchorsSound

LEMMA EffectChained ==
  ASSUME NEW s \in TurnStates, Sound(s), Chained(s), NEW e \in EffectEvents
  PROVE  Chained(EffectReduced(s, e))
<1>1. CASE s.effect_started # None
  BY <1>1 DEF EffectReduced
<1>2. CASE s.effect_started = None
  <2> DEFINE t == EffectReduced(s, e)
  <2>1. /\ t.command_effects = <<>>
        /\ t.anchors = s.anchors /\ t.provisioned = s.provisioned
    BY <1>2 DEF EffectReduced, TurnStates, Sound, Linked
  <2>2. DOMAIN t.command_effects = {}
    BY <2>1, EmptySeq
  <2> QED BY <2>1, <2>2 DEF Chained, CommandsSound, AnchorsSound
<1> QED BY <1>1, <1>2

\* A command effect goes on where the chain ends.
LEMMA CommandEffectChained ==
  ASSUME NEW s \in TurnStates, Sound(s), Chained(s),
         NEW e \in CommandEffectEvents, CommandEffectAdmitted(s, e)
  PROVE  Chained(CommandEffectReduced(s, e))
<1> DEFINE t == CommandEffectReduced(s, e)
           old == s.command_effects
           new == Append(old, e)
<1>1. CASE IsLastCommand(s, e)
  BY <1>1 DEF CommandEffectReduced
<1>2. CASE ~IsLastCommand(s, e)
  <2>1. /\ s.effect_started = e.first
        /\ e.sequence = Len(old) + 2
        /\ \A i \in DOMAIN old : old[i].step # e.step
        /\ IF old = <<>> THEN e.previous_record = e.effect_record
           ELSE e.effect_record = old[Len(old)].effect_record
    BY <1>2 DEF CommandEffectAdmitted
  <2>2. /\ t.command_effects = new /\ t.effect_started = s.effect_started
        /\ t.anchors = s.anchors /\ t.provisioned = s.provisioned
    BY <1>2 DEF CommandEffectReduced, TurnStates
  <2>3. old \in Seq(CommandEffectEvents)
    BY DEF TurnStates
  <2>4. /\ Len(old) \in Nat /\ DOMAIN old = 1 .. Len(old)
        /\ Len(new) = Len(old) + 1 /\ DOMAIN new = 1 .. (Len(old) + 1)
        /\ \A i \in 1 .. Len(old) : new[i] = old[i]
        /\ new[Len(old) + 1] = e
    BY <2>3
  <2>5. new[1].previous_record = e.effect_record
    <3>1. CASE old = <<>>
      BY <2>1, <2>4, <3>1
    <3>2. CASE old # <<>>
      <4>1. Len(old) \in DOMAIN old /\ 1 \in 1 .. Len(old)
        BY <2>3, <2>4, <3>2
      <4>2. old[Len(old)].effect_record = old[1].previous_record
        BY <4>1 DEF Chained, CommandsSound
      <4> QED BY <2>1, <2>4, <3>2, <4>1, <4>2
    <3> QED BY <3>1, <3>2
  <2>6. \A i \in DOMAIN new :
           /\ new[i].sequence = i + 1 /\ new[i].first = s.effect_started
           /\ new[i].effect_record = new[1].previous_record
           /\ \A j \in 1 .. i - 1 : new[j].step # new[i].step
    <3> SUFFICES ASSUME NEW i \in DOMAIN new
                 PROVE  /\ new[i].sequence = i + 1
                        /\ new[i].first = s.effect_started
                        /\ new[i].effect_record = new[1].previous_record
                        /\ \A j \in 1 .. i - 1 : new[j].step # new[i].step
      OBVIOUS
    <3>1. CASE i = Len(old) + 1
      BY <2>1, <2>4, <2>5, <3>1
    <3>2. CASE i # Len(old) + 1
      <4>1. i \in 1 .. Len(old) /\ 1 \in 1 .. Len(old)
        BY <2>4, <3>2
      <4>2. new[i] = old[i] /\ new[1] = old[1]
        BY <2>4, <4>1
      <4>3. /\ old[i].sequence = i + 1 /\ old[i].first = s.effect_started
            /\ old[i].effect_record = old[1].previous_record
            /\ \A j \in 1 .. i - 1 : old[j].step # old[i].step
        BY <2>4, <4>1 DEF Chained, CommandsSound
      <4>4. \A j \in 1 .. i - 1 : new[j] = old[j]
        BY <2>4, <4>1
      <4> QED BY <4>2, <4>3, <4>4
    <3> QED BY <3>1, <3>2
  <2>7. CommandsSound(t)
    BY <2>2, <2>6 DEF CommandsSound
  <2> QED BY <2>2, <2>7 DEF Chained, AnchorsSound
<1> QED BY <1>1, <1>2

\* A settlement finds no anchor: anchors name the provisioning it brings.
LEMMA ProvisionedChained ==
  ASSUME NEW s \in TurnStates, Chained(s), NEW e \in ProvisionedEvents
  PROVE  Chained(ProvisionedReduced(s, e))
<1>1. CASE s.provisioned # None
  BY <1>1 DEF ProvisionedReduced
<1>2. CASE s.provisioned = None
  <2> DEFINE t == ProvisionedReduced(s, e)
  <2>1. /\ t.command_effects = s.command_effects
        /\ t.effect_started = s.effect_started /\ t.anchors = s.anchors
    BY <1>2 DEF ProvisionedReduced, TurnStates
  <2>2. DOMAIN s.anchors = {}
    BY <1>2 DEF Chained, AnchorsSound
  <2> QED BY <2>1, <2>2 DEF Chained, CommandsSound, AnchorsSound
<1> QED BY <1>1, <1>2

LEMMA AnchorChained ==
  ASSUME NEW s \in TurnStates, Chained(s), NEW e \in AnchorEvents,
         AnchorAdmitted(s, e)
  PROVE  Chained(AnchorReduced(s, e))
<1> DEFINE t == AnchorReduced(s, e)
           old == s.anchors
           new == Append(old, e)
<1>1. CASE AnchorReplayed(s, e)
  BY <1>1 DEF AnchorReduced
<1>2. CASE ~AnchorReplayed(s, e)
  <2>1. /\ \A i \in DOMAIN old : AnchorsCompatible(old[i], e)
        /\ s.provisioned # None
        /\ s.provisioned.result_store = e.result_store
        /\ s.provisioned.key.mutation = e.mutation
    BY <1>2 DEF AnchorAdmitted
  <2>2. /\ t.anchors = new /\ t.provisioned = s.provisioned
        /\ t.command_effects = s.command_effects
        /\ t.effect_started = s.effect_started
    BY <1>2 DEF AnchorReduced, TurnStates
  <2>3. old \in Seq(AnchorEvents)
    BY DEF TurnStates
  <2>4. /\ Len(old) \in Nat /\ DOMAIN old = 1 .. Len(old)
        /\ DOMAIN new = 1 .. (Len(old) + 1)
        /\ \A i \in 1 .. Len(old) : new[i] = old[i]
        /\ new[Len(old) + 1] = e
    BY <2>3
  <2>5. \A i \in DOMAIN new :
           /\ new[i].mutation = s.provisioned.key.mutation
           /\ new[i].result_store = s.provisioned.result_store
           /\ \A j \in 1 .. i - 1 :
                 /\ new[j].recovery_op # new[i].recovery_op
                 /\ new[j].link # new[i].link
                 /\ new[j].relationship # new[i].relationship
    <3> SUFFICES ASSUME NEW i \in DOMAIN new
                 PROVE  /\ new[i].mutation = s.provisioned.key.mutation
                        /\ new[i].result_store = s.provisioned.result_store
                        /\ \A j \in 1 .. i - 1 :
                              /\ new[j].recovery_op # new[i].recovery_op
                              /\ new[j].link # new[i].link
                              /\ new[j].relationship # new[i].relationship
      OBVIOUS
    <3>1. CASE i = Len(old) + 1
      BY <2>1, <2>4, <3>1 DEF AnchorsCompatible
    <3>2. CASE i # Len(old) + 1
      <4>1. i \in 1 .. Len(old)
        BY <2>4, <3>2
      <4>2. /\ new[i] = old[i]
            /\ \A j \in 1 .. i - 1 : new[j] = old[j]
        BY <2>4, <4>1
      <4>3. /\ old[i].mutation = s.provisioned.key.mutation
            /\ old[i].result_store = s.provisioned.result_store
            /\ \A j \in 1 .. i - 1 :
                  /\ old[j].recovery_op # old[i].recovery_op
                  /\ old[j].link # old[i].link
                  /\ old[j].relationship # old[i].relationship
        BY <2>4, <4>1 DEF Chained, AnchorsSound
      <4> QED BY <4>2, <4>3
    <3> QED BY <3>1, <3>2
  <2>6. AnchorsSound(t)
    BY <2>1, <2>2, <2>5 DEF AnchorsSound
  <2> QED BY <2>2, <2>6 DEF Chained, CommandsSound
<1> QED BY <1>1, <1>2

\* The events of the attempt itself leave both chains alone.
LEMMA AttemptKeepsChains ==
  ASSUME NEW s \in TurnStates,
         NEW t \in {s, Quarantine(s), QuarantineAfterEffect(s)}
  PROVE  SameChains(s, t)
BY DEF SameChains, Quarantine, QuarantineAfterEffect, TurnStates

\* Every step keeps the chains, whatever event it applies.
LEMMA StepIsChained ==
  ASSUME turn \in TurnStates, turn # None, Sound(turn), Chained(turn),
         [Next]_turn
  PROVE  Chained(turn')
<1> USE DEF PrepareAdmitted, PrepareReduced
<1>1. CASE UNCHANGED turn
  BY <1>1
<1>2. CASE Prepare
  BY <1>2 DEF Prepare
<1>3. CASE ClaimTopology
  <2>1. SameChains(turn, turn')
    BY <1>3 DEF ClaimTopology, ClaimReduced, SameChains, TurnStates
  <2> QED BY <2>1, SameChainsKept
<1>4. CASE EffectStarted
  BY <1>4, EffectChained DEF EffectStarted
<1>5. CASE CommandEffectStarted
  BY <1>5, CommandEffectChained DEF CommandEffectStarted
<1>6. CASE TopologyProvisioned
  BY <1>6, ProvisionedChained DEF TopologyProvisioned
<1>7. CASE AnchorRecoveryResult
  BY <1>7, AnchorChained DEF AnchorRecoveryResult
<1>8. CASE Dispatch
  <2>1. SameChains(turn, turn')
    BY <1>8 DEF Dispatch, DispatchReduced, SameChains, TurnStates
  <2> QED BY <2>1, SameChainsKept
<1>9. CASE DeliveryUncertain
  <2>1. SameChains(turn, turn')
    BY <1>9 DEF DeliveryUncertain, UncertainReduced, SameChains, TurnStates
  <2> QED BY <2>1, SameChainsKept
<1>10. CASE DefiniteNonStart
  <2>1. SameChains(turn, turn')
    BY <1>10, AttemptKeepsChains
       DEF DefiniteNonStart, NonStartReduced, SameChains, TurnStates
  <2> QED BY <2>1, SameChainsKept
<1>11. CASE ResponseConflict
  <2>1. SameChains(turn, turn')
    BY <1>11, AttemptKeepsChains DEF ResponseConflict, ConflictReduced
  <2> QED BY <2>1, SameChainsKept
<1>12. CASE ProviderStarted
  <2>1. SameChains(turn, turn')
    BY <1>12, AttemptKeepsChains
       DEF ProviderStarted, StartedReduced, SameChains, TurnStates
  <2> QED BY <2>1, SameChainsKept
<1>13. CASE WaitTimeout
  <2>1. SameChains(turn, turn')
    BY <1>13 DEF WaitTimeout, WaitTimeoutReduced, SameChains, TurnStates
  <2> QED BY <2>1, SameChainsKept
<1>14. CASE FinalAuthority
  <2>1. SameChains(turn, turn')
    BY <1>14, AttemptKeepsChains
       DEF FinalAuthority, FinalReduced, SameChains, TurnStates
  <2> QED BY <2>1, SameChainsKept
<1> QED
  BY <1>1, <1>2, <1>3, <1>4, <1>5, <1>6, <1>7, <1>8, <1>9, <1>10, <1>11,
     <1>12, <1>13, <1>14 DEF Next

LEMMA PreparedIsChained ==
  ASSUME NEW e \in PrepareEvents
  PROVE  Chained(Prepared(e))
<1>1. Prepared(e).command_effects = <<>> /\ Prepared(e).anchors = <<>>
  BY DEF Prepared
<1>2. \A q : q = <<>> => DOMAIN q = {}
  BY EmptySeq
<1> QED BY <1>1, <1>2 DEF Chained, CommandsSound, AnchorsSound

\* Both chains hold together in every state of every behaviour.
THEOREM Chains == Spec => [](turn # None => Chained(turn))
<1> DEFINE Chain == turn # None => Chained(turn)
<1>1. Init => Chain
  BY DEF Init
<1>2. IInv /\ Chain /\ [Next]_turn => Chain'
  <2> SUFFICES ASSUME IInv, Chain, [Next]_turn, turn' # None
               PROVE  Chained(turn')
    OBVIOUS
  <2>1. CASE turn # None
    BY <2>1, StepIsChained DEF IInv, Maybe
  <2>2. CASE turn = None
    <3>1. UNCHANGED turn \/ \E e \in PrepareEvents : turn' = Prepared(e)
      BY <2>2 DEF Next, Prepare, PrepareReduced, ClaimTopology, EffectStarted,
         CommandEffectStarted, TopologyProvisioned, AnchorRecoveryResult,
         Dispatch, DeliveryUncertain, DefiniteNonStart, ResponseConflict,
         ProviderStarted, WaitTimeout, FinalAuthority
    <3> QED BY <2>2, <3>1, PreparedIsChained
  <2> QED BY <2>1, <2>2
<1> QED BY <1>1, <1>2, Invariance, PTL DEF Spec

\* Topology commands are numbered from two without a gap, name a step once and
\* hang off the first effect of the turn.
THEOREM CommandChain == Spec => []CommandEffectsChain
<1>1. (turn # None => Chained(turn)) => CommandEffectsChain
  BY DEF Chained, CommandEffectsChain
<1> QED BY <1>1, Chains, PTL

\* Anchored recovery results belong to the provisioning of their turn and
\* share no operation, link or relationship.
THEOREM Anchors == Spec => []AnchorsBelongToProvisioning
<1>1. (turn # None => Chained(turn)) => AnchorsBelongToProvisioning
  BY DEF Chained, AnchorsBelongToProvisioning
<1> QED BY <1>1, Chains, PTL
----------------------------------------------------------------------------
(* Redelivery. A handler either leaves its event recorded in the turn, so  *)
(* that the second delivery is a replay, or writes fixed values a second   *)
(* time.                                                                   *)

\* Two turns with the same fields are the same turn.
LEMMA SameFields ==
  ASSUME NEW s \in TurnStates, NEW t \in TurnStates,
         s.admitted = t.admitted, s.native = t.native, s.phase = t.phase,
         s.recovery = t.recovery, s.promotion = t.promotion,
         s.reservation = t.reservation, s.retry = t.retry,
         s.outcome = t.outcome, s.head = t.head, s.response = t.response,
         s.turn_id = t.turn_id, s.dispatch = t.dispatch,
         s.wait_timed_out = t.wait_timed_out,
         s.effect_observed = t.effect_observed,
         s.release_allowed = t.release_allowed, s.claim = t.claim,
         s.provisioned = t.provisioned,
         s.effect_started = t.effect_started,
         s.command_effects = t.command_effects, s.anchors = t.anchors
  PROVE  s = t
BY DEF TurnStates

\* A turn that holds the values a handler writes is not changed by it.
LEMMA QuarantineFixed ==
  ASSUME NEW t \in TurnStates,
         t.phase \in {"settled", "validating"}, t.recovery = "quarantined",
         t.outcome = "turn_quarantined", t.retry = "none", ~t.release_allowed
  PROVE  Quarantine(t) = t
<1> DEFINE u == Quarantine(t)
<1>1. u \in TurnStates
  BY QuarantineType
<1>2. /\ u.phase = t.phase /\ u.recovery = t.recovery
      /\ u.outcome = t.outcome /\ u.retry = t.retry
      /\ u.release_allowed = t.release_allowed
  BY DEF TurnStates, Quarantine
<1>3. /\ u.admitted = t.admitted /\ u.native = t.native
      /\ u.promotion = t.promotion /\ u.reservation = t.reservation
      /\ u.head = t.head /\ u.response = t.response
      /\ u.turn_id = t.turn_id /\ u.dispatch = t.dispatch
      /\ u.wait_timed_out = t.wait_timed_out
      /\ u.effect_observed = t.effect_observed /\ u.claim = t.claim
      /\ u.provisioned = t.provisioned
      /\ u.effect_started = t.effect_started
      /\ u.command_effects = t.command_effects /\ u.anchors = t.anchors
  BY DEF TurnStates, Quarantine
<1> HIDE DEF u
<1>4. u = t
  BY <1>1, <1>2, <1>3, SameFields
<1> QED BY <1>4 DEF u

LEMMA UncertainFixed ==
  ASSUME NEW t \in TurnStates, NEW e \in ObservationEvents,
         Later(t.phase, "dispatching") = t.phase,
         t.recovery = "reconciliation_required",
         t.outcome = "delivery_uncertain", t.retry = "reconcile_first",
         ~t.release_allowed
  PROVE  UncertainReduced(t, e) = t
<1> DEFINE u == UncertainReduced(t, e)
<1>1. u \in TurnStates
  BY Values DEF UncertainReduced, TurnStates
<1>2. /\ u.phase = t.phase /\ u.recovery = t.recovery
      /\ u.outcome = t.outcome /\ u.retry = t.retry
      /\ u.release_allowed = t.release_allowed
  BY DEF TurnStates, UncertainReduced
<1>3. /\ u.admitted = t.admitted /\ u.native = t.native
      /\ u.promotion = t.promotion /\ u.reservation = t.reservation
      /\ u.head = t.head /\ u.response = t.response
      /\ u.turn_id = t.turn_id /\ u.dispatch = t.dispatch
      /\ u.wait_timed_out = t.wait_timed_out
      /\ u.effect_observed = t.effect_observed /\ u.claim = t.claim
      /\ u.provisioned = t.provisioned
      /\ u.effect_started = t.effect_started
      /\ u.command_effects = t.command_effects /\ u.anchors = t.anchors
  BY DEF TurnStates, UncertainReduced
<1> HIDE DEF u
<1>4. u = t
  BY <1>1, <1>2, <1>3, SameFields
<1> QED BY <1>4 DEF u

LEMMA IncompleteFinalFixed ==
  ASSUME NEW t \in TurnStates, NEW e \in FinalEvents,
         ~e.complete, FinalCorrelates(t, e), t.phase = "validating",
         t.recovery = "reconciliation_required",
         t.outcome = "turn_reconciliation_required",
         t.retry = "reconcile_first", ~t.release_allowed,
         e.fresh => t.effect_observed
  PROVE  FinalReduced(t, e) = t
<1> DEFINE u == FinalReduced(t, e)
<1>0. ~FinalReplayed(t, e)
  BY DEF FinalReplayed
<1>1. e.fresh \in BOOLEAN /\ t.effect_observed \in BOOLEAN
  BY DEF FinalEvents, TurnStates
<1>2. u = [t EXCEPT !.phase = "validating",
                    !.recovery = "reconciliation_required",
                    !.outcome = "turn_reconciliation_required",
                    !.retry = "reconcile_first",
                    !.effect_observed = @ \/ e.fresh,
                    !.release_allowed = FALSE]
  BY <1>0 DEF FinalReduced
<1> HIDE DEF u
<1>3. u \in TurnStates
  BY <1>1, <1>2, Values DEF TurnStates
<1>4. /\ u.phase = t.phase /\ u.recovery = t.recovery
      /\ u.outcome = t.outcome /\ u.retry = t.retry
      /\ u.release_allowed = t.release_allowed
  BY <1>2 DEF TurnStates
<1>5. u.effect_observed = t.effect_observed
  <2>1. u.effect_observed = (t.effect_observed \/ e.fresh)
    BY <1>2 DEF TurnStates
  <2> QED BY <1>1, <2>1
<1>6. /\ u.admitted = t.admitted /\ u.native = t.native
      /\ u.promotion = t.promotion /\ u.reservation = t.reservation
      /\ u.head = t.head /\ u.response = t.response
      /\ u.turn_id = t.turn_id /\ u.dispatch = t.dispatch
      /\ u.wait_timed_out = t.wait_timed_out /\ u.claim = t.claim
      /\ u.provisioned = t.provisioned
      /\ u.effect_started = t.effect_started
      /\ u.command_effects = t.command_effects /\ u.anchors = t.anchors
  BY <1>2 DEF TurnStates
<1>7. u = t
  BY <1>3, <1>4, <1>5, <1>6, SameFields
<1> QED BY <1>7 DEF u

LEMMA ClaimRedelivered ==
  ASSUME NEW s \in TurnStates, NEW e \in ClaimEvents, ClaimAdmitted(s, e)
  PROVE  /\ ClaimAdmitted(ClaimReduced(s, e), e)
         /\ ClaimReduced(ClaimReduced(s, e), e) = ClaimReduced(s, e)
<1>1. e # None
  BY NoneIsFresh
<1> QED BY <1>1 DEF ClaimAdmitted, ClaimReduced, TurnStates

LEMMA EffectRedelivered ==
  ASSUME NEW s \in TurnStates, NEW e \in EffectEvents, EffectAdmitted(s, e)
  PROVE  /\ EffectAdmitted(EffectReduced(s, e), e)
         /\ EffectReduced(EffectReduced(s, e), e) = EffectReduced(s, e)
<1>1. e # None
  BY NoneIsFresh
<1> QED BY <1>1 DEF EffectAdmitted, EffectReduced, TurnStates

LEMMA CommandEffectRedelivered ==
  ASSUME NEW s \in TurnStates, NEW e \in CommandEffectEvents,
         CommandEffectAdmitted(s, e)
  PROVE  LET t == CommandEffectReduced(s, e) IN
         CommandEffectAdmitted(t, e) /\ CommandEffectReduced(t, e) = t
<1> DEFINE t == CommandEffectReduced(s, e)
<1>1. IsLastCommand(t, e)
  <2>1. CASE IsLastCommand(s, e)
    BY <2>1 DEF CommandEffectReduced
  <2>2. CASE ~IsLastCommand(s, e)
    <3>1. s.command_effects \in Seq(CommandEffectEvents)
      BY DEF TurnStates
    <3>2. t.command_effects = Append(s.command_effects, e)
      BY <2>2 DEF CommandEffectReduced, TurnStates
    <3> QED BY <3>1, <3>2 DEF IsLastCommand
  <2> QED BY <2>1, <2>2
<1> QED BY <1>1 DEF CommandEffectAdmitted, CommandEffectReduced

LEMMA ProvisionedRedelivered ==
  ASSUME NEW s \in TurnStates, NEW e \in ProvisionedEvents,
         ProvisionedAdmitted(s, e)
  PROVE  /\ ProvisionedAdmitted(ProvisionedReduced(s, e), e)
         /\ ProvisionedReduced(ProvisionedReduced(s, e), e)
                = ProvisionedReduced(s, e)
<1>1. e # None
  BY NoneIsFresh
<1> QED BY <1>1 DEF ProvisionedAdmitted, ProvisionedReduced, TurnStates

LEMMA AnchorRedelivered ==
  ASSUME NEW s \in TurnStates, NEW e \in AnchorEvents, AnchorAdmitted(s, e)
  PROVE  LET t == AnchorReduced(s, e) IN
         AnchorAdmitted(t, e) /\ AnchorReduced(t, e) = t
<1> DEFINE t == AnchorReduced(s, e)
<1>1. AnchorReplayed(t, e)
  <2>1. CASE AnchorReplayed(s, e)
    BY <2>1 DEF AnchorReduced
  <2>2. CASE ~AnchorReplayed(s, e)
    <3>1. s.anchors \in Seq(AnchorEvents)
      BY DEF TurnStates
    <3>2. t.anchors = Append(s.anchors, e)
      BY <2>2 DEF AnchorReduced, TurnStates
    <3>3. \A i \in DOMAIN s.anchors : AnchorsCompatible(s.anchors[i], e)
      BY <2>2 DEF AnchorAdmitted
    <3>4. /\ Len(t.anchors) = Len(s.anchors) + 1
          /\ t.anchors[Len(s.anchors) + 1] = e
          /\ \A j \in 1 .. Len(s.anchors) : t.anchors[j] = s.anchors[j]
          /\ DOMAIN t.anchors = 1 .. Len(s.anchors) + 1
      BY <3>1, <3>2
    <3>5. \A j \in 1 .. Len(s.anchors) : AnchorsCompatible(t.anchors[j], e)
      BY <3>1, <3>3, <3>4
    <3>6. /\ Len(s.anchors) \in Nat
          /\ Len(s.anchors) + 1 - 1 = Len(s.anchors)
          /\ Len(s.anchors) + 1 \in DOMAIN t.anchors
      BY <3>1, <3>4
    <3> QED BY <3>4, <3>5, <3>6 DEF AnchorReplayed
  <2> QED BY <2>1, <2>2
<1> QED BY <1>1 DEF AnchorAdmitted, AnchorReduced

LEMMA DispatchRedelivered ==
  ASSUME NEW s \in TurnStates, NEW e \in DispatchEvents, DispatchAdmitted(s, e)
  PROVE  /\ DispatchAdmitted(DispatchReduced(s, e), e)
         /\ DispatchReduced(DispatchReduced(s, e), e) = DispatchReduced(s, e)
<1>1. e.intent # None
  BY NoneIsFresh DEF DispatchEvents
<1> QED BY <1>1 DEF DispatchAdmitted, DispatchReduced, TurnStates

LEMMA NonStartRedelivered ==
  ASSUME NEW s \in TurnStates, NEW e \in ObservationEvents,
         NonStartAdmitted(s, e)
  PROVE  LET t == NonStartReduced(s, e) IN
         NonStartAdmitted(t, e) /\ NonStartReduced(t, e) = t
<1> DEFINE t == NonStartReduced(s, e)
<1>1. CASE t = s
  BY <1>1
<1>2. CASE t = Quarantine(s)
  <2>1. /\ t.admitted = s.admitted /\ t.dispatch = s.dispatch
        /\ t.effect_observed = s.effect_observed
        /\ t.promotion = s.promotion
        /\ t.outcome = "turn_quarantined"
        /\ s.phase = "settled" => t.phase = "settled"
    BY <1>2 DEF Quarantine, TurnStates
  <2>2. NonStartAdmitted(t, e)
    BY <2>1 DEF NonStartAdmitted
  <2>3. Quarantine(t) = t
    <3>1. t \in TurnStates
      BY <1>2, QuarantineType
    <3>2. /\ t.phase \in {"settled", "validating"}
          /\ t.recovery = "quarantined" /\ t.outcome = "turn_quarantined"
          /\ t.retry = "none" /\ ~t.release_allowed
      BY <1>2 DEF Quarantine, TurnStates
    <3> HIDE DEF t
    <3> QED BY <3>1, <3>2, QuarantineFixed
  <2>4. CASE s.effect_observed \/ s.promotion # "attempt_only"
    BY <2>1, <2>2, <2>3, <2>4 DEF NonStartReduced
  <2>5. CASE ~(s.effect_observed \/ s.promotion # "attempt_only")
    <3>1. CASE s.phase = "settled"
      BY <2>1, <2>2, <2>3, <2>5, <3>1 DEF NonStartReduced
    <3>2. CASE s.phase # "settled"
      <4>1. t.outcome = "turn_definite_non_start"
        BY <2>5, <3>2 DEF NonStartReduced, TurnStates
      <4> QED BY <2>1, <4>1
    <3> QED BY <3>1, <3>2
  <2> QED BY <2>4, <2>5
<1>3. CASE t # s /\ t # Quarantine(s)
  <2>1. /\ t.admitted = s.admitted /\ t.dispatch = s.dispatch
        /\ t.effect_observed = s.effect_observed
        /\ t.promotion = s.promotion /\ t.phase = "settled"
        /\ t.outcome = "turn_definite_non_start"
        /\ ~s.effect_observed /\ s.promotion = "attempt_only"
    BY <1>3 DEF NonStartReduced, TurnStates
  <2> QED BY <2>1 DEF NonStartAdmitted, NonStartReduced
<1> QED BY <1>1, <1>2, <1>3

LEMMA ConflictRedelivered ==
  ASSUME NEW s \in TurnStates, NEW e \in ObservationEvents,
         ConflictAdmitted(s, e)
  PROVE  /\ ConflictAdmitted(ConflictReduced(s, e), e)
         /\ ConflictReduced(ConflictReduced(s, e), e) = ConflictReduced(s, e)
BY DEF ConflictAdmitted, ConflictReduced, QuarantineAfterEffect, Quarantine,
       TurnStates

LEMMA UncertainRedelivered ==
  ASSUME NEW s \in TurnStates, NEW e \in ObservationEvents,
         UncertainAdmitted(s, e)
  PROVE  LET t == UncertainReduced(s, e) IN
         UncertainAdmitted(t, e) /\ UncertainReduced(t, e) = t
<1> DEFINE t == UncertainReduced(s, e)
<1>1. CASE s.recovery = "quarantined"
  BY <1>1 DEF UncertainReduced
<1>2. CASE s.recovery # "quarantined"
  <2>0. "dispatching" \in Phases
    BY Values
  <2>1. t \in TurnStates
    BY <1>2, <2>0, HelperTypes, Values DEF UncertainReduced, TurnStates
  <2>2. t.recovery = "reconciliation_required"
    BY <1>2 DEF UncertainReduced, TurnStates
  <2>3. t.phase = Later(s.phase, "dispatching")
    BY <1>2 DEF UncertainReduced, TurnStates
  <2>4. Later(t.phase, "dispatching") = t.phase
    BY <2>3 DEF Later, TurnStates, Phases, PhaseRank
  <2>5. UncertainAdmitted(t, e)
    BY <1>2, <2>3 DEF UncertainAdmitted, UncertainReduced, TurnStates, Later
  <2>6. /\ t.outcome = "delivery_uncertain" /\ t.retry = "reconcile_first"
        /\ ~t.release_allowed
    BY <1>2 DEF UncertainReduced, TurnStates
  <2> HIDE DEF t
  <2>7. UncertainReduced(t, e) = t
    BY <2>1, <2>2, <2>4, <2>6, UncertainFixed
  <2> QED BY <2>5, <2>7 DEF t
<1> QED BY <1>1, <1>2

LEMMA WaitTimeoutRedelivered ==
  ASSUME NEW s \in TurnStates, NEW e \in ObservationEvents,
         WaitTimeoutAdmitted(s, e)
  PROVE  LET t == WaitTimeoutReduced(s, e) IN
         WaitTimeoutAdmitted(t, e) /\ WaitTimeoutReduced(t, e) = t
<1> DEFINE t == WaitTimeoutReduced(s, e)
           u == WaitTimeoutReduced(t, e)
<1>1. CASE s.recovery = "quarantined"
  BY <1>1 DEF WaitTimeoutReduced
<1>2. CASE s.recovery # "quarantined"
  <2>1. t \in TurnStates
    BY <1>2, Values DEF WaitTimeoutReduced, TurnStates
  <2>2. t.recovery = "reconciliation_required"
    BY <1>2 DEF WaitTimeoutReduced, TurnStates
  <2>3. u \in TurnStates
    BY <2>1, <2>2, Values DEF WaitTimeoutReduced, TurnStates
  <2>4. WaitTimeoutAdmitted(t, e)
    BY <1>2 DEF WaitTimeoutAdmitted, WaitTimeoutReduced, TurnStates
  <2>5. /\ u.recovery = t.recovery /\ u.outcome = t.outcome
        /\ u.retry = t.retry /\ u.wait_timed_out = t.wait_timed_out
        /\ u.release_allowed = t.release_allowed
    BY <1>2, <2>1, <2>2 DEF WaitTimeoutReduced, TurnStates
  <2>6. /\ u.admitted = t.admitted /\ u.native = t.native
        /\ u.phase = t.phase
        /\ u.promotion = t.promotion /\ u.reservation = t.reservation
        /\ u.head = t.head /\ u.response = t.response
        /\ u.turn_id = t.turn_id /\ u.dispatch = t.dispatch
        /\ u.effect_observed = t.effect_observed /\ u.claim = t.claim
        /\ u.provisioned = t.provisioned
        /\ u.effect_started = t.effect_started
        /\ u.command_effects = t.command_effects /\ u.anchors = t.anchors
    BY <2>1, <2>2 DEF WaitTimeoutReduced, TurnStates
  <2> HIDE DEF t, u
  <2>7. u = t
    BY <2>1, <2>3, <2>5, <2>6, SameFields
  <2> QED BY <2>4, <2>7 DEF t, u
<1> QED BY <1>1, <1>2

LEMMA StartedRedelivered ==
  ASSUME NEW s \in TurnStates, NEW e \in StartedEvents, StartedAdmitted(s, e)
  PROVE  LET t == StartedReduced(s, e) IN
         StartedAdmitted(t, e) /\ StartedReduced(t, e) = t
<1> DEFINE t == StartedReduced(s, e)
<1>1. CASE t = s
  BY <1>1
<1>2. CASE t.recovery = "quarantined"
  BY <1>2 DEF StartedAdmitted, StartedReduced
<1>3. CASE t # s /\ t.recovery # "quarantined"
  <2>1. /\ s.recovery # "quarantined" /\ StartedCorrelates(s, e)
        /\ s.promotion # "consultant_turn" /\ s.phase # "settled"
    <3>1. /\ Quarantine(s).recovery = "quarantined"
          /\ QuarantineAfterEffect(s).recovery = "quarantined"
      BY DEF Quarantine, QuarantineAfterEffect, TurnStates
    <3> QED BY <1>3, <3>1 DEF StartedReduced
  <2>2. /\ t.admitted = s.admitted /\ t.dispatch = s.dispatch
        /\ t.promotion = "consultant_turn"
        /\ t.turn_id = e.turn_id /\ t.native = e.native
    BY <2>1 DEF StartedReduced, TurnStates
  <2>3. StartedCorrelates(t, e)
    BY <2>1, <2>2 DEF StartedCorrelates, NativeCorrelates
  <2>4. StartedAdmitted(t, e)
    BY <2>1, <2>2 DEF StartedAdmitted
  <2> QED BY <1>3, <2>2, <2>3, <2>4 DEF StartedReduced
<1> QED BY <1>1, <1>2, <1>3

LEMMA FinalRedelivered ==
  ASSUME NEW s \in TurnStates, NEW e \in FinalEvents, FinalAdmitted(s, e)
  PROVE  LET t == FinalReduced(s, e) IN
         FinalAdmitted(t, e) /\ FinalReduced(t, e) = t
<1> DEFINE t == FinalReduced(s, e)
<1>0. t.dispatch = s.dispatch /\ t.admitted = s.admitted
  BY DEF FinalReduced, Quarantine, TurnStates
<1>1. FinalAdmitted(t, e)
  BY <1>0 DEF FinalAdmitted
<1>2. CASE t = s
  BY <1>1, <1>2
<1>3. CASE t.recovery = "quarantined"
  BY <1>1, <1>3 DEF FinalReduced
<1>4. CASE t # s /\ t.recovery # "quarantined"
  <2>1. /\ s.recovery # "quarantined" /\ FinalCorrelates(s, e)
        /\ s.phase # "settled" /\ ~FinalReplayed(s, e)
        /\ e.complete => e.new_head # s.admitted.expected_head
    <3>1. Quarantine(s).recovery = "quarantined"
      BY DEF Quarantine, TurnStates
    <3> QED BY <1>4, <3>1 DEF FinalReduced
  <2>2. CASE e.complete
    <3>1. /\ t.phase = "settled" /\ t.outcome = "turn_final"
          /\ t.turn_id = e.turn_id /\ t.response = e.response
          /\ t.head = e.new_head /\ t.native = e.native
      BY <2>1, <2>2 DEF FinalReduced, TurnStates
    <3>2. FinalCorrelates(t, e)
      BY <1>0, <2>1, <3>1 DEF FinalCorrelates, NativeCorrelates
    <3>3. FinalReplayed(t, e)
      BY <2>2, <3>1, <3>2 DEF FinalReplayed
    <3> QED BY <1>1, <3>3 DEF FinalReduced
  <2>3. CASE ~e.complete
    <3>1. /\ t.phase = "validating" /\ t.recovery = "reconciliation_required"
          /\ t.outcome = "turn_reconciliation_required"
          /\ t.retry = "reconcile_first" /\ ~t.release_allowed
          /\ t.effect_observed = (s.effect_observed \/ e.fresh)
          /\ t.native = s.native /\ t.promotion = s.promotion
          /\ t.turn_id = s.turn_id
      BY <2>1, <2>3 DEF FinalReduced, TurnStates
    <3>2. t \in TurnStates
      <4>1. e.fresh \in BOOLEAN
        BY DEF FinalEvents
      <4> QED BY <2>1, <2>3, <4>1, Values DEF FinalReduced, TurnStates
    <3>3. FinalCorrelates(t, e)
      BY <1>0, <2>1, <3>1 DEF FinalCorrelates, NativeCorrelates
    <3>4. e.fresh => t.effect_observed
      <4>1. e.fresh \in BOOLEAN /\ s.effect_observed \in BOOLEAN
        BY DEF FinalEvents, TurnStates
      <4> QED BY <3>1, <4>1
    <3> HIDE DEF t
    <3>5. FinalReduced(t, e) = t
      BY <2>3, <3>1, <3>2, <3>3, <3>4, IncompleteFinalFixed
    <3> QED BY <1>1, <3>5 DEF t
  <2> QED BY <2>2, <2>3
<1> QED BY <1>2, <1>3, <1>4

LEMMA AllRedelivered ==
  ASSUME turn \in TurnStates
  PROVE  RedeliveryChangesNothing
<1>1. Redelivered(ClaimEvents, ClaimAdmitted, ClaimReduced)
  BY ClaimRedelivered DEF Redelivered
<1>2. Redelivered(EffectEvents, EffectAdmitted, EffectReduced)
  BY EffectRedelivered DEF Redelivered
<1>3. Redelivered(CommandEffectEvents, CommandEffectAdmitted,
                  CommandEffectReduced)
  BY CommandEffectRedelivered DEF Redelivered
<1>4. Redelivered(ProvisionedEvents, ProvisionedAdmitted, ProvisionedReduced)
  BY ProvisionedRedelivered DEF Redelivered
<1>5. Redelivered(AnchorEvents, AnchorAdmitted, AnchorReduced)
  BY AnchorRedelivered DEF Redelivered
<1>6. Redelivered(DispatchEvents, DispatchAdmitted, DispatchReduced)
  BY DispatchRedelivered DEF Redelivered
<1>7. Redelivered(ObservationEvents, UncertainAdmitted, UncertainReduced)
  BY UncertainRedelivered DEF Redelivered
<1>8. Redelivered(ObservationEvents, NonStartAdmitted, NonStartReduced)
  BY NonStartRedelivered DEF Redelivered
<1>9. Redelivered(ObservationEvents, ConflictAdmitted, ConflictReduced)
  BY ConflictRedelivered DEF Redelivered
<1>10. Redelivered(StartedEvents, StartedAdmitted, StartedReduced)
  BY StartedRedelivered DEF Redelivered
<1>11. Redelivered(ObservationEvents, WaitTimeoutAdmitted, WaitTimeoutReduced)
  BY WaitTimeoutRedelivered DEF Redelivered
<1>12. Redelivered(FinalEvents, FinalAdmitted, FinalReduced)
  BY FinalRedelivered DEF Redelivered
<1> QED BY <1>1, <1>2, <1>3, <1>4, <1>5, <1>6, <1>7, <1>8, <1>9, <1>10,
           <1>11, <1>12 DEF RedeliveryChangesNothing

\* A store that delivers its last event twice finds it accepted and the turn
\* unchanged, whatever the event and the turn.
THEOREM Redelivery == Spec => []RedeliveryChangesNothing
<1>1. IInv => RedeliveryChangesNothing
  <2>1. CASE turn = None
    BY <2>1 DEF RedeliveryChangesNothing
  <2>2. CASE turn # None
    BY <2>2, AllRedelivered DEF IInv, Maybe
  <2> QED BY <2>1, <2>2
<1> QED BY <1>1, Invariance, PTL

=============================================================================
