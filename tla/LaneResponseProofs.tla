------------------------- MODULE LaneResponseProofs -------------------------
(***************************************************************************)
(* Proofs about LaneResponse, for every choice of its constants.           *)
(*                                                                         *)
(* The inductive invariant is IInv. It says of every value of the files a  *)
(* power loss may leave what the properties say of the files inspection    *)
(* would read, and adds what they need in between: nothing is published    *)
(* while a publication runs, and it runs beside a turn that is not settled *)
(* (PublisherOK); no two values have capsules of different authorities     *)
(* (OneCapsule); once a final is committed the capsule in every value is   *)
(* the one it settled, and nothing is staged (FinalsOK, SettledOK). Of the *)
(* files in a capsule it says that they are whole once it was reported.    *)
(***************************************************************************)
EXTENDS LaneResponse, SequenceTheorems, TLAPS

Dirs == [stage : Maybe(Capsules), capsule : Maybe(Capsules)]

\* What the reducer keeps of the outcomes an artifact has to agree with.
TurnOK(s) ==
    /\ s.response # None => s.phase = "settled"
    /\ s.outcome = "turn_final" =>
           s.phase = "settled" /\ s.recovery = "clear" /\ s.native # None
    /\ s.outcome = "turn_definite_non_start" => s.phase = "settled"

Typed ==
    /\ turn \in Maybe(TurnStates)
    /\ turn # None => TurnOK(turn)
    /\ files \in disk /\ disk \subseteq Dirs
    /\ publisher \in Maybe(Publishers)
    /\ published \subseteq Frames

\* Before the turn is prepared there is nothing but the lane.
NoTurnOK ==
    turn = None =>
        publisher = None /\ published = {} /\ \A d \in disk : ~HasArtifact(d)

PublisherOK ==
    publisher # None =>
        /\ turn.dispatch # None /\ turn.phase # "settled"
        /\ published = {}
        /\ publisher.pc # "barrier" =>
               /\ files.stage # None
               /\ files.stage.authority = publisher.frame
               /\ \A d \in disk : d.capsule = None
        /\ publisher.pc = "barrier" =>
               /\ files.capsule # None
               /\ files.capsule.authority = publisher.frame

OneCapsule ==
    \A c, d \in disk :
        c.capsule # None /\ d.capsule # None =>
            c.capsule.authority = d.capsule.authority

FinalsOK ==
    \A h \in history : h.type = "final" =>
        /\ turn # None /\ turn.response # None
        /\ \A d \in disk :
               /\ d.capsule # None
               /\ h = Event("final", d.capsule.authority, None)

SettledOK ==
    turn # None =>
        /\ turn.phase = "settled" => \A d \in disk : d.stage = None
        /\ turn.outcome = "turn_final" =>
               \A d \in disk :
                   /\ d.capsule # None
                   /\ FinalReplayed(turn, d.capsule.authority)
                   /\ Event("final", d.capsule.authority, None) \in history

IInv ==
    /\ Typed /\ NoTurnOK /\ PublisherOK /\ OneCapsule /\ FinalsOK
    /\ SettledOK
    /\ ArtifactsFollowDispatch /\ SettledResponseIsPublished /\ PublishedStays
----------------------------------------------------------------------------
(* The reducer, one event type at a time.                                  *)

Kept(s, t) ==
    /\ t \in TurnStates /\ TurnOK(t)
    /\ s.dispatch # None => t.dispatch = s.dispatch
    /\ t.response = s.response
    /\ s.response # None =>
           t.head = s.head /\ t.turn_id = s.turn_id /\ t.native = s.native

\* A step that brings the turn no nearer to its outcome.
Quiet(s, t) ==
    /\ Kept(s, t)
    /\ (t.phase = "settled") = (s.phase = "settled")
    /\ t.outcome = "turn_final" => t = s
    /\ t.outcome = "turn_definite_non_start" =>
           s.outcome = "turn_definite_non_start"

\* The literals the handlers assign belong to their types.
LEMMA Values ==
  /\ \A p \in {"prepared", "dispatching", "in_flight", "validating", "settled"} :
        p \in Phases
  /\ \A r \in {"clear", "reconciliation_required", "quarantined"} :
        r \in RecoveryStates
  /\ \A p \in {"attempt_only", "consultant_turn"} : p \in Promotions
  /\ \A r \in {"none", "safe_retry_eligible", "reconcile_first"} :
        r \in RetryDispositions
  /\ \A r \in {"not_counted", "held", "counted", "released"} :
        r \in ReservationStates
  /\ \A o \in {"delivery_uncertain", "turn_definite_non_start", "turn_final",
               "turn_quarantined", "turn_reconciliation_required", None} :
        o \in Maybe(Outcomes)
BY DEF Phases, RecoveryStates, Promotions, RetryDispositions,
       ReservationStates, Outcomes, Maybe

\* None stands for no outcome.
LEMMA OutcomesAreThere == \A o \in Outcomes : o # None
BY NoneIsFresh

LEMMA HelperTypes ==
  ASSUME NEW s \in TurnStates, NEW p \in Phases
  PROVE  /\ Later(s.phase, p) \in Phases
         /\ ReserveStarted(s.reservation) \in ReservationStates
         /\ ReserveNonStart(s.reservation) \in ReservationStates
BY Values DEF Later, ReserveStarted, ReserveNonStart, TurnStates

LEMMA UnchangedQuiet ==
  ASSUME NEW s \in TurnStates, TurnOK(s)
  PROVE  Quiet(s, s)
BY DEF Quiet, Kept

LEMMA QuarantineQuiet ==
  ASSUME NEW s \in TurnStates, TurnOK(s)
  PROVE  Quiet(s, Quarantine(s)) /\ Quiet(s, QuarantineAfterEffect(s))
<1>1. Quarantine(s) \in TurnStates
  BY Values DEF TurnStates, Quarantine
<1>2. QuarantineAfterEffect(s) \in TurnStates
  BY <1>1 DEF TurnStates, QuarantineAfterEffect
<1>3. Quiet(s, Quarantine(s))
  BY <1>1 DEF TurnStates, Quarantine, Quiet, Kept, TurnOK
<1>4. Quiet(s, QuarantineAfterEffect(s))
  BY <1>2 DEF TurnStates, Quarantine, QuarantineAfterEffect, Quiet, Kept, TurnOK
<1> QED BY <1>3, <1>4

LEMMA PreparedQuiet ==
  ASSUME NEW e \in PrepareEvents
  PROVE  /\ Prepared(e) \in TurnStates /\ TurnOK(Prepared(e))
         /\ Prepared(e).outcome = None /\ Prepared(e).response = None
         /\ Prepared(e).phase = "prepared"
<1>1. Prepared(e) \in TurnStates
  BY Values DEF TurnStates, Prepared, PrepareEvents, Maybe
<1>2. None # "turn_final" /\ None # "turn_definite_non_start"
  BY OutcomesAreThere DEF Outcomes
<1> QED BY <1>1, <1>2 DEF Prepared, TurnOK

LEMMA DispatchQuiet ==
  ASSUME NEW s \in TurnStates, TurnOK(s), NEW e \in DispatchEvents,
         DispatchAdmitted(s, e)
  PROVE  Quiet(s, DispatchReduced(s, e))
<1> DEFINE t == DispatchReduced(s, e)
<1>1. CASE s.dispatch # None
  BY <1>1, UnchangedQuiet DEF DispatchReduced
<1>2. CASE s.dispatch = None
  <2>1. e.intent \in DispatchIntents /\ e.intent # None
    BY NoneIsFresh DEF DispatchEvents
  <2>2. s.phase = "prepared" /\ s.outcome = None
    BY <1>2, <2>1 DEF DispatchAdmitted
  <2>3. t \in TurnStates
    <3>1. "dispatching" \in Phases /\ e.intent \in Maybe(DispatchIntents)
      BY <2>1, Values DEF Maybe
    <3> QED BY <1>2, <3>1, HelperTypes DEF DispatchReduced, TurnStates
  <2>4. None # "turn_final" /\ None # "turn_definite_non_start"
    BY OutcomesAreThere DEF Outcomes
  <2> QED BY <1>2, <2>2, <2>3, <2>4
          DEF TurnStates, DispatchReduced, Later, PhaseRank, Quiet, Kept, TurnOK
<1> QED BY <1>1, <1>2

LEMMA UncertainQuiet ==
  ASSUME NEW s \in TurnStates, TurnOK(s), NEW e \in ObservationEvents,
         UncertainAdmitted(s, e)
  PROVE  Quiet(s, UncertainReduced(s, e))
<1> DEFINE t == UncertainReduced(s, e)
<1>1. CASE s.recovery = "quarantined"
  BY <1>1, UnchangedQuiet DEF UncertainReduced
<1>2. CASE s.recovery # "quarantined"
  <2>1. t \in TurnStates
    <3>1. "dispatching" \in Phases
      BY Values
    <3> QED BY <1>2, <3>1, HelperTypes, Values DEF UncertainReduced, TurnStates
  <2> QED BY <1>2, <2>1
          DEF TurnStates, UncertainReduced, UncertainAdmitted, Later, Quiet,
          Kept, TurnOK
<1> QED BY <1>1, <1>2

LEMMA WaitTimeoutQuiet ==
  ASSUME NEW s \in TurnStates, TurnOK(s), NEW e \in ObservationEvents,
         WaitTimeoutAdmitted(s, e)
  PROVE  Quiet(s, WaitTimeoutReduced(s, e))
<1> DEFINE t == WaitTimeoutReduced(s, e)
<1>1. CASE s.recovery = "quarantined"
  BY <1>1, UnchangedQuiet DEF WaitTimeoutReduced
<1>2. CASE s.recovery # "quarantined"
  <2>1. t \in TurnStates
    BY <1>2, Values DEF WaitTimeoutReduced, TurnStates
  <2> QED BY <1>2, <2>1
          DEF TurnStates, WaitTimeoutReduced, WaitTimeoutAdmitted, Quiet, Kept,
          TurnOK
<1> QED BY <1>1, <1>2

LEMMA ConflictQuiet ==
  ASSUME NEW s \in TurnStates, TurnOK(s), NEW e \in ObservationEvents
  PROVE  Quiet(s, ConflictReduced(s, e))
BY UnchangedQuiet, QuarantineQuiet DEF ConflictReduced

LEMMA StartedQuiet ==
  ASSUME NEW s \in TurnStates, TurnOK(s), NEW e \in StartedEvents,
         StartedAdmitted(s, e)
  PROVE  Quiet(s, StartedReduced(s, e))
<1> DEFINE t == StartedReduced(s, e)
           Kinds == \/ s.recovery = "quarantined" \/ ~StartedCorrelates(s, e)
                    \/ s.promotion = "consultant_turn" \/ s.phase = "settled"
<1>1. CASE Kinds
  <2>1. t \in {s, Quarantine(s), QuarantineAfterEffect(s)}
    BY <1>1 DEF StartedReduced
  <2> QED BY <2>1, UnchangedQuiet, QuarantineQuiet
<1>2. CASE ~Kinds
  <2>1. t \in TurnStates
    <3>1. e.turn_id \in Maybe(TurnIds) /\ e.native \in Maybe(Natives)
      BY DEF StartedEvents, Maybe
    <3>2. Later(s.phase, "in_flight") \in Phases
      BY Values, HelperTypes
    <3>3. ReserveStarted(s.reservation) \in ReservationStates
      BY Values, HelperTypes
    <3> DEFINE again == s.recovery = "reconciliation_required"
               outcome == IF again THEN "turn_reconciliation_required" ELSE None
               retry == IF again THEN "reconcile_first" ELSE "none"
    <3>4. outcome \in Maybe(Outcomes) /\ retry \in RetryDispositions
      BY Values
    <3> DEFINE u == [s EXCEPT !.phase = Later(@, "in_flight"),
                              !.promotion = "consultant_turn",
                              !.reservation = ReserveStarted(@),
                              !.outcome = outcome, !.retry = retry]
    <3>5. t = [u EXCEPT !.turn_id = e.turn_id, !.native = e.native,
                        !.effect_observed = TRUE, !.release_allowed = FALSE]
      BY <1>2 DEF StartedReduced
    <3> HIDE DEF t, outcome, retry
    <3>6. u \in TurnStates
      BY <3>2, <3>3, <3>4, Values DEF TurnStates
    <3> HIDE DEF u
    <3> QED BY <3>1, <3>5, <3>6 DEF TurnStates
  <2>2. None # "turn_final" /\ None # "turn_definite_non_start"
    BY OutcomesAreThere DEF Outcomes
  <2>3. t.outcome # "turn_final" /\ t.outcome # "turn_definite_non_start"
    BY <1>2, <2>2 DEF TurnStates, StartedReduced
  <2>4. /\ t.phase # "settled" /\ t.dispatch = s.dispatch
        /\ t.response = s.response
    BY <1>2 DEF TurnStates, StartedReduced, Later
  <2> QED BY <1>2, <2>1, <2>3, <2>4 DEF Quiet, Kept, TurnOK
<1> QED BY <1>1, <1>2

\* A definite non-start is quiet, or settles an attempt without a response.
LEMMA NonStartSettles ==
  ASSUME NEW s \in TurnStates, TurnOK(s), NEW e \in ObservationEvents
  PROVE  LET t == NonStartReduced(s, e) IN
         \/ Quiet(s, t)
         \/ Kept(s, t) /\ t.response = None /\ t.outcome # "turn_final"
<1> DEFINE t == NonStartReduced(s, e)
<1>1. CASE t \in {s, Quarantine(s)}
  BY <1>1, UnchangedQuiet, QuarantineQuiet
<1>2. CASE t \notin {s, Quarantine(s)}
  <2>1. s.phase # "settled"
    BY <1>2 DEF NonStartReduced
  <2>2. t \in TurnStates
    BY <1>2, HelperTypes, Values DEF NonStartReduced, TurnStates
  <2>3. /\ t.phase = "settled" /\ t.outcome = "turn_definite_non_start"
        /\ t.dispatch = s.dispatch /\ t.response = s.response
    BY <1>2 DEF NonStartReduced, TurnStates
  <2> QED BY <2>1, <2>2, <2>3 DEF Kept, TurnOK
<1> QED BY <1>1, <1>2

\* A frame that settles the turn either did so before or does so now.
LEMMA FinalSettles ==
  ASSUME NEW s \in TurnStates, TurnOK(s), NEW f \in Frames,
         FinalReduced(s, f).recovery # "quarantined",
         FinalReduced(s, f).outcome = "turn_final"
  PROVE  LET t == FinalReduced(s, f) IN
         /\ t \in TurnStates /\ TurnOK(t)
         /\ t.dispatch = s.dispatch
         /\ t.phase = "settled" /\ t.response # None
         /\ FinalReplayed(t, f)
         /\ t.response = f.response /\ t.head = f.new_head
         /\ t.turn_id = f.turn_id /\ t.native = f.native
         /\ s.response # None => t = s
<1> DEFINE t == FinalReduced(s, f)
<1>0. /\ f \in FinalEvents /\ f.complete
      /\ f.turn_id \in TurnIds /\ f.native \in Natives
      /\ f.response \in Responses /\ f.new_head \in Heads
  BY DEF Frames, FinalEvents
<1>1. f.response # None /\ f.native # None
  BY <1>0, NoneIsFresh
<1>2. s.recovery # "quarantined" /\ Quarantine(s).recovery = "quarantined"
  BY DEF FinalReduced, Quarantine, TurnStates
<1>3. CASE FinalReplayed(s, f)
  <2>1. t = s
    BY <1>3 DEF FinalReduced
  <2>2. s.native = f.native
    <3>1. s.native \in {None, f.native} /\ s.outcome = "turn_final"
      BY <1>3 DEF FinalReplayed, FinalCorrelates, NativeCorrelates
    <3> QED BY <3>1 DEF TurnOK
  <2> QED BY <1>1, <1>3, <2>1, <2>2 DEF FinalReplayed
<1>4. CASE ~FinalReplayed(s, f)
  <2>1. FinalCorrelates(s, f) /\ s.phase # "settled"
        /\ f.new_head # s.admitted.expected_head
    BY <1>0, <1>2, <1>4 DEF FinalReduced
  <2>2. t \in TurnStates
    <3>1. /\ f.turn_id \in Maybe(TurnIds) /\ f.native \in Maybe(Natives)
          /\ f.response \in Maybe(Responses)
      BY <1>0 DEF Maybe
    <3>2. "settled" \in Phases /\ ReserveStarted(s.reservation) \in ReservationStates
      BY Values, HelperTypes
    <3> DEFINE u == [s EXCEPT !.phase = "settled", !.recovery = "clear",
                              !.promotion = "consultant_turn",
                              !.reservation = ReserveStarted(@),
                              !.retry = "none", !.outcome = "turn_final"]
    <3>3. t = [u EXCEPT !.head = f.new_head, !.response = f.response,
                        !.turn_id = f.turn_id, !.native = f.native,
                        !.effect_observed = TRUE, !.release_allowed = TRUE]
      BY <1>0, <1>2, <1>4, <2>1 DEF FinalReduced
    <3> HIDE DEF t
    <3>4. u \in TurnStates
      BY <3>2, Values DEF TurnStates
    <3> HIDE DEF u
    <3> QED BY <1>0, <3>1, <3>3, <3>4 DEF TurnStates
  <2>3. /\ t.phase = "settled" /\ t.recovery = "clear"
        /\ t.outcome = "turn_final" /\ t.head = f.new_head
        /\ t.response = f.response /\ t.turn_id = f.turn_id
        /\ t.native = f.native /\ t.dispatch = s.dispatch
        /\ t.admitted = s.admitted
    BY <1>0, <1>2, <1>4, <2>1 DEF FinalReduced, TurnStates
  <2>4. FinalReplayed(t, f)
    BY <1>0, <2>1, <2>3 DEF FinalReplayed, FinalCorrelates, NativeCorrelates
  <2>5. s.response = None
    BY <2>1 DEF TurnOK
  <2> QED BY <1>1, <2>2, <2>3, <2>4, <2>5 DEF TurnOK
<1> QED BY <1>3, <1>4
----------------------------------------------------------------------------
(* Steps that only commit an event.                                        *)

\* Syncing the names rules values out, and the files are not one of them.
LEMMA NamesSynced ==
  ASSUME IInv, SyncNames
  PROVE  /\ files' = files /\ disk' \subseteq disk /\ files \in disk'
         /\ \A d \in disk' : /\ (d.stage = None) = (files.stage = None)
                             /\ (d.capsule = None) = (files.capsule = None)
BY DEF SyncNames, Named, IInv, Typed

QuietStep ==
    /\ publisher = None /\ SyncNames /\ UNCHANGED <<publisher, published>>
    /\ history \subseteq history'
    /\ \A h \in history' : h.type = "final" => h \in history
    /\ Quiet(turn, turn')

LEMMA QuietStepKeeps == IInv /\ turn # None /\ QuietStep => IInv'
<1> SUFFICES ASSUME IInv, turn # None, QuietStep PROVE IInv'
  OBVIOUS
<1>1. /\ turn' \in TurnStates /\ TurnOK(turn') /\ turn' # None
      /\ turn.dispatch # None => turn'.dispatch = turn.dispatch
      /\ turn'.response = turn.response
      /\ turn.response # None =>
             /\ turn'.head = turn.head /\ turn'.turn_id = turn.turn_id
             /\ turn'.native = turn.native
      /\ turn'.phase = "settled" => turn.phase = "settled"
      /\ turn'.outcome = "turn_final" => turn' = turn
      /\ turn'.outcome = "turn_definite_non_start" =>
             turn.outcome = "turn_definite_non_start"
  BY NoneIsNoRecord DEF QuietStep, Quiet, Kept
<1>2. /\ files' = files /\ disk' \subseteq disk /\ files \in disk'
      /\ publisher = None /\ publisher' = None /\ published' = published
      /\ history \subseteq history'
      /\ \A h \in history' : h.type = "final" => h \in history
  BY NamesSynced DEF QuietStep
<1>3. Typed'
  BY <1>1, <1>2 DEF IInv, Typed, Maybe
<1>4. NoTurnOK' /\ PublisherOK' /\ OneCapsule'
  BY <1>1, <1>2 DEF IInv, NoTurnOK, PublisherOK, OneCapsule
<1>5. FinalsOK'
  BY <1>1, <1>2 DEF IInv, FinalsOK, Event
<1>6. SettledOK'
  <2>1. ASSUME NEW d \in disk', turn'.phase = "settled"
        PROVE  d.stage = None
    BY <1>1, <1>2, <2>1 DEF IInv, SettledOK
  <2>2. ASSUME NEW d \in disk', turn'.outcome = "turn_final"
        PROVE  /\ d.capsule # None
               /\ FinalReplayed(turn', d.capsule.authority)
               /\ Event("final", d.capsule.authority, None) \in history'
    BY <1>1, <1>2, <2>2 DEF IInv, SettledOK
  <2>3. SUFFICES
          /\ turn'.phase = "settled" => \A d \in disk' : d.stage = None
          /\ turn'.outcome = "turn_final" =>
                 \A d \in disk' :
                     /\ d.capsule # None
                     /\ FinalReplayed(turn', d.capsule.authority)
                     /\ Event("final", d.capsule.authority, None) \in history'
    BY DEF SettledOK, FinalReplayed, FinalCorrelates, NativeCorrelates, Event
  <2> QED BY <2>1, <2>2
<1>7. ArtifactsFollowDispatch'
  BY <1>1, <1>2 DEF IInv, ArtifactsFollowDispatch, HasArtifact
<1>8. SettledResponseIsPublished'
  BY <1>1, <1>2 DEF IInv, SettledResponseIsPublished, Readable
<1>9. PublishedStays'
  BY <1>2 DEF IInv, PublishedStays
<1> QED BY <1>3, <1>4, <1>5, <1>6, <1>7, <1>8, <1>9 DEF IInv

\* A commit that is admitted only where its event is quiet is a quiet step.
LEMMA CommitQuiet ==
  ASSUME IInv, turn # None, publisher = None, SyncNames,
         UNCHANGED <<publisher, published>>,
         NEW event, NEW admitted \in BOOLEAN, NEW reduced,
         event.type # "final",
         Commit(event, admitted, reduced),
         admitted => Quiet(turn, reduced)
  PROVE  QuietStep
<1>1. turn \in TurnStates /\ TurnOK(turn)
  BY DEF IInv, Typed, Maybe
<1>2. Quiet(turn, turn)
  BY <1>1, UnchangedQuiet
<1> QED BY <1>2 DEF Commit, QuietStep

LEMMA PrepareStep == IInv /\ Prepare => IInv'
<1> SUFFICES ASSUME IInv, Prepare PROVE IInv'
  OBVIOUS
<1>0. PICK e \in PrepareEvents :
          Apply(Event("prepare", e, None),
                PrepareAdmitted(turn, e), PrepareReduced(turn, e))
  BY DEF Prepare
<1>1. /\ publisher = None /\ SyncNames
      /\ UNCHANGED <<publisher, published, failures>>
      /\ Commit(Event("prepare", e, None),
                PrepareAdmitted(turn, e), PrepareReduced(turn, e))
  BY <1>0 DEF Apply
<1>2. Event("prepare", e, None).type # "final"
  BY DEF Event
<1>3. CASE turn # None
  <2>1. turn \in TurnStates /\ TurnOK(turn)
    BY <1>3 DEF IInv, Typed, Maybe
  <2>2. Quiet(turn, turn)
    BY <2>1, UnchangedQuiet
  <2>3. turn' = turn
    BY <1>1, <1>3 DEF Commit, PrepareReduced
  <2>4. QuietStep
    BY <1>1, <1>2, <2>2, <2>3 DEF Commit, QuietStep
  <2> QED BY <1>3, <2>4, QuietStepKeeps
<1>4. CASE turn = None
  <2>1. /\ files' = files /\ disk' \subseteq disk /\ files \in disk'
        /\ publisher' = None /\ published' = {} /\ published = {}
        /\ \A d \in disk' : d.stage = None /\ d.capsule = None
    BY <1>1, <1>4, NamesSynced DEF IInv, NoTurnOK, HasArtifact
  <2>2. \A h \in history' : h.type # "final"
    BY <1>1, <1>2, <1>4 DEF Commit, IInv, FinalsOK
  <2>3. \/ turn' = None
        \/ /\ turn' \in TurnStates /\ TurnOK(turn')
           /\ turn'.outcome = None /\ turn'.response = None
           /\ turn'.phase = "prepared"
    BY <1>1, <1>4, PreparedQuiet DEF Commit, PrepareReduced
  <2>4. None # "turn_final" /\ None # "turn_definite_non_start"
    BY OutcomesAreThere DEF Outcomes
  <2>5. Typed'
    BY <2>1, <2>3 DEF IInv, Typed, Maybe
  <2>6. /\ NoTurnOK' /\ PublisherOK' /\ OneCapsule' /\ FinalsOK'
        /\ SettledOK'
    BY <2>1, <2>2, <2>3, <2>4
       DEF NoTurnOK, PublisherOK, OneCapsule, FinalsOK, SettledOK, HasArtifact
  <2>7. /\ ArtifactsFollowDispatch' /\ SettledResponseIsPublished'
        /\ PublishedStays'
    BY <2>1, <2>3 DEF ArtifactsFollowDispatch, HasArtifact,
       SettledResponseIsPublished, PublishedStays
  <2> QED BY <2>5, <2>6, <2>7 DEF IInv
<1> QED BY <1>3, <1>4

\* The turn a handler is given.
LEMMA TurnTyped ==
  ASSUME IInv, turn # None
  PROVE  turn \in TurnStates /\ TurnOK(turn)
BY DEF IInv, Typed, Maybe

LEMMA EventsAreNoFinal ==
  ASSUME NEW type, NEW e, NEW evidence, type # "final"
  PROVE  Event(type, e, evidence).type # "final"
BY DEF Event

LEMMA BeginDispatchStep == IInv /\ BeginDispatch => IInv'
<1> SUFFICES ASSUME IInv, BeginDispatch PROVE IInv'
  OBVIOUS
<1>0. PICK e \in DispatchEvents :
          /\ turn # None
          /\ Apply(Event("dispatch", e, None),
                   DispatchAdmitted(turn, e), DispatchReduced(turn, e))
  BY DEF BeginDispatch
<1>1. DispatchAdmitted(turn, e) => Quiet(turn, DispatchReduced(turn, e))
  BY <1>0, TurnTyped, DispatchQuiet
<1>2. DispatchAdmitted(turn, e) \in BOOLEAN
  BY DEF DispatchAdmitted
<1>3. QuietStep
  BY <1>0, <1>1, <1>2, CommitQuiet, EventsAreNoFinal DEF Apply
<1> QED BY <1>0, <1>3, QuietStepKeeps

LEMMA UncertainStep == IInv /\ DeliveryUncertain => IInv'
<1> SUFFICES ASSUME IInv, DeliveryUncertain PROVE IInv'
  OBVIOUS
<1>0. PICK e \in ObservationEvents, evidence \in Evidence :
          /\ turn # None
          /\ Apply(Event("uncertain", e, evidence),
                   UncertainAdmitted(turn, e), UncertainReduced(turn, e))
  BY DEF DeliveryUncertain
<1>1. UncertainAdmitted(turn, e) => Quiet(turn, UncertainReduced(turn, e))
  BY <1>0, TurnTyped, UncertainQuiet
<1>2. UncertainAdmitted(turn, e) \in BOOLEAN
  BY DEF UncertainAdmitted
<1>3. QuietStep
  BY <1>0, <1>1, <1>2, CommitQuiet, EventsAreNoFinal DEF Apply
<1> QED BY <1>0, <1>3, QuietStepKeeps

LEMMA StartedStep == IInv /\ ProviderStarted => IInv'
<1> SUFFICES ASSUME IInv, ProviderStarted PROVE IInv'
  OBVIOUS
<1>0. PICK e \in StartedEvents, evidence \in Evidence :
          /\ turn # None
          /\ Apply(Event("started", e, evidence),
                   StartedAdmitted(turn, e), StartedReduced(turn, e))
  BY DEF ProviderStarted
<1>1. StartedAdmitted(turn, e) => Quiet(turn, StartedReduced(turn, e))
  BY <1>0, TurnTyped, StartedQuiet
<1>2. StartedAdmitted(turn, e) \in BOOLEAN
  BY DEF StartedAdmitted
<1>3. QuietStep
  BY <1>0, <1>1, <1>2, CommitQuiet, EventsAreNoFinal DEF Apply
<1> QED BY <1>0, <1>3, QuietStepKeeps

LEMMA WaitTimeoutStep == IInv /\ WaitTimeout => IInv'
<1> SUFFICES ASSUME IInv, WaitTimeout PROVE IInv'
  OBVIOUS
<1>0. PICK e \in ObservationEvents, evidence \in Evidence :
          /\ turn # None
          /\ Apply(Event("timeout", e, evidence),
                   WaitTimeoutAdmitted(turn, e), WaitTimeoutReduced(turn, e))
  BY DEF WaitTimeout
<1>1. WaitTimeoutAdmitted(turn, e) => Quiet(turn, WaitTimeoutReduced(turn, e))
  BY <1>0, TurnTyped, WaitTimeoutQuiet
<1>2. WaitTimeoutAdmitted(turn, e) \in BOOLEAN
  BY DEF WaitTimeoutAdmitted
<1>3. QuietStep
  BY <1>0, <1>1, <1>2, CommitQuiet, EventsAreNoFinal DEF Apply
<1> QED BY <1>0, <1>3, QuietStepKeeps

LEMMA ConflictStep == IInv /\ ResponseConflict => IInv'
<1> SUFFICES ASSUME IInv, ResponseConflict PROVE IInv'
  OBVIOUS
<1>0. PICK e \in ObservationEvents, evidence \in Evidence :
          /\ turn # None
          /\ Apply(Event("conflict", e, evidence),
                   ConflictAdmitted(turn, e), ConflictReduced(turn, e))
  BY DEF ResponseConflict
<1>1. ConflictAdmitted(turn, e) => Quiet(turn, ConflictReduced(turn, e))
  BY <1>0, TurnTyped, ConflictQuiet
<1>2. ConflictAdmitted(turn, e) \in BOOLEAN
  BY DEF ConflictAdmitted
<1>3. QuietStep
  BY <1>0, <1>1, <1>2, CommitQuiet, EventsAreNoFinal DEF Apply
<1> QED BY <1>0, <1>3, QuietStepKeeps

\* The conflict a publication reports is about the attempt of the turn.
LEMMA OwnObservation ==
  ASSUME IInv, turn # None
  PROVE  [op |-> turn.admitted.op] \in ObservationEvents
BY TurnTyped DEF TurnStates, PrepareEvents, ObservationEvents

LEMMA PublishConflictingStep ==
  ASSUME NEW f \in Frames
  PROVE  IInv /\ PublishConflicting(f) => IInv'
<1> SUFFICES ASSUME IInv, PublishConflicting(f) PROVE IInv'
  OBVIOUS
<1> DEFINE e == [op |-> turn.admitted.op]
<1>0. /\ turn # None /\ publisher = None /\ SyncNames
      /\ UNCHANGED <<publisher, published, failures>>
      /\ \E evidence \in Evidence :
            Commit(Event("conflict", e, evidence),
                   ConflictAdmitted(turn, e), ConflictReduced(turn, e))
  BY DEF PublishConflicting, MayPublish
<1>1. e \in ObservationEvents
  BY <1>0, OwnObservation
<1> HIDE DEF e
<1>2. PICK evidence \in Evidence :
          Commit(Event("conflict", e, evidence),
                 ConflictAdmitted(turn, e), ConflictReduced(turn, e))
  BY <1>0
<1>3. ConflictAdmitted(turn, e) => Quiet(turn, ConflictReduced(turn, e))
  BY <1>0, <1>1, TurnTyped, ConflictQuiet
<1>4. ConflictAdmitted(turn, e) \in BOOLEAN
  BY DEF ConflictAdmitted
<1>5. QuietStep
  BY <1>0, <1>2, <1>3, <1>4, CommitQuiet, EventsAreNoFinal
<1> QED BY <1>0, <1>5, QuietStepKeeps

LEMMA NonStartStep == IInv /\ DefiniteNonStart => IInv'
<1> SUFFICES ASSUME IInv, DefiniteNonStart PROVE IInv'
  OBVIOUS
<1>0. PICK e \in ObservationEvents, evidence \in Evidence :
          /\ turn # None /\ ~HasArtifact(files)
          /\ Apply(Event("non_start", e, evidence),
                   NonStartAdmitted(turn, e), NonStartReduced(turn, e))
  BY DEF DefiniteNonStart
<1> DEFINE t == NonStartReduced(turn, e)
           event == Event("non_start", e, evidence)
<1>1. /\ publisher = None /\ SyncNames
      /\ UNCHANGED <<publisher, published, failures>>
      /\ Commit(event, NonStartAdmitted(turn, e), t)
  BY <1>0 DEF Apply
<1>2. event.type # "final"
  BY EventsAreNoFinal
<1>3. turn \in TurnStates /\ TurnOK(turn)
  BY <1>0, TurnTyped
<1>4. \/ Quiet(turn, t)
      \/ Kept(turn, t) /\ t.response = None /\ t.outcome # "turn_final"
  BY <1>3, NonStartSettles
<1> HIDE DEF t, event
<1>5. CASE turn' = turn \/ Quiet(turn, t)
  <2>1. Quiet(turn, turn)
    BY <1>3, UnchangedQuiet
  <2>2. QuietStep
    BY <1>1, <1>2, <1>5, <2>1 DEF Commit, QuietStep
  <2> QED BY <1>0, <2>2, QuietStepKeeps
<1>6. CASE turn' # turn /\ ~Quiet(turn, t)
  <2>1. /\ turn' \in TurnStates /\ TurnOK(turn') /\ turn' # None
        /\ turn'.response = None /\ turn.response = None
        /\ turn'.outcome # "turn_final"
    BY <1>1, <1>4, <1>6, NoneIsNoRecord DEF Commit, Kept
  <2>2. /\ files' = files /\ disk' \subseteq disk /\ files \in disk'
        /\ publisher' = None /\ published' = published
        /\ \A d \in disk' : d.stage = None /\ d.capsule = None
    BY <1>0, <1>1, NamesSynced DEF HasArtifact
  <2>3. \A h \in history' : h.type # "final"
    BY <1>1, <1>2, <2>1 DEF Commit, IInv, FinalsOK
  <2>4. Typed'
    BY <2>1, <2>2 DEF IInv, Typed, Maybe
  <2>5. /\ NoTurnOK' /\ PublisherOK' /\ OneCapsule' /\ FinalsOK'
        /\ SettledOK'
    BY <2>1, <2>2, <2>3
       DEF NoTurnOK, PublisherOK, OneCapsule, FinalsOK, SettledOK
  <2>6. /\ ArtifactsFollowDispatch' /\ SettledResponseIsPublished'
        /\ PublishedStays'
    BY <2>1, <2>2 DEF IInv, ArtifactsFollowDispatch, HasArtifact,
       SettledResponseIsPublished, PublishedStays
  <2> QED BY <2>4, <2>5, <2>6 DEF IInv
<1> QED BY <1>5, <1>6
----------------------------------------------------------------------------
(* Publication and settlement.                                             *)

\* A turn that is not settled has no response and no final is committed; it
\* has no outcome an artifact has to agree with.
LEMMA UnsettledTurn ==
  ASSUME IInv, turn # None, turn.phase # "settled"
  PROVE  /\ turn.response = None
         /\ turn.outcome # "turn_final"
         /\ turn.outcome # "turn_definite_non_start"
         /\ \A h \in history : h.type # "final"
BY TurnTyped DEF TurnOK, IInv, FinalsOK

\* While a turn is not settled its artifacts are only asked to be there one
\* at a time, and to hold what was reported as published.
LEMMA UnsettledFiles ==
  ASSUME IInv, turn # None, turn.phase # "settled", turn.dispatch # None,
         UNCHANGED <<turn, history>>,
         files' \in disk', disk' \subseteq Dirs,
         \A d \in disk' : d.stage = None \/ d.capsule = None,
         publisher' \in Maybe(Publishers), published' \subseteq Frames,
         PublishedStays', PublisherOK', OneCapsule'
  PROVE  IInv'
<1>1. /\ turn.response = None
      /\ turn.outcome # "turn_final"
      /\ turn.outcome # "turn_definite_non_start"
      /\ \A h \in history : h.type # "final"
  BY UnsettledTurn
<1>2. Typed'
  BY DEF IInv, Typed
<1>3. NoTurnOK' /\ FinalsOK' /\ SettledOK'
  BY <1>1 DEF NoTurnOK, FinalsOK, SettledOK
<1>4. ArtifactsFollowDispatch' /\ SettledResponseIsPublished'
  BY <1>1 DEF ArtifactsFollowDispatch, SettledResponseIsPublished
<1> QED BY <1>2, <1>3, <1>4 DEF IInv

LEMMA PhasesApart ==
  ASSUME MayPublish
  PROVE  turn # None /\ turn.dispatch # None /\ turn.phase # "settled"
BY DEF MayPublish

\* No record is None.
LEMMA RecordsAreThere ==
  /\ \A c \in Capsules : c # None
  /\ \A p \in Publishers : p # None
BY NoneIsNoRecord

\* The capsule of the files is taken to be synced.
LEMMA CapsuleSynced ==
  ASSUME NEW d \in Dirs, d.capsule # None
  PROVE  LET new == [d EXCEPT !.capsule.frame = "whole",
                              !.capsule.receipt = "whole"] IN
         /\ new \in Dirs /\ new.stage = d.stage
         /\ new.capsule = [authority |-> d.capsule.authority,
                           frame |-> "whole", receipt |-> "whole"]
         /\ new.capsule # None /\ d.capsule.authority \in Frames
<1> DEFINE capsule == [authority |-> d.capsule.authority,
                       frame |-> "whole", receipt |-> "whole"]
           new == [d EXCEPT !.capsule.frame = "whole",
                            !.capsule.receipt = "whole"]
<1>1. d = [stage |-> d.stage, capsule |-> d.capsule]
      /\ d.stage \in Maybe(Capsules) /\ d.capsule \in Capsules
  BY DEF Dirs, Maybe
<1>2. capsule \in Capsules /\ d.capsule.authority \in Frames
  BY <1>1 DEF Capsules, FileStates
<1>3. [[d.capsule EXCEPT !.frame = "whole"] EXCEPT !.receipt = "whole"]
          = capsule
  <2>1. ASSUME NEW c \in Capsules
        PROVE  [[c EXCEPT !.frame = "whole"] EXCEPT !.receipt = "whole"]
                   = [authority |-> c.authority, frame |-> "whole",
                      receipt |-> "whole"]
    <3>1. PICK a \in Frames, f \in FileStates, r \in FileStates :
              c = [authority |-> a, frame |-> f, receipt |-> r]
      BY DEF Capsules
    <3>2. c.authority = a
      BY <3>1
    <3>3. [c EXCEPT !.frame = "whole"] =
              [authority |-> a, frame |-> "whole", receipt |-> r]
      BY ONLY <3>1
    <3>4. [[authority |-> a, frame |-> "whole", receipt |-> r]
               EXCEPT !.receipt = "whole"] =
              [authority |-> a, frame |-> "whole", receipt |-> "whole"]
      OBVIOUS
    <3> QED BY <3>2, <3>3, <3>4
  <2> QED BY <1>1, <2>1
<1> HIDE DEF capsule
<1>4. new.stage = d.stage /\ new.capsule = capsule
      /\ new = [stage |-> d.stage, capsule |-> capsule]
  <2>1. new = [d EXCEPT !.capsule =
                  [[@ EXCEPT !.frame = "whole"] EXCEPT !.receipt = "whole"]]
    BY <1>1
  <2>2. new = [d EXCEPT !.capsule = capsule]
    BY <1>3, <2>1
  <2> HIDE DEF new
  <2> QED BY <1>1, <2>2
<1>5. capsule # None
  BY <1>2, RecordsAreThere
<1> HIDE DEF new
<1>6. new \in Dirs
  BY <1>1, <1>2, <1>4 DEF Dirs, Maybe
<1> QED BY <1>2, <1>4, <1>5, <1>6 DEF capsule, new

LEMMA PublishAgainStep ==
  ASSUME NEW f \in Frames
  PROVE  IInv /\ PublishAgain(f) => IInv'
<1> SUFFICES ASSUME IInv, PublishAgain(f) PROVE IInv'
  OBVIOUS
<1>1. /\ turn # None /\ turn.dispatch # None /\ turn.phase # "settled"
      /\ publisher' = None /\ UNCHANGED <<turn, history>>
      /\ SyncCapsule /\ files \in disk /\ files \in Dirs
      /\ files.capsule # None /\ files.capsule.authority = f
      /\ published' = published \cup {f}
  BY PhasesApart DEF PublishAgain, MayPublish, IInv, Typed
<1>2. /\ disk' = {files'} /\ files' \in Dirs /\ files'.stage = files.stage
      /\ files'.capsule =
             [authority |-> f, frame |-> "whole", receipt |-> "whole"]
  BY <1>1, CapsuleSynced DEF SyncCapsule
<1>3. files' \in disk' /\ disk' \subseteq Dirs /\ published' \subseteq Frames
  BY <1>1, <1>2 DEF IInv, Typed
<1>4. \A d \in disk' : d.stage = None \/ d.capsule = None
  BY <1>1, <1>2 DEF IInv, ArtifactsFollowDispatch, HasArtifact
<1>5. publisher' \in Maybe(Publishers) /\ PublisherOK' /\ OneCapsule'
  BY <1>1, <1>2 DEF Maybe, PublisherOK, OneCapsule
<1>6. PublishedStays'
  <2>1. ASSUME NEW g \in published PROVE g = f
    <3>1. files.capsule =
              [authority |-> g, frame |-> "whole", receipt |-> "whole"]
      BY <1>1 DEF IInv, PublishedStays
    <3> QED BY <1>1, <3>1
  <2> QED BY <1>1, <1>2, <2>1 DEF PublishedStays
<1> QED BY <1>1, <1>3, <1>4, <1>5, <1>6, UnsettledFiles

\* Nothing is reported as published where a value has no capsule.
LEMMA NoCapsuleNothingPublished ==
  ASSUME IInv, NEW d \in disk, d.capsule = None
  PROVE  published = {}
<1> SUFFICES ASSUME NEW f \in published PROVE FALSE
  OBVIOUS
<1>1. d.capsule = [authority |-> f, frame |-> "whole", receipt |-> "whole"]
      /\ f \in Frames
  BY DEF IInv, Typed, PublishedStays
<1>2. d.capsule \in Capsules
  BY <1>1 DEF Capsules, FileStates
<1> QED BY <1>2, RecordsAreThere

LEMMA PublishStageStep ==
  ASSUME NEW f \in Frames
  PROVE  IInv /\ PublishStage(f) => IInv'
<1> SUFFICES ASSUME IInv, PublishStage(f) PROVE IInv'
  OBVIOUS
<1> DEFINE new == [authority |-> f, frame |-> "none", receipt |-> "none"]
<1>1. /\ turn # None /\ turn.dispatch # None /\ turn.phase # "settled"
      /\ UNCHANGED <<turn, history, published>>
      /\ files \in disk /\ disk \subseteq Dirs /\ files.capsule = None
      /\ publisher' = [pc |-> "write", frame |-> f]
  BY PhasesApart DEF PublishStage, IInv, Typed
<1>2. published = {}
  BY <1>1, NoCapsuleNothingPublished
<1>3. new \in Capsules /\ new # None /\ new.authority = f
  <2>1. new \in Capsules /\ new.authority = f
    BY DEF Capsules, FileStates
  <2> QED BY <2>1, RecordsAreThere
<1>4. publisher' \in Publishers /\ publisher'.pc = "write"
      /\ publisher'.frame = f
  BY <1>1 DEF Publishers
<1> HIDE DEF new
<1>5. /\ files' \in disk' /\ disk' \subseteq Dirs
      /\ \A d \in disk' : d.capsule = None
      /\ files'.stage # None /\ files'.stage.authority = f
  <2>1. CASE files' = [stage |-> new, capsule |-> None]
             /\ disk' = Named \cup {files'}
    <3>1. [stage |-> new, capsule |-> None] \in Dirs
      BY <1>3 DEF Dirs, Maybe
    <3>2. Named \subseteq disk /\ \A d \in Named : d.capsule = None
      BY <1>1 DEF Named
    <3> QED BY <1>1, <1>3, <2>1, <3>1, <3>2
  <2>2. CASE Resumes(f) /\ SyncNames
    BY <1>1, <2>2, NamesSynced DEF Resumes
  <2> QED BY <2>1, <2>2 DEF PublishStage, new
<1>6. publisher' \in Maybe(Publishers) /\ PublisherOK' /\ OneCapsule'
  BY <1>1, <1>2, <1>4, <1>5 DEF Maybe, PublisherOK, OneCapsule
<1>7. PublishedStays'
  BY <1>1, <1>2 DEF PublishedStays
<1>8. /\ published' \subseteq Frames
      /\ \A d \in disk' : d.stage = None \/ d.capsule = None
  BY <1>1, <1>2, <1>5
<1> QED BY <1>1, <1>5, <1>6, <1>7, <1>8, UnsettledFiles

\* What holds while a publication runs.
LEMMA RunningPublication ==
  ASSUME IInv, publisher # None
  PROVE  /\ turn # None /\ turn.dispatch # None /\ turn.phase # "settled"
         /\ published = {} /\ publisher \in Publishers
         /\ files \in disk /\ files \in Dirs /\ disk \subseteq Dirs
         /\ \A d \in disk : d.stage = None \/ d.capsule = None
<1>1. \A d \in disk : HasArtifact(d) => d.stage = None \/ d.capsule = None
  BY DEF IInv, ArtifactsFollowDispatch
<1> QED BY <1>1
        DEF IInv, Typed, NoTurnOK, PublisherOK, Maybe, HasArtifact

\* A file of a stage is written.
LEMMA StageWritten ==
  ASSUME NEW d \in Dirs, d.stage # None, NEW state \in FileStates,
         NEW new \in {WithFrame(d, state), WithReceipt(d, state)}
  PROVE  /\ new \in Dirs /\ new.stage # None
         /\ new.stage.authority = d.stage.authority
         /\ new.capsule = d.capsule
<1>1. d.stage \in Capsules
  BY DEF Dirs, Maybe
<1>2. CASE new = WithFrame(d, state)
  <2> DEFINE stage == [d.stage EXCEPT !.frame = state]
  <2>1. stage \in Capsules /\ stage.authority = d.stage.authority
    BY <1>1 DEF Capsules
  <2>2. stage # None
    BY <2>1, RecordsAreThere
  <2>3. new = [d EXCEPT !.stage = stage]
    BY <1>2 DEF WithFrame
  <2> HIDE DEF stage
  <2>4. new \in Dirs /\ new.stage = stage /\ new.capsule = d.capsule
    BY <2>1, <2>3 DEF Dirs, Maybe
  <2> QED BY <2>1, <2>2, <2>4
<1>3. CASE new = WithReceipt(d, state)
  <2> DEFINE stage == [d.stage EXCEPT !.receipt = state]
  <2>1. stage \in Capsules /\ stage.authority = d.stage.authority
    BY <1>1 DEF Capsules
  <2>2. stage # None
    BY <2>1, RecordsAreThere
  <2>3. new = [d EXCEPT !.stage = stage]
    BY <1>3 DEF WithReceipt
  <2> HIDE DEF stage
  <2>4. new \in Dirs /\ new.stage = stage /\ new.capsule = d.capsule
    BY <2>1, <2>3 DEF Dirs, Maybe
  <2> QED BY <2>1, <2>2, <2>4
<1> QED BY <1>2, <1>3

\* Writing a file changes what is staged, in the files and in the values a
\* power loss may leave, and nothing else.
LEMMA WritesStage ==
  ASSUME IInv, files.stage # None, \A d \in disk : d.capsule = None,
         NEW state \in FileStates, Writes(state)
  PROVE  /\ files' \in disk' /\ disk' \subseteq Dirs
         /\ \A d \in disk' : d.capsule = None
         /\ files'.stage # None
         /\ files'.stage.authority = files.stage.authority
<1>0. files \in disk /\ disk \subseteq Dirs /\ files \in Staged
      /\ Staged \subseteq disk /\ \A d \in Staged : d.stage # None
  BY DEF IInv, Typed, Staged
<1>1. CASE /\ files' = WithFrame(files, state)
           /\ disk' = disk \cup {WithFrame(d, state) : d \in Staged}
  <2>1. \A d \in Staged :
           /\ WithFrame(d, state) \in Dirs /\ WithFrame(d, state).stage # None
           /\ WithFrame(d, state).stage.authority = d.stage.authority
           /\ WithFrame(d, state).capsule = d.capsule
    BY <1>0, StageWritten
  <2> QED BY <1>0, <1>1, <2>1
<1>2. CASE /\ files' = WithReceipt(files, state)
           /\ disk' = disk \cup {WithReceipt(d, state) : d \in Staged}
  <2>1. \A d \in Staged :
           /\ WithReceipt(d, state) \in Dirs
           /\ WithReceipt(d, state).stage # None
           /\ WithReceipt(d, state).stage.authority = d.stage.authority
           /\ WithReceipt(d, state).capsule = d.capsule
    BY <1>0, StageWritten
  <2> QED BY <1>0, <1>2, <2>1
<1> QED BY <1>1, <1>2 DEF Writes

LEMMA WriteStageStep == IInv /\ WriteStage => IInv'
<1> SUFFICES ASSUME IInv, WriteStage PROVE IInv'
  OBVIOUS
<1>1. /\ publisher # None /\ publisher.pc = "write"
      /\ UNCHANGED <<turn, history, published>>
  BY DEF WriteStage, Publishing
<1>2. /\ turn # None /\ turn.dispatch # None /\ turn.phase # "settled"
      /\ published = {} /\ publisher \in Publishers
      /\ files \in disk /\ files \in Dirs /\ disk \subseteq Dirs
  BY <1>1, RunningPublication
<1>3. /\ files.stage # None /\ files.stage.authority = publisher.frame
      /\ \A d \in disk : d.capsule = None
  BY <1>1 DEF IInv, PublisherOK
<1>4. /\ files' \in disk' /\ disk' \subseteq Dirs
      /\ \A d \in disk' : d.capsule = None
      /\ files'.stage # None /\ files'.stage.authority = publisher.frame
      /\ publisher' \in Publishers /\ publisher'.pc # "barrier"
      /\ publisher'.frame = publisher.frame
  <2>1. CASE Writes("whole") /\ UNCHANGED publisher
    <3>1. "whole" \in FileStates
      BY DEF FileStates
    <3> QED BY <1>1, <1>2, <1>3, <2>1, <3>1, WritesStage
  <2>2. CASE /\ disk' = (disk \ Staged) \cup {files}
             /\ publisher' = [publisher EXCEPT !.pc = "promote"]
             /\ UNCHANGED files
    BY <1>2, <1>3, <2>2 DEF Publishers
  <2> QED BY <2>1, <2>2 DEF WriteStage
<1>5. publisher' \in Maybe(Publishers) /\ PublisherOK' /\ OneCapsule'
  BY <1>1, <1>2, <1>4 DEF Maybe, PublisherOK, OneCapsule
<1>6. PublishedStays' /\ published' \subseteq Frames
  BY <1>1, <1>2 DEF PublishedStays
<1>7. \A d \in disk' : d.stage = None \/ d.capsule = None
  BY <1>4
<1> QED BY <1>1, <1>2, <1>4, <1>5, <1>6, <1>7, UnsettledFiles

LEMMA PromoteStep == IInv /\ PromoteResponse => IInv'
<1> SUFFICES ASSUME IInv, PromoteResponse PROVE IInv'
  OBVIOUS
<1>1. /\ publisher # None /\ publisher.pc = "promote"
      /\ UNCHANGED <<turn, history, published>>
      /\ files' = [stage |-> None, capsule |-> files.stage]
      /\ disk' = disk \cup {files'}
      /\ publisher' = [publisher EXCEPT !.pc = "barrier"]
  BY DEF PromoteResponse, Publishing
<1>2. /\ turn # None /\ turn.dispatch # None /\ turn.phase # "settled"
      /\ published = {} /\ publisher \in Publishers
      /\ files \in Dirs /\ disk \subseteq Dirs
      /\ \A d \in disk : d.stage = None \/ d.capsule = None
  BY <1>1, RunningPublication
<1>3. /\ files.stage # None /\ files.stage.authority = publisher.frame
      /\ \A d \in disk : d.capsule = None
  BY <1>1 DEF IInv, PublisherOK
<1>4. files' \in Dirs /\ files'.stage = None /\ files'.capsule = files.stage
  BY <1>1, <1>2 DEF Dirs, Maybe
<1>5. /\ publisher' \in Publishers /\ publisher'.pc = "barrier"
      /\ publisher'.frame = publisher.frame
  BY <1>1, <1>2 DEF Publishers
<1>6. publisher' \in Maybe(Publishers) /\ PublisherOK' /\ OneCapsule'
  BY <1>1, <1>2, <1>3, <1>4, <1>5 DEF Maybe, PublisherOK, OneCapsule
<1>7. PublishedStays' /\ published' \subseteq Frames
  BY <1>1, <1>2 DEF PublishedStays
<1>8. /\ files' \in disk' /\ disk' \subseteq Dirs
      /\ \A d \in disk' : d.stage = None \/ d.capsule = None
  BY <1>1, <1>2, <1>4
<1> QED BY <1>1, <1>2, <1>6, <1>7, <1>8, UnsettledFiles

LEMMA BarrierStep == IInv /\ BarrierResponse => IInv'
<1> SUFFICES ASSUME IInv, BarrierResponse PROVE IInv'
  OBVIOUS
<1>1. /\ publisher # None /\ publisher.pc = "barrier"
      /\ UNCHANGED <<turn, history>> /\ SyncCapsule
      /\ published' = published \cup {publisher.frame}
      /\ publisher' = None
  BY DEF BarrierResponse, Publishing
<1>2. /\ turn # None /\ turn.dispatch # None /\ turn.phase # "settled"
      /\ published = {} /\ publisher \in Publishers
      /\ files \in disk /\ files \in Dirs
      /\ \A d \in disk : d.stage = None \/ d.capsule = None
  BY <1>1, RunningPublication
<1>3. files.capsule # None /\ files.capsule.authority = publisher.frame
  BY <1>1 DEF IInv, PublisherOK
<1>4. /\ disk' = {files'} /\ files' \in Dirs /\ files'.stage = files.stage
      /\ files'.capsule = [authority |-> publisher.frame,
                           frame |-> "whole", receipt |-> "whole"]
      /\ publisher.frame \in Frames
  BY <1>1, <1>2, <1>3, CapsuleSynced DEF SyncCapsule
<1>5. PublishedStays' /\ published' \subseteq Frames
  BY <1>1, <1>2, <1>4 DEF PublishedStays
<1>6. publisher' \in Maybe(Publishers) /\ PublisherOK' /\ OneCapsule'
  BY <1>1, <1>4 DEF Maybe, PublisherOK, OneCapsule
<1>7. /\ files' \in disk' /\ disk' \subseteq Dirs
      /\ \A d \in disk' : d.stage = None \/ d.capsule = None
  BY <1>2, <1>3, <1>4
<1> QED BY <1>1, <1>2, <1>5, <1>6, <1>7, UnsettledFiles

LEMMA SettleStep == IInv /\ Settle => IInv'
<1> SUFFICES ASSUME IInv, Settle PROVE IInv'
  OBVIOUS
<1> DEFINE f == files.capsule.authority
           event == Event("final", f, None)
           t == FinalReduced(turn, f)
<1>0. /\ publisher = None /\ turn # None /\ files.capsule # None
      /\ Settles(f) /\ SyncNames
      /\ UNCHANGED <<publisher, published>>
      /\ Commit(event, FinalAdmitted(turn, f), t)
  BY DEF Settle
<1>1. /\ files \in disk /\ files \in Dirs /\ f \in Frames
  <2>1. files \in disk /\ files \in Dirs
    BY DEF IInv, Typed
  <2> QED BY <1>0, <2>1, CapsuleSynced
<1>2. /\ files' = files /\ disk' \subseteq disk /\ files \in disk'
      /\ \A d \in disk' :
            /\ d.stage = None
            /\ d.capsule # None /\ d.capsule.authority = f
  <2>1. /\ files' = files /\ disk' \subseteq disk /\ files \in disk'
        /\ \A d \in disk' : /\ (d.stage = None) = (files.stage = None)
                            /\ (d.capsule = None) = (files.capsule = None)
    BY <1>0, NamesSynced
  <2>2. files.stage = None
    BY <1>0, <1>1 DEF IInv, ArtifactsFollowDispatch, HasArtifact
  <2>3. \A d \in disk : d.capsule # None => d.capsule.authority = f
    BY <1>0, <1>1 DEF IInv, OneCapsule
  <2> QED BY <1>0, <2>1, <2>2, <2>3
<1>3. turn \in TurnStates /\ TurnOK(turn)
  BY <1>0, TurnTyped
<1>4. /\ t \in TurnStates /\ TurnOK(t)
      /\ t.dispatch = turn.dispatch
      /\ t.phase = "settled" /\ t.outcome = "turn_final"
      /\ t.response # None
      /\ FinalReplayed(t, f)
      /\ t.response = f.response /\ t.head = f.new_head
      /\ t.turn_id = f.turn_id /\ t.native = f.native
      /\ turn.response # None => t = turn
  BY <1>0, <1>1, <1>3, FinalSettles DEF Settles
<1>5. turn.dispatch # None
  BY <1>0 DEF Settles, FinalAdmitted
<1>6. event.type = "final"
  BY DEF Event
<1>7. \A h \in history : h.type = "final" => turn.response # None /\ h = event
  BY <1>1 DEF IInv, FinalsOK
<1> HIDE DEF t, f
<1>8. /\ turn' = t /\ t # None /\ event \in history'
      /\ history' = history \cup {event}
  <2>1. CASE event \in history
    BY <1>0, <1>4, <1>6, <1>7, <2>1 DEF Commit
  <2>2. CASE event \notin history
    BY <1>0, <1>4, <2>2, NoneIsNoRecord DEF Commit
  <2> QED BY <2>1, <2>2
<1>9. \A h \in history' : h.type = "final" => h = Event("final", f, None)
  BY <1>7, <1>8
<1>10. Typed'
  BY <1>0, <1>2, <1>4, <1>8 DEF IInv, Typed, Maybe
<1>11. NoTurnOK' /\ PublisherOK' /\ OneCapsule'
  BY <1>0, <1>2, <1>8 DEF NoTurnOK, PublisherOK, OneCapsule
<1>12. FinalsOK'
  BY <1>2, <1>4, <1>8, <1>9 DEF FinalsOK
<1>13. SettledOK'
  BY <1>2, <1>4, <1>8 DEF SettledOK
<1>14. ArtifactsFollowDispatch'
  BY <1>2, <1>4, <1>5, <1>8 DEF ArtifactsFollowDispatch
<1>15. PublishedStays'
  BY <1>0, <1>2 DEF IInv, PublishedStays
<1>16. SettledResponseIsPublished'
  <2>1. ASSUME published' # {}, NEW d \in disk' PROVE Readable(d.capsule)
    <3>1. PICK g \in published' : TRUE
      BY <2>1
    <3>2. d.capsule =
              [authority |-> g, frame |-> "whole", receipt |-> "whole"]
      BY <1>15, <2>1, <3>1 DEF PublishedStays
    <3>3. d.capsule.frame = "whole" /\ d.capsule.receipt = "whole"
      BY <3>2
    <3> QED BY <3>3 DEF Readable
  <2> QED BY <1>2, <1>4, <1>8, <2>1 DEF SettledResponseIsPublished, Readable
<1> QED BY <1>10, <1>11, <1>12, <1>13, <1>14, <1>15, <1>16 DEF IInv

LEMMA RefusedStep == IInv /\ Refused => IInv'
<1> SUFFICES ASSUME IInv, Refused PROVE IInv'
  OBVIOUS
<1>1. /\ files' = files /\ disk' \subseteq disk /\ files \in disk'
      /\ UNCHANGED <<turn, history, publisher, published>>
  BY NamesSynced DEF Refused
<1>2. Typed' /\ NoTurnOK' /\ PublisherOK' /\ OneCapsule'
  BY <1>1 DEF Refused, IInv, Typed, TurnOK, NoTurnOK, PublisherOK, OneCapsule,
     HasArtifact
<1>3. FinalsOK' /\ SettledOK'
  BY <1>1 DEF IInv, FinalsOK, SettledOK, FinalReplayed, FinalCorrelates,
     NativeCorrelates, Event
<1>4. /\ ArtifactsFollowDispatch' /\ SettledResponseIsPublished'
      /\ PublishedStays'
  BY <1>1 DEF IInv, ArtifactsFollowDispatch, HasArtifact,
     SettledResponseIsPublished, PublishedStays, Readable
<1> QED BY <1>2, <1>3, <1>4 DEF IInv
----------------------------------------------------------------------------
(* Failures.                                                               *)

LEMMA CrashStep == IInv /\ Crash => IInv'
<1> SUFFICES ASSUME IInv, Crash PROVE IInv'
  OBVIOUS
<1>1. /\ publisher # None /\ publisher' = None
      /\ UNCHANGED <<turn, history, published>>
  BY DEF Crash
<1>2. /\ turn # None /\ turn.dispatch # None /\ turn.phase # "settled"
      /\ published = {}
      /\ files \in disk /\ files \in Dirs /\ disk \subseteq Dirs
      /\ \A d \in disk : d.stage = None \/ d.capsule = None
  BY <1>1, RunningPublication
<1>3. /\ files' \in disk' /\ disk' \subseteq Dirs
      /\ \A d \in disk' : d.stage = None \/ d.capsule = None
      /\ OneCapsule'
  <2>1. CASE UNCHANGED <<files, disk>>
    BY <1>2, <2>1 DEF IInv, OneCapsule
  <2>2. ASSUME NEW state \in {"torn", "loose"}, Publishing("write"),
               Writes(state)
        PROVE  /\ files' \in disk' /\ disk' \subseteq Dirs
               /\ \A d \in disk' : d.stage = None \/ d.capsule = None
               /\ OneCapsule'
    <3>1. files.stage # None /\ \A d \in disk : d.capsule = None
      BY <2>2 DEF Publishing, IInv, PublisherOK
    <3>2. state \in FileStates
      BY DEF FileStates
    <3>3. /\ files' \in disk' /\ disk' \subseteq Dirs
          /\ \A d \in disk' : d.capsule = None
      BY <2>2, <3>1, <3>2, WritesStage
    <3> QED BY <3>3 DEF OneCapsule
  <2> QED BY <2>1, <2>2 DEF Crash
<1>4. publisher' \in Maybe(Publishers) /\ PublisherOK'
  BY <1>1 DEF Maybe, PublisherOK
<1>5. PublishedStays' /\ published' \subseteq Frames
  BY <1>1, <1>2 DEF PublishedStays
<1> QED BY <1>1, <1>2, <1>3, <1>4, <1>5, UnsettledFiles

\* What a power loss leaves of a directory and its files: the authority stays,
\* a synced file stays, no file comes back.
LEMMA CapsulesLeft ==
  ASSUME NEW c \in Maybe(Capsules), NEW left \in CapsuleLeft(c)
  PROVE  /\ left \in Maybe(Capsules) /\ (left = None) = (c = None)
         /\ c # None =>
                /\ left.authority = c.authority
                /\ c.frame = "whole" => left.frame = "whole"
                /\ c.receipt = "whole" => left.receipt = "whole"
<1>1. CASE c = None
  BY <1>1 DEF CapsuleLeft
<1>2. CASE c # None
  <2>1. c \in Capsules
    BY <1>2 DEF Maybe
  <2>2. PICK f \in FileLeft(c.frame), r \in FileLeft(c.receipt) :
            left = [authority |-> c.authority, frame |-> f, receipt |-> r]
    BY <1>2 DEF CapsuleLeft
  <2>3. f \in FileStates /\ r \in FileStates
        /\ (c.frame = "whole" => f = "whole")
        /\ (c.receipt = "whole" => r = "whole")
    BY <2>1 DEF FileLeft, Capsules, FileStates
  <2>4. left \in Capsules
    BY <2>1, <2>2, <2>3 DEF Capsules
  <2>5. left # None
    BY <2>4, RecordsAreThere
  <2> QED BY <1>2, <2>2, <2>3, <2>4, <2>5 DEF Maybe
<1> QED BY <1>1, <1>2

LEMMA DirsLeft ==
  ASSUME NEW d \in Dirs, NEW left \in Left(d)
  PROVE  /\ left \in Dirs
         /\ (left.stage = None) = (d.stage = None)
         /\ (left.capsule = None) = (d.capsule = None)
         /\ d.capsule # None => left.capsule.authority = d.capsule.authority
         /\ \A f : d.capsule = [authority |-> f, frame |-> "whole",
                                receipt |-> "whole"]
                       => left.capsule = d.capsule
<1>1. PICK s \in CapsuleLeft(d.stage), c \in CapsuleLeft(d.capsule) :
          left = [stage |-> s, capsule |-> c]
  BY DEF Left
<1>2. d.stage \in Maybe(Capsules) /\ d.capsule \in Maybe(Capsules)
  BY DEF Dirs
<1>3. /\ s \in Maybe(Capsules) /\ (s = None) = (d.stage = None)
      /\ c \in Maybe(Capsules) /\ (c = None) = (d.capsule = None)
      /\ d.capsule # None =>
             /\ c.authority = d.capsule.authority
             /\ d.capsule.frame = "whole" => c.frame = "whole"
             /\ d.capsule.receipt = "whole" => c.receipt = "whole"
  BY <1>2, CapsulesLeft
<1>4. left \in Dirs /\ left.stage = s /\ left.capsule = c
  BY <1>1, <1>3 DEF Dirs
<1>5. ASSUME NEW f, d.capsule = [authority |-> f, frame |-> "whole",
                                 receipt |-> "whole"]
      PROVE  c = d.capsule
  <2>1. d.capsule.authority = f /\ d.capsule.frame = "whole"
        /\ d.capsule.receipt = "whole"
    BY <1>5
  <2>2. CASE d.capsule # None
    <3>1. c \in Capsules /\ c.authority = f /\ c.frame = "whole"
          /\ c.receipt = "whole"
      BY <1>3, <2>1, <2>2 DEF Maybe
    <3>2. c = [authority |-> f, frame |-> "whole", receipt |-> "whole"]
      BY <3>1 DEF Capsules
    <3> QED BY <1>5, <3>2
  <2>3. CASE d.capsule = None
    BY <1>3, <2>3
  <2> QED BY <2>2, <2>3
<1> QED BY <1>3, <1>4, <1>5

LEMMA PowerLossStep == IInv /\ PowerLoss => IInv'
<1> SUFFICES ASSUME IInv, PowerLoss PROVE IInv'
  OBVIOUS
<1>1. /\ publisher' = None /\ disk' = {files'}
      /\ UNCHANGED <<turn, history, published>>
  BY DEF PowerLoss
<1>2. PICK d \in disk : files' \in Left(d)
  BY DEF PowerLoss
<1>3. d \in Dirs
  BY <1>2 DEF IInv, Typed
<1>4. /\ files' \in Dirs
      /\ (files'.stage = None) = (d.stage = None)
      /\ (files'.capsule = None) = (d.capsule = None)
      /\ d.capsule # None => files'.capsule.authority = d.capsule.authority
      /\ \A f : d.capsule = [authority |-> f, frame |-> "whole",
                             receipt |-> "whole"]
                    => files'.capsule = d.capsule
  BY <1>2, <1>3, DirsLeft
<1>5. Typed'
  BY <1>1, <1>4 DEF IInv, Typed, TurnOK, Maybe
<1>6. NoTurnOK' /\ PublisherOK' /\ OneCapsule'
  BY <1>1, <1>2, <1>4 DEF IInv, NoTurnOK, PublisherOK, OneCapsule, HasArtifact
<1>7. FinalsOK'
  BY <1>1, <1>2, <1>4 DEF IInv, FinalsOK, Event
<1>8. SettledOK'
  BY <1>1, <1>2, <1>4 DEF IInv, SettledOK, FinalReplayed, FinalCorrelates,
     NativeCorrelates, Event
<1>9. ArtifactsFollowDispatch'
  BY <1>1, <1>2, <1>4 DEF IInv, ArtifactsFollowDispatch, HasArtifact
<1>10. PublishedStays'
  BY <1>1, <1>2, <1>4 DEF IInv, PublishedStays
<1>11. SettledResponseIsPublished'
  <2>1. ASSUME published' # {} PROVE Readable(files'.capsule)
    <3>1. PICK g \in published' : TRUE
      BY <2>1
    <3>2. files'.capsule =
              [authority |-> g, frame |-> "whole", receipt |-> "whole"]
      BY <1>1, <1>10, <3>1 DEF PublishedStays
    <3>3. files'.capsule.frame = "whole" /\ files'.capsule.receipt = "whole"
      BY <3>2
    <3> QED BY <3>3 DEF Readable
  <2> QED BY <1>1, <1>2, <1>4, <2>1
          DEF IInv, SettledResponseIsPublished, Readable
<1> QED BY <1>5, <1>6, <1>7, <1>8, <1>9, <1>10, <1>11 DEF IInv
----------------------------------------------------------------------------
(* The invariant and what follows from it.                                 *)

LEMMA InitHolds == Init => IInv
<1> SUFFICES ASSUME Init PROVE IInv
  OBVIOUS
<1>1. files \in Dirs /\ files.stage = None /\ files.capsule = None
  BY DEF Init, Dirs, Maybe
<1>2. Typed
  BY <1>1 DEF Init, Typed, Maybe
<1>3. NoTurnOK /\ PublisherOK /\ OneCapsule /\ FinalsOK /\ SettledOK
  BY <1>1 DEF Init, NoTurnOK, PublisherOK, OneCapsule, FinalsOK, SettledOK, HasArtifact
<1>4. /\ ArtifactsFollowDispatch /\ SettledResponseIsPublished
      /\ PublishedStays
  BY <1>1 DEF Init, ArtifactsFollowDispatch, SettledResponseIsPublished,
     PublishedStays, HasArtifact
<1> QED BY <1>2, <1>3, <1>4 DEF IInv

LEMMA StepKeeps == IInv /\ [Next]_vars => IInv'
<1> SUFFICES ASSUME IInv, [Next]_vars PROVE IInv'
  OBVIOUS
<1>1. CASE Prepare
  BY <1>1, PrepareStep
<1>2. CASE BeginDispatch
  BY <1>2, BeginDispatchStep
<1>3. CASE DeliveryUncertain
  BY <1>3, UncertainStep
<1>4. CASE DefiniteNonStart
  BY <1>4, NonStartStep
<1>5. CASE ProviderStarted
  BY <1>5, StartedStep
<1>6. CASE WaitTimeout
  BY <1>6, WaitTimeoutStep
<1>7. CASE ResponseConflict
  BY <1>7, ConflictStep
<1>8. ASSUME NEW f \in Frames, PublishConflicting(f) PROVE IInv'
  BY <1>8, PublishConflictingStep
<1>9. ASSUME NEW f \in Frames, PublishAgain(f) PROVE IInv'
  BY <1>9, PublishAgainStep
<1>10. ASSUME NEW f \in Frames, PublishStage(f) PROVE IInv'
  BY <1>10, PublishStageStep
<1>11. CASE WriteStage
  BY <1>11, WriteStageStep
<1>12. CASE PromoteResponse
  BY <1>12, PromoteStep
<1>13. CASE BarrierResponse
  BY <1>13, BarrierStep
<1>14. CASE Settle
  BY <1>14, SettleStep
<1>15. CASE Crash
  BY <1>15, CrashStep
<1>16. CASE PowerLoss
  BY <1>16, PowerLossStep
<1>17. CASE Refused
  BY <1>17, RefusedStep
<1>18. CASE UNCHANGED vars
  BY <1>18
     DEF vars, IInv, Typed, NoTurnOK, PublisherOK, OneCapsule, FinalsOK,
     SettledOK, Readable,
     ArtifactsFollowDispatch, SettledResponseIsPublished, PublishedStays,
     HasArtifact, FinalReplayed, FinalCorrelates, NativeCorrelates, Event,
     TurnOK
<1> QED BY <1>1, <1>2, <1>3, <1>4, <1>5, <1>6, <1>7, <1>8, <1>9, <1>10, <1>11,
           <1>12, <1>13, <1>14, <1>15, <1>16, <1>17, <1>18 DEF Next

\* In every reachable state, whatever failures befell the files, each value
\* of them a power loss may leave fits the turn.
THEOREM Invariance == Spec => []IInv
BY InitHolds, StepKeeps, PTL DEF Spec

\* An artifact is there for a dispatched attempt only, staged or published and
\* never both, and never beside a definite non-start.
THEOREM Artifacts == Spec => []ArtifactsFollowDispatch
<1>1. IInv => ArtifactsFollowDispatch
  BY DEF IInv
<1> QED BY <1>1, Invariance, PTL

\* In every value of the files a power loss may leave the capsule of a settled
\* turn is there, carries the response the turn accepted, and reads once a
\* caller was told that the response is published.
THEOREM SettledResponse == Spec => []SettledResponseIsPublished
<1>1. IInv => SettledResponseIsPublished
  BY DEF IInv
<1> QED BY <1>1, Invariance, PTL

\* A frame a caller was told is published stays the one response, whole on
\* disk whatever fails.
THEOREM Published == Spec => []PublishedStays
<1>1. IInv => PublishedStays
  BY DEF IInv
<1> QED BY <1>1, Invariance, PTL

LEMMA InspectionIsActive ==
  ASSUME IInv, turn # None, NEW d \in disk, NEW left \in Left(d), ~Torn(left)
  PROVE  Inspect(left) = "active"
<1>0. /\ (left.stage = None) = (d.stage = None)
      /\ (left.capsule = None) = (d.capsule = None)
      /\ d.capsule # None => left.capsule.authority = d.capsule.authority
  <2>1. d \in Dirs
    BY DEF IInv, Typed
  <2> QED BY <2>1, DirsLeft
<1>1. CASE turn.phase = "settled" /\ turn.outcome = "turn_final"
  <2> DEFINE f == left.capsule.authority
  <2>1. /\ left.capsule # None /\ d.capsule # None
        /\ d.capsule.authority = f /\ FinalReplayed(turn, f)
        /\ Event("final", f, None) \in history /\ left.stage = None
    BY <1>0, <1>1 DEF IInv, SettledOK
  <2> HIDE DEF f
  <2>2. turn.recovery = "clear"
    BY <1>1, TurnTyped DEF TurnOK
  <2>3. FinalReduced(turn, f) = turn
    BY <2>1 DEF FinalReduced
  <2>4. turn.dispatch # None
    BY <2>1 DEF IInv, ArtifactsFollowDispatch, HasArtifact
  <2>5. Settles(f)
    BY <1>1, <2>2, <2>3, <2>4 DEF Settles, FinalAdmitted
  <2>6. FinalAuthorities = {Event("final", f, None)}
    <3>1. Event("final", f, None).type = "final"
      BY DEF Event
    <3>2. \A h \in history : h.type = "final" => h = Event("final", f, None)
      BY <2>1 DEF IInv, FinalsOK
    <3> QED BY <2>1, <3>1, <3>2 DEF FinalAuthorities
  <2>7. "turn_final" # "turn_definite_non_start"
    OBVIOUS
  <2> QED BY <1>1, <2>1, <2>5, <2>6, <2>7 DEF Inspect, f
<1>2. CASE ~(turn.phase = "settled" /\ turn.outcome = "turn_final")
  <2>1. turn.outcome = "turn_definite_non_start" => ~HasArtifact(left)
    BY <1>0 DEF IInv, ArtifactsFollowDispatch, HasArtifact
  <2>2. turn.phase = "settled" => left.stage = None
    BY <1>0 DEF IInv, SettledOK
  <2> QED BY <1>2, <2>1, <2>2 DEF Inspect
<1> QED BY <1>1, <1>2

\* A reported capsule is not torn by anything that fails.
LEMMA ReportedIsNotTorn ==
  ASSUME IInv, NEW d \in disk, NEW left \in Left(d), published # {}
  PROVE  ~Torn(left)
<1>1. PICK f \in published : TRUE
  OBVIOUS
<1>2. d.capsule = [authority |-> f, frame |-> "whole", receipt |-> "whole"]
  BY <1>1 DEF IInv, PublishedStays
<1>3. d \in Dirs
  BY DEF IInv, Typed
<1>4. left.capsule = d.capsule
  BY <1>2, <1>3, DirsLeft
<1> QED BY <1>2, <1>4 DEF Torn, Readable

\* inspect_lane_turn finds the response and the turn of a lane at odds only
\* where somebody else changed the files, or where a loss of power tore a
\* capsule no caller was told of.
THEOREM Inspection == Spec => []InspectionFindsNoConflict
<1>1. IInv => InspectionFindsNoConflict
  BY InspectionIsActive, ReportedIsNotTorn DEF InspectionFindsNoConflict
<1> QED BY <1>1, Invariance, PTL

----------------------------------------------------------------------------
(* The lane implements its reducer: every commit is a step of LaneTurn, and *)
(* nothing that happens to the files is seen there.                        *)

LEMMA PrepareImplements == Prepare => Turn!Prepare \/ UNCHANGED turn
BY DEF Prepare, Apply, Commit, Turn!Prepare, Turn!PrepareEvents, PrepareEvents,
   Turn!Maybe, Maybe, Turn!AllowedModes, AllowedModes, Turn!PrepareAdmitted,
   PrepareAdmitted, Turn!PrepareReduced, PrepareReduced, Turn!Prepared,
   Prepared, Turn!Modes, Modes, Turn!TurnOperations, TurnOperations

LEMMA BeginDispatchImplements == BeginDispatch => Turn!Dispatch \/ UNCHANGED turn
<1> SUFFICES ASSUME BeginDispatch PROVE Turn!Dispatch \/ UNCHANGED turn
  OBVIOUS
<1>1. PICK e \in DispatchEvents :
          /\ turn # None
          /\ Commit(Event("dispatch", e, None), DispatchAdmitted(turn, e),
                    DispatchReduced(turn, e))
  BY DEF BeginDispatch, Apply
<1>2. e \in Turn!DispatchEvents
  BY DEF DispatchEvents, Turn!DispatchEvents, DispatchIntents,
     Turn!DispatchIntents, Maybe, Turn!Maybe
<1>3. Turn!DispatchAdmitted(turn, e) = DispatchAdmitted(turn, e)
  BY DEF DispatchAdmitted, Turn!DispatchAdmitted
<1>4. Turn!Later(turn.phase, "dispatching") = Later(turn.phase, "dispatching")
  BY DEF Later, Turn!Later, PhaseRank, Turn!PhaseRank
<1>5. Turn!DispatchReduced(turn, e) = DispatchReduced(turn, e)
  BY <1>4 DEF DispatchReduced, Turn!DispatchReduced
<1> QED BY <1>1, <1>2, <1>3, <1>5 DEF Commit, Turn!Dispatch

LEMMA UncertainImplements ==
  DeliveryUncertain => Turn!DeliveryUncertain \/ UNCHANGED turn
BY DEF DeliveryUncertain, Apply, Commit, Turn!DeliveryUncertain,
   Turn!ObservationEvents, ObservationEvents, Turn!UncertainAdmitted,
   UncertainAdmitted, Turn!UncertainReduced, UncertainReduced, Turn!Later,
   Later, Turn!PhaseRank, PhaseRank

LEMMA NonStartImplements ==
  DefiniteNonStart => Turn!DefiniteNonStart \/ UNCHANGED turn
BY DEF DefiniteNonStart, Apply, Commit, Turn!DefiniteNonStart,
   Turn!ObservationEvents, ObservationEvents, Turn!NonStartAdmitted,
   NonStartAdmitted, Turn!NonStartReduced, NonStartReduced, Turn!Quarantine,
   Quarantine, Turn!ReserveNonStart, ReserveNonStart

LEMMA StartedImplements ==
  ProviderStarted => Turn!ProviderStarted \/ UNCHANGED turn
<1> SUFFICES ASSUME ProviderStarted PROVE Turn!ProviderStarted \/ UNCHANGED turn
  OBVIOUS
<1>1. PICK e \in StartedEvents, evidence \in Evidence :
          /\ turn # None
          /\ Commit(Event("started", e, evidence), StartedAdmitted(turn, e),
                    StartedReduced(turn, e))
  BY DEF ProviderStarted, Apply
<1>2. e \in Turn!StartedEvents
  BY DEF StartedEvents, Turn!StartedEvents, Maybe, Turn!Maybe
<1>3. Turn!StartedCorrelates(turn, e) = StartedCorrelates(turn, e)
  BY DEF StartedCorrelates, Turn!StartedCorrelates, NativeCorrelates,
     Turn!NativeCorrelates
<1>4. Turn!StartedAdmitted(turn, e) = StartedAdmitted(turn, e)
  BY <1>3 DEF StartedAdmitted, Turn!StartedAdmitted
<1>5. Turn!Later(turn.phase, "in_flight") = Later(turn.phase, "in_flight")
  BY DEF Later, Turn!Later, PhaseRank, Turn!PhaseRank
<1>6. Turn!StartedReduced(turn, e) = StartedReduced(turn, e)
  BY <1>3, <1>5
     DEF StartedReduced, Turn!StartedReduced, QuarantineAfterEffect,
     Turn!QuarantineAfterEffect, Quarantine, Turn!Quarantine, ReserveStarted,
     Turn!ReserveStarted
<1> QED BY <1>1, <1>2, <1>4, <1>6 DEF Commit, Turn!ProviderStarted

LEMMA WaitTimeoutImplements == WaitTimeout => Turn!WaitTimeout \/ UNCHANGED turn
BY DEF WaitTimeout, Apply, Commit, Turn!WaitTimeout, Turn!ObservationEvents,
   ObservationEvents, Turn!WaitTimeoutAdmitted, WaitTimeoutAdmitted,
   Turn!WaitTimeoutReduced, WaitTimeoutReduced

LEMMA ConflictImplements ==
  ResponseConflict => Turn!ResponseConflict \/ UNCHANGED turn
BY DEF ResponseConflict, Apply, Commit, Turn!ResponseConflict,
   Turn!ObservationEvents, ObservationEvents, Turn!ConflictAdmitted,
   ConflictAdmitted, Turn!ConflictReduced, ConflictReduced,
   Turn!QuarantineAfterEffect, QuarantineAfterEffect, Turn!Quarantine,
   Quarantine

LEMMA PublishConflictingImplements ==
  ASSUME IInv, NEW f \in Frames, PublishConflicting(f)
  PROVE  Turn!ResponseConflict \/ UNCHANGED turn
<1> DEFINE e == [op |-> turn.admitted.op]
<1>1. /\ turn # None
      /\ \E evidence \in Evidence :
            Commit(Event("conflict", e, evidence),
                   ConflictAdmitted(turn, e), ConflictReduced(turn, e))
  BY DEF PublishConflicting, MayPublish
<1>2. e \in ObservationEvents
  BY <1>1, OwnObservation
<1> HIDE DEF e
<1> QED BY <1>1, <1>2
        DEF Commit, Turn!ResponseConflict,
        Turn!ObservationEvents, ObservationEvents, Turn!ConflictAdmitted,
        ConflictAdmitted, Turn!ConflictReduced, ConflictReduced,
        Turn!QuarantineAfterEffect, QuarantineAfterEffect, Turn!Quarantine,
        Quarantine

LEMMA SettleImplements ==
  ASSUME IInv, Settle
  PROVE  Turn!FinalAuthority \/ UNCHANGED turn
<1> DEFINE f == files.capsule.authority
<1>1. /\ turn # None /\ files.capsule # None
      /\ Commit(Event("final", f, None), FinalAdmitted(turn, f),
                FinalReduced(turn, f))
  BY DEF Settle
<1>2. f \in FinalEvents
  <2>1. files \in Dirs
    BY DEF IInv, Typed
  <2> QED BY <1>1, <2>1, CapsuleSynced DEF Frames
<1> HIDE DEF f
<1>3. f \in Turn!FinalEvents
  BY <1>2 DEF FinalEvents, Turn!FinalEvents, Maybe, Turn!Maybe
<1>4. Turn!FinalAdmitted(turn, f) = FinalAdmitted(turn, f)
  BY DEF FinalAdmitted, Turn!FinalAdmitted
<1>5. Turn!FinalReduced(turn, f) = FinalReduced(turn, f)
  BY DEF FinalReduced, Turn!FinalReduced, FinalReplayed, Turn!FinalReplayed,
     FinalCorrelates, Turn!FinalCorrelates, NativeCorrelates,
     Turn!NativeCorrelates, Quarantine, Turn!Quarantine, ReserveStarted,
     Turn!ReserveStarted
<1> QED BY <1>1, <1>3, <1>4, <1>5 DEF Commit, Turn!FinalAuthority

LEMMA StepImplements == IInv /\ [Next]_vars => [Turn!Next]_turn
<1> SUFFICES ASSUME IInv, [Next]_vars PROVE Turn!Next \/ UNCHANGED turn
  OBVIOUS
<1>1. CASE Prepare
  BY <1>1, PrepareImplements DEF Turn!Next
<1>2. CASE BeginDispatch
  BY <1>2, BeginDispatchImplements DEF Turn!Next
<1>3. CASE DeliveryUncertain
  BY <1>3, UncertainImplements DEF Turn!Next
<1>4. CASE DefiniteNonStart
  BY <1>4, NonStartImplements DEF Turn!Next
<1>5. CASE ProviderStarted
  BY <1>5, StartedImplements DEF Turn!Next
<1>6. CASE WaitTimeout
  BY <1>6, WaitTimeoutImplements DEF Turn!Next
<1>7. CASE ResponseConflict
  BY <1>7, ConflictImplements DEF Turn!Next
<1>8. ASSUME NEW f \in Frames, PublishConflicting(f)
      PROVE  Turn!Next \/ UNCHANGED turn
  BY <1>8, PublishConflictingImplements DEF Turn!Next
<1>9. ASSUME NEW f \in Frames, PublishAgain(f) \/ PublishStage(f)
      PROVE  UNCHANGED turn
  BY <1>9 DEF PublishAgain, PublishStage
<1>10. CASE WriteStage \/ PromoteResponse \/ BarrierResponse
  BY <1>10 DEF WriteStage, PromoteResponse, BarrierResponse
<1>11. CASE Settle
  BY <1>11, SettleImplements DEF Turn!Next
<1>12. CASE Crash \/ PowerLoss \/ Refused
  BY <1>12 DEF Crash, PowerLoss, Refused
<1>13. CASE UNCHANGED vars
  BY <1>13 DEF vars
<1> QED BY <1>1, <1>2, <1>3, <1>4, <1>5, <1>6, <1>7, <1>8, <1>9, <1>10, <1>11,
           <1>12, <1>13 DEF Next

\* Publications, crashes and losses of power included, the stored turn only
\* moves as the reducer moves it: it inherits every theorem about LaneTurn.
THEOREM TurnImplemented == Spec => ImplementsTurn
<1>1. Init => Turn!Init
  BY DEF Init, Turn!Init
<1> QED BY <1>1, StepImplements, Invariance, PTL
        DEF Spec, ImplementsTurn, Turn!Spec

=============================================================================
