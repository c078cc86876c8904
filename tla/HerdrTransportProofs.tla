------------------------ MODULE HerdrTransportProofs ------------------------
(***************************************************************************)
(* Proofs about HerdrTransport, for every choice of its constants: any     *)
(* number of lanes, and no bound on what the user and the transport do but *)
(* those that MaxActs and MaxCommands give, which may be any numbers.      *)
(*                                                                         *)
(* The inductive invariant is IInv. A proof of the topology is exact when  *)
(* it is returned and says nothing of the time after (ProjectOK); that the *)
(* lanes of a proof are the transport's own needs more: of every proof, in *)
(* the caller's hands or in an operation's, either all its lanes are own,  *)
(* or the session it names is gone for good (Attributed). The list of an   *)
(* operation then tells which, unless the user replaces the session after  *)
(* it (Seen).                                                              *)
(***************************************************************************)
EXTENDS HerdrTransport, TLAPS

SessionIds == {None} \cup ({"generation", "receipt"} \X Nat)

LaneRefs == [lane : Lanes \cup {None}, id : Nat, receipt : Nat]
SideRefs == [id : Nat, receipt : Nat]
Proofs == [session : SessionIds, lanes : SUBSET LaneRefs, sides : SUBSET SideRefs]
Projects == [session : SessionIds, lanes : SUBSET LaneRefs, sides : SUBSET SideRefs,
             asOf : Nat \X Nat, steady : BOOLEAN]
Pcs == LookPcs \cup {"start", "create", "command", "delete"}
Ops == [kind : Kinds \cup {"provision"}, pc : Pcs, lane : Lanes \cup {None},
        known : Proofs, seen : Nat, calm : Nat, began : Nat, made : Nat, receipt : Nat]

WorldOK ==
    /\ reports \in BOOLEAN
    /\ gens \in Nat /\ count \in Nat /\ acts \in Nat /\ swaps \in Nat
    /\ session # None => session \in Sessions /\ session.gen <= gens

\* Proof p names generation g, n generations having been made: its lanes are
\* own, or session s is not of that generation and none will be again.
Names(p, g, s, o) ==
    /\ p.session = Generation(g)
    /\ s # None /\ s.gen = g => \A x \in p.lanes : <<g, x.id>> \in o

Attributed(p, n, s, o) == \E g \in 0 .. n : Names(p, g, s, o)

\* Where an operation has no proof yet, where it goes on from a list, and
\* where it goes on from a snapshot as well.
NewPcs == {"provision_absent", "start", "started"}
SeenPcs == {"started_snapshot", "known_snapshot", "create", "created", "snapshot",
            "command", "closed", "stopped", "delete"}
CalmPcs == {"create", "command", "stopped", "delete"}
ProvisionPcs == NewPcs \cup {"started_snapshot", "provision_known",
                             "known_snapshot", "create"}

Seen ==
    op.seen = swaps =>
        session # None /\ (reports => op.known.session = Generation(session.gen))
Calm ==
    op.calm = acts => session # None /\ session.spaces = Spaces(op.known)

OpOK ==
    op # None =>
        /\ op \in Ops
        /\ op.seen <= swaps /\ op.calm <= acts /\ op.began <= acts
        /\ op.pc \in ProvisionPcs => op.lane \in Lanes
        /\ op.pc = "started_snapshot" => op.known.lanes = {}
        /\ reports /\ op.pc \notin NewPcs =>
               Attributed(op.known, gens, session, owned)
        /\ op.pc \in SeenPcs => Seen
        /\ op.pc \in CalmPcs => Calm

ProjectOK ==
    /\ project # None =>
           /\ project \in Projects
           /\ project.asOf[1] <= acts /\ project.asOf[2] <= count
           /\ reports => Attributed(project, gens, session, owned)
    /\ ProofIsExact /\ LanesAreOwn

IInv == WorldOK /\ OpOK /\ ProjectOK
----------------------------------------------------------------------------
(* Sessions and attributions.                                              *)

\* What any step does to the session: it stays the same generation, goes, or
\* is a new one; what the transport owns it owns for good.
Moves ==
    /\ reports' = reports
    /\ gens' \in Nat /\ gens <= gens' /\ owned \subseteq owned'
    /\ session' # None =>
           /\ session' \in Sessions /\ session'.gen <= gens'
           /\ session'.gen > gens \/ (session # None /\ session'.gen = session.gen)

LEMMA AttributionKept ==
  ASSUME WorldOK, Moves, NEW p, Attributed(p, gens, session, owned)
  PROVE  Attributed(p, gens', session', owned')
<1>1. PICK g \in 0 .. gens : Names(p, g, session, owned)
  BY DEF Attributed
<1>2. g \in 0 .. gens' /\ g \in Nat /\ gens \in Nat /\ gens' \in Nat
  BY DEF WorldOK, Moves
<1>3. ASSUME session' # None, session'.gen = g
      PROVE  \A x \in p.lanes : <<g, x.id>> \in owned'
  <2>1. ~(session'.gen > gens)
    BY <1>2, <1>3
  <2>2. session # None /\ session.gen = g
    BY <1>3, <2>1 DEF Moves
  <2> QED BY <1>1, <2>2 DEF Names, Moves
<1>4. Names(p, g, session', owned')
  BY <1>1, <1>3 DEF Names
<1> QED BY <1>2, <1>4 DEF Attributed

LEMMA AttributionOfFewer ==
  ASSUME NEW p, NEW q, NEW n, NEW s, NEW o, Attributed(p, n, s, o),
         q.session = p.session, q.lanes \subseteq p.lanes
  PROVE  Attributed(q, n, s, o)
BY DEF Attributed, Names

LEMMA GenerationsDiffer ==
  ASSUME NEW g, NEW h, Generation(g) = Generation(h)
  PROVE  g = h
BY DEF Generation

LEMMA Still == WorldOK /\ UNCHANGED <<herdr, owned>> => Moves
<1> SUFFICES ASSUME WorldOK, UNCHANGED <<herdr, owned>> PROVE Moves
  OBVIOUS
<1>1. session' = session /\ gens' = gens /\ owned' = owned /\ reports' = reports
  BY DEF herdr
<1> QED BY <1>1 DEF Moves, WorldOK

LEMMA NewSessionTyped ==
  ASSUME NEW n \in Nat, NEW default \in BOOLEAN
  PROVE  NewSession(n, default) \in Sessions /\ NewSession(n, default).gen = n
<1>1. Space(1, "default") \in [id : Nat, content : Contents]
  BY DEF Space, Contents
<1>2. (IF default THEN {Space(1, "default")} ELSE {})
      \in SUBSET [id : Nat, content : Contents]
  BY <1>1
<1>3. (IF default THEN 2 ELSE 1) \in Nat
  OBVIOUS
<1> QED BY <1>2, <1>3 DEF NewSession, Sessions

LEMMA SessionTells ==
  ASSUME WorldOK, session # None
  PROVE  /\ session \in Sessions /\ session.gen \in Nat /\ session.next \in Nat
         /\ session.gen <= gens
         /\ session.spaces \subseteq [id : Nat, content : Contents]
BY DEF WorldOK, Sessions

With(spaces) == [session EXCEPT !.spaces = spaces]
WithNew(spaces) == [session EXCEPT !.spaces = spaces, !.next = session.next + 1]

\* A session whose workspaces changed is the same session.
LEMMA SpacesChange ==
  ASSUME WorldOK, session # None, UNCHANGED <<reports, gens>>, owned \subseteq owned',
         NEW new \in SUBSET [id : Nat, content : Contents],
         session' = With(new) \/ session' = WithNew(new)
  PROVE  Moves /\ session' # None /\ session'.gen = session.gen
<1>1. session' \in Sessions /\ session'.gen = session.gen
  <2> DEFINE u == [session EXCEPT !.spaces = new]
  <2>1. session \in Sessions /\ session.next \in Nat
    BY SessionTells
  <2>2. u \in Sessions /\ u.gen = session.gen
    BY <2>1 DEF Sessions
  <2>3. session' = u \/ session' = [u EXCEPT !.next = session.next + 1]
    BY DEF With, WithNew
  <2> HIDE DEF u
  <2>4. session.next + 1 \in Nat
    BY <2>1
  <2> QED BY <2>2, <2>3, <2>4 DEF Sessions
<1>2. session' # None
  BY <1>1, NoneIsNoSession
<1> QED BY <1>1, <1>2 DEF WorldOK, Moves
----------------------------------------------------------------------------
(* The caller's proof.                                                     *)

LEMMA ProjectKept ==
  ASSUME IInv, Moves, UNCHANGED project, acts' \in Nat, acts <= acts',
         count' \in Nat, count <= count',
         acts' # acts \/ count' # count \/ UNCHANGED session
  PROVE  ProjectOK'
<1> USE DEF IInv
<1>1. ASSUME project # None
      PROVE  /\ project \in Projects
             /\ project.asOf[1] \in Nat /\ project.asOf[2] \in Nat
             /\ project.asOf[1] <= acts' /\ project.asOf[2] <= count'
             /\ acts' # acts => project.asOf[1] # acts'
             /\ count' # count => project.asOf[2] # count'
  <2>1. /\ project \in Projects
        /\ project.asOf[1] <= acts /\ project.asOf[2] <= count
        /\ acts \in Nat /\ count \in Nat
    BY <1>1 DEF ProjectOK, WorldOK
  <2>2. project.asOf \in Nat \X Nat
    BY <2>1 DEF Projects
  <2>3. project.asOf[1] \in Nat /\ project.asOf[2] \in Nat
    BY <2>2
  <2> QED BY <2>1, <2>3
<1>2. ASSUME project # None, reports'
      PROVE  Attributed(project', gens', session', owned')
  BY <1>2, AttributionKept DEF ProjectOK, Moves
<1>3. ASSUME project # None, project.asOf = <<acts', count'>>
      PROVE  /\ session' # None /\ session'.running
             /\ session'.spaces = Spaces(project')
  <2>1. acts' = acts /\ count' = count
    BY <1>1, <1>3
  <2>2. UNCHANGED session
    BY <2>1
  <2> QED BY <1>3, <2>1, <2>2 DEF ProjectOK, ProofIsExact, Spaces
<1>4. LanesAreOwn'
  BY DEF ProjectOK, LanesAreOwn, Moves
<1>5. ProofIsExact'
  BY <1>3 DEF ProofIsExact
<1> QED BY <1>1, <1>2, <1>4, <1>5 DEF ProjectOK

LEMMA WorldKept ==
  ASSUME WorldOK, Moves, acts' \in Nat, swaps' \in Nat, count' \in Nat
  PROVE  WorldOK'
BY DEF WorldOK, Moves

\* A look that ends its operation changes nothing else.
LEMMA LookEnds ==
  ASSUME IInv, op' = None, UNCHANGED <<herdr, project, count, world>>
  PROVE  IInv'
<1>1. Moves
  BY Still DEF IInv, world
<1>2. /\ acts' \in Nat /\ swaps' \in Nat /\ count' \in Nat
      /\ acts <= acts' /\ count <= count' /\ UNCHANGED session
  BY DEF IInv, WorldOK, herdr, world
<1>3. WorldOK'
  BY <1>1, <1>2, WorldKept DEF IInv
<1>4. ProjectOK'
  BY <1>1, <1>2, ProjectKept
<1>5. OpOK'
  BY DEF OpOK
<1> QED BY <1>3, <1>4, <1>5 DEF IInv

\* A look that goes on.
LEMMA LookGoes ==
  ASSUME IInv, OpOK', UNCHANGED <<herdr, project, count, world>>
  PROVE  IInv'
<1>1. Moves
  BY Still DEF IInv, world
<1>2. /\ acts' \in Nat /\ swaps' \in Nat /\ count' \in Nat
      /\ acts <= acts' /\ count <= count' /\ UNCHANGED session
  BY DEF IInv, WorldOK, herdr, world
<1>3. WorldOK'
  BY <1>1, <1>2, WorldKept DEF IInv
<1>4. ProjectOK'
  BY <1>1, <1>2, ProjectKept
<1> QED BY <1>3, <1>4 DEF IInv

\* A proof is returned on a snapshot that shows it, in an operation whose list
\* showed its session.
LEMMA Returned ==
  ASSUME IInv, op # None, op.pc \in SeenPcs, NEW p \in Proofs,
         p.session = op.known.session, p.lanes \subseteq op.known.lanes,
         session # None, session.running, session.spaces = Spaces(p),
         Return(p), UNCHANGED <<herdr, count, world>>
  PROVE  IInv'
<1> USE DEF IInv
<1>1. /\ project'.session = p.session /\ project'.lanes = p.lanes
      /\ project'.sides = p.sides /\ project'.asOf = <<op.began, count>>
      /\ project'.steady = (op.seen = swaps)
  BY DEF Return
<1>2. /\ UNCHANGED <<session, reports, gens, acts, swaps, owned>> /\ op' = None
      /\ count' = count
  BY DEF herdr, world, Return
<1>3. /\ op \in Ops /\ op.began \in Nat /\ op.began <= acts
      /\ reports => Attributed(op.known, gens, session, owned)
      /\ Seen
  BY DEF OpOK, Ops, SeenPcs, NewPcs
<1>4. project' \in Projects
  BY <1>3 DEF Return, Projects, Proofs, WorldOK
<1>5. ASSUME reports
      PROVE  Attributed(p, gens, session, owned)
  BY <1>3, <1>5, AttributionOfFewer
<1>6. reports' => Attributed(project', gens', session', owned')
  <2> SUFFICES ASSUME reports PROVE Attributed(project', gens, session, owned)
    BY <1>2
  <2>1. Attributed(p, gens, session, owned)
    BY <1>5
  <2> QED BY <1>1, <2>1, AttributionOfFewer
<1>7. ProofIsExact'
  BY <1>1, <1>2 DEF ProofIsExact, Spaces
<1>8. ASSUME op.seen = swaps, reports, NEW x \in p.lanes
      PROVE  <<p.session[2], x.id>> \in owned
  <2>1. op.known.session = Generation(session.gen)
    BY <1>3, <1>8 DEF Seen
  <2>2. PICK g \in 0 .. gens : Names(p, g, session, owned)
    BY <1>5, <1>8 DEF Attributed
  <2>3. p.session = Generation(g)
    BY <2>2 DEF Names
  <2>4. Generation(g) = Generation(session.gen)
    BY <2>1, <2>3
  <2>5. g = session.gen
    BY <2>4, GenerationsDiffer
  <2>6. <<g, x.id>> \in owned
    BY <1>8, <2>2, <2>5 DEF Names
  <2>7. p.session[2] = g
    BY <2>3 DEF Generation
  <2> QED BY <2>6, <2>7
<1>9. LanesAreOwn'
  BY <1>1, <1>2, <1>8 DEF LanesAreOwn
<1>10. project'.asOf[1] <= acts' /\ project'.asOf[2] <= count'
  BY <1>1, <1>2, <1>3 DEF WorldOK
<1>11. ProjectOK'
  BY <1>4, <1>6, <1>7, <1>9, <1>10 DEF ProjectOK
<1>12. WorldOK' /\ OpOK'
  BY <1>2 DEF WorldOK, OpOK
<1> QED BY <1>11, <1>12
----------------------------------------------------------------------------
(* The operation under way, while it looks.                                *)

LEMMA OpTells ==
  ASSUME IInv, NEW pc, At(pc)
  PROVE  /\ op # None /\ op \in Ops /\ op.pc = pc /\ op.known \in Proofs
         /\ op.seen \in Nat /\ op.calm \in Nat /\ op.began \in Nat
         /\ op.seen <= swaps /\ op.calm <= acts /\ op.began <= acts
BY DEF IInv, OpOK, Ops, At

\* An operation at another place, or with another proof, is otherwise the same.
LEMMA PcTells ==
  ASSUME NEW o \in Ops, NEW pc \in Pcs
  PROVE  LET u == [o EXCEPT !.pc = pc] IN
         /\ u \in Ops /\ u.pc = pc /\ u.lane = o.lane /\ u.known = o.known
         /\ u.seen = o.seen /\ u.calm = o.calm /\ u.began = o.began
BY DEF Ops

LEMMA KnownTells ==
  ASSUME NEW o \in Ops, NEW k \in Proofs
  PROVE  LET u == [o EXCEPT !.known = k] IN
         /\ u \in Ops /\ u.pc = o.pc /\ u.lane = o.lane /\ u.known = k
         /\ u.seen = o.seen /\ u.calm = o.calm /\ u.began = o.began
BY DEF Ops

LEMMA GoToTells ==
  ASSUME op \in Ops, NEW pc \in Pcs, GoTo(pc)
  PROVE  /\ op' \in Ops /\ op'.pc = pc
         /\ op'.lane = op.lane /\ op'.known = op.known /\ op'.seen = op.seen
         /\ op'.calm = op.calm /\ op'.began = op.began
BY PcTells DEF GoTo

LEMMA ListedTells ==
  ASSUME op \in Ops, WorldOK
  PROVE  /\ Listed \in Ops /\ Listed.lane = op.lane /\ Listed.known = op.known
         /\ Listed.seen = swaps /\ Listed.calm = acts /\ Listed.began = op.began
<1> DEFINE u == [op EXCEPT !.calm = acts]
<1>1. u \in Ops /\ u.lane = op.lane /\ u.known = op.known /\ u.calm = acts
      /\ u.began = op.began
  BY DEF Ops, WorldOK
<1>2. Listed = [u EXCEPT !.seen = swaps]
  BY DEF Listed
<1> HIDE DEF u
<1> QED BY <1>1, <1>2 DEF Ops, WorldOK

LEMMA ListedGoes ==
  ASSUME op \in Ops, WorldOK, NEW pc \in Pcs, op' = [Listed EXCEPT !.pc = pc]
  PROVE  /\ op' \in Ops /\ op'.pc = pc
         /\ op'.lane = op.lane /\ op'.known = op.known /\ op'.seen = swaps
         /\ op'.calm = acts /\ op'.began = op.began
BY ListedTells DEF Ops

\* A list that finds what it should; a snapshot follows it, or a command.
LEMMA ListStep ==
  ASSUME IInv, NEW at, At(at), NEW next \in Pcs, op' = [Listed EXCEPT !.pc = next],
         UNCHANGED <<herdr, project, count, world>>,
         at \in ProvisionPcs \/ next \notin ProvisionPcs,
         next \notin CalmPcs, next # "started_snapshot",
         at \in NewPcs => next \in NewPcs,
         next \in SeenPcs => Bound(op.known)
  PROVE  IInv'
<1>1. WorldOK /\ OpOK
  BY DEF IInv
<1>2. /\ op \in Ops /\ op.pc = at /\ op.began <= acts /\ op # None
  BY OpTells
<1>3. /\ op' \in Ops /\ op'.pc = next
      /\ op'.lane = op.lane /\ op'.known = op.known /\ op'.seen = swaps
      /\ op'.calm = acts /\ op'.began = op.began
  BY <1>1, <1>2, ListedGoes
<1>4. UNCHANGED <<session, reports, gens, acts, swaps, owned>>
  BY DEF herdr, world
<1>5. op'.pc \in ProvisionPcs => op'.lane \in Lanes
  BY <1>1, <1>2, <1>3 DEF OpOK
<1>6. reports' /\ op'.pc \notin NewPcs =>
          Attributed(op'.known, gens', session', owned')
  BY <1>1, <1>2, <1>3, <1>4 DEF OpOK
<1>7. op'.pc \in SeenPcs => Seen'
  BY <1>3, <1>4 DEF Seen, Bound
<1>8. OpOK'
  BY <1>1, <1>2, <1>3, <1>4, <1>5, <1>6, <1>7 DEF OpOK, WorldOK
<1> QED BY <1>8, LookGoes

LEMMA ListsStep == IInv /\ (SeeAbsent \/ SeeKnown \/ SeeBinding) => IInv'
<1> SUFFICES ASSUME IInv, SeeAbsent \/ SeeKnown \/ SeeBinding PROVE IInv'
  OBVIOUS
<1> USE DEF ProvisionPcs, NewPcs, CalmPcs, SeenPcs, Pcs, LookPcs
<1>1. UNCHANGED <<herdr, project, count, world>>
  BY DEF SeeAbsent, SeeKnown, SeeBinding, List, Fail
<1>2. CASE op' = None
  BY <1>1, <1>2, LookEnds
<1>3. CASE At("provision_absent") /\ op' = [Listed EXCEPT !.pc = "start"]
  BY <1>1, <1>3, ListStep
<1>4. CASE /\ At("provision_known") /\ op' = [Listed EXCEPT !.pc = "known_snapshot"]
           /\ Bound(op.known)
  BY <1>1, <1>4, ListStep
<1>5. CASE /\ At("list") /\ op' = [Listed EXCEPT !.pc = "snapshot"]
           /\ Bound(op.known)
  BY <1>1, <1>5, ListStep
<1> QED BY <1>2, <1>3, <1>4, <1>5
        DEF SeeAbsent, SeeKnown, SeeBinding, List, Fail

LEMMA NoProofTyped == NoProof \in Proofs /\ NoProof.lanes = {}
BY DEF NoProof, Proofs, SessionIds

LEMMA SeeStartedStep == IInv /\ SeeStarted => IInv'
<1> SUFFICES ASSUME IInv, SeeStarted PROVE IInv'
  OBVIOUS
<1> USE DEF IInv
<1>1. UNCHANGED <<herdr, project, count, world>> /\ At("started")
  BY DEF SeeStarted
<1>2. UNCHANGED <<session, reports, gens, acts, swaps, owned>>
  BY <1>1 DEF herdr, world
<1>3. CASE op' = None
  BY <1>1, <1>3, LookEnds
<1>4. CASE op' # None
  <2> DEFINE id == IF reports THEN Generation(session.gen) ELSE Receipt(op.receipt)
             k == [NoProof EXCEPT !.session = id]
  <2>1. session # None /\ op' = [Listed EXCEPT !.pc = "started_snapshot", !.known = k]
    BY <1>4 DEF SeeStarted
  <2>2. op \in Ops /\ op.pc = "started" /\ op.began <= acts /\ op # None
    BY <1>1, OpTells
  <2>3. id \in SessionIds
    BY <2>1, <2>2, SessionTells DEF SessionIds, Generation, Receipt, Ops
  <2>4. reports => id = Generation(session.gen)
    OBVIOUS
  <2> HIDE DEF id
  <2>5. k \in Proofs /\ k.session = id /\ k.lanes = {}
    BY <2>3, NoProofTyped DEF Proofs
  <2> DEFINE u == [Listed EXCEPT !.pc = "started_snapshot"]
  <2>6. /\ u \in Ops /\ u.pc = "started_snapshot" /\ u.lane = op.lane
        /\ u.seen = swaps /\ u.calm = acts /\ u.began = op.began
    BY <2>2, ListedTells, PcTells DEF Pcs, LookPcs
  <2>7. op' = [u EXCEPT !.known = k]
    BY <2>1
  <2> HIDE DEF u, k
  <2>8. /\ op' \in Ops /\ op'.pc = "started_snapshot" /\ op'.lane = op.lane
        /\ op'.known = k
        /\ op'.seen = swaps /\ op'.calm = acts /\ op'.began = op.began
    BY <2>5, <2>6, <2>7, KnownTells
  <2>9. op.lane \in Lanes
    BY <2>2 DEF OpOK, ProvisionPcs, NewPcs
  <2>10. ASSUME reports
         PROVE  Attributed(k, gens, session, owned)
    <3>1. Names(k, session.gen, session, owned)
      BY <2>4, <2>5, <2>10 DEF Names
    <3>2. session.gen \in 0 .. gens
      BY <2>1, SessionTells DEF WorldOK
    <3> QED BY <3>1, <3>2 DEF Attributed
  <2>11. Seen'
    BY <1>2, <2>1, <2>4, <2>5, <2>8 DEF Seen
  <2>12. OpOK'
    BY <1>2, <2>2, <2>5, <2>8, <2>9, <2>10, <2>11 DEF OpOK, WorldOK, CalmPcs
  <2> QED BY <1>1, <2>12, LookGoes
<1> QED BY <1>3, <1>4

\* What was on the session before it was used is the workspace that Herdr makes
\* by itself, or none.
LEMMA SeeStartupStep == IInv /\ SeeStartup => IInv'
<1> SUFFICES ASSUME IInv, SeeStartup PROVE IInv'
  OBVIOUS
<1> USE DEF IInv
<1>1. UNCHANGED <<herdr, project, count, world>> /\ At("started_snapshot")
  BY DEF SeeStartup
<1>2. UNCHANGED <<session, reports, gens, acts, swaps, owned>>
  BY <1>1 DEF herdr, world
<1>3. CASE op' = None
  BY <1>1, <1>3, LookEnds
<1>4. CASE op' # None
  <2> DEFINE X == {[id |-> w.id, receipt |-> op.receipt] : w \in session.spaces}
             k == [op.known EXCEPT !.sides = X]
             u == [op EXCEPT !.pc = "create"]
  <2>1. /\ session # None /\ \A w \in session.spaces : w.content = "default"
        /\ op' = [u EXCEPT !.known = k]
    BY <1>4 DEF SeeStartup
  <2>2. /\ op \in Ops /\ op.pc = "started_snapshot" /\ op.known \in Proofs
        /\ op # None /\ op.receipt \in Nat
        /\ op.seen <= swaps /\ op.calm <= acts /\ op.began <= acts
    BY <1>1, OpTells DEF Ops
  <2>3. session.spaces \subseteq [id : Nat, content : Contents]
    BY <2>1, SessionTells
  <2>4. X \subseteq SideRefs
    BY <2>2, <2>3 DEF SideRefs
  <2>5. op.known.lanes = {}
    BY <2>2 DEF OpOK
  <2> HIDE DEF X
  <2>6. k \in Proofs /\ k.session = op.known.session /\ k.lanes = {} /\ k.sides = X
    BY <2>2, <2>4, <2>5 DEF Proofs
  <2>7. /\ u \in Ops /\ u.pc = "create" /\ u.lane = op.lane /\ u.seen = op.seen
        /\ u.calm = op.calm /\ u.began = op.began
    BY <2>2, PcTells DEF Pcs, LookPcs
  <2> HIDE DEF k, u
  <2>8. /\ op' \in Ops /\ op'.pc = "create" /\ op'.lane = op.lane
        /\ op'.known = k /\ op'.seen = op.seen
        /\ op'.calm = op.calm /\ op'.began = op.began
    BY <2>1, <2>6, <2>7, KnownTells
  <2>9. op.lane \in Lanes /\ Seen
        /\ (reports => Attributed(op.known, gens, session, owned))
    BY <2>2 DEF OpOK, ProvisionPcs, SeenPcs, NewPcs
  <2>10. reports => Attributed(k, gens, session, owned)
    BY <2>5, <2>6, <2>9, AttributionOfFewer
  <2>11. Spaces(k) = session.spaces
    <3>1. \A w \in session.spaces : w = Space(w.id, "default")
      BY <2>1, <2>3 DEF Space
    <3>2. Spaces(k) = {Space(x.id, "default") : x \in X}
      BY <2>6 DEF Spaces
    <3>3. ASSUME NEW w \in session.spaces
          PROVE  \E x \in X : Space(x.id, "default") = w
      <4>1. [id |-> w.id, receipt |-> op.receipt] \in X
        BY DEF X
      <4> QED BY <3>1, <4>1
    <3>4. ASSUME NEW x \in X
          PROVE  Space(x.id, "default") \in session.spaces
      BY <3>1 DEF X
    <3> QED BY <3>2, <3>3, <3>4
  <2>12. Calm'
    BY <1>2, <2>1, <2>8, <2>11 DEF Calm
  <2>13. Seen'
    BY <1>2, <2>6, <2>8, <2>9 DEF Seen
  <2>14. OpOK'
    BY <1>2, <2>2, <2>8, <2>9, <2>10, <2>12, <2>13 DEF OpOK, WorldOK
  <2> QED BY <1>1, <2>14, LookGoes
<1> QED BY <1>3, <1>4

\* A snapshot that shows the proof.
LEMMA VerifiedGoes ==
  ASSUME IInv, NEW at \in {"known_snapshot", "snapshot"}, At(at),
         NEW pc \in {"create", "command"}, GoTo(pc),
         at = "snapshot" => pc = "command",
         Verifies(op.known), UNCHANGED <<herdr, project, count, world>>
  PROVE  IInv'
<1> USE DEF IInv
<1>1. UNCHANGED <<session, reports, gens, acts, swaps, owned>>
  BY DEF herdr, world
<1>2. /\ op # None /\ op \in Ops /\ op.pc = at
      /\ op.seen <= swaps /\ op.calm <= acts /\ op.began <= acts
  BY OpTells
<1>3. /\ op' \in Ops /\ op'.pc = pc
      /\ op'.lane = op.lane /\ op'.known = op.known /\ op'.seen = op.seen
      /\ op'.calm = op.calm /\ op'.began = op.began
  <2>1. pc \in Pcs
    BY DEF Pcs
  <2> QED BY <1>2, <2>1, GoToTells
<1>4. /\ Seen /\ (reports => Attributed(op.known, gens, session, owned))
      /\ at = "known_snapshot" => op.lane \in Lanes
  BY <1>2 DEF OpOK, SeenPcs, NewPcs, ProvisionPcs
<1>5. session # None /\ session.spaces = Spaces(op.known)
  BY DEF Verifies, Matches
<1>6. Seen' /\ Calm'
  BY <1>1, <1>3, <1>4, <1>5 DEF Seen, Calm
<1>7. op'.pc \in ProvisionPcs => op'.lane \in Lanes
  BY <1>3, <1>4 DEF ProvisionPcs, NewPcs
<1>8. OpOK'
  BY <1>1, <1>2, <1>3, <1>4, <1>6, <1>7 DEF OpOK, WorldOK
<1> QED BY <1>8, LookGoes

LEMMA SeeSpacesStep == IInv /\ SeeSpaces => IInv'
<1> SUFFICES ASSUME IInv, SeeSpaces PROVE IInv'
  OBVIOUS
<1>1. UNCHANGED <<herdr, project, count, world>> /\ At("snapshot")
  BY DEF SeeSpaces, Fail
<1>2. CASE op' = None
  BY <1>1, <1>2, LookEnds
<1>3. CASE Verifies(op.known) /\ GoTo("command")
  BY <1>1, <1>3, VerifiedGoes
<1> QED BY <1>2, <1>3 DEF SeeSpaces, Fail

LEMMA ReturnVerified ==
  ASSUME IInv, NEW at \in {"known_snapshot", "created"}, At(at),
         Verifies(op.known), Return(op.known), UNCHANGED <<herdr, count, world>>
  PROVE  IInv'
<1>1. op # None /\ op.pc \in SeenPcs /\ op.known \in Proofs
  BY OpTells DEF SeenPcs
<1>2. session # None /\ session.running /\ session.spaces = Spaces(op.known)
  BY DEF Verifies, Matches
<1> QED BY <1>1, <1>2, Returned

LEMMA SeeProjectStep == IInv /\ SeeProject => IInv'
<1> SUFFICES ASSUME IInv, SeeProject PROVE IInv'
  OBVIOUS
<1>1. UNCHANGED <<herdr, count, world>> /\ At("known_snapshot")
  BY DEF SeeProject
<1>2. CASE Fail
  BY <1>1, <1>2, LookEnds DEF Fail
<1>3. CASE Verifies(op.known) /\ Return(op.known)
  BY <1>1, <1>3, ReturnVerified
<1>4. CASE Verifies(op.known) /\ GoTo("create") /\ UNCHANGED project
  BY <1>1, <1>4, VerifiedGoes
<1> QED BY <1>2, <1>3, <1>4 DEF SeeProject

LEMMA SeeCreatedStep == IInv /\ SeeCreated => IInv'
<1> SUFFICES ASSUME IInv, SeeCreated PROVE IInv'
  OBVIOUS
<1>1. UNCHANGED <<herdr, count, world>> /\ At("created")
  BY DEF SeeCreated
<1>2. CASE Fail
  BY <1>1, <1>2, LookEnds DEF Fail
<1>3. CASE Verifies(op.known) /\ Return(op.known)
  BY <1>1, <1>3, ReturnVerified
<1> QED BY <1>2, <1>3 DEF SeeCreated

\* What remains after a lane was closed is returned.
LEMMA SeeClosedStep == IInv /\ SeeClosed => IInv'
<1> SUFFICES ASSUME IInv, SeeClosed PROVE IInv'
  OBVIOUS
<1>1. UNCHANGED <<herdr, count, world>> /\ At("closed")
  BY DEF SeeClosed
<1>2. CASE Fail
  BY <1>1, <1>2, LookEnds DEF Fail
<1>3. CASE ~Fail
  <2> DEFINE left == [op.known EXCEPT !.lanes = @ \ {LaneEntry}]
             new == IF session = None THEN {} ELSE
                    {w \in session.spaces : w.id \notin Ids(Spaces(left))}
             more == {[id |-> w.id, receipt |-> op.receipt] : w \in new}
             kept == [left EXCEPT !.sides = @ \cup more]
  <2>1. /\ session # None /\ session.running /\ session.spaces = Spaces(kept)
        /\ Return(kept)
    BY <1>3 DEF SeeClosed
  <2>2. /\ op # None /\ op \in Ops /\ op.pc = "closed" /\ op.known \in Proofs
        /\ op.receipt \in Nat
    BY <1>1, OpTells DEF Ops
  <2>3. left \in Proofs /\ left.session = op.known.session
        /\ left.lanes \subseteq op.known.lanes
    BY <2>2 DEF Proofs
  <2>4. new \subseteq [id : Nat, content : Contents]
    BY SessionTells DEF IInv
  <2> HIDE DEF left, new
  <2>5. more \subseteq SideRefs
    BY <2>2, <2>4 DEF SideRefs
  <2> HIDE DEF more
  <2>6. kept \in Proofs /\ kept.session = left.session /\ kept.lanes = left.lanes
    BY <2>3, <2>5 DEF Proofs
  <2> HIDE DEF kept
  <2>7. kept.session = op.known.session /\ kept.lanes \subseteq op.known.lanes
    BY <2>3, <2>6
  <2>8. op.pc \in SeenPcs
    BY <2>2 DEF SeenPcs
  <2> QED BY <1>1, <2>1, <2>2, <2>6, <2>7, <2>8, Returned
<1> QED BY <1>2, <1>3

LEMMA SeeStoppedStep == IInv /\ SeeStopped => IInv'
<1> SUFFICES ASSUME IInv, SeeStopped PROVE IInv'
  OBVIOUS
<1> USE DEF IInv
<1>1. UNCHANGED <<herdr, project, count, world>> /\ At("stopped")
  BY DEF SeeStopped, Fail
<1>2. UNCHANGED <<session, reports, gens, acts, swaps, owned>>
  BY <1>1 DEF herdr, world
<1>3. CASE op' = None
  BY <1>1, <1>3, LookEnds
<1>4. CASE op' # None
  <2> DEFINE u == [op EXCEPT !.pc = "delete"]
  <2>1. Bound(op.known) /\ op' = [u EXCEPT !.seen = swaps]
    BY <1>4 DEF SeeStopped, Fail
  <2>2. /\ op # None /\ op \in Ops /\ op.pc = "stopped"
        /\ op.calm <= acts /\ op.began <= acts
    BY <1>1, OpTells
  <2>3. /\ u \in Ops /\ u.pc = "delete" /\ u.lane = op.lane /\ u.known = op.known
        /\ u.calm = op.calm /\ u.began = op.began
    BY <2>2, PcTells DEF Pcs, LookPcs
  <2> HIDE DEF u
  <2>4. /\ op' \in Ops /\ op'.pc = "delete" /\ op'.lane = op.lane
        /\ op'.known = op.known /\ op'.calm = op.calm /\ op'.began = op.began
        /\ op'.seen = swaps
    BY <2>1, <2>3 DEF Ops, WorldOK
  <2>5. Calm /\ (reports => Attributed(op.known, gens, session, owned))
    BY <2>2 DEF OpOK, CalmPcs, NewPcs
  <2>6. Seen' /\ Calm'
    BY <1>2, <2>1, <2>4, <2>5 DEF Seen, Calm, Bound
  <2>7. op'.pc \notin ProvisionPcs
    BY <2>4 DEF ProvisionPcs, NewPcs
  <2>8. OpOK'
    BY <1>2, <2>2, <2>4, <2>5, <2>6, <2>7 DEF OpOK, WorldOK
  <2> QED BY <1>1, <2>8, LookGoes
<1> QED BY <1>3, <1>4

LEMMA SeeDeletedStep == IInv /\ SeeDeleted => IInv'
<1> SUFFICES ASSUME IInv, SeeDeleted PROVE IInv'
  OBVIOUS
<1>1. UNCHANGED <<herdr, count, world>> /\ op' = None
  BY DEF SeeDeleted
<1>2. CASE UNCHANGED project
  BY <1>1, <1>2, LookEnds
<1>3. CASE project' = None
  <2>1. ProjectOK' /\ OpOK'
    BY <1>1, <1>3 DEF ProjectOK, ProofIsExact, LanesAreOwn, OpOK
  <2>2. WorldOK'
    BY <1>1 DEF IInv, WorldOK, herdr, world
  <2> QED BY <2>1, <2>2 DEF IInv
<1> QED BY <1>2, <1>3 DEF SeeDeleted

LEMMA LookFailsStep ==
  ASSUME IInv, NEW pc, LookFails(pc) PROVE IInv'
BY LookEnds DEF LookFails, Fail

LEMMA RestartStep ==
  ASSUME IInv, NEW seeded, Restart(seeded) PROVE IInv'
BY LookEnds DEF Restart
----------------------------------------------------------------------------
(* Mutating commands.                                                      *)

LEMMA StartMoves ==
  ASSUME WorldOK, StartEffect, UNCHANGED reports
  PROVE  Moves /\ session'.gen \in Nat
<1>1. PICK default \in BOOLEAN :
          /\ session' = NewSession(gens + 1, default)
          /\ owned' = owned \cup (IF default THEN {<<gens + 1, 1>>} ELSE {})
  BY DEF StartEffect
<1>2. gens \in Nat /\ gens' = gens + 1 /\ gens + 1 \in Nat
  BY DEF StartEffect, WorldOK
<1>3. session' \in Sessions /\ session'.gen = gens + 1
  BY <1>1, <1>2, NewSessionTyped
<1>4. owned \subseteq owned'
  BY <1>1
<1> QED BY <1>2, <1>3, <1>4 DEF Moves

LEMMA CreateMoves ==
  ASSUME WorldOK, CreateEffect, op.lane \in Lanes, UNCHANGED reports
  PROVE  /\ Moves /\ session # None /\ session' # None /\ session'.gen = session.gen
         /\ <<session.gen, session.next>> \in owned'
<1> DEFINE new == session.spaces \cup {Space(session.next, op.lane)}
<1>1. /\ session # None /\ UNCHANGED gens
      /\ session' = WithNew(new)
      /\ owned' = owned \cup {<<session.gen, session.next>>}
  BY DEF CreateEffect, WithNew
<1>2. new \in SUBSET [id : Nat, content : Contents]
  BY <1>1, SessionTells DEF Space, Contents
<1> HIDE DEF new
<1>3. owned \subseteq owned' /\ <<session.gen, session.next>> \in owned'
  BY <1>1
<1>4. Moves /\ session' # None /\ session'.gen = session.gen
  BY <1>1, <1>2, <1>3, SpacesChange
<1> QED BY <1>1, <1>3, <1>4

LEMMA CloseMoves ==
  ASSUME WorldOK, NEW id, CloseEffect(id), UNCHANGED reports
  PROVE  Moves /\ session # None /\ session' # None /\ session'.gen = session.gen
<1> DEFINE left == {w \in session.spaces : w.id # id}
           default == {Space(session.next, "default")}
<1>1. session # None /\ UNCHANGED gens
  BY DEF CloseEffect
<1>2. left \in SUBSET [id : Nat, content : Contents]
  BY <1>1, SessionTells
<1>3. default \in SUBSET [id : Nat, content : Contents]
  BY <1>1, SessionTells DEF Space, Contents
<1>4. /\ owned \subseteq owned'
      /\ \/ session' = With(left)
         \/ session' = WithNew(default)
  BY DEF CloseEffect, With, WithNew
<1> HIDE DEF left, default
<1>5. CASE session' = With(left)
  BY <1>1, <1>2, <1>4, <1>5, SpacesChange
<1>6. CASE session' = WithNew(default)
  BY <1>1, <1>3, <1>4, <1>6, SpacesChange
<1> QED BY <1>4, <1>5, <1>6

LEMMA StopMoves ==
  ASSUME WorldOK, StopEffect, UNCHANGED reports
  PROVE  /\ Moves /\ session # None /\ session' # None /\ session'.gen = session.gen
         /\ session'.spaces = session.spaces
<1>1. /\ session # None /\ session' = [session EXCEPT !.running = FALSE]
      /\ UNCHANGED <<gens, owned>>
  BY DEF StopEffect
<1>2. session' \in Sessions /\ session'.gen = session.gen
      /\ session'.spaces = session.spaces
  BY <1>1, SessionTells DEF Sessions
<1>3. session' # None
  BY <1>2, NoneIsNoSession
<1> QED BY <1>1, <1>2, <1>3 DEF WorldOK, Moves

LEMMA DeleteMoves ==
  ASSUME WorldOK, DeleteEffect, UNCHANGED reports
  PROVE  Moves
BY DEF WorldOK, DeleteEffect, Moves

\* After a command no proof returned before it is as of now.
LEMMA CommandGoes ==
  ASSUME IInv, Moves, Give, OpOK', UNCHANGED <<project, acts, swaps>>
  PROVE  IInv'
<1>1. /\ acts' \in Nat /\ acts <= acts' /\ swaps' \in Nat
      /\ count' \in Nat /\ count <= count' /\ count' # count
  BY DEF IInv, WorldOK, Give
<1>2. ProjectOK'
  BY <1>1, ProjectKept
<1>3. WorldOK'
  BY <1>1, WorldKept DEF IInv
<1> QED BY <1>2, <1>3 DEF IInv

LEMMA CommandEnds ==
  ASSUME IInv, Moves, Give, op' = None, UNCHANGED <<project, acts, swaps>>
  PROVE  IInv'
BY CommandGoes DEF OpOK

LEMMA StartStep == IInv /\ Start => IInv'
<1> SUFFICES ASSUME IInv, Start PROVE IInv'
  OBVIOUS
<1>1. At("start") /\ Give /\ UNCHANGED <<reports, acts, swaps>> /\ WorldOK
  BY DEF Start, IInv
<1>2. Moves /\ UNCHANGED project
  BY <1>1, StartMoves DEF Start, Unanswered, Fail, WorldOK, Moves
<1>3. CASE op' = None
  BY <1>1, <1>2, <1>3, CommandEnds
<1>4. CASE op' # None
  <2> DEFINE u == [op EXCEPT !.pc = "started"]
             v == [u EXCEPT !.receipt = count]
  <2>1. StartEffect /\ op' = [v EXCEPT !.made = session'.gen]
    BY <1>4 DEF Start, Unanswered, Fail
  <2>2. /\ op # None /\ op \in Ops /\ op.pc = "start"
        /\ op.seen <= swaps /\ op.calm <= acts /\ op.began <= acts
    BY <1>1, OpTells
  <2>3. session'.gen \in Nat /\ count \in Nat
    BY <1>1, <2>1, StartMoves DEF WorldOK
  <2>4. /\ u \in Ops /\ u.pc = "started" /\ u.lane = op.lane
        /\ u.seen = op.seen /\ u.calm = op.calm /\ u.began = op.began
    BY <2>2, PcTells DEF Pcs, LookPcs
  <2> HIDE DEF u
  <2>5. /\ v \in Ops /\ v.pc = "started" /\ v.lane = op.lane
        /\ v.seen = op.seen /\ v.calm = op.calm /\ v.began = op.began
    BY <2>3, <2>4 DEF Ops
  <2> HIDE DEF v
  <2>6. /\ op' \in Ops /\ op'.pc = "started" /\ op'.lane = op.lane
        /\ op'.seen = op.seen /\ op'.calm = op.calm /\ op'.began = op.began
    BY <2>1, <2>3, <2>5 DEF Ops
  <2>7. op.lane \in Lanes
    BY <2>2 DEF IInv, OpOK, ProvisionPcs, NewPcs
  <2>8. OpOK'
    BY <1>1, <2>2, <2>6, <2>7 DEF OpOK, NewPcs, SeenPcs, CalmPcs
  <2> QED BY <1>1, <1>2, <2>8, CommandGoes
<1> QED BY <1>3, <1>4

\* A workspace that was created is a lane of the proof: it is own, or what the
\* proof names was gone before.
LEMMA CreateStep == IInv /\ Create => IInv'
<1> SUFFICES ASSUME IInv, Create PROVE IInv'
  OBVIOUS
<1>1. At("create") /\ Give /\ UNCHANGED <<reports, acts, swaps>> /\ WorldOK
  BY DEF Create, IInv
<1>2. /\ op # None /\ op \in Ops /\ op.pc = "create" /\ op.known \in Proofs
      /\ op.seen <= swaps /\ op.calm <= acts /\ op.began <= acts
  BY <1>1, OpTells
<1>3. /\ op.lane \in Lanes /\ Seen
      /\ (reports => Attributed(op.known, gens, session, owned))
  BY <1>2 DEF IInv, OpOK, ProvisionPcs, NewPcs, SeenPcs
<1>4. Moves /\ UNCHANGED project
  <2>1. UNCHANGED project /\ (CreateEffect \/ UNCHANGED <<session, gens, owned>>)
    BY DEF Create, Unanswered, Fail
  <2>2. CASE CreateEffect
    BY <1>1, <1>3, <2>1, <2>2, CreateMoves
  <2>3. CASE UNCHANGED <<session, gens, owned>>
    BY <1>1, <2>1, <2>3 DEF WorldOK, Moves
  <2> QED BY <2>1, <2>2, <2>3
<1>5. CASE op' = None
  BY <1>1, <1>4, <1>5, CommandEnds
<1>6. CASE op' # None
  <2> DEFINE new == [lane |-> op.lane, id |-> session.next, receipt |-> count]
             more == op.known.lanes \cup {new}
             k == [op.known EXCEPT !.lanes = more]
             u == [op EXCEPT !.pc = "created"]
  <2>1. CreateEffect /\ op' = [u EXCEPT !.known = k]
    BY <1>6 DEF Create, Unanswered, Fail, AnsweredId
  <2>2. /\ session # None /\ session' # None /\ session'.gen = session.gen
        /\ <<session.gen, session.next>> \in owned'
    BY <1>1, <1>3, <2>1, CreateMoves
  <2>3. new \in LaneRefs /\ new.id = session.next
    BY <1>1, <1>3, <2>2, SessionTells DEF LaneRefs, WorldOK
  <2> HIDE DEF new
  <2>4. more \in SUBSET LaneRefs
    BY <1>2, <2>3 DEF Proofs
  <2>5. \A x \in more : x \in op.known.lanes \/ x = new
    OBVIOUS
  <2> HIDE DEF more
  <2>6. k \in Proofs /\ k.session = op.known.session /\ k.lanes = more
    BY <1>2, <2>4 DEF Proofs
  <2>7. /\ u \in Ops /\ u.pc = "created" /\ u.lane = op.lane
        /\ u.seen = op.seen /\ u.calm = op.calm /\ u.began = op.began
    BY <1>2, PcTells DEF Pcs, LookPcs
  <2> HIDE DEF k, u
  <2>8. /\ op' \in Ops /\ op'.pc = "created" /\ op'.lane = op.lane
        /\ op'.known = k /\ op'.seen = op.seen
        /\ op'.calm = op.calm /\ op'.began = op.began
    BY <2>1, <2>6, <2>7, KnownTells
  <2>9. ASSUME reports
        PROVE  Attributed(k, gens', session', owned')
    <3>1. PICK g \in 0 .. gens' : Names(op.known, g, session', owned')
      BY <1>1, <1>3, <1>4, <2>9, AttributionKept DEF Attributed
    <3>2. ASSUME session'.gen = g, NEW x \in k.lanes
          PROVE  <<g, x.id>> \in owned'
      <4>1. CASE x \in op.known.lanes
        BY <2>2, <3>1, <3>2, <4>1 DEF Names
      <4>2. CASE x = new
        BY <2>2, <2>3, <3>2, <4>2
      <4> QED BY <2>5, <2>6, <3>2, <4>1, <4>2
    <3>3. Names(k, g, session', owned')
      BY <2>6, <3>1, <3>2 DEF Names
    <3> QED BY <3>1, <3>3 DEF Attributed
  <2>10. Seen'
    BY <1>1, <1>3, <2>2, <2>6, <2>8 DEF Seen
  <2>11. op'.pc \notin ProvisionPcs /\ op'.pc \notin CalmPcs
    BY <2>8 DEF ProvisionPcs, NewPcs, CalmPcs
  <2>12. op'.pc # "started_snapshot"
    BY <2>8
  <2>13. OpOK'
    BY <1>1, <1>2, <2>8, <2>9, <2>10, <2>11, <2>12 DEF OpOK
  <2> QED BY <1>1, <1>4, <2>13, CommandGoes
<1> QED BY <1>5, <1>6

LEMMA CommandTells ==
  ASSUME IInv, NEW pc \in {"command", "delete"}, At(pc)
  PROVE  /\ op # None /\ op \in Ops /\ op.pc = pc /\ Seen /\ Calm
         /\ (reports => Attributed(op.known, gens, session, owned))
         /\ op.seen <= swaps /\ op.calm <= acts /\ op.began <= acts
<1>1. /\ op # None /\ op \in Ops /\ op.pc = pc
      /\ op.seen <= swaps /\ op.calm <= acts /\ op.began <= acts
  BY OpTells
<1>2. Seen /\ Calm /\ (reports => Attributed(op.known, gens, session, owned))
  BY <1>1 DEF IInv, OpOK, NewPcs, SeenPcs, CalmPcs
<1> QED BY <1>1, <1>2

LEMMA DispatchStep == IInv /\ Dispatch => IInv'
<1> SUFFICES ASSUME IInv, Dispatch PROVE IInv'
  OBVIOUS
<1>1. Give /\ op' = None /\ UNCHANGED <<herdr, project, world>>
  BY DEF Dispatch
<1>2. Moves /\ UNCHANGED <<acts, swaps>>
  BY <1>1, Still DEF IInv, world
<1> QED BY <1>1, <1>2, CommandEnds

LEMMA CloseStep == IInv /\ Close => IInv'
<1> SUFFICES ASSUME IInv, Close PROVE IInv'
  OBVIOUS
<1>1. At("command") /\ Give /\ UNCHANGED <<reports, acts, swaps>> /\ WorldOK
  BY DEF Close, IInv
<1>2. Moves /\ UNCHANGED project
  <2>1. /\ UNCHANGED project
        /\ CloseEffect(LaneEntry.id) \/ UNCHANGED <<session, gens, owned>>
    BY DEF Close, Unanswered, Fail
  <2>2. CASE CloseEffect(LaneEntry.id)
    BY <1>1, <2>1, <2>2, CloseMoves
  <2>3. CASE UNCHANGED <<session, gens, owned>>
    BY <1>1, <2>1, <2>3 DEF WorldOK, Moves
  <2> QED BY <2>1, <2>2, <2>3
<1>3. CASE op' = None
  BY <1>1, <1>2, <1>3, CommandEnds
<1>4. CASE op' # None
  <2> DEFINE u == [op EXCEPT !.pc = "closed"]
  <2>1. CloseEffect(LaneEntry.id) /\ op' = [u EXCEPT !.receipt = count]
    BY <1>4 DEF Close, Unanswered, Fail
  <2>2. /\ op # None /\ op \in Ops /\ Seen
        /\ (reports => Attributed(op.known, gens, session, owned))
        /\ op.seen <= swaps /\ op.calm <= acts /\ op.began <= acts
    BY <1>1, CommandTells
  <2>3. session # None /\ session' # None /\ session'.gen = session.gen
    BY <1>1, <2>1, CloseMoves
  <2>4. /\ u \in Ops /\ u.pc = "closed" /\ u.known = op.known
        /\ u.seen = op.seen /\ u.calm = op.calm /\ u.began = op.began
    BY <2>2, PcTells DEF Pcs, LookPcs
  <2> HIDE DEF u
  <2>5. /\ op' \in Ops /\ op'.pc = "closed" /\ op'.known = op.known
        /\ op'.seen = op.seen /\ op'.calm = op.calm /\ op'.began = op.began
    BY <1>1, <2>1, <2>4 DEF Ops, WorldOK
  <2>6. reports' => Attributed(op'.known, gens', session', owned')
    BY <1>1, <1>2, <2>2, <2>5, AttributionKept
  <2>7. Seen'
    BY <1>1, <2>2, <2>3, <2>5 DEF Seen
  <2>8. /\ op'.pc \notin ProvisionPcs /\ op'.pc \notin CalmPcs
        /\ op'.pc # "started_snapshot"
    BY <2>5 DEF ProvisionPcs, NewPcs, CalmPcs
  <2>9. OpOK'
    BY <1>1, <2>2, <2>5, <2>6, <2>7, <2>8 DEF OpOK
  <2> QED BY <1>1, <1>2, <2>9, CommandGoes
<1> QED BY <1>3, <1>4

LEMMA StopStep == IInv /\ Stop => IInv'
<1> SUFFICES ASSUME IInv, Stop PROVE IInv'
  OBVIOUS
<1>1. At("command") /\ Give /\ UNCHANGED <<reports, acts, swaps>> /\ WorldOK
  BY DEF Stop, IInv
<1>2. Moves /\ UNCHANGED project
  <2>1. UNCHANGED project /\ (StopEffect \/ UNCHANGED <<session, gens, owned>>)
    BY DEF Stop, Unanswered, Fail
  <2>2. CASE StopEffect
    BY <1>1, <2>1, <2>2, StopMoves
  <2>3. CASE UNCHANGED <<session, gens, owned>>
    BY <1>1, <2>1, <2>3 DEF WorldOK, Moves
  <2> QED BY <2>1, <2>2, <2>3
<1>3. CASE op' = None
  BY <1>1, <1>2, <1>3, CommandEnds
<1>4. CASE op' # None
  <2>1. StopEffect /\ GoTo("stopped")
    BY <1>4 DEF Stop, Unanswered, Fail
  <2>2. /\ op # None /\ op \in Ops /\ Seen /\ Calm
        /\ (reports => Attributed(op.known, gens, session, owned))
        /\ op.seen <= swaps /\ op.calm <= acts /\ op.began <= acts
    BY <1>1, CommandTells
  <2>3. /\ session # None /\ session' # None /\ session'.gen = session.gen
        /\ session'.spaces = session.spaces
    BY <1>1, <2>1, StopMoves
  <2>4. /\ op' \in Ops /\ op'.pc = "stopped" /\ op'.known = op.known
        /\ op'.seen = op.seen /\ op'.calm = op.calm /\ op'.began = op.began
    BY <2>1, <2>2, GoToTells DEF Pcs, LookPcs
  <2>5. reports' => Attributed(op'.known, gens', session', owned')
    BY <1>1, <1>2, <2>2, <2>4, AttributionKept
  <2>6. Seen' /\ Calm'
    BY <1>1, <2>2, <2>3, <2>4 DEF Seen, Calm
  <2>7. op'.pc \notin ProvisionPcs /\ op'.pc # "started_snapshot"
    BY <2>4 DEF ProvisionPcs, NewPcs
  <2>8. OpOK'
    BY <1>1, <2>2, <2>4, <2>5, <2>6, <2>7 DEF OpOK
  <2> QED BY <1>1, <1>2, <2>8, CommandGoes
<1> QED BY <1>3, <1>4

LEMMA DeleteStep == IInv /\ Delete => IInv'
<1> SUFFICES ASSUME IInv, Delete PROVE IInv'
  OBVIOUS
<1>1. At("delete") /\ Give /\ UNCHANGED <<reports, acts, swaps>> /\ WorldOK
  BY DEF Delete, IInv
<1>2. Moves /\ UNCHANGED project
  <2>1. UNCHANGED project /\ (DeleteEffect \/ UNCHANGED <<session, gens, owned>>)
    BY DEF Delete, Unanswered, Fail
  <2>2. CASE DeleteEffect
    BY <1>1, <2>1, <2>2, DeleteMoves
  <2>3. CASE UNCHANGED <<session, gens, owned>>
    BY <1>1, <2>1, <2>3 DEF WorldOK, Moves
  <2> QED BY <2>1, <2>2, <2>3
<1>3. CASE op' = None
  BY <1>1, <1>2, <1>3, CommandEnds
<1>4. CASE op' # None
  <2>1. GoTo("deleted")
    BY <1>4 DEF Delete, Unanswered, Fail
  <2>2. /\ op # None /\ op \in Ops
        /\ (reports => Attributed(op.known, gens, session, owned))
        /\ op.seen <= swaps /\ op.calm <= acts /\ op.began <= acts
    BY <1>1, CommandTells
  <2>3. /\ op' \in Ops /\ op'.pc = "deleted" /\ op'.known = op.known
        /\ op'.seen = op.seen /\ op'.calm = op.calm /\ op'.began = op.began
    BY <2>1, <2>2, GoToTells DEF Pcs, LookPcs
  <2>4. reports' => Attributed(op'.known, gens', session', owned')
    BY <1>1, <1>2, <2>2, <2>3, AttributionKept
  <2>5. /\ op'.pc \notin ProvisionPcs /\ op'.pc # "started_snapshot"
        /\ op'.pc \notin SeenPcs /\ op'.pc \notin CalmPcs
    BY <2>3 DEF ProvisionPcs, NewPcs, SeenPcs, CalmPcs
  <2>6. OpOK'
    BY <1>1, <2>2, <2>3, <2>4, <2>5 DEF OpOK
  <2> QED BY <1>1, <1>2, <2>6, CommandGoes
<1> QED BY <1>3, <1>4
----------------------------------------------------------------------------
(* Operations begin, and the user acts.                                    *)

LEMMA BeginStep ==
  ASSUME IInv, NEW kind \in Kinds \cup {"provision"},
         NEW pc \in {"provision_absent", "provision_known", "list"},
         NEW l \in Lanes \cup {None}, Begin(kind, pc, l),
         pc # "list" => l \in Lanes, pc # "provision_absent" => project # None
  PROVE  IInv'
<1> USE DEF IInv
<1>1. UNCHANGED <<herdr, project, count, world>>
  BY DEF Begin
<1>2. UNCHANGED <<session, reports, gens, acts, swaps, owned>>
  BY <1>1 DEF herdr, world
<1>3. Known \in Proofs
  <2>1. CASE project = None
    BY <2>1, NoProofTyped DEF Known
  <2>2. CASE project # None
    BY <2>2 DEF Known, ProjectOK, Projects, Proofs
  <2> QED BY <2>1, <2>2
<1>4. ASSUME project # None, reports
      PROVE  Attributed(Known, gens, session, owned)
  <2>1. Known.session = project.session /\ Known.lanes = project.lanes
    BY <1>4 DEF Known
  <2>2. Attributed(project, gens, session, owned)
    BY <1>4 DEF ProjectOK
  <2> QED BY <2>1, <2>2, AttributionOfFewer
<1>5. /\ op'.pc = pc /\ op'.known = Known /\ op'.lane = l
      /\ op'.seen = swaps /\ op'.calm = acts /\ op'.began = acts
  BY DEF Begin
<1>6. op' \in Ops
  <2>1. pc \in Pcs
    BY DEF Pcs, LookPcs
  <2> QED BY <1>3, <2>1 DEF Begin, Ops, WorldOK
<1>7. op'.pc \in ProvisionPcs => op'.lane \in Lanes
  BY <1>5 DEF ProvisionPcs, NewPcs
<1>8. reports' /\ op'.pc \notin NewPcs =>
          Attributed(op'.known, gens', session', owned')
  BY <1>2, <1>4, <1>5 DEF NewPcs
<1>9. /\ op'.pc # "started_snapshot"
      /\ op'.pc \notin SeenPcs /\ op'.pc \notin CalmPcs
  BY <1>5 DEF SeenPcs, CalmPcs
<1>10. op'.seen <= swaps' /\ op'.calm <= acts' /\ op'.began <= acts'
  BY <1>2, <1>5 DEF WorldOK
<1>11. OpOK'
  BY <1>6, <1>7, <1>8, <1>9, <1>10 DEF OpOK
<1> QED BY <1>1, <1>11, LookGoes

LEMMA BeginsStep ==
  ASSUME NEW l \in Lanes \cup {None}, NEW k \in Kinds
  PROVE  IInv /\ ((l \in Lanes /\ BeginProvision(l)) \/ BeginOther(k, l)) => IInv'
<1>1. ASSUME IInv, l \in Lanes, BeginProvision(l) PROVE IInv'
  BY <1>1, BeginStep DEF BeginProvision
<1>2. ASSUME IInv, BeginOther(k, l) PROVE IInv'
  BY <1>2, BeginStep DEF BeginOther
<1> QED BY <1>1, <1>2

\* An act of the user: what an operation saw is no longer what is there.
LEMMA UserStep ==
  ASSUME IInv, Act, Moves, UNCHANGED <<op, project, count>>, swaps' \in Nat,
         \/ /\ swaps' = swaps /\ session # None /\ session' # None
            /\ session'.gen = session.gen
         \/ swaps' = swaps + 1
  PROVE  IInv'
<1> USE DEF IInv
<1>1. acts' \in Nat /\ acts <= acts' /\ acts' = acts + 1 /\ swaps <= swaps'
      /\ count' \in Nat /\ count <= count'
  BY DEF WorldOK, Act
<1>2. WorldOK'
  BY <1>1, WorldKept
<1>3. acts' # acts
  BY <1>1 DEF WorldOK
<1>4. ProjectOK'
  BY <1>1, <1>3, ProjectKept
<1>5. OpOK'
  <2> SUFFICES ASSUME op # None PROVE OpOK'
    BY DEF OpOK
  <2>1. /\ op \in Ops /\ op.seen \in Nat /\ op.calm \in Nat /\ op.began \in Nat
        /\ op.seen <= swaps /\ op.calm <= acts /\ op.began <= acts
    BY DEF OpOK, Ops
  <2>2. /\ op.seen <= swaps' /\ op.calm <= acts' /\ op.began <= acts'
        /\ op.calm # acts'
    BY <1>1, <2>1 DEF WorldOK
  <2>3. reports' /\ op.pc \notin NewPcs =>
            Attributed(op.known, gens', session', owned')
    BY AttributionKept DEF OpOK, Moves
  <2>4. ASSUME op.pc \in SeenPcs, op.seen = swaps'
        PROVE  session' # None
               /\ (reports' => op.known.session = Generation(session'.gen))
    <3>1. swaps' = swaps
      BY <2>1, <2>4 DEF WorldOK
    <3>2. session' # None /\ session'.gen = session.gen
      BY <3>1 DEF WorldOK
    <3>3. reports => op.known.session = Generation(session.gen)
      BY <2>4, <3>1 DEF OpOK, Seen
    <3> QED BY <3>2, <3>3 DEF Moves
  <2>5. op.pc \in SeenPcs => Seen'
    BY <2>4 DEF Seen
  <2>6. Calm'
    BY <2>2 DEF Calm
  <2> QED BY <2>1, <2>2, <2>3, <2>5, <2>6 DEF OpOK
<1> QED BY <1>2, <1>4, <1>5

LEMMA UserCreatesStep ==
  ASSUME NEW content \in Contents
  PROVE  IInv /\ UserCreates(content) => IInv'
<1> SUFFICES ASSUME IInv, UserCreates(content) PROVE IInv'
  OBVIOUS
<1> DEFINE new == session.spaces \cup {Space(session.next, content)}
<1>1. /\ Act /\ session # None
      /\ session' = WithNew(new)
      /\ UNCHANGED <<reports, gens, op, project, count, swaps, owned>>
  BY DEF UserCreates, WithNew
<1>2. WorldOK /\ swaps' \in Nat
  BY <1>1 DEF IInv, WorldOK
<1>3. new \in SUBSET [id : Nat, content : Contents]
  BY <1>1, <1>2, SessionTells DEF Space
<1> HIDE DEF new
<1>4. Moves /\ session' # None /\ session'.gen = session.gen
  BY <1>1, <1>2, <1>3, SpacesChange
<1> QED BY <1>1, <1>2, <1>4, UserStep

LEMMA UserClosesStep == IInv /\ UserCloses => IInv'
<1> SUFFICES ASSUME IInv, UserCloses PROVE IInv'
  OBVIOUS
<1>1. PICK w \in session.spaces : session' = With(session.spaces \ {w})
  BY DEF UserCloses, With
<1>2. /\ Act /\ session # None
      /\ UNCHANGED <<reports, gens, op, project, count, swaps, owned>>
  BY DEF UserCloses
<1>3. WorldOK /\ swaps' \in Nat
  BY <1>2 DEF IInv, WorldOK
<1>4. session.spaces \ {w} \in SUBSET [id : Nat, content : Contents]
  BY <1>2, <1>3, SessionTells
<1>5. Moves /\ session' # None /\ session'.gen = session.gen
  BY <1>1, <1>2, <1>3, <1>4, SpacesChange
<1> QED BY <1>2, <1>3, <1>5, UserStep

LEMMA UserReplacesStep ==
  ASSUME NEW new \in {None, NewSession(gens + 1, FALSE), NewSession(gens + 1, TRUE)}
  PROVE  IInv /\ UserReplaces(new) => IInv'
<1> SUFFICES ASSUME IInv, UserReplaces(new) PROVE IInv'
  OBVIOUS
<1>1. /\ Act /\ swaps' = swaps + 1 /\ session' = new
      /\ gens' = IF new = None THEN gens ELSE gens + 1
      /\ UNCHANGED <<reports, op, project, count, owned>>
  BY DEF UserReplaces
<1>2. gens \in Nat /\ gens + 1 \in Nat /\ swaps' \in Nat
  BY <1>1 DEF IInv, WorldOK
<1>3. new # None => new \in Sessions /\ new.gen = gens + 1
  BY <1>2, NewSessionTyped
<1>4. Moves
  BY <1>1, <1>2, <1>3 DEF Moves
<1> QED BY <1>1, <1>2, <1>4, UserStep
----------------------------------------------------------------------------
LEMMA InitHolds == Init => IInv
<1> SUFFICES ASSUME Init PROVE IInv
  OBVIOUS
<1>1. OpOK /\ ProjectOK
  BY DEF Init, OpOK, ProjectOK, ProofIsExact, LanesAreOwn
<1>2. PICK s \in {None, NewSession(1, FALSE)} : session = s
  BY DEF Init
<1>3. session # None => session \in Sessions /\ session.gen = 1
  BY <1>2, NewSessionTyped
<1>4. gens \in Nat /\ (session # None => session.gen <= gens)
  BY <1>3 DEF Init
<1>5. WorldOK
  BY <1>3, <1>4 DEF Init, WorldOK
<1> QED BY <1>1, <1>5 DEF IInv

LEMMA StepKeeps == IInv /\ [Next]_vars => IInv'
<1> SUFFICES ASSUME IInv, [Next]_vars PROVE IInv'
  OBVIOUS
<1>1. ASSUME NEW l \in Lanes, BeginProvision(l) PROVE IInv'
  <2>1. "dispatch" \in Kinds
    BY DEF Kinds
  <2> QED BY <1>1, <2>1, BeginsStep
<1>2. ASSUME NEW k \in Kinds, NEW l \in Lanes \cup {None}, BeginOther(k, l) PROVE IInv'
  BY <1>2, BeginsStep
<1>3. CASE SeeAbsent \/ SeeKnown \/ SeeBinding
  BY <1>3, ListsStep
<1>4. CASE SeeStarted \/ SeeStartup \/ SeeProject \/ SeeCreated \/ SeeSpaces
  BY <1>4, SeeStartedStep, SeeStartupStep, SeeProjectStep, SeeCreatedStep,
     SeeSpacesStep
<1>5. CASE SeeClosed \/ SeeStopped \/ SeeDeleted
  BY <1>5, SeeClosedStep, SeeStoppedStep, SeeDeletedStep
<1>6. CASE Start \/ Create \/ Dispatch \/ Close \/ Stop \/ Delete
  BY <1>6, StartStep, CreateStep, DispatchStep, CloseStep, StopStep, DeleteStep
<1>7. ASSUME NEW pc \in LookPcs, LookFails(pc) PROVE IInv'
  BY <1>7, LookFailsStep
<1>8. ASSUME NEW seeded \in BOOLEAN, Restart(seeded) PROVE IInv'
  BY <1>8, RestartStep
<1>9. ASSUME NEW content \in Contents, UserCreates(content) PROVE IInv'
  BY <1>9, UserCreatesStep
<1>10. CASE UserCloses
  BY <1>10, UserClosesStep
<1>11. ASSUME NEW new \in {None, NewSession(gens + 1, FALSE),
                           NewSession(gens + 1, TRUE)}, UserReplaces(new)
       PROVE  IInv'
  BY <1>11, UserReplacesStep
<1>12. CASE UNCHANGED vars
  <2>1. UNCHANGED <<herdr, project, count, world>> /\ UNCHANGED op
    BY <1>12 DEF vars
  <2>2. OpOK'
    BY <2>1 DEF IInv, OpOK, Seen, Calm, herdr, world
  <2> QED BY <2>1, <2>2, LookGoes
<1> QED BY <1>1, <1>2, <1>3, <1>4, <1>5, <1>6, <1>7, <1>8, <1>9, <1>10, <1>11,
        <1>12 DEF Next

\* Commands are given at four places only.
LEMMA CommandsCount ==
  [Next]_vars /\ count' # count =>
      At("start") \/ At("create") \/ At("command") \/ At("delete")
<1> SUFFICES ASSUME [Next]_vars, count' # count
             PROVE  At("start") \/ At("create") \/ At("command") \/ At("delete")
  OBVIOUS
<1>1. ASSUME NEW l, BeginProvision(l) PROVE FALSE
  BY <1>1 DEF BeginProvision, Begin
<1>2. ASSUME NEW k, NEW l, BeginOther(k, l) PROVE FALSE
  BY <1>2 DEF BeginOther, Begin
<1>3. CASE SeeAbsent \/ SeeKnown \/ SeeBinding
  BY <1>3 DEF SeeAbsent, SeeKnown, SeeBinding, List
<1>4. CASE SeeStarted \/ SeeStartup \/ SeeProject \/ SeeCreated \/ SeeSpaces
  BY <1>4 DEF SeeStarted, SeeStartup, SeeProject, SeeCreated, SeeSpaces
<1>5. CASE SeeClosed \/ SeeStopped \/ SeeDeleted
  BY <1>5 DEF SeeClosed, SeeStopped, SeeDeleted
<1>6. CASE Start \/ Create \/ Dispatch \/ Close \/ Stop \/ Delete
  BY <1>6 DEF Start, Create, Dispatch, Close, Stop, Delete
<1>7. ASSUME NEW pc, LookFails(pc) PROVE FALSE
  BY <1>7 DEF LookFails
<1>8. ASSUME NEW seeded, Restart(seeded) PROVE FALSE
  BY <1>8 DEF Restart
<1>9. ASSUME NEW content, UserCreates(content) PROVE FALSE
  BY <1>9 DEF UserCreates
<1>10. CASE UserCloses
  BY <1>10 DEF UserCloses
<1>11. ASSUME NEW new, UserReplaces(new) PROVE FALSE
  BY <1>11 DEF UserReplaces
<1>12. CASE UNCHANGED vars
  BY <1>12 DEF vars
<1> QED BY <1>1, <1>2, <1>3, <1>4, <1>5, <1>6, <1>7, <1>8, <1>9, <1>10, <1>11,
        <1>12 DEF Next

\* In every reachable state what a proof attributes to this transport is own,
\* or its session is gone for good; and what an operation goes on from is what
\* its list and its snapshot saw, unless the user has acted since.
THEOREM Invariance == Spec => []IInv
<1> QED BY InitHolds, StepKeeps, PTL DEF Spec

\* The proof an operation returned is exact until the user acts or a later
\* command is given.
THEOREM ExactProof == Spec => []ProofIsExact
<1>1. IInv => ProofIsExact
  BY DEF IInv, ProjectOK
<1> QED BY <1>1, Invariance, PTL

\* The lanes of a proof whose session was not replaced under the operation are
\* workspaces of this transport's own commands, in the session the proof names.
THEOREM OwnLanes == Spec => []LanesAreOwn
<1>1. IInv => LanesAreOwn
  BY DEF IInv, ProjectOK
<1> QED BY <1>1, Invariance, PTL

\* Whatever the user does between the looks and the command, and whichever
\* operation it is: a command strikes the session of the last list and the
\* workspaces of the last snapshot, or the user acted in between.
THEOREM Strikes == Spec => StrikesOnlyWhatItSaw
<1> DEFINE Struck ==
        (op # None /\ count' # count /\ op.pc # "start")
        => /\ op.seen = swaps =>
                session # None
                /\ (reports => op.known.session = Generation(session.gen))
           /\ op.calm = acts => session.spaces = Spaces(op.known)
<1>1. IInv /\ [Next]_vars => [Struck]_vars
  <2> SUFFICES ASSUME IInv, [Next]_vars, op # None, count' # count, op.pc # "start"
      PROVE  Struck
    OBVIOUS
  <2>1. At("create") \/ At("command") \/ At("delete")
    BY CommandsCount DEF At
  <2>2. op.pc \in SeenPcs /\ op.pc \in CalmPcs
    BY <2>1 DEF At, SeenPcs, CalmPcs
  <2>3. Seen /\ Calm
    BY <2>2 DEF IInv, OpOK
  <2> QED BY <2>3 DEF Seen, Calm
<1> QED BY <1>1, Invariance, PTL DEF Spec, StrikesOnlyWhatItSaw

=============================================================================
