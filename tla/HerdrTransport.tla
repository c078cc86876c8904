--------------------------- MODULE HerdrTransport ---------------------------
(***************************************************************************)
(* Provision, dispatch and release over a live Herdr,                      *)
(* lib/ask_herdr_herdr_transport.py. An operation is a series of commands  *)
(* given to Herdr one by one; between any two of them the user may act on  *)
(* the same session. A list of sessions names the generation of the        *)
(* session if this Herdr reports it; a snapshot names its workspaces but   *)
(* not the generation. What the caller keeps is a proof of the topology.   *)
(*                                                                         *)
(* A workspace is [id, content]: the content stands for its label, cwd,    *)
(* tab and root pane, and is a lane, "default" for the workspace Herdr     *)
(* makes by itself, or "other". A new session numbers its workspaces from  *)
(* 1 again. A command that raises, is not answered, is answered by a stale *)
(* or malformed receipt, or by an error, ends its operation; it may have   *)
(* taken effect all the same.                                              *)
(***************************************************************************)
EXTENDS Naturals, FiniteSets

CONSTANTS
    None,
    Lanes,
    MaxActs,      \* bound on what the user does
    MaxCommands   \* bound on the mutating commands of the transport

ASSUME BoundsAssumption ==
    MaxActs \in Nat /\ MaxCommands \in Nat /\ None \notin Lanes

VARIABLES
    session,    \* None or [gen, running, spaces, next] of the named session
    reports,    \* Herdr reports generations in its lists
    gens,       \* generations made so far
    trust,      \* [receipt, kind, ids]: what the transport remembers
    op,         \* the operation under way, or None
    project,    \* the caller's proof, or None
    count,      \* mutating commands given so far; also names receipts
    \* what the transport cannot see
    acts,       \* acts of the user
    swaps,      \* those that took the session away or replaced it
    owned       \* <<generation, id>> of the workspaces its commands made

herdr == <<session, reports, gens>>
world == <<acts, swaps, owned>>
vars == <<herdr, trust, op, project, count, world>>

Contents == Lanes \cup {"default", "other"}
Sessions ==
    [gen : Nat, running : BOOLEAN, next : Nat,
     spaces : SUBSET [id : Nat, content : Contents]]

ASSUME NoneIsNoSession == None \notin Sessions

Space(id, content) == [id |-> id, content |-> content]
NewSession(gen, default) ==
    [gen |-> gen, running |-> TRUE, next |-> IF default THEN 2 ELSE 1,
     spaces |-> IF default THEN {Space(1, "default")} ELSE {}]
Ids(spaces) == {w.id : w \in spaces}

\* A proof; sessionId is a generation, or the receipt of the start.
Generation(g) == <<"generation", g>>
Receipt(n) == <<"receipt", n>>
Spaces(p) == {Space(x.id, x.lane) : x \in p.lanes}
             \cup {Space(x.id, "default") : x \in p.sides}

Init ==
    /\ \E s \in {None, NewSession(1, FALSE)} : session = s
    /\ reports \in BOOLEAN
    /\ gens = IF session = None THEN 0 ELSE 1
    /\ trust = {} /\ op = None /\ project = None /\ count = 0
    /\ acts = 0 /\ swaps = 0 /\ owned = {}

----------------------------------------------------------------------------
(* Looking.                                                                *)

At(pc) == op # None /\ op.pc = pc
GoTo(pc) == op' = [op EXCEPT !.pc = pc]

\* A HerdrTransportError ends the operation.
Fail == op' = None /\ UNCHANGED project

\* _session_list and _named_session: what the user had done by then.
Listed == [op EXCEPT !.calm = acts, !.seen = swaps]

\* Slip: the paths of the session, which a new one reuses, are its identity.
BoundByPath(p) == session # None /\ reports

\* _session_binding of a listed session whose start is not at hand.
Bound(p) == session # None /\ reports /\ p.session = Generation(session.gen)

\* _verify_snapshot: the live workspaces are exactly those of the proof.
Matches(p) ==
    /\ session # None /\ session.running
    /\ session.spaces = Spaces(p)
    /\ Cardinality(Spaces(p)) = Cardinality(p.lanes) + Cardinality(p.sides)

\* _verify_project: every resource is bound to a receipt of the right kind
\* that this transport has seen or was seeded with.
Trusted(p) ==
    \A x \in p.lanes \cup p.sides : \E t \in trust :
        /\ t.receipt = x.receipt
        /\ t.ids = {y.id : y \in {z \in p.lanes \cup p.sides :
                                     z.receipt = x.receipt}}
        /\ IF x \in p.lanes THEN t.kind = "create" ELSE t.kind \in {"start", "close"}

\* Slip: no more is required than that everything the proof names is there.
VerifiesLoosely(p) ==
    Trusted(p) /\ session # None /\ session.running
    /\ Spaces(p) \subseteq session.spaces

Verifies(p) == Trusted(p) /\ Matches(p)

Remember(kind, ids) ==
    trust' = trust \cup {[receipt |-> count, kind |-> kind, ids |-> ids]}

\* A list that shows what it should, or else ends the operation.
List(pc, holds, next) ==
    /\ At(pc)
    /\ IF holds THEN op' = [Listed EXCEPT !.pc = next] /\ UNCHANGED project
       ELSE Fail
    /\ UNCHANGED <<herdr, trust, count, world>>

\* Any command may fail to be answered.
LookFails(pc) ==
    /\ At(pc) /\ Fail
    /\ UNCHANGED <<herdr, trust, count, world>>

----------------------------------------------------------------------------
(* Mutating commands: effect, then answer or not.                          *)

Give == count < MaxCommands /\ count' = count + 1

\* The command took effect or not, and its answer is of no use.
Unanswered(effect) ==
    /\ effect \/ UNCHANGED <<session, gens, owned>>
    /\ Fail
    /\ UNCHANGED trust

StartEffect ==
    /\ session = None
    /\ \E default \in BOOLEAN :
         /\ session' = NewSession(gens + 1, default)
         /\ owned' = owned \cup (IF default THEN {<<gens + 1, 1>>} ELSE {})
    /\ gens' = gens + 1

CreateEffect ==
    /\ session # None /\ session.running
    /\ session' = [session EXCEPT !.spaces = @ \cup {Space(session.next, op.lane)},
                                  !.next = @ + 1]
    /\ owned' = owned \cup {<<session.gen, session.next>>}
    /\ UNCHANGED gens

\* Herdr replaces the last workspace of a session, or does not.
CloseEffect(id) ==
    /\ session # None /\ session.running /\ id \in Ids(session.spaces)
    /\ LET left == {w \in session.spaces : w.id # id} IN
       \/ /\ session' = [session EXCEPT !.spaces = left]
          /\ UNCHANGED owned
       \/ /\ left = {}
          /\ session' = [session EXCEPT !.spaces = {Space(session.next, "default")},
                                        !.next = @ + 1]
          /\ owned' = owned \cup {<<session.gen, session.next>>}
    /\ UNCHANGED gens

StopEffect ==
    /\ session # None /\ session.running
    /\ session' = [session EXCEPT !.running = FALSE]
    /\ UNCHANGED <<gens, owned>>

DeleteEffect ==
    /\ session # None /\ ~session.running
    /\ session' = None
    /\ UNCHANGED <<gens, owned>>

----------------------------------------------------------------------------
(* provision.                                                              *)

NoProof == [session |-> None, lanes |-> {}, sides |-> {}]
Known == IF project = None THEN NoProof
         ELSE [session |-> project.session, lanes |-> project.lanes,
               sides |-> project.sides]

Begin(kind, pc, l) ==
    /\ op = None
    /\ op' = [kind |-> kind, pc |-> pc, lane |-> l, known |-> Known, seen |-> swaps,
              calm |-> acts, began |-> acts, made |-> 0, receipt |-> 0]
    /\ UNCHANGED <<herdr, trust, project, count, world>>

BeginProvision(l) ==
    \/ project = None /\ Begin("provision", "provision_absent", l)
    \/ project # None /\ Begin("provision", "provision_known", l)

\* Without a proof no session of the name may exist, stopped or not.
SeeAbsent == List("provision_absent", session = None, "start")

Start ==
    /\ At("start") /\ Give
    /\ \/ /\ StartEffect
          /\ op' = [op EXCEPT !.pc = "started", !.receipt = count,
                              !.made = session'.gen]
          /\ UNCHANGED <<trust, project>>
       \/ Unanswered(StartEffect)
    /\ UNCHANGED <<reports, acts, swaps>>

\* _started_session_binding: the listed session is the one the start receipt
\* names, as far as the list tells; without generations it tells nothing.
SeeStarted ==
    /\ At("started")
    /\ IF session # None /\ session.running /\ (reports => session.gen = op.made)
       THEN op' = [Listed EXCEPT
                    !.pc = "started_snapshot",
                    !.known = [NoProof EXCEPT !.session =
                                IF reports THEN Generation(session.gen)
                                ELSE Receipt(op.receipt)]]
       ELSE op' = None
    /\ UNCHANGED <<herdr, trust, project, count, world>>

\* _startup_side_effects: no workspace, or the one Herdr makes by itself.
SeeStartup ==
    /\ At("started_snapshot")
    /\ IF /\ session # None /\ session.running
          /\ Cardinality(session.spaces) <= 1
          /\ \A w \in session.spaces : w.content = "default"
       THEN /\ trust' = trust \cup {[receipt |-> op.receipt, kind |-> "start",
                                     ids |-> Ids(session.spaces)]}
            /\ op' = [op EXCEPT !.pc = "create",
                        !.known.sides = {[id |-> w.id, receipt |-> op.receipt] :
                                            w \in session.spaces}]
       ELSE op' = None /\ UNCHANGED trust
    /\ UNCHANGED <<herdr, project, count, world>>

SeeKnown == List("provision_known", Bound(op.known), "known_snapshot")

\* The operation returns its proof.
Return(p) ==
    /\ project' = [session |-> p.session, lanes |-> p.lanes, sides |-> p.sides,
                   asOf |-> <<op.began, count>>, steady |-> op.seen = swaps]
    /\ op' = None

\* A lane the proof has is adopted, another one is created.
SeeProject ==
    /\ At("known_snapshot")
    /\ IF ~Verifies(op.known) THEN Fail
       ELSE IF \E x \in op.known.lanes : x.lane = op.lane THEN Return(op.known)
       ELSE GoTo("create") /\ UNCHANGED project
    /\ UNCHANGED <<herdr, trust, count, world>>

\* Slip: the workspace is looked up by its label.
LabelledId == CHOOSE i \in Ids(session'.spaces) :
    /\ Space(i, op.lane) \in session'.spaces
    /\ \A j \in Ids(session'.spaces) : Space(j, op.lane) \in session'.spaces => i <= j

\* _workspace_from_create: the answer names the workspace it made.
AnsweredId == session.next

Create ==
    /\ At("create") /\ Give
    /\ \/ /\ CreateEffect
          /\ Remember("create", {AnsweredId})
          /\ op' = [op EXCEPT !.pc = "created",
                      !.known.lanes = @ \cup {[lane |-> op.lane, id |-> AnsweredId,
                                               receipt |-> count]}]
          /\ UNCHANGED project
       \/ Unanswered(CreateEffect)
    /\ UNCHANGED <<reports, acts, swaps>>

SeeCreated ==
    /\ At("created")
    /\ IF Verifies(op.known) THEN Return(op.known) ELSE Fail
    /\ UNCHANGED <<herdr, trust, count, world>>

----------------------------------------------------------------------------
(* dispatch and release.                                                   *)

\* The lane must be in the proof; a release of the session names all of it.
BeginOther(kind, l) ==
    /\ project # None
    /\ IF kind = "release_session" THEN l = None
       ELSE \E x \in project.lanes : x.lane = l
    /\ Begin(kind, "list", l)

\* Each looks at the session and at every workspace of it first.
SeeBinding == List("list", Bound(op.known), "snapshot")

SeeSpaces ==
    /\ At("snapshot")
    /\ IF Verifies(op.known) THEN GoTo("command") /\ UNCHANGED project
       ELSE Fail
    /\ UNCHANGED <<herdr, trust, count, world>>

\* pane run: the answer is advisory; nothing of the topology changes.
Dispatch ==
    /\ At("command") /\ op.kind = "dispatch" /\ Give
    /\ op' = None
    /\ UNCHANGED <<herdr, trust, project, world>>

LaneEntry == CHOOSE x \in op.known.lanes : x.lane = op.lane

Close ==
    /\ At("command") /\ op.kind = "release_lane" /\ Give
    /\ \/ /\ CloseEffect(LaneEntry.id)
          /\ op' = [op EXCEPT !.pc = "closed", !.receipt = count]
          /\ UNCHANGED <<trust, project>>
       \/ Unanswered(CloseEffect(LaneEntry.id))
    /\ UNCHANGED <<reports, acts, swaps>>

\* What remains is what the proof names without the lane, and at most one new
\* default workspace if nothing else remains.
SeeClosed ==
    /\ At("closed")
    /\ LET left == [op.known EXCEPT !.lanes = @ \ {LaneEntry}]
           new == IF session = None THEN {} ELSE
                  {w \in session.spaces : w.id \notin Ids(Spaces(left))}
           kept == [left EXCEPT !.sides = @ \cup {[id |-> w.id,
                                        receipt |-> op.receipt] : w \in new}]
       IN IF /\ session # None /\ session.running
             /\ new # {} => Spaces(left) = {} /\ Cardinality(new) = 1
             /\ session.spaces = Spaces(kept)
          THEN /\ trust' = trust \cup {[receipt |-> op.receipt, kind |-> "close",
                                        ids |-> Ids(new)]}
               /\ Return(kept)
          ELSE Fail /\ UNCHANGED trust
    /\ UNCHANGED <<herdr, count, world>>

Stop ==
    /\ At("command") /\ op.kind = "release_session" /\ Give
    /\ \/ /\ StopEffect /\ GoTo("stopped") /\ UNCHANGED <<trust, project>>
       \/ Unanswered(StopEffect)
    /\ UNCHANGED <<reports, acts, swaps>>

\* The list shows the stopped session, but no longer its workspaces.
SeeStopped ==
    /\ At("stopped")
    /\ IF Bound(op.known) /\ ~session.running
       THEN op' = [op EXCEPT !.pc = "delete", !.seen = swaps] /\ UNCHANGED project
       ELSE Fail
    /\ UNCHANGED <<herdr, trust, count, world>>

Delete ==
    /\ At("delete") /\ Give
    /\ \/ /\ DeleteEffect /\ GoTo("deleted") /\ UNCHANGED <<trust, project>>
       \/ Unanswered(DeleteEffect)
    /\ UNCHANGED <<reports, acts, swaps>>

\* The session is gone and the proof with it.
SeeDeleted ==
    /\ At("deleted")
    /\ op' = None
    /\ project' = IF session = None THEN None ELSE project
    /\ UNCHANGED <<herdr, trust, count, world>>

----------------------------------------------------------------------------
(* The process restarts: its memory is gone, and filled again from the     *)
(* receipts of the settled proof, or not.                                  *)
Restart(seeded) ==
    /\ op' = None
    /\ trust' = IF seeded /\ project # None
                THEN {t \in trust : t.receipt \in
                         {x.receipt : x \in project.lanes \cup project.sides}}
                ELSE {}
    /\ UNCHANGED <<herdr, project, count, world>>

\* The user.
Act == acts < MaxActs /\ acts' = acts + 1

UserCreates(content) ==
    /\ Act /\ session # None /\ session.running
    /\ session' = [session EXCEPT !.spaces = @ \cup {Space(session.next, content)},
                                  !.next = @ + 1]
    /\ UNCHANGED <<reports, gens, trust, op, project, count, swaps, owned>>

UserCloses ==
    /\ Act /\ session # None /\ session.running
    /\ \E w \in session.spaces : session' = [session EXCEPT !.spaces = @ \ {w}]
    /\ UNCHANGED <<reports, gens, trust, op, project, count, swaps, owned>>

\* The session is deleted, or started, or both.
UserReplaces(new) ==
    /\ Act /\ swaps' = swaps + 1
    /\ session # None \/ new # None
    /\ session' = new
    /\ gens' = IF new = None THEN gens ELSE gens + 1
    /\ UNCHANGED <<reports, trust, op, project, count, owned>>

Kinds == {"dispatch", "release_lane", "release_session"}
LookPcs == {"provision_absent", "started", "started_snapshot", "provision_known",
            "known_snapshot", "created", "list", "snapshot", "closed",
            "stopped", "deleted"}

Next ==
    \/ \E l \in Lanes : BeginProvision(l)
    \/ \E k \in Kinds, l \in Lanes \cup {None} : BeginOther(k, l)
    \/ SeeAbsent \/ Start \/ SeeStarted \/ SeeStartup
    \/ SeeKnown \/ SeeProject \/ Create \/ SeeCreated
    \/ SeeBinding \/ SeeSpaces
    \/ Dispatch \/ Close \/ SeeClosed
    \/ Stop \/ SeeStopped \/ Delete \/ SeeDeleted
    \/ \E pc \in LookPcs : LookFails(pc)
    \/ \E seeded \in BOOLEAN : Restart(seeded)
    \/ \E content \in Contents : UserCreates(content)
    \/ UserCloses
    \/ \E new \in {None, NewSession(gens + 1, FALSE), NewSession(gens + 1, TRUE)} :
          UserReplaces(new)

Spec == Init /\ [][Next]_vars

----------------------------------------------------------------------------
\* A command that changes or deletes something strikes what the operation saw:
\* the session of the proof unless the user has taken that away since the last
\* list, holding the workspaces of the proof and no others unless the user has
\* acted since the list before the snapshot.
StrikesOnlyWhatItSaw ==
    [][(op # None /\ count' # count /\ op.pc # "start")
       => /\ op.seen = swaps =>
               session # None
               /\ (reports => op.known.session = Generation(session.gen))
          /\ op.calm = acts => session.spaces = Spaces(op.known)]_vars

\* The proof an operation returned is all there is: while neither the user nor
\* a later command has done anything, the session runs and its workspaces are
\* those of the proof, a replacement Herdr made for the last one included.
ProofIsExact ==
    (project # None /\ project.asOf = <<acts, count>>)
    => /\ session # None /\ session.running
       /\ session.spaces = Spaces(project)

\* A lane of a proof is a workspace this transport's own command made in the
\* session the proof names, a look-alike of the user's never is; the one
\* exception is a session replaced after the last list of the operation,
\* since a snapshot does not tell which session it shows.
LanesAreOwn ==
    (project # None /\ project.steady /\ reports)
    => \A x \in project.lanes : <<project.session[2], x.id>> \in owned
=============================================================================
