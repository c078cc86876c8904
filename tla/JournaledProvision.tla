------------------------- MODULE JournaledProvision -------------------------
(***************************************************************************)
(* Write-ahead provisioning of a lane, lib/ask_herdr_journaled_provision.py*)
(* over the topology journal. A controller commits the mutation, then for  *)
(* each of its two commands the intent before and the receipt after Herdr  *)
(* is given the command, then the settlement. Any step may be refused, any *)
(* controller may die, and several may try the same or other mutations.    *)
(*                                                                         *)
(* Herdr is the set of workspaces of its named session, or None; a lost or *)
(* unusable answer, or a postcondition that is not proved, is a failure of *)
(* the command whether or not it took effect.                              *)
(***************************************************************************)
EXTENDS TopologyJournal

VARIABLES
    ctl,        \* controller -> its program: [pc, intent, step, request,
                \* session, sides, receipts, record]
    sent,       \* <<mutation, step>> -> how often Herdr was given the command
    herdr,      \* None, or [generation, workspaces] of the named session
    swapped     \* the lane workspace is no longer the one the intents name

vars == <<journal, failures, ctl, sent, herdr, swapped>>

Idle == [pc |-> "idle", intent |-> None, step |-> 1, session |-> None,
         sides |-> {}, receipts |-> {}, record |-> None]

Commands == {m.mutation : m \in Requests} \X Steps
MutationRecord(m) == [kind |-> "mutation", intent |-> m]
CommandRecord(c) == [kind |-> "command", mutation |-> c[1], step |-> c[2]]

Init ==
    /\ InitJournal
    /\ ctl = [c \in Controllers |-> Idle]
    /\ sent = [x \in Commands |-> 0]
    /\ herdr = None
    /\ swapped = FALSE

Set(c, new) == ctl' = [ctl EXCEPT ![c] = new]
At_(c, pc) == ctl[c].pc = pc

\* A JournaledProvisionError: nothing the controller holds survives it.
Raise(c) == Set(c, Idle)

\* The controller turns to the commit of a record.
Submit(c, record) == Set(c, [ctl[c] EXCEPT !.pc = "commit", !.record = record])

----------------------------------------------------------------------------
(* Entry points.                                                           *)

\* provision_journaled: only for a Project without a topology journal.
ProvisionJournaled(c, m) ==
    /\ At_(c, "idle") /\ writer = None
    /\ ~swapped /\ Inspection = "absent"
    /\ Set(c, [Idle EXCEPT !.pc = "commit", !.intent = m,
                           !.record = MutationRecord(m)])
    /\ ReadBarriers
    /\ UNCHANGED <<store, writer, acked, failures, sent, herdr, swapped>>

\* The coordinator's way in: the mutation is committed by one call and taken
\* up by another, provision_prepared_journaled.
PrepareMutation(c, m) ==
    /\ At_(c, "idle") /\ ~swapped
    /\ Set(c, [Idle EXCEPT !.pc = "commit", !.record = MutationRecord(m)])
    /\ UNCHANGED <<journal, failures, sent, herdr, swapped>>

\* _authenticate_pristine_mutation_locked.
Pristine(m) ==
    /\ Inspection = "reconciliation_required" /\ ~Residue
    /\ m \in Mutations(History) /\ Open(History) = {m.mutation}
    /\ CommandsOf(History, m.mutation) = {}

\* provision_prepared_journaled.
ProvisionPrepared(c, m) ==
    /\ At_(c, "idle") /\ writer = None
    /\ ~swapped /\ Pristine(m)
    /\ Set(c, [Idle EXCEPT !.pc = "command", !.intent = m])
    /\ ReadBarriers
    /\ UNCHANGED <<store, writer, acked, failures, sent, herdr, swapped>>

----------------------------------------------------------------------------
(* The journal answers.                                                    *)

\* before_command goes on only if the intent is newly prepared; the other
\* commits of the effect phase likewise; a call that only prepares accepts
\* a replay.
Continue(c) ==
    LET p == ctl[c] IN
    CASE p.record.kind = "mutation" ->
           IF p.intent = None THEN Idle
           ELSE [p EXCEPT !.pc = "command", !.record = None]
      [] p.record.kind = "command" ->
           [p EXCEPT !.pc = "send", !.record = None]
      [] p.record.kind = "receipt" ->
           [p EXCEPT !.pc = IF p.step = 2 THEN "settle" ELSE "command",
                     !.step = IF p.step = 2 THEN 2 ELSE p.step + 1,
                     !.receipts = @ \cup {p.record}, !.record = None]
      [] p.record.kind = "settlement" -> Idle

\* Slip: a command whose intent is found in the journal is sent as well.
ContinueOnReplay(c) == Set(c, Continue(c))

\* _raise_store_failure for whatever is not the one accepted outcome.
RefusedOnReplay(c) == Raise(c)

CommitEnds(c) ==
    /\ At_(c, "commit")
    /\ EndsAtOnce(ctl[c].record)
    /\ RefusedOnReplay(c)
    /\ UNCHANGED <<failures, sent, herdr, swapped>>

\* The lock is taken: writer_busy.
CommitBusy(c) ==
    /\ At_(c, "commit")
    /\ writer # None
    /\ Raise(c)
    /\ UNCHANGED <<journal, failures, sent, herdr, swapped>>

CommitWrites(c) ==
    /\ At_(c, "commit")
    /\ StartsWriting(c, ctl[c].record)
    /\ Set(c, [ctl[c] EXCEPT !.pc = "committing"])
    /\ UNCHANGED <<failures, sent, herdr, swapped>>

WriterMoves ==
    /\ WriterStep
    /\ UNCHANGED <<failures, ctl, sent, herdr, swapped>>

CommitConflicts ==
    /\ ConflictWithEmpty
    /\ Raise(writer.by)
    /\ UNCHANGED <<failures, sent, herdr, swapped>>

CommitDone ==
    /\ Barrier
    /\ Set(writer.by, Continue(writer.by))
    /\ UNCHANGED <<failures, sent, herdr, swapped>>

----------------------------------------------------------------------------
(* The effect phase, _execute_prepared_effect.                             *)

Command(c) == <<ctl[c].intent.mutation, ctl[c].step>>

\* HerdrTransport.provision before a command, and before_command: no session
\* of the name may exist before the start, and the workspace is looked at.
BeforeCommand(c) ==
    /\ At_(c, "command")
    /\ IF swapped \/ (ctl[c].step = 1 /\ herdr # None)
       THEN Raise(c)
       ELSE Submit(c, CommandRecord(Command(c)))
    /\ UNCHANGED <<journal, failures, sent, herdr, swapped>>

\* The runner gives Herdr the command.
Effect(command) ==
    IF command[2] = 1
    THEN /\ herdr = None
         /\ \E w \in {{}, {<<command[1], 1>>}} :
               herdr' = [generation |-> command[1], workspaces |-> w]
    ELSE /\ herdr # None
         /\ herdr' = [herdr EXCEPT !.workspaces = @ \cup {command}]

Give(command) == sent' = [sent EXCEPT ![command] = @ + 1]

\* Herdr numbers its answers; one that restarted may use a number again.
Fresh == Cardinality({x \in Commands \X (1..2) : sent[x[1]] >= x[2]}) + 1

\* The command is answered for and its postcondition proved: after_command
\* commits the receipt, unless the workspace has changed meanwhile.
SendProved(c, request) ==
    /\ At_(c, "send")
    /\ Give(Command(c))
    /\ Effect(Command(c))
    /\ ctl[c].step = 2 => ctl[c].session = herdr.generation
    /\ \A r \in ctl[c].receipts : r.request # request
    /\ LET made == IF ctl[c].step = 1 THEN herdr'.workspaces ELSE {Command(c)}
       IN IF swapped THEN Raise(c)
          ELSE Set(c, [ctl[c] EXCEPT
                 !.pc = "commit",
                 !.session = herdr'.generation,
                 !.sides = IF ctl[c].step = 1 THEN made ELSE @,
                 !.record = [kind |-> "receipt",
                             mutation |-> ctl[c].intent.mutation,
                             step |-> ctl[c].step,
                             request |-> request,
                             session |-> herdr'.generation,
                             confirmed |-> TRUE,
                             resources |-> made]])
    /\ UNCHANGED <<journal, failures, swapped>>

\* No usable answer, or the postcondition is not proved.
SendUnproved(c) ==
    /\ At_(c, "send")
    /\ Give(Command(c))
    /\ Effect(Command(c)) \/ herdr' = herdr
    /\ Raise(c)
    /\ UNCHANGED <<journal, failures, swapped>>

\* The proof the transport returns and the settlement made of it.
Proof(c) ==
    LET m == ctl[c].intent
        by(step) == CHOOSE r \in ctl[c].receipts : r.step = step
    IN [epoch |-> m.nonce, session |-> ctl[c].session,
        lanes |-> {[lane |-> m.lane, workspace |-> <<m.mutation, 2>>,
                    receipt |-> ReceiptDigest(by(2))]},
        sides |-> {[workspace |-> w, receipt |-> ReceiptDigest(by(1))] :
                      w \in ctl[c].sides}]

Settle(c) ==
    /\ At_(c, "settle")
    /\ IF swapped THEN Raise(c)
       ELSE Submit(c, [kind |-> "settlement", mutation |-> ctl[c].intent.mutation,
                       session |-> ctl[c].session,
                       receipts |-> {ReceiptDigest(r) : r \in ctl[c].receipts},
                       proof |-> Proof(c)])
    /\ UNCHANGED <<journal, failures, sent, herdr, swapped>>

----------------------------------------------------------------------------
(* What the provisioning does not control.                                 *)

\* The user releases the session, or replaces the lane workspace while it is
\* being provisioned; one replaced before that is refused at the entry.
ReleaseSession ==
    /\ herdr # None
    /\ herdr' = None
    /\ UNCHANGED <<journal, failures, ctl, sent, swapped>>

SwapWorkspace ==
    /\ ~swapped
    /\ \E c \in Controllers : ctl[c].intent # None
    /\ swapped' = TRUE
    /\ UNCHANGED <<journal, failures, ctl, sent, herdr>>

Crash(c) ==
    /\ ctl[c].pc # "idle"
    /\ Dies(c)
    /\ Raise(c)
    /\ UNCHANGED <<sent, herdr, swapped>>

PowerLoss ==
    /\ PowerFails
    /\ ctl' = [c \in Controllers |-> Idle]
    /\ herdr' = None
    /\ UNCHANGED <<sent, swapped>>

Next ==
    \/ \E c \in Controllers :
         \/ \E m \in Requests : \/ ProvisionJournaled(c, m)
                                \/ PrepareMutation(c, m)
                                \/ ProvisionPrepared(c, m)
         \/ CommitEnds(c) \/ CommitBusy(c) \/ CommitWrites(c)
         \/ BeforeCommand(c)
         \/ \E request \in {Fresh, 1} : SendProved(c, request)
         \/ SendUnproved(c)
         \/ Settle(c)
         \/ Crash(c)
    \/ WriterMoves \/ CommitConflicts \/ CommitDone
    \/ ReleaseSession \/ SwapWorkspace \/ PowerLoss

Spec == Init /\ [][Next]_vars

----------------------------------------------------------------------------
\* Records of the journal that no failure can take back.
Durable(kind) ==
    {x \in Commands : \A d \in disk : \E r \in RecordsOf(d.slots, kind) :
                          <<r.mutation, r.step>> = x}

Once == INSTANCE CommandOnce WITH
    Commands <- Commands,
    Before <- [x \in Commands |-> {y \in Commands : y[1] = x[1] /\ y[2] < x[2]}],
    intended <- Durable("command"),
    confirmed <- Durable("receipt")

\* However controllers crash, retry and race, Herdr is given each command at
\* most once, and only when the intent of the command is on disk for good and
\* the earlier commands of its mutation are confirmed for good.
ImplementsCommandOnce == Once!Spec
=============================================================================
