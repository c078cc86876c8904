--------------------------- MODULE TopologyLedger ---------------------------
(***************************************************************************)
(* The topology journal as a value: what lib/ask_herdr_topology_store.py   *)
(* computes from the records it has replayed. A history is a sequence of   *)
(* records; a record is one of                                             *)
(*   [kind "mutation", intent]                                             *)
(*   [kind "command", mutation, step]                                      *)
(*   [kind "receipt", mutation, step, request, session, confirmed,         *)
(*    resources]                                                           *)
(*   [kind "settlement", mutation, session, receipts, proof]               *)
(* A mutation has two commands: step 1 starts the session, step 2 creates  *)
(* the workspace of the lane. The digest of a receipt is its mutation,     *)
(* step and request; the digest of a proof is the set of its lanes: a      *)
(* caller that names a prior topology has read it.                         *)
(***************************************************************************)
EXTENDS Naturals, Sequences, FiniteSets

CONSTANTS
    None,
    Requests    \* mutation intents: [mutation, operation, nonce, lane,
                \* prior]

Steps == 1..2
KindOf(step) == IF step = 1 THEN "session_start" ELSE "workspace_create"

RecordsOf(log, kind) == {log[i] : i \in {j \in DOMAIN log : log[j].kind = kind}}

Mutations(log) == {r.intent : r \in RecordsOf(log, "mutation")}
Settled(log) == {r.mutation : r \in RecordsOf(log, "settlement")}
MutationIds(log) == {m.mutation : m \in Mutations(log)}
IntentOf(log, id) == CHOOSE m \in Mutations(log) : m.mutation = id

\* _open_mutation_ids.
Open(log) == MutationIds(log) \ Settled(log)

\* _commands_for_mutation.
CommandsOf(log, id) == {r \in RecordsOf(log, "command") : r.mutation = id}
ReceiptsOf(log, id) == {r \in RecordsOf(log, "receipt") : r.mutation = id}
ConfirmedSteps(log, id) == {r.step : r \in {x \in ReceiptsOf(log, id) :
                                                x.confirmed}}

ReceiptDigest(r) == <<r.mutation, r.step, r.request>>
ProofDigest(p) == {x.lane : x \in p.lanes}

\* _latest_project_topology_proof and its digest.
LatestProof(log) ==
    LET settlements == SelectSeq(log, LAMBDA r : r.kind = "settlement") IN
    IF settlements = <<>> THEN None ELSE settlements[Len(settlements)].proof
LatestDigest(log) ==
    IF LatestProof(log) = None THEN None ELSE ProofDigest(LatestProof(log))

\* _mutation_identity_conflict: an operation, a nonce or a lane generation
\* that an earlier mutation, settled or not, has used.
IdentityConflict(log, m) ==
    \E e \in Mutations(log) : \/ e.operation = m.operation
                              \/ e.nonce = m.nonce
                              \/ e.lane = m.lane

\* _proof_correlates, continuity: a first topology starts an epoch with one
\* lane, a later one adds one lane to the topology it names and keeps the rest.
ContinuesPrior(proof, m, prior) ==
    IF m.prior = None
    THEN prior = None /\ proof.epoch = m.nonce /\ Cardinality(proof.lanes) = 1
    ELSE /\ prior # None /\ ProofDigest(prior) = m.prior
         /\ proof.epoch = prior.epoch /\ proof.session = prior.session
         /\ proof.sides = prior.sides
         /\ prior.lanes \subseteq proof.lanes
         /\ Cardinality(proof.lanes) = Cardinality(prior.lanes) + 1

\* Resources of the proof a receipt is said to have created.
Created(proof, digest) ==
    {x.workspace : x \in {y \in proof.lanes \cup proof.sides :
                              y.receipt = digest}}

\* _proof_correlates, evidence: every workspace of the proof was made by a
\* receipt of the journal, of the kind that makes it, and no receipt made
\* anything the proof leaves out.
BackedByReceipts(proof, receipts) ==
    LET resources == proof.lanes \cup proof.sides
        lanesBy == {x.receipt : x \in proof.lanes}
        sidesBy == {x.receipt : x \in proof.sides}
    IN /\ Cardinality({x.workspace : x \in resources}) = Cardinality(resources)
       /\ lanesBy \cap sidesBy = {}
       /\ \A d \in lanesBy \cup sidesBy : \E r \in receipts : ReceiptDigest(r) = d
       /\ \A r \in receipts :
            LET d == ReceiptDigest(r) IN
            /\ r.resources = Created(proof, d)
            /\ d \in lanesBy <=> KindOf(r.step) = "workspace_create"

ProofCorrelates(log, s, m) ==
    \/ s.proof = None
    \/ /\ Cardinality({x \in s.proof.lanes : x.lane = m.lane}) = 1
       /\ ContinuesPrior(s.proof, m, LatestProof(log))
       /\ BackedByReceipts(s.proof, RecordsOf(log, "receipt"))

\* The receipts, session and last command a settlement must match.
SettlementEvidence(log, s) ==
    LET mine == ReceiptsOf(log, s.mutation) IN
    /\ \A c \in CommandsOf(log, s.mutation) : \E r \in mine : r.step = c.step
    /\ s.receipts = {ReceiptDigest(r) : r \in mine}
    /\ mine # {} /\ \A r \in mine : r.confirmed /\ r.session = s.session
    /\ \E c \in CommandsOf(log, s.mutation) : c.step = 2

----------------------------------------------------------------------------
(* Replay, _apply_event: the records a history admits next. Reading a      *)
(* journal applies every record to the history before it, and quarantines  *)
(* the store at the first one that is not admitted.                        *)

AdmitsMutation(log, r) ==
    /\ r.intent.mutation \notin MutationIds(log)
    /\ ~IdentityConflict(log, r.intent)
    /\ Open(log) = {}
    /\ r.intent.prior = LatestDigest(log)

AdmitsCommand(log, r) ==
    /\ r.mutation \in Open(log)
    /\ r.step = Cardinality(CommandsOf(log, r.mutation)) + 1
    /\ r.step > 1 => r.step - 1 \in ConfirmedSteps(log, r.mutation)

AdmitsReceipt(log, r) ==
    /\ \E c \in CommandsOf(log, r.mutation) : c.step = r.step
    /\ r.mutation \notin Settled(log)
    /\ \A e \in ReceiptsOf(log, r.mutation) : e.step # r.step
    /\ \A e \in RecordsOf(log, "receipt") : e.request # r.request

AdmitsSettlement(log, r) ==
    /\ Open(log) = {r.mutation}
    /\ SettlementEvidence(log, r)
    /\ ProofCorrelates(log, r, IntentOf(log, r.mutation))

Admits(log, r) ==
    \/ r.kind = "mutation" /\ AdmitsMutation(log, r)
    \/ r.kind = "command" /\ AdmitsCommand(log, r)
    \/ r.kind = "receipt" /\ AdmitsReceipt(log, r)
    \/ r.kind = "settlement" /\ AdmitsSettlement(log, r)

Readable(log) ==
    \A i \in DOMAIN log : Admits(SubSeq(log, 1, i - 1), log[i])

----------------------------------------------------------------------------
(* Commit: what each commit function decides from the history it read,     *)
(* "publish", "replay" (the record is there already) or "conflict".        *)

\* _commit_mutation_intent_locked.
CommitMutation(log, r) ==
    IF r.intent.mutation \in MutationIds(log)
    THEN IF r.intent \in Mutations(log) THEN "replay" ELSE "conflict"
    ELSE IF \/ IdentityConflict(log, r.intent)
            \/ Open(log) # {}
            \/ r.intent.prior # LatestDigest(log)
         THEN "conflict" ELSE "publish"

\* _resolve_command_intent: the order errors it raises for a new command.
OutOfOrder(log, r) ==
    \/ r.step # Cardinality(CommandsOf(log, r.mutation)) + 1
    \/ r.step > 1 /\ r.step - 1 \notin ConfirmedSteps(log, r.mutation)

\* commit_command_intent.
CommitCommand(log, r) ==
    IF r.mutation \notin Open(log) THEN "conflict"
    ELSE IF r \in CommandsOf(log, r.mutation) THEN "replay"
    ELSE IF OutOfOrder(log, r) THEN "conflict" ELSE "publish"

\* Slip: a receipt is not checked against the request ids already used.
CommitReceiptOfAnyRequest(log, r) ==
    LET same == {e \in ReceiptsOf(log, r.mutation) : e.step = r.step} IN
    IF same # {} THEN IF same = {r} THEN "replay" ELSE "conflict"
    ELSE IF \/ \A c \in CommandsOf(log, r.mutation) : c.step # r.step
            \/ r.mutation \in Settled(log)
         THEN "conflict" ELSE "publish"

\* commit_command_receipt.
CommitReceipt(log, r) ==
    LET same == {e \in ReceiptsOf(log, r.mutation) : e.step = r.step} IN
    IF same # {} THEN IF same = {r} THEN "replay" ELSE "conflict"
    ELSE IF \/ \A c \in CommandsOf(log, r.mutation) : c.step # r.step
            \/ r.mutation \in Settled(log)
            \/ \E e \in RecordsOf(log, "receipt") : e.request = r.request
         THEN "conflict" ELSE "publish"

\* settle_topology_mutation.
CommitSettlement(log, r) ==
    IF r.mutation \in Settled(log)
    THEN IF r \in RecordsOf(log, "settlement") THEN "replay" ELSE "conflict"
    ELSE IF /\ Open(log) = {r.mutation}
            /\ SettlementEvidence(log, r)
            /\ ProofCorrelates(log, r, IntentOf(log, r.mutation))
         THEN "publish" ELSE "conflict"

Commit(log, r) ==
    CASE r.kind = "mutation" -> CommitMutation(log, r)
      [] r.kind = "command" -> CommitCommand(log, r)
      [] r.kind = "receipt" -> CommitReceipt(log, r)
      [] r.kind = "settlement" -> CommitSettlement(log, r)

----------------------------------------------------------------------------
\* _project: what an inspection says of a history without a candidate.
Status(log) == IF Open(log) # {} THEN "reconciliation_required" ELSE "active"
=============================================================================
