---------------------- MODULE JournaledProvisionProofs ----------------------
(***************************************************************************)
(* Proofs about the topology journal and the provisioning over it, for any *)
(* number of controllers, requests and failures.                           *)
(*                                                                         *)
(* Two facts about the ledger carry the journal: what a commit function    *)
(* publishes is what replay admits (CommitAdmits), and a readable history  *)
(* stays readable when an admitted record is appended (ReadableAppend).    *)
(* The inductive invariant IInv has four parts. JInv says of every store a *)
(* loss of power may leave that it is readable and its candidate admitted  *)
(* (StoreOK), that it has every acknowledged record, and what the call     *)
(* that holds the lock has established at each of its steps (WriterOK).    *)
(* LogInv bounds what is uncertain on disk: the last record at most, and   *)
(* nothing while a call writes, up to its rename. CtlInv says what a       *)
(* controller may submit, SentInv how what Herdr was given relates to the  *)
(* records answered for: a command is with one controller between its      *)
(* acknowledged intent and its sending, and a receipt, wherever it may be  *)
(* on disk, is of a command that was given.                                *)
(*                                                                         *)
(* With it the durable histories are one log at a time (Base), every step  *)
(* adds one admitted record to it or none (DurableMoves), and each such    *)
(* step is one of CommandOnce (RecordImplements, StepImplements).          *)
(***************************************************************************)
EXTENDS JournaledProvision, SequenceTheorems, FiniteSetTheorems, TLAPS

----------------------------------------------------------------------------
(* The ledger.                                                             *)

Kinds == {"mutation", "command", "receipt", "settlement"}

\* What controllers submit: a mutation record is nothing but its intent.
Shaped(r) ==
    /\ r.kind \in Kinds
    /\ r.kind = "mutation" => r = MutationRecord(r.intent)

IsLog(log) ==
    /\ log \in Seq(Entries(log))
    /\ \A r \in Entries(log) : Shaped(r)

LEMMA InKind ==
  ASSUME NEW log, NEW kind, NEW r
  PROVE  r \in RecordsOf(log, kind) <=> r \in Entries(log) /\ r.kind = kind
BY DEF RecordsOf, Entries

\* A record a commit function decides to publish is one that replay admits:
\* the checks of the two, written twice in the code, agree.
LEMMA CommitAdmits ==
  ASSUME NEW log, NEW r, Shaped(r), Commit(log, r) = "publish"
  PROVE  Admits(log, r)
<1>1. CASE r.kind = "mutation"
  <2>1. CommitMutation(log, r) = "publish"
    BY <1>1 DEF Commit
  <2> QED BY <1>1, <2>1 DEF CommitMutation, Admits, AdmitsMutation
<1>2. CASE r.kind = "command"
  <2>1. CommitCommand(log, r) = "publish"
    BY <1>2 DEF Commit
  <2> QED BY <1>2, <2>1 DEF CommitCommand, OutOfOrder, Admits, AdmitsCommand
<1>3. CASE r.kind = "receipt"
  <2>1. CommitReceipt(log, r) = "publish"
    BY <1>3 DEF Commit
  <2>2. \A e \in ReceiptsOf(log, r.mutation) : e.step # r.step
    BY <2>1 DEF CommitReceipt
  <2> QED BY <1>3, <2>1, <2>2 DEF CommitReceipt, Admits, AdmitsReceipt
<1>4. CASE r.kind = "settlement"
  <2>1. CommitSettlement(log, r) = "publish"
    BY <1>4 DEF Commit
  <2> QED BY <1>4, <2>1 DEF CommitSettlement, Admits, AdmitsSettlement
<1> QED BY <1>1, <1>2, <1>3, <1>4 DEF Shaped, Kinds

\* A commit that is answered as a replay finds its record in the history.
LEMMA CommitReplay ==
  ASSUME NEW log, NEW r, Shaped(r), IsLog(log), Commit(log, r) = "replay"
  PROVE  r \in Entries(log)
<1>1. CASE r.kind = "mutation"
  <2>1. CommitMutation(log, r) = "replay"
    BY <1>1 DEF Commit
  <2>2. r.intent \in Mutations(log)
    BY <2>1 DEF CommitMutation
  <2>3. PICK x \in RecordsOf(log, "mutation") : x.intent = r.intent
    BY <2>2 DEF Mutations
  <2>4. x \in Entries(log) /\ x = MutationRecord(x.intent)
    BY <2>3, InKind DEF IsLog, Shaped
  <2>5. r = MutationRecord(r.intent)
    BY <1>1 DEF Shaped
  <2> QED BY <2>3, <2>4, <2>5
<1>2. CASE r.kind = "command"
  <2>1. CommitCommand(log, r) = "replay"
    BY <1>2 DEF Commit
  <2>2. r \in CommandsOf(log, r.mutation)
    BY <2>1 DEF CommitCommand
  <2> QED BY <2>2, InKind DEF CommandsOf
<1>3. CASE r.kind = "receipt"
  <2>1. CommitReceipt(log, r) = "replay"
    BY <1>3 DEF Commit
  <2>2. r \in ReceiptsOf(log, r.mutation)
    BY <2>1 DEF CommitReceipt
  <2> QED BY <2>2, InKind DEF ReceiptsOf
<1>4. CASE r.kind = "settlement"
  <2>1. CommitSettlement(log, r) = "replay"
    BY <1>4 DEF Commit
  <2>2. r \in RecordsOf(log, "settlement")
    BY <2>1 DEF CommitSettlement
  <2> QED BY <2>2, InKind
<1> QED BY <1>1, <1>2, <1>3, <1>4 DEF Shaped, Kinds

LEMMA EmptyLog == Entries(<<>>) = {} /\ IsLog(<<>>) /\ Readable(<<>>)
BY DEF Entries, IsLog, Readable

LEMMA AppendLog ==
  ASSUME NEW log, IsLog(log), NEW r
  PROVE  /\ Entries(Append(log, r)) = Entries(log) \cup {r}
         /\ Shaped(r) => IsLog(Append(log, r))
<1> DEFINE S == Entries(log) \cup {r}
           new == Append(log, r)
<1>1. log \in Seq(S)
  BY DEF IsLog
<1>2. /\ new \in Seq(S) /\ Len(new) = Len(log) + 1
      /\ \A i \in 1 .. Len(log) : new[i] = log[i]
      /\ new[Len(log) + 1] = r
  BY <1>1, AppendProperties
<1>3. /\ Len(log) \in Nat /\ DOMAIN log = 1 .. Len(log)
      /\ DOMAIN new = 1 .. (Len(log) + 1)
  BY <1>1, <1>2
<1>4. Entries(new) = S
  BY <1>2, <1>3 DEF Entries
<1> QED BY <1>2, <1>4 DEF IsLog

\* The part of a history before a position is not changed by what is appended.
LEMMA PrefixOfAppend ==
  ASSUME NEW S, NEW log \in Seq(S), NEW r \in S, NEW n \in 0 .. Len(log)
  PROVE  SubSeq(Append(log, r), 1, n) = SubSeq(log, 1, n)
<1> DEFINE new == Append(log, r)
           a == SubSeq(new, 1, n)
           b == SubSeq(log, 1, n)
<1>1. /\ Len(log) \in Nat
      /\ \A i \in 1 .. Len(log) : new[i] = log[i] /\ log[i] \in S
  BY AppendProperties, ElementOfSeq
<1>2. n \in Int /\ 1 \in Int /\ \A i \in 1 .. n : i \in 1 .. Len(log)
  BY <1>1
<1>3. /\ b \in Seq(S) /\ Len(b) = IF 1 <= n THEN n - 1 + 1 ELSE 0
      /\ \A i \in 1 .. n - 1 + 1 : b[i] = log[1 + i - 1]
  BY <1>1, <1>2, SubSeqProperties
<1>4. /\ a \in Seq(S) /\ Len(a) = IF 1 <= n THEN n - 1 + 1 ELSE 0
      /\ \A i \in 1 .. n - 1 + 1 : a[i] = new[1 + i - 1]
  BY <1>1, <1>2, SubSeqProperties
<1>5. Len(a) = Len(b) /\ \A i \in 1 .. Len(a) : a[i] = b[i]
  BY <1>1, <1>2, <1>3, <1>4
<1> QED BY <1>3, <1>4, <1>5, SeqEqual

\* A readable history stays readable when an admitted record is appended.
LEMMA ReadableAppend ==
  ASSUME NEW log, IsLog(log), Readable(log), NEW r, Admits(log, r)
  PROVE  Readable(Append(log, r))
<1> DEFINE S == Entries(log) \cup {r}
           new == Append(log, r)
<1>1. log \in Seq(S) /\ r \in S
  BY DEF IsLog
<1>2. /\ Len(log) \in Nat /\ DOMAIN log = 1 .. Len(log)
      /\ DOMAIN new = 1 .. (Len(log) + 1)
      /\ \A i \in 1 .. Len(log) : new[i] = log[i]
      /\ new[Len(log) + 1] = r
  BY <1>1, AppendProperties
<1> SUFFICES ASSUME NEW i \in DOMAIN new
             PROVE  Admits(SubSeq(new, 1, i - 1), new[i])
  BY DEF Readable
<1>3. SubSeq(new, 1, i - 1) = SubSeq(log, 1, i - 1)
  <2>1. i - 1 \in 0 .. Len(log)
    BY <1>2
  <2> QED BY <1>1, <2>1, PrefixOfAppend
<1>4. CASE i = Len(log) + 1
  <2>1. SubSeq(log, 1, i - 1) = log
    BY <1>1, <1>2, <1>4, SubSeqFull
  <2> QED BY <1>2, <1>3, <1>4, <2>1
<1>5. CASE i # Len(log) + 1
  <2>1. i \in DOMAIN log /\ new[i] = log[i]
    BY <1>2, <1>5
  <2>2. Admits(SubSeq(log, 1, i - 1), log[i])
    BY <2>1 DEF Readable
  <2> QED BY <1>3, <2>1, <2>2
<1> QED BY <1>4, <1>5

----------------------------------------------------------------------------
(* The journal.                                                            *)

CandidateOK(d) ==
    /\ d.cand = Candidate(d.cand.record, d.cand.content)
    /\ Shaped(d.cand.record)
    /\ Admits(d.slots, d.cand.record)

\* A store that is there, or may be after a loss of power.
StoreOK(d) ==
    /\ d \in [there : BOOLEAN, slots : {d.slots}, cand : {d.cand}]
    /\ IsLog(d.slots) /\ Readable(d.slots)
    /\ d.cand # None => CandidateOK(d)
    /\ ~d.there => d = AbsentStore

\* What the call that holds the lock has established.
WriterOK ==
    LET w == writer
        r == writer.record
    IN
    /\ w = [by |-> w.by, record |-> r, pc |-> w.pc]
    /\ Shaped(r)
    /\ w.pc \in {"create", "created", "publish", "made", "writing", "written",
                 "recover", "promoted"}
    /\ w.pc = "create" <=> ~store.there
    /\ w.pc \in {"create", "created", "publish"} => store.cand = None
    /\ w.pc \in {"create", "created"} => r.kind = "mutation"
    /\ w.pc = "publish" => Admits(store.slots, r)
    /\ w.pc \in {"made", "writing", "written", "recover"} =>
           /\ store.cand = Candidate(r, store.cand.content)
           /\ Admits(store.slots, r)
    /\ w.pc = "promoted" => store.cand = None /\ r \in Entries(store.slots)

JInv ==
    /\ store \in disk
    /\ \A d \in disk : StoreOK(d)
    /\ AckedSurvives
    /\ writer # None => WriterOK

\* What the barriers of a reader leave has the same history.
LEMMA ReadersKeep ==
  ASSUME JInv, ReadBarriers, UNCHANGED <<store, acked>>
  PROVE  /\ store' \in disk' /\ (\A d \in disk' : StoreOK(d)) /\ AckedSurvives'
         /\ \A r : r \in Entries(store.slots) =>
                     \A d \in disk' : r \in Entries(d.slots)
<1>1. disk' \subseteq disk /\ store \in disk'
  BY DEF JInv, ReadBarriers, AfterRead
<1>2. \A d \in disk' : d.slots = store.slots \/ Entries(store.slots) = {}
  <2>1. CASE store.there
    BY <2>1 DEF ReadBarriers, AfterRead
  <2>2. CASE ~store.there
    BY <2>2, EmptyLog DEF JInv, StoreOK, AbsentStore
  <2> QED BY <2>1, <2>2
<1> QED BY <1>1, <1>2 DEF JInv, AckedSurvives

LEMMA ReadOnlyKeeps ==
  ASSUME JInv, ReadBarriers, UNCHANGED <<store, acked, writer>>
  PROVE  JInv'
<1>1. WriterOK => WriterOK'
  BY DEF WriterOK
<1> QED BY <1>1, ReadersKeep DEF JInv

LEMMA EndsAtOnceKeeps ==
  ASSUME JInv, NEW r, Shaped(r), EndsAtOnce(r)
  PROVE  JInv'
<1>1. AnswerOf(r) = "replay" => r \in Entries(store.slots)
  <2>1. IsLog(store.slots)
    BY DEF JInv, StoreOK
  <2>2. AnswerOf(r) = "replay" => Commit(store.slots, r) = "replay"
    BY DEF AnswerOf, History
  <2> QED BY <2>1, <2>2, CommitReplay
<1>2. /\ disk' \subseteq disk /\ store \in disk'
      /\ \A x : x \in Entries(store.slots) =>
                  \A d \in disk' : x \in Entries(d.slots)
  <2>1. disk' \subseteq disk /\ store \in disk'
    BY DEF JInv, EndsAtOnce, ReadBarriers, AfterRead
  <2>2. \A d \in disk' : d.slots = store.slots \/ Entries(store.slots) = {}
    <3>1. CASE store.there
      BY <3>1 DEF EndsAtOnce, ReadBarriers, AfterRead
    <3>2. CASE ~store.there
      BY <3>2, EmptyLog DEF JInv, StoreOK, AbsentStore
    <3> QED BY <3>1, <3>2
  <2> QED BY <2>1, <2>2
<1>3. acked' \subseteq acked \cup {r} /\ (r \in acked' \ acked => AnswerOf(r) = "replay")
  BY DEF EndsAtOnce
<1>4. AckedSurvives'
  BY <1>1, <1>2, <1>3 DEF JInv, AckedSurvives
<1>5. writer' = None /\ store' = store
  BY DEF EndsAtOnce
<1> QED BY <1>2, <1>4, <1>5 DEF JInv

LEMMA StartsWritingKeeps ==
  ASSUME JInv, NEW c, NEW r, Shaped(r), StartsWriting(c, r)
  PROVE  JInv'
<1>1. /\ store' \in disk' /\ (\A d \in disk' : StoreOK(d)) /\ AckedSurvives'
      /\ store' = store
  BY ReadersKeep DEF StartsWriting
<1>2. /\ StoreOK(store)
      /\ writer' = [by |-> c, record |-> r, pc |-> AnswerOf(r)]
      /\ AnswerOf(r) \in {"create", "recover", "publish"}
  BY DEF JInv, StartsWriting
<1>3. Commit(store.slots, r) \notin {"create", "recover"}
  BY DEF Commit, CommitMutation, CommitCommand, CommitReceipt,
     CommitSettlement, Shaped, Kinds
<1>4. ~store.there => store.cand = None
  BY <1>2 DEF StoreOK, AbsentStore
<1>5. CASE AnswerOf(r) = "create"
  <2>1. ~store.there /\ store.cand = None /\ r.kind = "mutation"
    BY <1>3, <1>5 DEF AnswerOf, History, Residue
  <2>3. WriterOK'
    BY <1>1, <1>2, <1>5, <2>1 DEF WriterOK
  <2> QED BY <1>1, <2>3 DEF JInv
<1>6. CASE AnswerOf(r) = "publish"
  <2>1. store.there /\ store.cand = None /\ Commit(store.slots, r) = "publish"
    BY <1>6 DEF AnswerOf, History, Residue
  <2>2. Admits(store.slots, r)
    BY <2>1, CommitAdmits
  <2>3. WriterOK'
    BY <1>1, <1>2, <1>6, <2>1, <2>2 DEF WriterOK
  <2> QED BY <1>1, <2>3 DEF JInv
<1>7. CASE AnswerOf(r) = "recover"
  <2>1. /\ store.cand # None /\ store.cand.record = r
        /\ Admits(store.slots, r)
    BY <1>3, <1>7 DEF AnswerOf, History, Residue
  <2>2. store.there /\ store.cand = Candidate(r, store.cand.content)
    BY <1>2, <1>4, <2>1 DEF StoreOK, CandidateOK
  <2>3. WriterOK'
    BY <1>1, <1>2, <1>7, <2>1, <2>2 DEF WriterOK
  <2> QED BY <1>1, <2>3 DEF JInv
<1> QED BY <1>2, <1>5, <1>6, <1>7

\* A store the writer makes of the present one, and what it may leave of the
\* uncertainty about it.
LEMMA NewStore ==
  ASSUME JInv, NEW new, NEW older \in SUBSET disk,
         StoreOK(new), Entries(store.slots) \subseteq Entries(new.slots),
         disk' = older \cup {new}, store' = new, UNCHANGED acked
  PROVE  store' \in disk' /\ (\A d \in disk' : StoreOK(d)) /\ AckedSurvives'
BY DEF JInv, AckedSurvives

\* The candidate of the writer, in any state of its file.
LEMMA CandidateStore ==
  ASSUME StoreOK(store), store.there, NEW r, Shaped(r), Admits(store.slots, r),
         NEW content
  PROVE  LET new == [store EXCEPT !.cand = Candidate(r, content)] IN
         /\ StoreOK(new) /\ new.there /\ new.slots = store.slots
         /\ new.cand = Candidate(r, new.cand.content)
<1> DEFINE new == [store EXCEPT !.cand = Candidate(r, content)]
<1>1. new = [there |-> store.there, slots |-> store.slots,
             cand |-> Candidate(r, content)]
  <2>1. store \in [there : BOOLEAN, slots : {store.slots}, cand : {store.cand}]
    BY DEF StoreOK
  <2>2. \A x : [store EXCEPT !.cand = x] = [there |-> store.there,
                                           slots |-> store.slots, cand |-> x]
    BY ONLY <2>1
  <2> QED BY <2>2
<1>2. /\ Candidate(r, content).record = r
      /\ Candidate(r, content).content = content
  BY DEF Candidate
<1>3. CandidateOK(new)
  BY <1>1, <1>2 DEF CandidateOK
<1> QED BY <1>1, <1>2, <1>3 DEF StoreOK

\* Setting the content of the writer's candidate makes such a store.
LEMMA ContentStore ==
  ASSUME StoreOK(store), NEW r, store.cand = Candidate(r, store.cand.content),
         NEW content
  PROVE  [store EXCEPT !.cand.content = content]
             = [store EXCEPT !.cand = Candidate(r, content)]
BY DEF StoreOK, Candidate

LEMMA CreateStoreKeeps == ASSUME JInv, CreateStore PROVE JInv'
<1>1. /\ writer # None /\ writer.pc = "create" /\ WriterOK
      /\ store' = EmptyStore /\ disk' = disk \cup {EmptyStore}
      /\ writer' = [writer EXCEPT !.pc = "created"] /\ acked' = acked
  BY DEF JInv, CreateStore, At, Write, GoTo
<1>2. store.slots = <<>>
  BY <1>1 DEF JInv, WriterOK, StoreOK, AbsentStore
<1>3. StoreOK(EmptyStore)
  BY EmptyLog DEF StoreOK, EmptyStore
<1>4. store' \in disk' /\ (\A d \in disk' : StoreOK(d)) /\ AckedSurvives'
  BY <1>1, <1>2, <1>3, NewStore, EmptyLog DEF JInv
<1>5. WriterOK'
  BY <1>1, <1>2 DEF WriterOK, EmptyStore
<1> QED BY <1>4, <1>5 DEF JInv

LEMMA SyncStoreKeeps == ASSUME JInv, SyncStore PROVE JInv'
<1>1. /\ writer # None /\ writer.pc = "created" /\ WriterOK
      /\ store' = store /\ disk' = {} \cup {store} /\ acked' = acked
      /\ writer' = [writer EXCEPT !.pc = "publish"]
      /\ Commit(store.slots, writer.record) = "publish"
  BY DEF JInv, SyncStore, At, Sync, GoTo, History
<1>2. store' \in disk' /\ (\A d \in disk' : StoreOK(d)) /\ AckedSurvives'
  BY <1>1, NewStore DEF JInv
<1>3. Admits(store.slots, writer.record)
  BY <1>1, CommitAdmits DEF WriterOK
<1>4. WriterOK'
  BY <1>1, <1>3 DEF WriterOK
<1> QED BY <1>2, <1>4 DEF JInv

LEMMA ConflictKeeps == ASSUME JInv, ConflictWithEmpty PROVE JInv'
<1>1. /\ store' = store /\ disk' = {} \cup {store} /\ acked' = acked
      /\ writer' = None
  BY DEF ConflictWithEmpty, Sync
<1>2. store' \in disk' /\ (\A d \in disk' : StoreOK(d)) /\ AckedSurvives'
  BY <1>1, NewStore DEF JInv
<1> QED BY <1>1, <1>2 DEF JInv

LEMMA MakeCandidateKeeps == ASSUME JInv, MakeCandidate PROVE JInv'
<1> DEFINE r == writer.record
           new == [store EXCEPT !.cand = Candidate(r, "empty")]
<1>1. /\ writer # None /\ writer.pc = "publish" /\ WriterOK
      /\ store' = new /\ disk' = disk \cup {new} /\ acked' = acked
      /\ writer' = [writer EXCEPT !.pc = "made"]
  BY DEF JInv, MakeCandidate, At, Write, GoTo
<1>2. /\ StoreOK(store) /\ store.there /\ Shaped(r) /\ Admits(store.slots, r)
  BY <1>1 DEF JInv, WriterOK, StoreOK
<1>3. /\ StoreOK(new) /\ new.there /\ new.slots = store.slots
      /\ new.cand = Candidate(r, new.cand.content)
  BY <1>2, CandidateStore
<1>4. store' \in disk' /\ (\A d \in disk' : StoreOK(d)) /\ AckedSurvives'
  BY <1>1, <1>3, NewStore
<1>5. WriterOK'
  BY <1>1, <1>2, <1>3 DEF WriterOK
<1> QED BY <1>4, <1>5 DEF JInv

\* The steps that write the candidate's file differ in the content they leave
\* and in what is still uncertain.
LEMMA WritesContent ==
  ASSUME JInv, writer # None, writer.pc \in {"made", "writing", "recover"},
         NEW content, NEW older \in SUBSET disk, NEW pc,
         pc \in {"made", "writing", "written"},
         store' = [store EXCEPT !.cand.content = content],
         disk' = older \cup {store'}, UNCHANGED acked,
         writer' = [writer EXCEPT !.pc = pc]
  PROVE  JInv'
<1> DEFINE r == writer.record
           new == [store EXCEPT !.cand = Candidate(r, content)]
<1>1. /\ StoreOK(store) /\ store.there /\ Shaped(r) /\ Admits(store.slots, r)
      /\ store.cand = Candidate(r, store.cand.content) /\ WriterOK
  BY DEF JInv, WriterOK, StoreOK
<1>2. store' = new
  BY <1>1, ContentStore
<1>3. /\ StoreOK(new) /\ new.there /\ new.slots = store.slots
      /\ new.cand = Candidate(r, new.cand.content)
  BY <1>1, CandidateStore
<1>4. store' \in disk' /\ (\A d \in disk' : StoreOK(d)) /\ AckedSurvives'
  BY <1>2, <1>3, NewStore
<1>5. WriterOK'
  BY <1>1, <1>2, <1>3 DEF WriterOK
<1> QED BY <1>4, <1>5 DEF JInv

LEMMA RecordFileKeeps == ASSUME JInv, BeginRecordFile \/ EndRecordFile PROVE JInv'
<1>1. CASE BeginRecordFile
  <2>1. /\ writer # None /\ writer.pc = "made" /\ disk' = disk \cup {store'}
        /\ store' = [store EXCEPT !.cand.content = "torn"] /\ acked' = acked
        /\ writer' = [writer EXCEPT !.pc = "writing"]
    BY <1>1 DEF BeginRecordFile, At, Write, GoTo
  <2> QED BY <2>1, WritesContent
<1>2. CASE EndRecordFile
  <2> DEFINE older == {d \in disk : d.cand = None}
  <2>1. /\ writer # None /\ writer.pc = "writing" /\ disk' = older \cup {store'}
        /\ store' = [store EXCEPT !.cand.content = "whole"] /\ acked' = acked
        /\ writer' = [writer EXCEPT !.pc = "written"]
    BY <1>2 DEF EndRecordFile, At, Sync, GoTo
  <2>2. older \in SUBSET disk
    OBVIOUS
  <2> QED BY <2>1, <2>2, WritesContent
<1> QED BY <1>1, <1>2

LEMMA TakeUpKeeps == ASSUME JInv, TakeUpCandidate PROVE JInv'
<1>1. writer # None /\ writer.pc = "recover" /\ acked' = acked
  BY DEF TakeUpCandidate, At
<1>2. CASE store.cand.content = "whole"
  <2>1. /\ store' = store /\ disk' = {} \cup {store}
        /\ writer' = [writer EXCEPT !.pc = "written"]
    BY <1>2 DEF TakeUpCandidate, Sync, GoTo
  <2>2. store' \in disk' /\ (\A d \in disk' : StoreOK(d)) /\ AckedSurvives'
    BY <1>1, <2>1, NewStore DEF JInv
  <2>3. WriterOK'
    BY <1>1, <2>1 DEF JInv, WriterOK
  <2> QED BY <2>2, <2>3 DEF JInv
<1>3. CASE store.cand.content # "whole"
  <2>1. /\ store' = [store EXCEPT !.cand.content = "empty"]
        /\ disk' = {} \cup {store'}
        /\ writer' = [writer EXCEPT !.pc = "made"]
    BY <1>3 DEF TakeUpCandidate, Sync, GoTo
  <2> QED BY <1>1, <2>1, WritesContent
<1> QED BY <1>2, <1>3

LEMMA PromoteKeeps == ASSUME JInv, Promote PROVE JInv'
<1> DEFINE r == writer.record
           log == Append(store.slots, r)
           new == [there |-> TRUE, slots |-> log, cand |-> None]
<1>1. /\ writer # None /\ writer.pc = "written" /\ WriterOK
      /\ store' = new /\ disk' = disk \cup {new} /\ acked' = acked
      /\ writer' = [writer EXCEPT !.pc = "promoted"]
  BY DEF JInv, Promote, At, Write, GoTo
<1>2. /\ StoreOK(store) /\ store.there /\ Shaped(r) /\ Admits(store.slots, r)
  BY <1>1 DEF JInv, WriterOK, StoreOK
<1>3. /\ IsLog(log) /\ Readable(log)
      /\ Entries(log) = Entries(store.slots) \cup {r}
  BY <1>2, AppendLog, ReadableAppend DEF StoreOK
<1>4. StoreOK(new)
  BY <1>3 DEF StoreOK
<1>5. store' \in disk' /\ (\A d \in disk' : StoreOK(d)) /\ AckedSurvives'
  BY <1>1, <1>3, <1>4, NewStore
<1>6. WriterOK'
  BY <1>1, <1>2, <1>3 DEF WriterOK
<1> QED BY <1>5, <1>6 DEF JInv

LEMMA BarrierKeeps == ASSUME JInv, Barrier PROVE JInv'
<1>1. /\ writer # None /\ writer.pc = "promoted" /\ WriterOK
      /\ store' = store /\ disk' = {} \cup {store} /\ writer' = None
      /\ acked' \subseteq acked \cup {writer.record}
  BY DEF JInv, Barrier, At, Sync
<1>2. writer.record \in Entries(store.slots)
  BY <1>1 DEF WriterOK
<1> QED BY <1>1, <1>2 DEF JInv, AckedSurvives

LEMMA WriterStepKeeps == ASSUME JInv, WriterStep PROVE JInv'
BY CreateStoreKeeps, SyncStoreKeeps, MakeCandidateKeeps, RecordFileKeeps,
   PromoteKeeps, TakeUpKeeps DEF WriterStep

LEMMA FailureKeeps ==
  ASSUME JInv, PowerFails \/ \E c \in Controllers : Dies(c)
  PROVE  JInv'
<1>1. CASE PowerFails
  BY <1>1 DEF PowerFails, JInv, AckedSurvives
<1>2. ASSUME NEW c \in Controllers, Dies(c) PROVE JInv'
  <2>1. UNCHANGED <<store, disk, acked>> /\ writer' \in {writer, None}
    BY <1>2 DEF Dies
  <2>2. writer' = writer => (WriterOK => WriterOK')
    BY <2>1 DEF WriterOK
  <2> QED BY <2>1, <2>2 DEF JInv, AckedSurvives
<1> QED BY <1>1, <1>2

----------------------------------------------------------------------------
(* What a controller may submit, and the journal's part of a step.         *)

Pcs == {"idle", "commit", "committing", "command", "send", "settle"}

\* A receipt is only ever written for a command Herdr was given.
Witnessed(r, given) ==
    r.kind = "receipt" => /\ <<r.mutation, r.step>> \in Commands
                          /\ given[<<r.mutation, r.step>>] = 1

Program(p) ==
    p \in [pc : Pcs, intent : Requests \cup {None}, step : Steps,
          session : {p.session}, sides : {p.sides}, receipts : {p.receipts},
          record : {p.record}]

Submits(p, given) ==
    p.pc \in {"commit", "committing"} =>
        /\ Shaped(p.record) /\ Witnessed(p.record, given)
        /\ p.record.kind # "mutation" => p.intent \in Requests
        /\ p.record.kind = "command" =>
               p.record = CommandRecord(<<p.intent.mutation, p.step>>)

InEffect(p) == p.pc \in {"command", "send", "settle"} => p.intent \in Requests

CtlInv ==
    /\ ctl = [c \in Controllers |-> ctl[c]]
    /\ \A c \in Controllers :
          Program(ctl[c]) /\ Submits(ctl[c], sent) /\ InEffect(ctl[c])
    /\ writer # None =>
          /\ writer.by \in Controllers
          /\ ctl[writer.by].pc = "committing"
          /\ ctl[writer.by].record = writer.record

Submitted == {ctl[c].record : c \in {x \in Controllers : ctl[x].pc = "commit"}}

\* What a step of the system is for the journal.
LEMMA JournalMoves ==
  ASSUME [Next]_vars
  PROVE  \/ UNCHANGED journal
         \/ ReadBarriers /\ UNCHANGED <<store, writer, acked>>
         \/ \E r \in Submitted : EndsAtOnce(r) \/ \E c : StartsWriting(c, r)
         \/ WriterStep \/ ConflictWithEmpty \/ Barrier
         \/ PowerFails \/ \E c \in Controllers : Dies(c)
<1>1. CASE UNCHANGED vars
  BY <1>1 DEF vars, journal
<1>2. ASSUME NEW c \in Controllers, NEW m \in Requests,
             ProvisionJournaled(c, m) \/ ProvisionPrepared(c, m)
      PROVE  ReadBarriers /\ UNCHANGED <<store, writer, acked>>
  BY <1>2 DEF ProvisionJournaled, ProvisionPrepared
<1>3. ASSUME NEW c \in Controllers, CommitEnds(c) \/ CommitWrites(c)
      PROVE  \E r \in Submitted : EndsAtOnce(r) \/ \E x : StartsWriting(x, r)
  <2>1. ctl[c].record \in Submitted
    BY <1>3 DEF CommitEnds, CommitWrites, At_, Submitted
  <2> QED BY <1>3, <2>1 DEF CommitEnds, CommitWrites
<1>4. ASSUME NEW c \in Controllers
      PROVE  /\ (\E m \in Requests : PrepareMutation(c, m)) => UNCHANGED journal
             /\ CommitBusy(c) \/ BeforeCommand(c) \/ SendUnproved(c) \/ Settle(c)
                    => UNCHANGED journal
  <2>1. ASSUME NEW m \in Requests, PrepareMutation(c, m)
        PROVE  UNCHANGED journal
    BY <2>1 DEF PrepareMutation
  <2>2. CASE CommitBusy(c)
    BY <2>2 DEF CommitBusy
  <2>3. CASE BeforeCommand(c)
    BY <2>3 DEF BeforeCommand
  <2>4. CASE SendUnproved(c)
    BY <2>4 DEF SendUnproved
  <2>5. CASE Settle(c)
    BY <2>5 DEF Settle
  <2> QED BY <2>1, <2>2, <2>3, <2>4, <2>5
<1>5. \A c \in Controllers : \A request : SendProved(c, request) => UNCHANGED journal
  BY DEF SendProved
<1>6. ReleaseSession \/ SwapWorkspace => UNCHANGED journal
  BY DEF ReleaseSession, SwapWorkspace
<1>7. /\ WriterMoves => WriterStep
      /\ CommitConflicts => ConflictWithEmpty
      /\ CommitDone => Barrier
      /\ PowerLoss => PowerFails
      /\ \A c \in Controllers : Crash(c) => Dies(c)
  BY DEF WriterMoves, CommitConflicts, CommitDone, PowerLoss, Crash
<1> QED BY <1>1, <1>2, <1>3, <1>4, <1>5, <1>6, <1>7 DEF Next

LEMMA JInvKept ==
  ASSUME JInv, CtlInv, [Next]_vars
  PROVE  JInv'
<1>1. \A r \in Submitted : Shaped(r)
  BY DEF Submitted, CtlInv, Submits
<1>2. CASE UNCHANGED journal
  <2>1. WriterOK => WriterOK'
    BY <1>2 DEF WriterOK, journal
  <2> QED BY <1>2, <2>1 DEF journal, JInv, AckedSurvives
<1>3. CASE ReadBarriers /\ UNCHANGED <<store, writer, acked>>
  BY <1>3, ReadOnlyKeeps
<1>4. CASE \E r \in Submitted : EndsAtOnce(r) \/ \E c : StartsWriting(c, r)
  BY <1>1, <1>4, EndsAtOnceKeeps, StartsWritingKeeps
<1>5. CASE WriterStep \/ ConflictWithEmpty \/ Barrier
  BY <1>5, WriterStepKeeps, ConflictKeeps, BarrierKeeps
<1>6. CASE PowerFails \/ \E c \in Controllers : Dies(c)
  BY <1>6, FailureKeeps
<1> QED BY <1>2, <1>3, <1>4, <1>5, <1>6, JournalMoves

----------------------------------------------------------------------------
(* The numbers of commands. A history that grew by admitted records has no *)
(* command above the number of its commands, so a command it has is never  *)
(* admitted again.                                                         *)

Numbered(log) ==
    /\ IsFiniteSet(Entries(log))
    /\ \A r \in RecordsOf(log, "command") :
          r.step \in 1 .. Cardinality(CommandsOf(log, r.mutation))

LEMMA CommandsAreFinite ==
  ASSUME NEW log, IsFiniteSet(Entries(log)), NEW id
  PROVE  /\ IsFiniteSet(CommandsOf(log, id))
         /\ Cardinality(CommandsOf(log, id)) \in Nat
<1>1. CommandsOf(log, id) \subseteq Entries(log)
  BY InKind DEF CommandsOf
<1> QED BY <1>1, FS_Subset, FS_CardinalityType

LEMMA AdmittedIsNew ==
  ASSUME NEW log, Numbered(log), NEW r, r.kind = "command", Admits(log, r)
  PROVE  r \notin Entries(log)
<1>1. r.step = Cardinality(CommandsOf(log, r.mutation)) + 1
  BY DEF Admits, AdmitsCommand
<1>2. Cardinality(CommandsOf(log, r.mutation)) \in Nat
  BY CommandsAreFinite DEF Numbered
<1>3. SUFFICES ASSUME r \in Entries(log) PROVE FALSE
  OBVIOUS
<1>4. r.step \in 1 .. Cardinality(CommandsOf(log, r.mutation))
  BY <1>3, InKind DEF Numbered
<1> QED BY <1>1, <1>2, <1>4

LEMMA NumberedEmpty == Numbered(<<>>)
BY EmptyLog, FS_EmptySet, InKind DEF Numbered

LEMMA NumberedAppend ==
  ASSUME NEW log, IsLog(log), Numbered(log), NEW r, Admits(log, r)
  PROVE  Numbered(Append(log, r))
<1> DEFINE new == Append(log, r)
           C(id) == CommandsOf(log, id)
<1>1. Entries(new) = Entries(log) \cup {r}
  BY AppendLog
<1>2. IsFiniteSet(Entries(new))
  BY <1>1, FS_AddElement DEF Numbered
<1>3. \A x, id : x \in CommandsOf(new, id) <=>
                   \/ x \in C(id)
                   \/ x = r /\ r.kind = "command" /\ r.mutation = id
  BY <1>1, InKind DEF CommandsOf
<1> SUFFICES ASSUME NEW x \in RecordsOf(new, "command")
             PROVE  x.step \in 1 .. Cardinality(CommandsOf(new, x.mutation))
  BY <1>2 DEF Numbered
<1> DEFINE id == x.mutation
<1>4. /\ IsFiniteSet(C(id)) /\ Cardinality(C(id)) \in Nat
  BY CommandsAreFinite DEF Numbered
<1>5. x \in RecordsOf(log, "command") \/ x = r
  BY <1>1, InKind
<1>6. x \in RecordsOf(log, "command") => x.step \in 1 .. Cardinality(C(id))
  BY DEF Numbered
<1>7. CASE r.kind = "command" /\ r.mutation = id
  <2>1. CommandsOf(new, id) = C(id) \cup {r}
    BY <1>3, <1>7
  <2>2. r \notin C(id)
    BY <1>7, AdmittedIsNew, InKind DEF CommandsOf
  <2>3. Cardinality(CommandsOf(new, id)) = Cardinality(C(id)) + 1
    BY <1>4, <2>1, <2>2, FS_AddElement
  <2>4. r.step = Cardinality(C(id)) + 1
    BY <1>7 DEF Admits, AdmitsCommand
  <2>5. CASE x = r
    BY <1>4, <2>3, <2>4, <2>5
  <2>6. CASE x # r
    <3>1. x.step \in 1 .. Cardinality(C(id))
      BY <1>5, <1>6, <2>6
    <3> QED BY <1>4, <2>3, <3>1
  <2> QED BY <2>5, <2>6
<1>8. CASE ~(r.kind = "command" /\ r.mutation = id)
  <2>1. CommandsOf(new, id) = C(id)
    <3>1. \A y : y \in CommandsOf(new, id) <=> y \in C(id)
      BY <1>3, <1>8
    <3> HIDE DEF C, new
    <3> QED BY <3>1
  <2>2. x # r
    BY <1>8, InKind
  <2> QED BY <1>5, <1>6, <2>1, <2>2
<1> QED BY <1>7, <1>8

----------------------------------------------------------------------------
(* How uncertain the disk is: at most about the last record, and not even  *)
(* about that while a call is under way, up to its rename.                 *)

Slots == {d.slots : d \in disk}

LogInv ==
    /\ \A log \in Slots : Numbered(log)
    /\ \A log \in Slots : \/ log = store.slots
                           \/ \E r : store.slots = Append(log, r)
    /\ writer # None /\ writer.pc # "promoted" => Slots = {store.slots}

LEMMA SlotsOfJournal ==
  ASSUME JInv
  PROVE  /\ store.slots \in Slots
         /\ \A log \in Slots : IsLog(log) /\ Readable(log)
BY DEF Slots, JInv, StoreOK

\* A reader leaves no uncertainty about the slots.
LEMMA SlotsAfterRead ==
  ASSUME JInv, LogInv, ReadBarriers, UNCHANGED store
  PROVE  Slots' = {store.slots}
<1>1. store \in disk'
  BY DEF JInv, ReadBarriers, AfterRead
<1>2. CASE store.there
  <2>1. \A d \in disk' : d.slots = store.slots
    BY <1>2 DEF ReadBarriers, AfterRead
  <2> QED BY <1>1, <2>1 DEF Slots
<1>3. CASE ~store.there
  <2>1. store.slots = <<>> /\ disk' = disk
    BY <1>3 DEF JInv, StoreOK, AbsentStore, ReadBarriers
  <2>2. \A log \in Slots : log = <<>>
    <3> SUFFICES ASSUME NEW log \in Slots, NEW r, <<>> = Append(log, r)
                 PROVE  FALSE
      BY <2>1 DEF LogInv
    <3>1. log \in Seq(Entries(log) \cup {r})
      BY SlotsOfJournal DEF IsLog
    <3> QED BY <3>1, AppendProperties
  <2> QED BY <1>1, <2>1, <2>2 DEF Slots
<1> QED BY <1>2, <1>3

\* The steps of a writer, but for the rename, leave the slots alone.
LEMMA SlotsOfWriter ==
  ASSUME JInv, LogInv, WriterStep, ~Promote
  PROVE  Slots' = {store.slots} /\ store'.slots = store.slots
<1>1. writer # None /\ writer.pc # "promoted" /\ WriterOK
  BY DEF JInv, WriterStep, CreateStore, SyncStore, MakeCandidate,
     BeginRecordFile, EndRecordFile, TakeUpCandidate, At
<1>2. \A d \in disk : d.slots = store.slots
  BY <1>1 DEF LogInv, Slots
<1>3. disk' \subseteq disk \cup {store'} /\ store' \in disk'
  BY DEF WriterStep, CreateStore, SyncStore, MakeCandidate, JInv,
     BeginRecordFile, EndRecordFile, TakeUpCandidate, Write, Sync
<1>4. store'.slots = store.slots
  <2>1. CASE CreateStore
    BY <1>1, <2>1 DEF CreateStore, At, Write, EmptyStore, JInv, WriterOK,
       StoreOK, AbsentStore
  <2>2. CASE SyncStore
    BY <2>2 DEF SyncStore, Sync
  <2>3. CASE MakeCandidate
    <3>1. store' = [store EXCEPT !.cand = Candidate(writer.record, "empty")]
      BY <2>3 DEF MakeCandidate, Write
    <3> QED BY <3>1 DEF JInv, StoreOK
  <2>4. CASE BeginRecordFile \/ EndRecordFile \/ TakeUpCandidate
    <3>1. \/ store' = store
          \/ \E x : store' = [store EXCEPT !.cand.content = x]
      BY <2>4 DEF BeginRecordFile, EndRecordFile, TakeUpCandidate, Write, Sync
    <3> QED BY <3>1 DEF JInv, StoreOK
  <2> QED BY <2>1, <2>2, <2>3, <2>4 DEF WriterStep
<1> QED BY <1>2, <1>3, <1>4 DEF Slots

\* The rename leaves it uncertain whether the record is in.
LEMMA SlotsOfPromote ==
  ASSUME JInv, LogInv, Promote
  PROVE  /\ Slots = {store.slots}
         /\ Slots' = {store.slots, Append(store.slots, writer.record)}
         /\ store'.slots = Append(store.slots, writer.record)
         /\ Admits(store.slots, writer.record)
<1>1. /\ writer # None /\ writer.pc = "written" /\ WriterOK
      /\ disk' = disk \cup {store'}
      /\ store'.slots = Append(store.slots, writer.record)
  BY DEF JInv, Promote, At, Write
<1>2. Slots = {store.slots}
  BY <1>1 DEF LogInv
<1>3. Slots' = {store.slots, store'.slots}
  <2>1. \A d \in disk : d.slots = store.slots
    BY <1>2 DEF Slots
  <2>2. store \in disk
    BY DEF JInv
  <2> QED BY <1>1, <2>1, <2>2 DEF Slots
<1> QED BY <1>1, <1>2, <1>3 DEF WriterOK

\* All that a step does to the histories on disk: the rename adds one, every
\* other step adds none.
LEMMA SlotsMove ==
  ASSUME JInv, LogInv, [Next]_vars
  PROVE  LogInv' /\ Slots' # {}
         /\ (Promote \/ Slots' \subseteq Slots)
<1>1. store.slots \in Slots
  BY SlotsOfJournal
<1>2. CASE UNCHANGED journal
  BY <1>1, <1>2 DEF journal, LogInv, Slots
<1>3. CASE /\ UNCHANGED store
           /\ Slots' = {store.slots}
  BY <1>1, <1>3 DEF LogInv
<1>4. CASE ReadBarriers /\ UNCHANGED <<store, writer, acked>>
  BY <1>3, <1>4, SlotsAfterRead
<1>5. CASE \E r \in Submitted : EndsAtOnce(r) \/ \E c : StartsWriting(c, r)
  <2>1. ReadBarriers /\ UNCHANGED store
    BY <1>5 DEF EndsAtOnce, StartsWriting
  <2> QED BY <1>3, <2>1, SlotsAfterRead
<1>6. CASE WriterStep /\ ~Promote
  BY <1>1, <1>6, SlotsOfWriter DEF LogInv
<1>7. CASE Promote
  <2>1. writer'.pc = "promoted"
    BY <1>7 DEF Promote, At, GoTo, JInv, WriterOK
  <2>2. IsLog(store.slots) /\ Numbered(store.slots)
    BY <1>1, SlotsOfJournal DEF LogInv
  <2>3. Numbered(Append(store.slots, writer.record))
    BY <1>7, <2>2, SlotsOfPromote, NumberedAppend
  <2> QED BY <1>7, <2>1, <2>2, <2>3, SlotsOfPromote DEF LogInv
<1>8. CASE ConflictWithEmpty \/ Barrier
  <2>1. store' = store /\ disk' = {store}
    BY <1>8 DEF ConflictWithEmpty, Barrier, Sync
  <2>2. Slots' = {store.slots}
    BY <2>1 DEF Slots
  <2> QED BY <1>3, <2>1, <2>2
<1>9. CASE PowerFails
  <2>1. PICK d \in disk : store' = d /\ disk' = {d}
    BY <1>9 DEF PowerFails
  <2>2. Slots' = {d.slots} /\ store'.slots = d.slots /\ d.slots \in Slots
    BY <2>1 DEF Slots
  <2> QED BY <2>2 DEF LogInv
<1>10. CASE \E c \in Controllers : Dies(c)
  <2>1. UNCHANGED <<store, disk>> /\ writer' \in {writer, None}
    BY <1>10 DEF Dies
  <2> QED BY <1>1, <2>1 DEF LogInv, Slots
<1>11. WriterStep => Promote \/ (WriterStep /\ ~Promote)
  OBVIOUS
<1> QED
  BY <1>2, <1>4, <1>5, <1>6, <1>7, <1>8, <1>9, <1>10, <1>11, JournalMoves

----------------------------------------------------------------------------
(* What is durable. The histories on disk are one log and perhaps the same *)
(* log with one record more: what is durable is what the shorter one has.  *)

Pairs(log, kind) ==
    {x \in Commands : \E r \in RecordsOf(log, kind) : <<r.mutation, r.step>> = x}

Base(log) == log \in Slots /\ \E r : Slots \subseteq {log, Append(log, r)}

LEMMA PairsAppend ==
  ASSUME NEW log, IsLog(log), NEW r, NEW kind
  PROVE  /\ Pairs(log, kind) \subseteq Pairs(Append(log, r), kind)
         /\ r.kind # kind => Pairs(Append(log, r), kind) = Pairs(log, kind)
         /\ Pairs(Append(log, r), kind)
               \subseteq Pairs(log, kind) \cup {<<r.mutation, r.step>>}
         /\ r.kind = kind /\ <<r.mutation, r.step>> \in Commands =>
               <<r.mutation, r.step>> \in Pairs(Append(log, r), kind)
<1>1. \A x : x \in RecordsOf(Append(log, r), kind) <=>
                \/ x \in RecordsOf(log, kind)
                \/ x = r /\ r.kind = kind
  BY AppendLog, InKind
<1> QED BY <1>1 DEF Pairs

LEMMA DurableIsBase ==
  ASSUME NEW D, NEW log \in {d.slots : d \in D}, NEW r, IsLog(log),
         {d.slots : d \in D} \subseteq {log, Append(log, r)}, NEW kind
  PROVE  {x \in Commands : \A d \in D : \E e \in RecordsOf(d.slots, kind) :
              <<e.mutation, e.step>> = x} = Pairs(log, kind)
<1>1. \A d \in D : Pairs(log, kind) \subseteq Pairs(d.slots, kind)
  BY PairsAppend
<1>2. \E d \in D : d.slots = log
  OBVIOUS
<1> QED BY <1>1, <1>2 DEF Pairs

LEMMA BaseExists ==
  ASSUME JInv, LogInv
  PROVE  \E log : Base(log)
<1>1. store.slots \in Slots
  BY SlotsOfJournal
<1>2. CASE Slots = {store.slots}
  BY <1>2 DEF Base
<1>3. CASE Slots # {store.slots}
  <2>1. PICK log \in Slots : \E r : store.slots = Append(log, r)
    BY <1>1, <1>3 DEF LogInv
  <2>2. ASSUME NEW other \in Slots, other # store.slots
        PROVE  other = log
    <3>0. PICK r : store.slots = Append(log, r)
      BY <2>1
    <3>1. PICK q : store.slots = Append(other, q)
      BY <2>2 DEF LogInv
    <3> DEFINE S == Entries(log) \cup Entries(other) \cup {q, r}
    <3>2. log \in Seq(S) /\ other \in Seq(S) /\ q \in S /\ r \in S
      BY SlotsOfJournal DEF IsLog
    <3>3. Append(log, r) = Append(other, q)
      BY <3>0, <3>1
    <3> HIDE DEF S
    <3> QED BY <3>2, <3>3, AppendInjective
  <2>3. \E r : Slots \subseteq {log, Append(log, r)}
    BY <2>1, <2>2
  <2> QED BY <2>3 DEF Base
<1> QED BY <1>2, <1>3

\* What a step makes durable: nothing, or one record that replay admits after
\* what was durable before, and that some store on disk had.
LEMMA DurableMoves ==
  ASSUME JInv, LogInv, CtlInv, [Next]_vars
  PROVE  \E log, r :
            /\ Base(log)
            /\ \/ Base(log)'
               \/ /\ Base(Append(log, r))' /\ Append(log, r) \in Slots
                  /\ Admits(log, r)
<1>1. PICK log : Base(log)
  BY BaseExists
<1>2. PICK r : Slots \subseteq {log, Append(log, r)}
  BY <1>1 DEF Base
<1>3. Slots' # {} /\ (Promote \/ Slots' \subseteq Slots)
  BY SlotsMove
<1>4. CASE Promote
  <2>1. log = store.slots /\ log \in Slots'
    BY <1>1, <1>4, SlotsOfPromote DEF Base
  <2>2. Base(log)'
    BY <1>4, <2>1, SlotsOfPromote DEF Base
  <2> QED BY <1>1, <2>2
<1>5. CASE log \in Slots' /\ Slots' \subseteq Slots
  <2>1. Base(log)'
    BY <1>2, <1>5 DEF Base
  <2> QED BY <1>1, <2>1
<1>6. CASE log \notin Slots' /\ Slots' \subseteq Slots
  <2> DEFINE longer == Append(log, r)
  <2>1. Slots' = {longer} /\ longer \in Slots
    BY <1>2, <1>3, <1>6
  <2>2. Base(longer)'
    BY <2>1 DEF Base
  <2>3. Admits(log, r)
    <3>1. IsLog(log) /\ Readable(longer)
      BY <1>1, <2>1, SlotsOfJournal DEF Base
    <3>2. log \in Seq(Entries(log) \cup {r}) /\ Len(log) \in Nat
      BY <3>1 DEF IsLog
    <3>3. /\ Len(log) + 1 \in DOMAIN longer
          /\ longer[Len(log) + 1] = r
          /\ SubSeq(longer, 1, Len(log)) = SubSeq(log, 1, Len(log))
      BY <3>2, AppendProperties, PrefixOfAppend
    <3>4. Admits(SubSeq(longer, 1, (Len(log) + 1) - 1), longer[Len(log) + 1])
      BY <3>1, <3>3 DEF Readable
    <3>5. (Len(log) + 1) - 1 = Len(log)
      BY <3>2
    <3>6. SubSeq(log, 1, Len(log)) = log
      BY <3>2, SubSeqFull
    <3> QED BY <3>3, <3>4, <3>5, <3>6
  <2> QED BY <1>1, <2>1, <2>2, <2>3
<1> QED BY <1>3, <1>4, <1>5, <1>6

----------------------------------------------------------------------------
(* The controllers.                                                        *)

SentInv ==
    /\ sent \in [Commands -> {0, 1}]
    /\ \A x \in Commands : sent[x] = 1 => CommandRecord(x) \in acked
    /\ \A c \in Controllers : ctl[c].pc = "send" =>
          CommandRecord(Command(c)) \in acked /\ sent[Command(c)] = 0
    /\ \A c, b \in Controllers :
          ctl[c].pc = "send" /\ ctl[b].pc = "send" /\ Command(c) = Command(b)
              => c = b
    /\ writer # None /\ writer.record.kind = "command" =>
           writer.record \notin acked
    /\ \A log \in Slots : \A r \in Entries(log) : Witnessed(r, sent)

IInv == JInv /\ LogInv /\ CtlInv /\ SentInv

LEMMA CommandOf ==
  ASSUME CtlInv, NEW c \in Controllers, ctl[c].intent \in Requests
  PROVE  Command(c) \in Commands
BY DEF CtlInv, Program, Command, Commands

LEMMA CommandRecords ==
  ASSUME NEW x \in Commands, NEW y \in Commands
  PROVE  /\ CommandRecord(x) = CommandRecord(y) => x = y
         /\ Shaped(CommandRecord(x)) /\ CommandRecord(x).kind = "command"
         /\ CommandRecord(x).mutation = x[1] /\ CommandRecord(x).step = x[2]
         /\ \A given : Witnessed(CommandRecord(x), given)
BY DEF CommandRecord, Commands, Shaped, Kinds, Witnessed

\* Only a controller about to send changes what Herdr was given: once.
LEMMA SentMoves ==
  ASSUME IInv, [Next]_vars
  PROVE  \/ sent' = sent
         \/ \E c \in Controllers :
               /\ ctl[c].pc = "send" /\ Command(c) \in Commands
               /\ sent' = [sent EXCEPT ![Command(c)] = 1]
               /\ UNCHANGED journal
               /\ SendUnproved(c) \/ \E request : SendProved(c, request)
<1>1. ASSUME NEW c \in Controllers,
             SendUnproved(c) \/ \E request : SendProved(c, request)
      PROVE  /\ ctl[c].pc = "send" /\ Command(c) \in Commands
             /\ sent' = [sent EXCEPT ![Command(c)] = 1]
             /\ UNCHANGED journal
  <2>1. /\ ctl[c].pc = "send" /\ Give(Command(c)) /\ UNCHANGED journal
    <3>1. CASE SendUnproved(c)
      BY <3>1 DEF SendUnproved, At_
    <3>2. ASSUME NEW request, SendProved(c, request)
          PROVE  /\ ctl[c].pc = "send" /\ Give(Command(c)) /\ UNCHANGED journal
      BY <3>2 DEF SendProved, At_
    <3> QED BY <1>1, <3>1, <3>2
  <2>2. Command(c) \in Commands
    BY <2>1, CommandOf DEF IInv, CtlInv, InEffect
  <2>3. sent[Command(c)] = 0
    BY <2>1 DEF IInv, SentInv
  <2> QED BY <2>1, <2>2, <2>3 DEF Give, IInv, SentInv
<1>2. CASE \A c \in Controllers :
              ~SendUnproved(c) /\ \A request : ~SendProved(c, request)
  <2>1. CASE UNCHANGED vars
    BY <2>1 DEF vars
  <2>2. ASSUME NEW c \in Controllers, NEW m \in Requests,
               \/ ProvisionJournaled(c, m) \/ PrepareMutation(c, m)
               \/ ProvisionPrepared(c, m)
        PROVE  sent' = sent
    BY <2>2 DEF ProvisionJournaled, PrepareMutation, ProvisionPrepared
  <2>3. ASSUME NEW c \in Controllers,
               \/ CommitEnds(c) \/ CommitBusy(c) \/ CommitWrites(c)
               \/ BeforeCommand(c) \/ Crash(c)
        PROVE  sent' = sent
    BY <2>3 DEF CommitEnds, CommitBusy, CommitWrites, BeforeCommand, Crash
  <2>4. ASSUME NEW c \in Controllers, Settle(c)
        PROVE  sent' = sent
    BY <2>4 DEF Settle
  <2>5. WriterMoves \/ CommitConflicts \/ CommitDone \/ ReleaseSession
            \/ SwapWorkspace \/ PowerLoss => sent' = sent
    BY DEF WriterMoves, CommitConflicts, CommitDone, ReleaseSession,
       SwapWorkspace, PowerLoss
  <2> QED BY <1>2, <2>1, <2>2, <2>3, <2>4, <2>5 DEF Next
<1> QED BY <1>1, <1>2

LEMMA SentGrows ==
  ASSUME IInv, [Next]_vars
  PROVE  /\ sent' \in [Commands -> {0, 1}]
         /\ \A x \in Commands : sent[x] = 1 => sent'[x] = 1
         /\ \A r : Witnessed(r, sent) => Witnessed(r, sent')
BY SentMoves DEF IInv, SentInv, Witnessed

ProgramOK(p, given) == Program(p) /\ Submits(p, given) /\ InEffect(p)

\* A controller whose call does not hold the lock goes on, or its call takes it.
LEMMA SetKeeps ==
  ASSUME IInv, [Next]_vars, NEW c \in Controllers, NEW new, Set(c, new),
         ProgramOK(new, sent'),
         writer' # None =>
            \/ writer' = writer /\ ctl[c].pc # "committing"
            \/ writer'.by = c /\ new.pc = "committing" /\ new.record = writer'.record
  PROVE  CtlInv'
<1>1. /\ ctl' = [b \in Controllers |-> ctl'[b]]
      /\ ctl'[c] = new /\ \A b \in Controllers : b # c => ctl'[b] = ctl[b]
  BY DEF Set, IInv, CtlInv
<1>2. \A b \in Controllers : ProgramOK(ctl'[b], sent')
  BY <1>1, SentGrows DEF IInv, CtlInv, ProgramOK, Submits
<1>3. writer' # None =>
         /\ writer'.by \in Controllers
         /\ ctl'[writer'.by].pc = "committing"
         /\ ctl'[writer'.by].record = writer'.record
  BY <1>1 DEF IInv, CtlInv
<1> QED BY <1>1, <1>2, <1>3 DEF CtlInv, ProgramOK

LEMMA IdleOK == \A given : ProgramOK(Idle, given)
BY DEF ProgramOK, Idle, Program, Pcs, Steps, Submits, InEffect

\* A call that raises leaves nothing behind.
LEMMA RaiseKeeps ==
  ASSUME IInv, [Next]_vars, NEW c \in Controllers, Raise(c),
         writer' # None => writer' = writer /\ ctl[c].pc # "committing"
  PROVE  CtlInv'
BY SetKeeps, IdleOK DEF Raise

LEMMA SameCtlKeeps ==
  ASSUME IInv, [Next]_vars, ctl' = ctl,
         writer' # None => /\ writer # None /\ writer'.by = writer.by
                           /\ writer'.record = writer.record
  PROVE  CtlInv'
BY SentGrows DEF IInv, CtlInv, Submits

\* What a controller goes on with when its commit is answered for.
LEMMA ContinueOK ==
  ASSUME IInv, NEW c \in Controllers, ctl[c].pc = "committing"
  PROVE  /\ ProgramOK(Continue(c), sent) /\ Continue(c).pc # "committing"
         /\ Continue(c).pc = "send" =>
               /\ ctl[c].record = CommandRecord(Command(c))
               /\ Continue(c).intent = ctl[c].intent
               /\ Continue(c).step = ctl[c].step
               /\ ctl[c].intent \in Requests
<1> DEFINE p == ctl[c]
           n == Continue(c)
<1>1. Program(p) /\ Submits(p, sent) /\ p.pc = "committing"
  BY DEF IInv, CtlInv
<1>2. p.record.kind \in Kinds /\ (p.record.kind # "mutation" => p.intent \in Requests)
  BY <1>1 DEF Submits, Shaped
<1>3. CASE p.record.kind = "mutation"
  <2>1. n = IF p.intent = None THEN Idle
            ELSE [p EXCEPT !.pc = "command", !.record = None]
    BY <1>3 DEF Continue
  <2>2. CASE p.intent = None
    BY <2>1, <2>2, IdleOK DEF Idle
  <2>3. CASE p.intent # None
    <3>1. /\ Program(n) /\ n.pc = "command" /\ n.intent = p.intent
      BY <1>1, <2>1, <2>3 DEF Program, Pcs
    <3>2. p.intent \in Requests
      BY <1>1, <2>3 DEF Program
    <3> QED BY <3>1, <3>2 DEF ProgramOK, Submits, InEffect
  <2> QED BY <2>2, <2>3
<1>4. CASE p.record.kind = "command"
  <2>1. n = [p EXCEPT !.pc = "send", !.record = None]
    BY <1>4 DEF Continue
  <2>2. /\ Program(n) /\ n.pc = "send" /\ n.intent = p.intent /\ n.step = p.step
    BY <1>1, <2>1 DEF Program, Pcs
  <2>3. p.record = CommandRecord(Command(c)) /\ p.intent \in Requests
    BY <1>1, <1>2, <1>4 DEF Submits, Command
  <2> QED BY <2>2, <2>3 DEF ProgramOK, Submits, InEffect
<1>5. CASE p.record.kind = "receipt"
  <2> DEFINE pc == IF p.step = 2 THEN "settle" ELSE "command"
             step == IF p.step = 2 THEN 2 ELSE p.step + 1
  <2>1. n = [p EXCEPT !.pc = pc, !.step = step,
                      !.receipts = @ \cup {p.record}, !.record = None]
    BY <1>5 DEF Continue
  <2>2. p.step \in Steps /\ step \in Steps
    BY <1>1 DEF Program, Steps
  <2>3. /\ Program(n) /\ n.pc \in {"settle", "command"} /\ n.intent = p.intent
    BY <1>1, <2>1, <2>2 DEF Program, Pcs
  <2> QED BY <1>2, <1>5, <2>3 DEF ProgramOK, Submits, InEffect
<1>6. CASE p.record.kind = "settlement"
  <2>1. n = Idle
    BY <1>6 DEF Continue
  <2> QED BY <2>1, IdleOK DEF Idle
<1> QED BY <1>2, <1>3, <1>4, <1>5, <1>6 DEF Kinds

\* The entry points.
LEMMA EntryKeeps ==
  ASSUME IInv, [Next]_vars, NEW c \in Controllers, NEW m \in Requests,
         \/ ProvisionJournaled(c, m) \/ PrepareMutation(c, m)
         \/ ProvisionPrepared(c, m)
  PROVE  CtlInv'
<1>0. PICK p : p = Idle /\ Program(p)
  BY IdleOK DEF ProgramOK
<1>1. ctl[c].pc = "idle" /\ writer' = writer
  BY DEF ProvisionJournaled, PrepareMutation, ProvisionPrepared, At_, journal
<1>2. Shaped(MutationRecord(m)) /\ \A given : Witnessed(MutationRecord(m), given)
  BY DEF MutationRecord, Shaped, Kinds, Witnessed
<1>3. MutationRecord(m).kind = "mutation"
  BY DEF MutationRecord
<1>4. CASE ProvisionJournaled(c, m)
  <2> DEFINE n == [p EXCEPT !.pc = "commit", !.intent = m,
                               !.record = MutationRecord(m)]
  <2>1. Set(c, n)
    BY <1>0, <1>4 DEF ProvisionJournaled
  <2>2. Program(n) /\ n.pc = "commit" /\ n.record = MutationRecord(m)
    BY <1>0 DEF Program, Pcs
  <2>3. ProgramOK(n, sent')
    BY <1>2, <1>3, <2>2 DEF ProgramOK, Submits, InEffect
  <2> HIDE DEF n
  <2> QED BY <1>1, <2>1, <2>3, SetKeeps
<1>5. CASE PrepareMutation(c, m)
  <2> DEFINE n == [p EXCEPT !.pc = "commit", !.record = MutationRecord(m)]
  <2>1. Set(c, n)
    BY <1>0, <1>5 DEF PrepareMutation
  <2>2. Program(n) /\ n.pc = "commit" /\ n.record = MutationRecord(m)
    BY <1>0 DEF Program, Pcs
  <2>3. ProgramOK(n, sent')
    BY <1>2, <1>3, <2>2 DEF ProgramOK, Submits, InEffect
  <2> HIDE DEF n
  <2> QED BY <1>1, <2>1, <2>3, SetKeeps
<1>6. CASE ProvisionPrepared(c, m)
  <2> DEFINE n == [p EXCEPT !.pc = "command", !.intent = m]
  <2>1. Set(c, n)
    BY <1>0, <1>6 DEF ProvisionPrepared
  <2>2. Program(n) /\ n.pc = "command" /\ n.intent = m
    BY <1>0 DEF Program, Pcs
  <2>3. ProgramOK(n, sent')
    BY <2>2 DEF ProgramOK, Submits, InEffect
  <2> HIDE DEF n
  <2> QED BY <1>1, <2>1, <2>3, SetKeeps
<1> QED BY <1>4, <1>5, <1>6

\* The commits.
LEMMA CommitKeeps ==
  ASSUME IInv, [Next]_vars, NEW c \in Controllers,
         CommitEnds(c) \/ CommitBusy(c) \/ CommitWrites(c)
  PROVE  CtlInv'
<1>1. ctl[c].pc = "commit"
  BY DEF CommitEnds, CommitBusy, CommitWrites, At_
<1>2. CASE CommitEnds(c)
  BY <1>1, <1>2, RaiseKeeps DEF CommitEnds, RefusedOnReplay, EndsAtOnce
<1>3. CASE CommitBusy(c)
  BY <1>1, <1>3, RaiseKeeps DEF CommitBusy, journal
<1>4. CASE CommitWrites(c)
  <2> DEFINE n == [ctl[c] EXCEPT !.pc = "committing"]
  <2>1. Set(c, n) /\ sent' = sent
    BY <1>4 DEF CommitWrites
  <2>2. /\ writer'.by = c /\ writer'.record = ctl[c].record
    BY <1>4 DEF CommitWrites, StartsWriting
  <2>3. /\ Program(ctl[c]) /\ Submits(ctl[c], sent)
    BY DEF IInv, CtlInv
  <2>4. /\ Program(n) /\ n.pc = "committing" /\ n.record = ctl[c].record
        /\ n.intent = ctl[c].intent /\ n.step = ctl[c].step
    BY <2>3 DEF Program, Pcs
  <2>5. ProgramOK(n, sent')
    BY <1>1, <2>1, <2>3, <2>4 DEF ProgramOK, Submits, InEffect
  <2> HIDE DEF n
  <2> QED BY <2>1, <2>2, <2>4, <2>5, SetKeeps
<1> QED BY <1>2, <1>3, <1>4

\* A controller in the effect phase turns to the commit of a record.
LEMMA SubmitKeeps ==
  ASSUME IInv, [Next]_vars, NEW c \in Controllers, NEW record,
         Submit(c, record), writer' = writer, ctl[c].pc \in {"command", "settle"},
         Shaped(record), record.kind # "mutation", record.kind # "receipt",
         record.kind = "command" => record = CommandRecord(Command(c))
  PROVE  CtlInv'
<1> DEFINE n == [ctl[c] EXCEPT !.pc = "commit", !.record = record]
<1>1. Program(ctl[c]) /\ InEffect(ctl[c])
  BY DEF IInv, CtlInv
<1>2. /\ Program(n) /\ n.pc = "commit" /\ n.record = record
      /\ n.intent = ctl[c].intent /\ n.step = ctl[c].step
  BY <1>1 DEF Program, Pcs
<1>3. ProgramOK(n, sent')
  BY <1>1, <1>2 DEF ProgramOK, Submits, InEffect, Witnessed, Command
<1>4. Set(c, n)
  BY DEF Submit
<1> HIDE DEF n
<1> QED BY <1>3, <1>4, SetKeeps

LEMMA EffectKeeps ==
  ASSUME IInv, [Next]_vars, NEW c \in Controllers, BeforeCommand(c) \/ Settle(c)
  PROVE  CtlInv'
<1>1. CASE BeforeCommand(c)
  <2>1. ctl[c].pc = "command" /\ writer' = writer
    BY <1>1 DEF BeforeCommand, At_, journal
  <2>2. Raise(c) \/ Submit(c, CommandRecord(Command(c)))
    BY <1>1 DEF BeforeCommand
  <2>3. Command(c) \in Commands
    BY <2>1, CommandOf DEF IInv, CtlInv, InEffect
  <2> QED BY <2>1, <2>2, <2>3, RaiseKeeps, SubmitKeeps, CommandRecords
<1>2. CASE Settle(c)
  <2> DEFINE r == [kind |-> "settlement", mutation |-> ctl[c].intent.mutation,
                   session |-> ctl[c].session,
                   receipts |-> {ReceiptDigest(x) : x \in ctl[c].receipts},
                   proof |-> Proof(c)]
  <2>1. ctl[c].pc = "settle" /\ writer' = writer
    BY <1>2 DEF Settle, At_, journal
  <2>2. Raise(c) \/ Submit(c, r)
    BY <1>2 DEF Settle
  <2>3. r.kind = "settlement" /\ Shaped(r)
    BY DEF Shaped, Kinds
  <2> HIDE DEF r
  <2> QED BY <2>1, <2>2, <2>3, RaiseKeeps, SubmitKeeps
<1> QED BY <1>1, <1>2

\* The answer to a command is submitted as its receipt.
LEMMA SendKeeps ==
  ASSUME IInv, [Next]_vars, NEW c \in Controllers, NEW request,
         SendProved(c, request) \/ SendUnproved(c)
  PROVE  CtlInv'
<1>1. ctl[c].pc = "send" /\ writer' = writer
  BY DEF SendProved, SendUnproved, At_, journal
<1>2. CASE Raise(c)
  BY <1>1, <1>2, RaiseKeeps
<1>3. CASE SendProved(c, request) /\ ~Raise(c)
  <2> DEFINE made == IF ctl[c].step = 1 THEN herdr'.workspaces ELSE {Command(c)}
             session == herdr'.generation
             sides == IF ctl[c].step = 1 THEN made ELSE ctl[c].sides
             r == [kind |-> "receipt", mutation |-> ctl[c].intent.mutation,
                   step |-> ctl[c].step, request |-> request,
                   session |-> session, confirmed |-> TRUE, resources |-> made]
             n == [ctl[c] EXCEPT !.pc = "commit", !.session = session,
                                 !.sides = sides, !.record = r]
  <2>1. Set(c, n)
    BY <1>3 DEF SendProved
  <2>2. /\ r.kind = "receipt" /\ r.mutation = ctl[c].intent.mutation
        /\ r.step = ctl[c].step
    OBVIOUS
  <2> HIDE DEF made, session, sides, r
  <2>3. Program(ctl[c]) /\ ctl[c].intent \in Requests
    BY <1>1 DEF IInv, CtlInv, InEffect
  <2>4. Program(n) /\ n.pc = "commit" /\ n.record = r /\ n.intent = ctl[c].intent
    BY <2>3 DEF Program, Pcs
  <2>5. <<r.mutation, r.step>> = Command(c) /\ Command(c) \in Commands
    BY <2>2, <2>3, CommandOf DEF Command, IInv
  <2>6. sent'[Command(c)] = 1
    <3>1. Give(Command(c)) /\ sent[Command(c)] = 0
      BY <1>1, <1>3 DEF SendProved, IInv, SentInv
    <3> QED BY <2>5, <3>1 DEF Give, IInv, SentInv
  <2>7. Witnessed(r, sent') /\ Shaped(r)
    BY <2>2, <2>5, <2>6 DEF Witnessed, Shaped, Kinds
  <2> HIDE DEF n
  <2>8. ProgramOK(n, sent')
    BY <2>2, <2>3, <2>4, <2>7 DEF ProgramOK, Submits, InEffect
  <2> QED BY <1>1, <2>1, <2>8, SetKeeps
<1> QED BY <1>2, <1>3 DEF SendUnproved

LEMMA CtlInvKept ==
  ASSUME IInv, [Next]_vars
  PROVE  CtlInv'
<1>1. CASE UNCHANGED vars \/ WriterMoves \/ ReleaseSession \/ SwapWorkspace
  <2>1. ctl' = ctl
    BY <1>1 DEF vars, WriterMoves, ReleaseSession, SwapWorkspace
  <2>2. writer' = writer \/ \E pc : writer # None /\ writer' = [writer EXCEPT !.pc = pc]
    BY <1>1 DEF vars, journal, ReleaseSession, SwapWorkspace, WriterMoves,
       WriterStep, CreateStore, SyncStore, MakeCandidate, BeginRecordFile,
       EndRecordFile, Promote, TakeUpCandidate, At, GoTo
  <2>3. writer # None => writer = [by |-> writer.by, record |-> writer.record,
                                  pc |-> writer.pc]
    BY DEF IInv, JInv, WriterOK
  <2> QED BY <2>1, <2>2, <2>3, SameCtlKeeps
<1>2. CASE CommitDone
  <2>1. /\ writer # None /\ writer' = None /\ Set(writer.by, Continue(writer.by))
        /\ sent' = sent
    BY <1>2 DEF CommitDone, Barrier, At
  <2>2. writer.by \in Controllers /\ ctl[writer.by].pc = "committing"
    BY <2>1 DEF IInv, CtlInv
  <2> QED BY <2>1, <2>2, ContinueOK, SetKeeps
<1>3. CASE PowerLoss
  <2>1. writer' = None /\ ctl' = [c \in Controllers |-> Idle]
    BY <1>3 DEF PowerLoss, PowerFails
  <2> QED BY <2>1, IdleOK DEF CtlInv, ProgramOK
<1>4. ASSUME NEW c \in Controllers, Crash(c)
      PROVE  CtlInv'
  <2>1. Raise(c) /\ writer' = IF writer # None /\ writer.by = c THEN None ELSE writer
    BY <1>4 DEF Crash, Dies
  <2>2. \A b \in Controllers : b # c => ctl'[b] = ctl[b]
    BY <2>1 DEF Raise, Set, IInv, CtlInv
  <2>3. /\ ctl' = [b \in Controllers |-> ctl'[b]] /\ ctl'[c] = Idle
    BY <2>1 DEF Raise, Set, IInv, CtlInv
  <2>4. \A b \in Controllers : ProgramOK(ctl'[b], sent')
    BY <2>2, <2>3, IdleOK, SentGrows DEF IInv, CtlInv, ProgramOK, Submits
  <2>5. writer' # None => /\ writer'.by \in Controllers
                          /\ ctl'[writer'.by].pc = "committing"
                          /\ ctl'[writer'.by].record = writer'.record
    BY <2>1, <2>2 DEF IInv, CtlInv
  <2> QED BY <2>3, <2>4, <2>5 DEF CtlInv, ProgramOK
<1>5. CASE CommitConflicts
  <2>1. writer # None /\ writer' = None /\ Raise(writer.by)
    BY <1>5 DEF CommitConflicts, ConflictWithEmpty, At
  <2>2. writer.by \in Controllers /\ ctl[writer.by].pc = "committing"
    BY <2>1 DEF IInv, CtlInv
  <2> QED BY <2>1, <2>2, IdleOK, SetKeeps DEF Raise
<1> QED
  BY <1>1, <1>2, <1>3, <1>4, <1>5, EntryKeeps, CommitKeeps, EffectKeeps, SendKeeps
     DEF Next
----------------------------------------------------------------------------
(* Commands and their acknowledged intents.                                *)

\* A call that goes on to write has a record that replay admits, unless it is
\* a mutation and makes the store first.
LEMMA AnswerAdmits ==
  ASSUME NEW r, Shaped(r), AnswerOf(r) \in {"create", "recover", "publish"},
         r.kind # "mutation"
  PROVE  Admits(store.slots, r)
<1>1. Commit(store.slots, r) \notin {"create", "recover"}
  BY DEF Commit, CommitMutation, CommitCommand, CommitReceipt,
     CommitSettlement, Shaped, Kinds
<1> QED BY <1>1, CommitAdmits DEF AnswerOf, History, Residue

LEMMA AckedGrows ==
  ASSUME [Next]_vars
  PROVE  acked \subseteq acked'
BY JournalMoves DEF journal, EndsAtOnce, StartsWriting, WriterStep, CreateStore,
   SyncStore, MakeCandidate, BeginRecordFile, EndRecordFile, Promote,
   TakeUpCandidate, ConflictWithEmpty, Barrier, PowerFails, Dies

\* No call writes the intent of a command that was answered for before.
LEMMA WriterIsNew ==
  ASSUME IInv, [Next]_vars, writer' # None, writer'.record.kind = "command"
  PROVE  writer'.record \notin acked'
<1>1. ASSUME writer # None, writer'.record = writer.record, acked' = acked
      PROVE  writer'.record \notin acked'
  BY <1>1 DEF IInv, SentInv
<1>2. ASSUME NEW r \in Submitted, NEW c, StartsWriting(c, r)
      PROVE  writer'.record \notin acked'
  <2>1. Shaped(r) /\ writer'.record = r /\ acked' = acked
    BY <1>2 DEF StartsWriting, Submitted, IInv, CtlInv, Submits
  <2>2. Admits(store.slots, r) /\ Numbered(store.slots)
    BY <1>2, <2>1, AnswerAdmits, SlotsOfJournal DEF StartsWriting, IInv, LogInv
  <2>3. \A x \in acked : x \in Entries(store.slots)
    BY DEF IInv, JInv, AckedSurvives
  <2> QED BY <2>1, <2>2, <2>3, AdmittedIsNew
<1>3. CASE UNCHANGED journal \/ UNCHANGED <<store, writer, acked>>
  BY <1>1, <1>3 DEF journal
<1>4. CASE WriterStep
  <2>1. writer # None /\ acked' = acked
        /\ \E pc : writer' = [writer EXCEPT !.pc = pc]
    BY <1>4 DEF WriterStep, CreateStore, SyncStore, MakeCandidate,
       BeginRecordFile, EndRecordFile, Promote, TakeUpCandidate, At, GoTo
  <2>2. writer = [by |-> writer.by, record |-> writer.record, pc |-> writer.pc]
    BY <2>1 DEF IInv, JInv, WriterOK
  <2> QED BY <1>1, <2>1, <2>2
<1>5. ConflictWithEmpty \/ Barrier \/ PowerFails \/ (\E r : EndsAtOnce(r))
          => writer' = None
  BY DEF ConflictWithEmpty, Barrier, PowerFails, EndsAtOnce
<1>6. ASSUME NEW c \in Controllers, Dies(c)
      PROVE  writer'.record \notin acked'
  <2>1. writer' = writer /\ acked' = acked
    BY <1>6 DEF Dies
  <2> QED BY <1>1, <2>1
<1> QED BY <1>2, <1>3, <1>4, <1>5, <1>6, JournalMoves

\* Every receipt that may be on disk is of a command that was given.
LEMMA SlotsAreWitnessed ==
  ASSUME IInv, [Next]_vars
  PROVE  \A log \in Slots' : \A r \in Entries(log) : Witnessed(r, sent')
<1>1. CASE Slots' \subseteq Slots
  BY <1>1, SentGrows DEF IInv, SentInv
<1>2. CASE Promote
  <2>1. /\ IsLog(store.slots) /\ store.slots \in Slots
        /\ Slots' = {store.slots, Append(store.slots, writer.record)}
    BY <1>2, SlotsOfPromote, SlotsOfJournal DEF IInv
  <2>2. Entries(Append(store.slots, writer.record))
           = Entries(store.slots) \cup {writer.record}
    BY <2>1, AppendLog
  <2>3. writer # None
    BY <1>2 DEF Promote, At
  <2>4. Witnessed(writer.record, sent)
    BY <2>3 DEF IInv, CtlInv, Submits
  <2> QED BY <2>1, <2>2, <2>4, SentGrows DEF IInv, SentInv
<1> QED BY <1>1, <1>2, SlotsMove DEF IInv

\* Who comes to send a command: only the call that has just published its intent.
LEMMA Sending ==
  ASSUME IInv, [Next]_vars
  PROVE  /\ CommitDone \/ \A b \in Controllers :
                ctl'[b].pc = "send" => ctl'[b] = ctl[b]
         /\ \A b \in Controllers :
                SendUnproved(b) \/ (\E request : SendProved(b, request))
                    => ctl'[b].pc # "send"
<1>1. \A b \in Controllers : Program(ctl[b]) /\ ctl = [c \in Controllers |-> ctl[c]]
  BY DEF IInv, CtlInv
<1>2. ASSUME NEW c \in Controllers, NEW new, Set(c, new), new.pc # "send"
      PROVE  /\ ctl'[c].pc # "send"
             /\ \A b \in Controllers : ctl'[b].pc = "send" => ctl'[b] = ctl[b]
  BY <1>1, <1>2 DEF Set
<1>3. ASSUME NEW c \in Controllers, Raise(c)
      PROVE  /\ ctl'[c].pc # "send"
             /\ \A b \in Controllers : ctl'[b].pc = "send" => ctl'[b] = ctl[b]
  <2>1. Set(c, Idle) /\ Idle.pc # "send"
    BY <1>3 DEF Raise, Idle
  <2> QED BY <1>2, <2>1
<1>4. ASSUME NEW c \in Controllers, NEW record, Submit(c, record)
      PROVE  \A b \in Controllers : ctl'[b].pc = "send" => ctl'[b] = ctl[b]
  <2>1. [ctl[c] EXCEPT !.pc = "commit", !.record = record].pc # "send"
    BY <1>1 DEF Program
  <2> QED BY <1>2, <1>4, <2>1 DEF Submit
<1>5. ASSUME NEW c \in Controllers, NEW request,
             SendProved(c, request) \/ SendUnproved(c)
      PROVE  /\ ctl'[c].pc # "send"
             /\ \A b \in Controllers : ctl'[b].pc = "send" => ctl'[b] = ctl[b]
  <2>1. CASE Raise(c)
    BY <1>3, <2>1
  <2>2. CASE SendProved(c, request) /\ ~Raise(c)
    <3> DEFINE made == IF ctl[c].step = 1 THEN herdr'.workspaces ELSE {Command(c)}
               sides == IF ctl[c].step = 1 THEN made ELSE ctl[c].sides
               session == herdr'.generation
               r == [kind |-> "receipt", mutation |-> ctl[c].intent.mutation,
                     step |-> ctl[c].step, request |-> request,
                     session |-> session, confirmed |-> TRUE,
                     resources |-> made]
               n == [ctl[c] EXCEPT !.pc = "commit", !.session = session,
                                   !.sides = sides, !.record = r]
    <3>1. Set(c, n)
      BY <2>2 DEF SendProved
    <3> HIDE DEF made, session, sides, r
    <3>2. n.pc # "send"
      BY <1>1 DEF Program
    <3> HIDE DEF n
    <3> QED BY <1>2, <3>1, <3>2
  <2> QED BY <1>5, <2>1, <2>2 DEF SendUnproved
<1>6. ASSUME NEW c \in Controllers, NEW m \in Requests,
             \/ ProvisionJournaled(c, m) \/ PrepareMutation(c, m)
             \/ ProvisionPrepared(c, m)
      PROVE  \A b \in Controllers : ctl'[b].pc = "send" => ctl'[b] = ctl[b]
  <2>1. PICK p : p = Idle /\ Program(p)
    BY IdleOK DEF ProgramOK
  <2>2. \/ Set(c, [p EXCEPT !.pc = "commit", !.intent = m, !.record = MutationRecord(m)])
        \/ Set(c, [p EXCEPT !.pc = "commit", !.record = MutationRecord(m)])
        \/ Set(c, [p EXCEPT !.pc = "command", !.intent = m])
    BY <1>6, <2>1 DEF ProvisionJournaled, PrepareMutation, ProvisionPrepared
  <2>3. /\ [p EXCEPT !.pc = "commit", !.intent = m, !.record = MutationRecord(m)].pc # "send"
        /\ [p EXCEPT !.pc = "commit", !.record = MutationRecord(m)].pc # "send"
        /\ [p EXCEPT !.pc = "command", !.intent = m].pc # "send"
    BY <2>1 DEF Program
  <2> QED BY <1>2, <2>2, <2>3
<1>7. ASSUME NEW c \in Controllers,
             \/ CommitEnds(c) \/ CommitBusy(c) \/ CommitWrites(c)
             \/ BeforeCommand(c) \/ Settle(c) \/ Crash(c)
      PROVE  \A b \in Controllers : ctl'[b].pc = "send" => ctl'[b] = ctl[b]
  <2>1. [ctl[c] EXCEPT !.pc = "committing"].pc # "send"
    BY <1>1 DEF Program
  <2>2. \/ Raise(c) \/ \E record : Submit(c, record)
        \/ Set(c, [ctl[c] EXCEPT !.pc = "committing"])
    BY <1>7 DEF CommitEnds, RefusedOnReplay, CommitBusy, CommitWrites,
       BeforeCommand, Settle, Crash
  <2> QED BY <1>2, <1>3, <1>4, <2>1, <2>2
<1>8. UNCHANGED vars \/ WriterMoves \/ ReleaseSession \/ SwapWorkspace
          => ctl' = ctl
  BY DEF vars, WriterMoves, ReleaseSession, SwapWorkspace
<1>9. PowerLoss => \A b \in Controllers : ctl'[b].pc # "send"
  BY DEF PowerLoss, Idle
<1>10. ASSUME CommitConflicts
       PROVE  \A b \in Controllers : ctl'[b].pc = "send" => ctl'[b] = ctl[b]
  <2>1. writer.by \in Controllers /\ Raise(writer.by)
    BY <1>10 DEF CommitConflicts, ConflictWithEmpty, At, IInv, CtlInv
  <2> QED BY <2>1, <1>3
<1> QED BY <1>5, <1>6, <1>7, <1>8, <1>9, <1>10 DEF Next

\* The step of a command that is answered for.
LEMMA CommitDoneKeeps ==
  ASSUME IInv, [Next]_vars, CommitDone
  PROVE  /\ \A c \in Controllers : ctl'[c].pc = "send" =>
               CommandRecord(Command(c)') \in acked' /\ sent'[Command(c)'] = 0
         /\ \A c, b \in Controllers :
               ctl'[c].pc = "send" /\ ctl'[b].pc = "send"
                   /\ Command(c)' = Command(b)'  => c = b
<1>1. /\ writer # None /\ Set(writer.by, Continue(writer.by)) /\ sent' = sent
      /\ acked' = IF Readable(store.slots) THEN acked \cup {writer.record}
                  ELSE acked
  BY DEF CommitDone, Barrier, At
<1>2. PICK by \in Controllers : /\ by = writer.by /\ ctl[by].pc = "committing"
                               /\ ctl[by].record = writer.record
  BY <1>1 DEF IInv, CtlInv
<1>3. acked' = acked \cup {writer.record}
  BY <1>1 DEF IInv, JInv, StoreOK
<1>4. /\ ctl'[by] = Continue(by)
      /\ \A b \in Controllers : b # by => ctl'[b] = ctl[b]
  BY <1>1, <1>2 DEF Set, IInv, CtlInv
<1>5. ctl'[by].pc = "send" =>
         /\ writer.record = CommandRecord(Command(by))
         /\ Command(by)' = Command(by) /\ Command(by) \in Commands
         /\ CommandRecord(Command(by)) \notin acked
  <2>1. ASSUME ctl'[by].pc = "send"
        PROVE  /\ writer.record = CommandRecord(Command(by))
               /\ Command(by)' = Command(by) /\ Command(by) \in Commands
    BY <1>2, <1>4, <2>1, ContinueOK, CommandOf DEF Command, IInv
  <2> QED BY <1>1, <2>1, CommandRecords DEF IInv, SentInv
<1>6. \A b \in Controllers : b # by /\ ctl'[b].pc = "send" =>
         /\ Command(b)' = Command(b) /\ sent[Command(b)] = 0
         /\ CommandRecord(Command(b)) \in acked
  BY <1>4 DEF Command, IInv, SentInv
<1>7. ctl'[by].pc = "send" => sent[Command(by)] = 0
  BY <1>5 DEF IInv, SentInv
<1>8. \A c \in Controllers : ctl'[c].pc = "send" =>
         CommandRecord(Command(c)') \in acked' /\ sent'[Command(c)'] = 0
  BY <1>1, <1>3, <1>5, <1>6, <1>7
<1>9. \A b \in Controllers :
         b # by /\ ctl'[b].pc = "send" /\ ctl'[by].pc = "send"
             => Command(b)' # Command(by)'
  BY <1>5, <1>6
<1>10. \A c, b \in Controllers :
          c # by /\ b # by /\ ctl'[c].pc = "send" /\ ctl'[b].pc = "send"
              /\ Command(c)' = Command(b)'  => c = b
  BY <1>4, <1>6 DEF IInv, SentInv
<1> QED BY <1>8, <1>9, <1>10

LEMMA SentInvKept ==
  ASSUME IInv, [Next]_vars
  PROVE  SentInv'
<1>1. acked \subseteq acked'
  BY AckedGrows
<1>2. \A x \in Commands : sent'[x] = 1 => CommandRecord(x) \in acked'
  BY <1>1, SentMoves DEF IInv, SentInv
<1>3. /\ \A c \in Controllers : ctl'[c].pc = "send" =>
            CommandRecord(Command(c)') \in acked' /\ sent'[Command(c)'] = 0
      /\ \A c, b \in Controllers :
            ctl'[c].pc = "send" /\ ctl'[b].pc = "send"
                /\ Command(c)' = Command(b)'  => c = b
  <2>1. CASE CommitDone
    BY <2>1, CommitDoneKeeps
  <2>2. CASE ~CommitDone
    <3>1. \A b \in Controllers : ctl'[b].pc = "send" =>
             /\ ctl[b].pc = "send" /\ Command(b)' = Command(b)
             /\ Command(b) \in Commands
      BY <2>2, Sending, CommandOf DEF Command, IInv, CtlInv, InEffect
    <3>2. \A b \in Controllers : ctl'[b].pc = "send" => sent'[Command(b)] = 0
      <4>1. CASE sent' = sent
        BY <3>1, <4>1 DEF IInv, SentInv
      <4>2. ASSUME NEW c \in Controllers, ctl[c].pc = "send",
                   sent' = [sent EXCEPT ![Command(c)] = 1],
                   SendUnproved(c) \/ \E request : SendProved(c, request),
                   NEW b \in Controllers, ctl'[b].pc = "send"
            PROVE  sent'[Command(b)] = 0
        <5>1. ctl'[c].pc # "send"
          BY <4>2, Sending
        <5>2. Command(b) # Command(c)
          BY <3>1, <4>2, <5>1 DEF IInv, SentInv
        <5> QED BY <3>1, <4>2, <5>2 DEF IInv, SentInv
      <4> QED BY <4>1, <4>2, SentMoves
    <3> QED BY <1>1, <3>1, <3>2 DEF IInv, SentInv
  <2> QED BY <2>1, <2>2
<1>4. writer' # None /\ writer'.record.kind = "command" =>
         writer'.record \notin acked'
  BY WriterIsNew
<1>5. \A log \in Slots' : \A r \in Entries(log) : Witnessed(r, sent')
  BY SlotsAreWitnessed
<1>6. sent' \in [Commands -> {0, 1}]
  BY SentGrows
<1> QED BY <1>2, <1>3, <1>4, <1>5, <1>6 DEF SentInv

----------------------------------------------------------------------------
(* The theorems.                                                           *)

LEMMA InitIInv == Init => IInv
<1> SUFFICES ASSUME Init PROVE IInv
  OBVIOUS
<1>1. /\ store = AbsentStore /\ disk = {AbsentStore} /\ writer = None
      /\ acked = {} /\ ctl = [c \in Controllers |-> Idle]
      /\ sent = [x \in Commands |-> 0]
  BY DEF Init, InitJournal
<1>2. StoreOK(AbsentStore) /\ AbsentStore.slots = <<>>
  BY EmptyLog DEF StoreOK, AbsentStore
<1>3. JInv
  BY <1>1, <1>2 DEF JInv, AckedSurvives
<1>4. Slots = {<<>>} /\ LogInv
  BY <1>1, <1>2, NumberedEmpty DEF LogInv, Slots
<1>5. CtlInv
  BY <1>1, IdleOK DEF CtlInv, ProgramOK
<1>6. SentInv
  BY <1>1, <1>4, EmptyLog DEF SentInv, Idle
<1> QED BY <1>3, <1>4, <1>5, <1>6 DEF IInv

\* The invariant is inductive: whatever a controller, another one, a crash or
\* a loss of power does next, every part of it is kept.
THEOREM Invariance == Spec => []IInv
<1>1. ASSUME IInv, [Next]_vars PROVE IInv'
  BY <1>1, JInvKept, SlotsMove, CtlInvKept, SentInvKept DEF IInv
<1> QED BY <1>1, InitIInv, PTL DEF Spec

\* No loss of power and no crash, of however many controllers, leaves a
\* history of lib/ask_herdr_topology_store.py that its own replay rejects, or
\* a candidate that would make it one.
THEOREM HistoriesReplay == Spec => []HistoryReplays
<1>1. IInv => HistoryReplays
  BY DEF IInv, JInv, StoreOK, CandidateOK, HistoryReplays
<1> QED BY <1>1, Invariance, PTL

\* A record some commit has been answered for is in every store that a loss of
\* power may leave.
THEOREM AckedRecordsSurvive == Spec => []AckedSurvives
<1>1. IInv => AckedSurvives
  BY DEF IInv, JInv
<1> QED BY <1>1, Invariance, PTL

----------------------------------------------------------------------------
(* The refinement.                                                         *)

\* A step that makes one record durable is a step of CommandOnce, or none.
LEMMA RecordImplements ==
  ASSUME IInv, NEW log, NEW r, log \in Slots, Append(log, r) \in Slots,
         Admits(log, r), sent' = sent,
         \A kind : Durable(kind) = Pairs(log, kind),
         \A kind : Durable(kind)' = Pairs(Append(log, r), kind)
  PROVE  [Once!Next]_(Once!vars)
<1> DEFINE new == Append(log, r)
           x == <<r.mutation, r.step>>
<1>1. IsLog(log) /\ Numbered(log)
  BY SlotsOfJournal DEF IInv, LogInv
<1>2. /\ \A kind : Pairs(new, kind) \subseteq Pairs(log, kind) \cup {x}
      /\ \A kind : Pairs(log, kind) \subseteq Pairs(new, kind)
      /\ \A kind : r.kind # kind => Pairs(new, kind) = Pairs(log, kind)
      /\ \A kind : Pairs(new, kind) \subseteq Commands
      /\ x \in Commands => x \in Pairs(new, r.kind)
  BY <1>1, PairsAppend DEF Pairs
<1> HIDE DEF new
<1>3. CASE x \notin Commands \/ r.kind \notin {"command", "receipt"}
  <2>1. /\ Pairs(new, "command") = Pairs(log, "command")
        /\ Pairs(new, "receipt") = Pairs(log, "receipt")
    BY <1>2, <1>3
  <2> QED BY <2>1 DEF Once!vars, new
<1>4. CASE x \in Commands /\ r.kind = "command"
  <2>1. /\ Pairs(new, "command") = Pairs(log, "command") \cup {x}
        /\ Pairs(new, "receipt") = Pairs(log, "receipt")
    BY <1>2, <1>4
  <2>2. /\ r.step = Cardinality(CommandsOf(log, r.mutation)) + 1
        /\ r.step > 1 => r.step - 1 \in ConfirmedSteps(log, r.mutation)
    BY <1>4 DEF Admits, AdmitsCommand
  <2>3. x \notin Pairs(log, "command")
    <3>1. ASSUME NEW e \in RecordsOf(log, "command"),
                 e.mutation = r.mutation, e.step = r.step
          PROVE  FALSE
      <4>1. r.step \in 1 .. Cardinality(CommandsOf(log, r.mutation))
        BY <1>1, <3>1 DEF Numbered
      <4>2. Cardinality(CommandsOf(log, r.mutation)) \in Nat
        BY <1>1, CommandsAreFinite DEF Numbered
      <4> QED BY <2>2, <4>1, <4>2
    <3> QED BY <3>1 DEF Pairs
  <2>4. {y \in Commands : y[1] = x[1] /\ y[2] < x[2]} \subseteq Pairs(log, "receipt")
    <3> SUFFICES ASSUME NEW y \in Commands, y[1] = r.mutation, y[2] < r.step
                 PROVE  y \in Pairs(log, "receipt")
      OBVIOUS
    <3>1. y = <<r.mutation, r.step - 1>> /\ r.step > 1
      BY <1>4 DEF Commands, Steps
    <3>2. PICK e \in ReceiptsOf(log, r.mutation) : e.step = r.step - 1
      BY <2>2, <3>1 DEF ConfirmedSteps
    <3> QED BY <3>1, <3>2 DEF Pairs, ReceiptsOf
  <2>5. Once!Intend(x)
    BY <1>4, <2>1, <2>3, <2>4 DEF Once!Intend, new
  <2> QED BY <1>4, <2>5 DEF Once!Next
<1>5. CASE x \in Commands /\ r.kind = "receipt"
  <2>1. /\ Pairs(new, "receipt") = Pairs(log, "receipt") \cup {x}
        /\ Pairs(new, "command") = Pairs(log, "command")
    BY <1>2, <1>5
  <2>2. x \notin Pairs(log, "receipt")
    BY <1>5 DEF Admits, AdmitsReceipt, Pairs, ReceiptsOf
  <2>3. sent[x] = 1
    <3>1. r \in Entries(new)
      BY <1>1, AppendLog DEF new
    <3> QED BY <1>5, <3>1 DEF IInv, SentInv, Witnessed, new
  <2>4. Once!Confirm(x)
    BY <2>1, <2>2, <2>3 DEF Once!Confirm, new
  <2> QED BY <1>5, <2>4 DEF Once!Next
<1> QED BY <1>3, <1>4, <1>5

LEMMA StepImplements ==
  ASSUME IInv, [Next]_vars
  PROVE  [Once!Next]_(Once!vars)
<1>1. ASSUME NEW c \in Controllers, ctl[c].pc = "send", Command(c) \in Commands,
             sent' = [sent EXCEPT ![Command(c)] = 1], UNCHANGED journal
      PROVE  Once!Next
  <2>1. CommandRecord(Command(c)) \in acked /\ sent[Command(c)] = 0
    BY <1>1 DEF IInv, SentInv
  <2>2. Command(c) \in Durable("command")
    <3>1. \A d \in disk : CommandRecord(Command(c)) \in RecordsOf(d.slots, "command")
      BY <1>1, <2>1, InKind, CommandRecords DEF IInv, JInv, AckedSurvives
    <3>2. <<CommandRecord(Command(c)).mutation, CommandRecord(Command(c)).step>>
             = Command(c)
      BY <1>1, CommandRecords DEF Commands
    <3> QED BY <1>1, <3>1, <3>2 DEF Durable
  <2>3. \A kind : Durable(kind)' = Durable(kind)
    BY <1>1 DEF Durable, journal
  <2>4. Once!Send(Command(c))
    BY <1>1, <2>1, <2>2, <2>3 DEF Once!Send
  <2> QED BY <1>1, <2>4 DEF Once!Next
<1>2. CASE sent' = sent
  <2>1. PICK log, r :
           /\ Base(log)
           /\ \/ Base(log)'
              \/ /\ Base(Append(log, r))' /\ Append(log, r) \in Slots
                 /\ Admits(log, r)
    BY DurableMoves DEF IInv
  <2>2. log \in Slots /\ IsLog(log)
    BY <2>1, SlotsOfJournal DEF Base, IInv
  <2>3. \A kind : Durable(kind) = Pairs(log, kind)
    BY <2>1, <2>2, DurableIsBase DEF Base, Slots, Durable
  <2>4. CASE Base(log)'
    <3>1. \A kind : Durable(kind)' = Pairs(log, kind)
      BY <2>2, <2>4, DurableIsBase DEF Base, Slots, Durable
    <3> QED BY <1>2, <2>3, <3>1 DEF Once!vars
  <2>5. CASE /\ Base(Append(log, r))' /\ Append(log, r) \in Slots
             /\ Admits(log, r)
    <3>1. IsLog(Append(log, r))
      BY <2>5, SlotsOfJournal DEF IInv
    <3>2. \A kind : Durable(kind)' = Pairs(Append(log, r), kind)
      BY <2>5, <3>1, DurableIsBase DEF Base, Slots, Durable
    <3> QED BY <1>2, <2>2, <2>3, <2>5, <3>2, RecordImplements
  <2> QED BY <2>1, <2>4, <2>5
<1> QED BY <1>1, <1>2, SentMoves

\* Whatever crashes, retries and races there are, lib/ask_herdr_journaled_provision.py
\* gives Herdr each command at most once, only with its intent on disk for
\* good, and never before the commands that precede it are confirmed for good.
THEOREM CommandsOnce == Spec => ImplementsCommandOnce
<1>1. Init => Once!Init
  <2> SUFFICES ASSUME Init PROVE Once!Init
    OBVIOUS
  <2>1. disk = {AbsentStore} /\ sent = [x \in Commands |-> 0]
    BY DEF Init, InitJournal
  <2>2. \A kind : RecordsOf(AbsentStore.slots, kind) = {}
    BY DEF RecordsOf, AbsentStore
  <2> QED BY <2>1, <2>2 DEF Once!Init, Durable
<1>2. IInv /\ [Next]_vars => [Once!Next]_(Once!vars)
  BY StepImplements
<1> QED BY <1>1, <1>2, Invariance, PTL DEF Spec, ImplementsCommandOnce, Once!Spec

=============================================================================
