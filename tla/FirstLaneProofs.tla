-------------------------- MODULE FirstLaneProofs --------------------------
(***************************************************************************)
(* Proofs about FirstLane, for any processes, requests and number of       *)
(* processes that stop.                                                    *)
(*                                                                         *)
(* The inductive invariant is IInv. HistoryOK says what the history of the *)
(* topology journal may look like, LaneOK what a lane may, and how the two *)
(* answer to each other: the events of a lane come in one order, a witness *)
(* names the mutation and, once it is recorded, the very command; what the *)
(* lane says of its provisioning is a settlement. Knows is what a process  *)
(* knows of journals that others may extend, and WriterOK what the process *)
(* that holds the lease has established at each of its steps.              *)
(***************************************************************************)
EXTENDS FirstLane, SequenceTheorems, FiniteSetTheorems, TLAPS

Entries(s) == {s[i] : i \in DOMAIN s}

----------------------------------------------------------------------------
(* A history.                                                              *)

Digests(log, r) == {SubSeq(log, 1, i) : i \in {j \in DOMAIN log : log[j] = r}}

MutationOf(r) == IF r.kind = "mutation" THEN r.intent.mutation ELSE r.mutation

\* Command before receipt, receipt before the next command and settlement.
InOrder(log) ==
    LET E == Entries(log) IN
    /\ \A m \in Requests, step \in Steps :
          ReceiptRecord(m, step) \in E => CommandRecord(m, step) \in E
    /\ \A m \in Requests :
          CommandRecord(m, 2) \in E => ReceiptRecord(m, 1) \in E
    /\ \A r \in RecordsOf(log, "settlement"), m \in Requests :
          m.mutation = r.mutation => ReceiptRecord(m, 2) \in E

HistoryOK(log) ==
    /\ log \in Seq(Records)
    /\ \A i, j \in DOMAIN log : log[i] = log[j] => i = j
    /\ \A m, n \in Mutations(log) : m.mutation = n.mutation => m = n
    /\ \A r, s \in RecordsOf(log, "settlement") : r.mutation = s.mutation => r = s
    /\ \A r \in Entries(log) : MutationOf(r) \in MutationIds(log)
    /\ \A a, b \in Open(log) : a = b
    /\ InOrder(log)

\* What a record finds that is to be appended.
Extends(log, r) ==
    LET E == Entries(log) IN
    \/ \E m \in Requests :
          /\ r = MutationRecord(m)
          /\ m.mutation \notin MutationIds(log) /\ Open(log) = {}
    \/ \E m \in Requests, step \in Steps :
          /\ r = CommandRecord(m, step) /\ r \notin E
          /\ m.mutation \in Open(log)
          /\ step = 2 => ReceiptRecord(m, 1) \in E
    \/ \E m \in Requests, step \in Steps :
          /\ r = ReceiptRecord(m, step) /\ r \notin E
          /\ m.mutation \in Open(log)
          /\ CommandRecord(m, step) \in E
    \/ \E m \in Requests, receipts \in SUBSET Receipts :
          /\ r = SettlementRecord(m, receipts)
          /\ m.mutation \in Open(log)
          /\ ReceiptRecord(m, 2) \in E

----------------------------------------------------------------------------
(* A lane beside a history.                                                *)

EventAt(i, e) ==
    /\ i = 1 => e = PrepareEvent
    /\ i = 2 => e = ClaimEvent
    /\ i \in 3 .. 4 => e = Marker(i - 2, e.mutation, e.command)
    /\ i = 5 => e = Provisioned(e.settlement, e.token)

Shape(s) == Len(s) <= 5 /\ \A i \in DOMAIN s : EventAt(i, s[i])

\* The digest of a finalization is that of the lane it found.
Finalized(e, s) ==
    e.token # None =>
        e.token = <<Result("reconciliation_required", "lane_finalization_required",
                           Steps, {}), s, e.settlement>>

Witnessed(m, s, log) ==
    LET E == Entries(log) IN
    /\ \A i \in DOMAIN s \cap (3 .. 4) :
          /\ s[i].mutation \in Digests(log, MutationRecord(m))
          /\ CommandRecord(m, i - 2) \in E
                => Digests(log, CommandRecord(m, i - 2)) = {s[i].command}
    /\ 4 \in DOMAIN s => ReceiptRecord(m, 1) \in E
    /\ MutationRecord(m) \in E =>
          /\ 2 <= Len(s)
          /\ \A step \in Steps : CommandRecord(m, step) \in E => step + 2 <= Len(s)

Settlement(m, s, log) ==
    5 \in DOMAIN s =>
        /\ \E r \in RecordsOf(log, "settlement") :
              r.mutation = m.mutation /\ s[5].settlement \in Digests(log, r)
        /\ Finalized(s[5], SubSeq(s, 1, 4))

IsCandidate(x) == x \in [event : {x.event}, shown : BOOLEAN]

LaneOK(m, x, log) ==
    /\ x \in [slots : Seq(Entries(x.slots)), cand : {x.cand}]
    /\ Shape(x.slots)
    /\ Witnessed(m, x.slots, log) /\ Settlement(m, x.slots, log)
    /\ x.cand # None =>
          /\ IsCandidate(x.cand)
          /\ x.cand.event.type = "provisioned" => Finalized(x.cand.event, x.slots)

JournalsOK ==
    /\ topo # None => topo \in Stores
    /\ HistoryOK(History)
    /\ DOMAIN lane = Requests /\ lane = [m \in Requests |-> lane[m]]
    /\ \A m \in Requests : LaneOK(m, lane[m], History)

----------------------------------------------------------------------------
(* Herdr and the processes.                                                *)

SentOK ==
    /\ sent \in [Commands -> 0 .. 1]
    /\ \A m \in Requests, step \in Steps :
          /\ sent[<<m.mutation, step>>] > 0
                => CommandRecord(m, step) \in Entries(History)
          /\ ReceiptRecord(m, step) \in Entries(History)
                => <<m.mutation, step>> \in proved

LockedPcs == {"admit", "prepare", "ensure", "claim", "intend", "marker", "record",
              "receipt", "settle", "provide"}
WorkPcs == {"command", "marker", "record", "send", "answer", "receipt", "settling",
            "settle", "settled", "provide"}
Runs(tokens) ==
    [pc : {"idle"} \cup LockedPcs \cup WorkPcs, at : {"begin", "planned", "staged"},
     req : Requests \cup {None}, step : Steps, receipts : SUBSET Receipts,
     token : tokens]

\* What stays so whatever other processes do.
Command(x) == <<x.req.mutation, x.step>>
Knows(x, E, given, answered) ==
    /\ x \in Runs({x.token})
    /\ x.pc # "idle" => x.req \in Requests
    /\ x.pc \in WorkPcs => MutationRecord(x.req) \in E
    /\ x.pc \in {"send", "answer", "receipt"} => CommandRecord(x.req, x.step) \in E
    /\ x.pc = "send" => given[Command(x)] = 0
    /\ x.pc \in {"answer", "receipt"} => Command(x) \in answered
    /\ x.pc = "settled" => x.at = "begin"

\* A finalization goes ahead on the state of its digest, or where its record
\* is there, or about to be.
MayProvide(m, token) ==
    \/ token = None
    \/ token = <<Result("reconciliation_required", "lane_finalization_required",
                        Steps, {}), lane[m].slots, History>>
    \/ 5 \in DOMAIN lane[m].slots
    \/ lane[m].cand # None

Plans(m, step) ==
    /\ m.mutation \in Open(History)
    /\ CommandRecord(m, step) \notin Entries(History)
    /\ step = 2 => ReceiptRecord(m, 1) \in Entries(History)

WritesLane(c, m) ==
    /\ IsCandidate(lane[m].cand) /\ lane[m].cand.event = LaneEvent(c)
    /\ Reduces(m, LaneEvent(c))
    /\ run[c].pc = "provide" => Finalized(LaneEvent(c), lane[m].slots)

WritesTopology(c, m) ==
    /\ topo # None /\ topo.cand = TopologyRecord(c)
    /\ Extends(History, TopologyRecord(c))
    /\ run[c].pc = "intend" => 2 <= Len(lane[m].slots)

WriterOK(c, m) ==
    LET x == run[c] IN
    /\ x.pc \in {"claim", "intend"} => topo # None
    /\ x.pc \in {"marker", "record"} => Plans(m, x.step)
    /\ x.pc = "record" => /\ x.step + 2 \in DOMAIN lane[m].slots
                          /\ lane[m].slots[x.step + 2].command = Prospective(m, x.step)
    /\ x.pc = "provide" => Settles(m) /\ (x.at = "begin" => MayProvide(m, x.token))
    /\ x.pc \in LanePcs /\ x.at # "begin" => WritesLane(c, m)
    /\ x.pc \in TopologyPcs /\ x.at # "begin" => WritesTopology(c, m)

\* Every command is with one process when it is about to be given.
OneSends ==
    \A c, d \in Controllers :
        /\ run[c].pc = "send" /\ run[d].pc = "send"
        /\ Command(run[c]) = Command(run[d])
        => c = d

ProcessOK(c) ==
    /\ Knows(run[c], Entries(History), sent, proved)
    /\ run[c].pc \in LockedPcs => holder = c /\ WriterOK(c, run[c].req)

RunsOK ==
    /\ DOMAIN run = Controllers /\ run = [c \in Controllers |-> run[c]]
    /\ \A c \in Controllers : ProcessOK(c)
    /\ OneSends

IInv == JournalsOK /\ SentOK /\ RunsOK
----------------------------------------------------------------------------
(* Records and histories.                                                  *)

LEMMA Fields ==
  /\ \A m : /\ MutationRecord(m).kind = "mutation"
            /\ MutationRecord(m).intent = m
  /\ \A m, step : /\ CommandRecord(m, step).kind = "command"
                  /\ CommandRecord(m, step).mutation = m.mutation
                  /\ CommandRecord(m, step).step = step
  /\ \A m, step : /\ ReceiptRecord(m, step).kind = "receipt"
                  /\ ReceiptRecord(m, step).mutation = m.mutation
                  /\ ReceiptRecord(m, step).step = step
                  /\ ReceiptRecord(m, step).confirmed = TRUE
  /\ \A m, receipts : /\ SettlementRecord(m, receipts).kind = "settlement"
                      /\ SettlementRecord(m, receipts).mutation = m.mutation
                      /\ SettlementRecord(m, receipts).proof = ProofOf(m)
BY DEF MutationRecord, CommandRecord, ReceiptRecord, SettlementRecord

\* A command, or a receipt, depends on the id of its mutation alone.
LEMMA SameId ==
  ASSUME NEW m, NEW n, m.mutation = n.mutation, NEW step
  PROVE  /\ CommandRecord(m, step) = CommandRecord(n, step)
         /\ ReceiptRecord(m, step) = ReceiptRecord(n, step)
BY DEF CommandRecord, ReceiptRecord

LEMMA OfKind ==
  ASSUME NEW r \in Records
  PROVE  /\ r.kind = "mutation" => \E m \in Requests : r = MutationRecord(m)
         /\ r.kind = "command" =>
                \E m \in Requests, step \in Steps : r = CommandRecord(m, step)
         /\ r.kind = "receipt" =>
                \E m \in Requests, step \in Steps : r = ReceiptRecord(m, step)
         /\ r.kind = "settlement" =>
                \E m \in Requests, receipts \in SUBSET Receipts :
                    r = SettlementRecord(m, receipts)
         /\ r.kind \in {"mutation", "command", "receipt", "settlement"}
<1>1. \/ \E m \in Requests : r = MutationRecord(m)
      \/ \E m \in Requests, step \in Steps : r = CommandRecord(m, step)
      \/ \E m \in Requests, step \in Steps : r = ReceiptRecord(m, step)
      \/ \E m \in Requests, receipts \in SUBSET Receipts :
             r = SettlementRecord(m, receipts)
  BY DEF Records, Receipts
<1>2. CASE \E m \in Requests : r = MutationRecord(m)
  BY <1>2, Fields
<1>3. CASE \E m \in Requests, step \in Steps : r = CommandRecord(m, step)
  BY <1>3, Fields
<1>4. CASE \E m \in Requests, step \in Steps : r = ReceiptRecord(m, step)
  BY <1>4, Fields
<1>5. CASE \E m \in Requests, receipts \in SUBSET Receipts :
             r = SettlementRecord(m, receipts)
  BY <1>5, Fields
<1> QED BY <1>1, <1>2, <1>3, <1>4, <1>5

LEMMA IsRecord ==
  ASSUME NEW m \in Requests
  PROVE  /\ MutationRecord(m) \in Records
         /\ \A step \in Steps : /\ CommandRecord(m, step) \in Records
                                /\ ReceiptRecord(m, step) \in Records
                                /\ ReceiptRecord(m, step) \in Receipts
         /\ \A receipts \in SUBSET Receipts : SettlementRecord(m, receipts) \in Records
BY DEF Records, Receipts

LEMMA InKind ==
  ASSUME NEW log, NEW r, NEW kind
  PROVE  r \in RecordsOf(log, kind) <=> r \in Entries(log) /\ r.kind = kind
BY DEF RecordsOf, Entries

LEMMA Read ==
  ASSUME NEW log
  PROVE  /\ \A m : m \in Mutations(log) <=>
                      \E r \in Entries(log) : r.kind = "mutation" /\ r.intent = m
         /\ \A id : id \in MutationIds(log) <=> \E m \in Mutations(log) : m.mutation = id
         /\ \A id : id \in Settled(log) <=>
                       \E r \in Entries(log) : r.kind = "settlement" /\ r.mutation = id
         /\ \A id : id \in Open(log) <=> id \in MutationIds(log) /\ id \notin Settled(log)
BY DEF RecordsOf, Entries, Mutations, MutationIds, Settled, Open

LEMMA ReadMutations ==
  ASSUME NEW log \in Seq(Records), NEW m
  PROVE  m \in Mutations(log) <=> m \in Requests /\ MutationRecord(m) \in Entries(log)
<1>1. \A r \in Entries(log) : r \in Records
  BY ElementOfSeq DEF Entries
<1>2. ASSUME m \in Mutations(log)
      PROVE  m \in Requests /\ MutationRecord(m) \in Entries(log)
  <2>1. PICK r \in Entries(log) : r.kind = "mutation" /\ r.intent = m
    BY <1>2, Read
  <2>2. PICK n \in Requests : r = MutationRecord(n)
    BY <1>1, <2>1, OfKind
  <2>3. n = m
    BY <2>1, <2>2, Fields
  <2> QED BY <2>1, <2>2, <2>3
<1>3. MutationRecord(m) \in Entries(log) => m \in Mutations(log)
  BY Read, Fields
<1> QED BY <1>2, <1>3

LEMMA Appended ==
  ASSUME NEW S, NEW s \in Seq(S), NEW x \in S
  PROVE  /\ Append(s, x) \in Seq(S) /\ Entries(Append(s, x)) = Entries(s) \cup {x}
         /\ Len(s) \in Nat /\ DOMAIN s = 1 .. Len(s)
         /\ Len(Append(s, x)) = Len(s) + 1
         /\ DOMAIN Append(s, x) = 1 .. (Len(s) + 1)
         /\ \A i \in 1 .. Len(s) : Append(s, x)[i] = s[i]
         /\ Append(s, x)[Len(s) + 1] = x
<1> DEFINE new == Append(s, x)
<1>1. /\ new \in Seq(S) /\ Len(new) = Len(s) + 1
      /\ \A i \in 1 .. Len(s) : new[i] = s[i]
      /\ new[Len(s) + 1] = x
  BY AppendProperties
<1>2. /\ Len(s) \in Nat /\ DOMAIN s = 1 .. Len(s)
      /\ DOMAIN new = 1 .. (Len(s) + 1)
  BY <1>1
<1>3. Entries(new) = Entries(s) \cup {x}
  BY <1>1, <1>2 DEF Entries
<1> QED BY <1>1, <1>2, <1>3

LEMMA PrefixOfAppend ==
  ASSUME NEW S, NEW s \in Seq(S), NEW x \in S, NEW n \in 0 .. Len(s)
  PROVE  SubSeq(Append(s, x), 1, n) = SubSeq(s, 1, n)
<1> DEFINE new == Append(s, x)
           a == SubSeq(new, 1, n)
           b == SubSeq(s, 1, n)
<1>1. /\ Len(s) \in Nat /\ Len(new) = Len(s) + 1 /\ new \in Seq(S)
      /\ \A i \in 1 .. Len(s) : new[i] = s[i] /\ s[i] \in S /\ new[i] \in S
  BY Appended, ElementOfSeq
<1>2. n \in Int /\ 1 \in Int /\ \A i \in 1 .. n : i \in 1 .. Len(s) /\ i \in 1 .. Len(new)
  BY <1>1
<1>3. /\ b \in Seq(S) /\ Len(b) = IF 1 <= n THEN n - 1 + 1 ELSE 0
      /\ \A i \in 1 .. n - 1 + 1 : b[i] = s[1 + i - 1]
  BY <1>1, <1>2, SubSeqProperties
<1>4. /\ a \in Seq(S) /\ Len(a) = IF 1 <= n THEN n - 1 + 1 ELSE 0
      /\ \A i \in 1 .. n - 1 + 1 : a[i] = new[1 + i - 1]
  BY <1>1, <1>2, SubSeqProperties
<1>5. Len(a) = Len(b) /\ \A i \in 1 .. Len(a) : a[i] = b[i]
  BY <1>1, <1>2, <1>3, <1>4
<1> QED BY <1>3, <1>4, <1>5, SeqEqual

\* What is said of a record goes on to be said of it; the digest of a new one
\* is the history it makes.
LEMMA DigestsOfAppend ==
  ASSUME NEW log \in Seq(Records), NEW r \in Records, r \notin Entries(log)
  PROVE  /\ \A x : x # r => Digests(Append(log, r), x) = Digests(log, x)
         /\ Digests(log, r) = {}
         /\ Digests(Append(log, r), r) = {Append(log, r)}
<1> DEFINE new == Append(log, r)
           n == Len(log) + 1
<1>1. /\ Len(log) \in Nat /\ DOMAIN log = 1 .. Len(log)
      /\ Len(new) = n /\ DOMAIN new = 1 .. n /\ new \in Seq(Records)
      /\ \A i \in 1 .. Len(log) : new[i] = log[i] /\ log[i] # r
      /\ new[n] = r
  BY Appended DEF Entries
<1>2. \A i \in DOMAIN log : SubSeq(new, 1, i) = SubSeq(log, 1, i)
  <2> SUFFICES ASSUME NEW i \in DOMAIN log PROVE SubSeq(new, 1, i) = SubSeq(log, 1, i)
    OBVIOUS
  <2>1. i \in 0 .. Len(log)
    BY <1>1
  <2> QED BY <2>1, PrefixOfAppend
<1>3. SubSeq(new, 1, n) = new
  BY <1>1, SubSeqFull
<1> HIDE DEF new
<1>4. \A x : x # r => Digests(new, x) = Digests(log, x)
  <2> SUFFICES ASSUME NEW x, x # r PROVE Digests(new, x) = Digests(log, x)
    OBVIOUS
  <2>1. {j \in DOMAIN new : new[j] = x} = {j \in DOMAIN log : log[j] = x}
    BY <1>1
  <2> QED BY <1>2, <2>1 DEF Digests
<1>5. Digests(log, r) = {}
  BY <1>1 DEF Digests
<1>6. {j \in DOMAIN new : new[j] = r} = {n}
  BY <1>1
<1>7. Digests(new, r) = {new}
  BY <1>3, <1>6 DEF Digests
<1> QED BY <1>4, <1>5, <1>7 DEF new
LEMMA Extended ==
  ASSUME NEW log, HistoryOK(log), NEW r, Extends(log, r)
  PROVE  r \in Records /\ r \notin Entries(log)
<1>1. log \in Seq(Records)
  BY DEF HistoryOK
<1>2. ASSUME NEW m \in Requests, r = MutationRecord(m), m.mutation \notin MutationIds(log)
      PROVE  r \in Records /\ r \notin Entries(log)
  <2>1. m \notin Mutations(log)
    BY <1>2, Read
  <2> QED BY <1>1, <1>2, <2>1, ReadMutations, IsRecord
<1>3. ASSUME NEW m \in Requests, NEW receipts \in SUBSET Receipts,
             r = SettlementRecord(m, receipts), m.mutation \in Open(log)
      PROVE  r \in Records /\ r \notin Entries(log)
  <2>1. r \in Records /\ r.kind = "settlement" /\ r.mutation = m.mutation
    BY <1>3, IsRecord, Fields
  <2>2. m.mutation \notin Settled(log)
    BY <1>3, Read
  <2> QED BY <2>1, <2>2, Read
<1>4. ASSUME NEW m \in Requests, NEW step \in Steps, r \notin Entries(log),
             r = CommandRecord(m, step) \/ r = ReceiptRecord(m, step)
      PROVE  r \in Records /\ r \notin Entries(log)
  BY <1>4, IsRecord
<1> QED BY <1>2, <1>3, <1>4 DEF Extends

\* What a new record adds to what is read from a history.
LEMMA Grows ==
  ASSUME NEW log \in Seq(Records), NEW r \in Records
  PROVE  LET new == Append(log, r) IN
         /\ new \in Seq(Records) /\ Entries(new) = Entries(log) \cup {r}
         /\ Mutations(new) = Mutations(log)
                \cup IF r.kind = "mutation" THEN {r.intent} ELSE {}
         /\ MutationIds(new) = MutationIds(log)
                \cup IF r.kind = "mutation" THEN {r.intent.mutation} ELSE {}
         /\ RecordsOf(new, "settlement") = RecordsOf(log, "settlement")
                \cup IF r.kind = "settlement" THEN {r} ELSE {}
         /\ Settled(new) = Settled(log)
                \cup IF r.kind = "settlement" THEN {r.mutation} ELSE {}
<1> DEFINE new == Append(log, r)
<1>1. new \in Seq(Records) /\ Entries(new) = Entries(log) \cup {r}
  BY Appended
<1> HIDE DEF new
<1>2. \A m : m \in Mutations(new) <=>
              m \in Mutations(log) \/ (r.kind = "mutation" /\ m = r.intent)
  BY <1>1, Read
<1>3. \A id : id \in MutationIds(new) <=>
               id \in MutationIds(log) \/ (r.kind = "mutation" /\ id = r.intent.mutation)
  BY <1>2, Read
<1>4. \A x : x \in RecordsOf(new, "settlement") <=>
              x \in RecordsOf(log, "settlement") \/ (r.kind = "settlement" /\ x = r)
  BY <1>1, InKind
<1>5. \A id : id \in Settled(new) <=>
               id \in Settled(log) \/ (r.kind = "settlement" /\ id = r.mutation)
  BY <1>1, Read
<1>6. Mutations(new) = Mutations(log)
         \cup IF r.kind = "mutation" THEN {r.intent} ELSE {}
  BY <1>2
<1>7. MutationIds(new) = MutationIds(log)
         \cup IF r.kind = "mutation" THEN {r.intent.mutation} ELSE {}
  BY <1>3
<1>8. RecordsOf(new, "settlement") = RecordsOf(log, "settlement")
         \cup IF r.kind = "settlement" THEN {r} ELSE {}
  BY <1>4
<1>9. Settled(new) = Settled(log)
         \cup IF r.kind = "settlement" THEN {r.mutation} ELSE {}
  BY <1>5
<1> QED BY <1>1, <1>6, <1>7, <1>8, <1>9 DEF new

LEMMA OrderKept ==
  ASSUME NEW log, HistoryOK(log), NEW r, Extends(log, r)
  PROVE  InOrder(Append(log, r))
<1> DEFINE new == Append(log, r)
           E == Entries(log)
<1>1. log \in Seq(Records) /\ r \in Records /\ InOrder(log)
  BY Extended DEF HistoryOK
<1>2. Entries(new) = E \cup {r}
  BY <1>1, Grows
<1>3. RecordsOf(new, "settlement") = RecordsOf(log, "settlement")
         \cup IF r.kind = "settlement" THEN {r} ELSE {}
  BY <1>1, Grows
<1> HIDE DEF new
<1>4. ASSUME NEW m \in Requests, NEW step \in Steps, ReceiptRecord(m, step) \in Entries(new)
      PROVE  CommandRecord(m, step) \in Entries(new)
  <2>1. CASE ReceiptRecord(m, step) \in E
    BY <1>1, <1>2, <2>1 DEF InOrder
  <2>2. CASE r = ReceiptRecord(m, step)
    <3>1. r.kind = "receipt" /\ r.mutation = m.mutation /\ r.step = step
      BY <2>2, Fields
    <3>2. PICK n \in Requests, t \in Steps :
             r = ReceiptRecord(n, t) /\ CommandRecord(n, t) \in E
      BY <3>1, Fields DEF Extends
    <3>3. n.mutation = m.mutation /\ t = step
      BY <3>1, <3>2, Fields
    <3> QED BY <1>2, <3>2, <3>3, SameId
  <2> QED BY <1>2, <1>4, <2>1, <2>2
<1>5. ASSUME NEW m \in Requests, CommandRecord(m, 2) \in Entries(new)
      PROVE  ReceiptRecord(m, 1) \in Entries(new)
  <2>1. CASE CommandRecord(m, 2) \in E
    BY <1>1, <1>2, <2>1 DEF InOrder
  <2>2. CASE r = CommandRecord(m, 2)
    <3>1. r.kind = "command" /\ r.mutation = m.mutation /\ r.step = 2
      BY <2>2, Fields
    <3>2. PICK n \in Requests, t \in Steps :
             r = CommandRecord(n, t) /\ (t = 2 => ReceiptRecord(n, 1) \in E)
      BY <3>1, Fields DEF Extends
    <3>3. n.mutation = m.mutation /\ t = 2
      BY <3>1, <3>2, Fields
    <3> QED BY <1>2, <3>2, <3>3, SameId
  <2> QED BY <1>2, <1>5, <2>1, <2>2
<1>6. ASSUME NEW x \in RecordsOf(new, "settlement"), NEW m \in Requests,
             m.mutation = x.mutation
      PROVE  ReceiptRecord(m, 2) \in Entries(new)
  <2>1. CASE x \in RecordsOf(log, "settlement")
    BY <1>1, <1>2, <1>6, <2>1 DEF InOrder
  <2>2. CASE r.kind = "settlement" /\ x = r
    <3>1. PICK n \in Requests, receipts \in SUBSET Receipts :
             r = SettlementRecord(n, receipts) /\ ReceiptRecord(n, 2) \in E
      BY <2>2, Fields DEF Extends
    <3>2. n.mutation = m.mutation
      BY <1>6, <2>2, <3>1, Fields
    <3> QED BY <1>2, <3>1, <3>2, SameId
  <2> QED BY <1>3, <2>1, <2>2
<1> QED BY <1>4, <1>5, <1>6 DEF InOrder, new

\* A history that may be extended stays one.
LEMMA HistoryKept ==
  ASSUME NEW log, HistoryOK(log), NEW r, Extends(log, r)
  PROVE  HistoryOK(Append(log, r))
<1> DEFINE new == Append(log, r)
<1>1. /\ log \in Seq(Records) /\ r \in Records /\ r \notin Entries(log)
      /\ InOrder(new)
  BY Extended, OrderKept DEF HistoryOK
<1>2. /\ new \in Seq(Records) /\ Entries(new) = Entries(log) \cup {r}
      /\ Mutations(new) = Mutations(log)
             \cup IF r.kind = "mutation" THEN {r.intent} ELSE {}
      /\ MutationIds(new) = MutationIds(log)
             \cup IF r.kind = "mutation" THEN {r.intent.mutation} ELSE {}
      /\ RecordsOf(new, "settlement") = RecordsOf(log, "settlement")
             \cup IF r.kind = "settlement" THEN {r} ELSE {}
      /\ Settled(new) = Settled(log)
             \cup IF r.kind = "settlement" THEN {r.mutation} ELSE {}
  BY <1>1, Grows
<1>3. \A i, j \in DOMAIN new : new[i] = new[j] => i = j
  <2>1. /\ Len(log) \in Nat /\ DOMAIN log = 1 .. Len(log)
        /\ DOMAIN new = 1 .. (Len(log) + 1)
        /\ \A i \in 1 .. Len(log) : new[i] = log[i] /\ log[i] # r
        /\ new[Len(log) + 1] = r
    BY <1>1, Appended DEF Entries
  <2> QED BY <2>1 DEF HistoryOK
<1> HIDE DEF new
\* What is said of the mutation of the record.
<1>4. /\ r.kind = "mutation" => /\ r.intent.mutation \notin MutationIds(log)
                                /\ Open(log) = {}
      /\ r.kind # "mutation" => r.mutation \in Open(log)
  BY Fields DEF Extends
<1>5. \A m, n \in Mutations(new) : m.mutation = n.mutation => m = n
  BY <1>2, <1>4, Read DEF HistoryOK
<1>6. \A x, y \in RecordsOf(new, "settlement") : x.mutation = y.mutation => x = y
  <2>1. ASSUME r.kind = "settlement", NEW x \in RecordsOf(log, "settlement")
        PROVE  x.mutation # r.mutation
    BY <1>4, <2>1, Read, InKind
  <2> QED BY <1>2, <2>1 DEF HistoryOK
<1>7. \A x \in Entries(new) : MutationOf(x) \in MutationIds(new)
  <2>1. MutationOf(r) \in MutationIds(new)
    BY <1>2, <1>4, Read DEF MutationOf
  <2> QED BY <1>2, <2>1 DEF HistoryOK
<1>8. \A a, b \in Open(new) : a = b
  <2>1. \A a : a \in Open(new) <=> a \in MutationIds(new) /\ a \notin Settled(new)
    BY Read
  <2>2. CASE r.kind = "mutation"
    <3>1. \A a \in Open(new) : a = r.intent.mutation
      BY <1>2, <1>4, <2>1, <2>2, Read
    <3> QED BY <3>1
  <2>3. CASE r.kind # "mutation"
    <3>1. \A a \in Open(new) : a \in Open(log)
      BY <1>2, <2>1, <2>3, Read
    <3> QED BY <3>1 DEF HistoryOK
  <2> QED BY <2>2, <2>3
<1> QED BY <1>1, <1>2, <1>3, <1>5, <1>6, <1>7, <1>8 DEF HistoryOK, new
----------------------------------------------------------------------------
(* Lanes.                                                                  *)

LEMMA EventFields ==
  /\ PrepareEvent.type = "prepare" /\ ClaimEvent.type = "claim"
  /\ \A step, d, k : /\ Marker(step, d, k).type = "marker"
                     /\ Marker(step, d, k).step = step
                     /\ Marker(step, d, k).mutation = d
                     /\ Marker(step, d, k).command = k
  /\ \A d, t : /\ Provisioned(d, t).type = "provisioned"
               /\ Provisioned(d, t).settlement = d
               /\ Provisioned(d, t).token = t
BY DEF PrepareEvent, ClaimEvent, Marker, Provisioned

\* The events of a lane, by their places.
LEMMA Places ==
  ASSUME NEW m, NEW x, NEW log, LaneOK(m, x, log)
  PROVE  /\ x.slots \in Seq(Entries(x.slots))
         /\ Len(x.slots) \in 0 .. 5 /\ DOMAIN x.slots = 1 .. Len(x.slots)
         /\ \A i \in 1 .. Len(x.slots) :
               /\ x.slots[i].type = CASE i = 1 -> "prepare" [] i = 2 -> "claim"
                                      [] i \in 3 .. 4 -> "marker" [] i = 5 -> "provisioned"
               /\ i \in 3 .. 4 => x.slots[i].step = i - 2
<1> DEFINE s == x.slots
<1>1. s \in Seq(Entries(s)) /\ Shape(s)
  BY DEF LaneOK
<1>2. Len(s) \in 0 .. 5 /\ DOMAIN s = 1 .. Len(s)
  <2> DEFINE S == Entries(s)
  <2>1. s \in Seq(S) /\ Len(s) <= 5
    BY <1>1 DEF Shape
  <2> HIDE DEF s, S
  <2>2. Len(s) \in Nat /\ DOMAIN s = 1 .. Len(s)
    BY <2>1, LenProperties
  <2>3. \A n \in Nat : n <= 5 => n \in 0 .. 5
    OBVIOUS
  <2> QED BY <2>1, <2>2, <2>3
<1>3. \A i \in 1 .. Len(s) : i \in 1 .. 5 /\ EventAt(i, s[i])
  BY <1>1, <1>2 DEF Shape
<1> HIDE DEF s
<1> SUFFICES ASSUME NEW i \in 1 .. Len(s)
             PROVE  /\ s[i].type = CASE i = 1 -> "prepare" [] i = 2 -> "claim"
                                     [] i \in 3 .. 4 -> "marker" [] i = 5 -> "provisioned"
                    /\ i \in 3 .. 4 => s[i].step = i - 2
  BY <1>1, <1>2 DEF s
<1>4. CASE i = 1
  BY <1>3, <1>4, EventFields DEF EventAt
<1>5. CASE i = 2
  BY <1>3, <1>5, EventFields DEF EventAt
<1>6. CASE i \in 3 .. 4
  <2>1. s[i] = Marker(i - 2, s[i].mutation, s[i].command)
    BY <1>3, <1>6 DEF EventAt
  <2>2. s[i].type = "marker" /\ s[i].step = i - 2
    BY <2>1, EventFields
  <2> QED BY <1>6, <2>2
<1>7. CASE i = 5
  <2>1. s[i] = Provisioned(s[i].settlement, s[i].token)
    BY <1>3, <1>7 DEF EventAt
  <2>2. s[i].type = "provisioned"
    BY <2>1, EventFields
  <2> QED BY <1>7, <2>2
<1> QED BY <1>2, <1>3, <1>4, <1>5, <1>6, <1>7

\* What the model reads from a lane.
LEMMA ReadLane ==
  ASSUME NEW m, LaneOK(m, lane[m], History)
  PROVE  LET s == lane[m].slots IN
         /\ HeadType(m) = "none" <=> Len(s) = 0
         /\ HeadType(m) = "prepare" <=> Len(s) = 1
         /\ HeadType(m) = "claim" <=> Len(s) = 2
         /\ HeadType(m) = "marker" <=> Len(s) \in 3 .. 4
         /\ EventsOf(m) = Entries(s)
         /\ Markers(m) = {s[i] : i \in DOMAIN s \cap (3 .. 4)}
         /\ \A step \in Steps :
               Witness(m, step) = IF step + 2 \in DOMAIN s THEN {s[step + 2]} ELSE {}
         /\ ProvisionedOf(m) = IF 5 \in DOMAIN s THEN {s[5]} ELSE {}
<1> DEFINE s == lane[m].slots
<1>1. /\ s \in Seq(Entries(s))
      /\ Len(s) \in 0 .. 5 /\ DOMAIN s = 1 .. Len(s)
      /\ \A i \in 1 .. Len(s) :
            /\ s[i].type = CASE i = 1 -> "prepare" [] i = 2 -> "claim"
                             [] i \in 3 .. 4 -> "marker" [] i = 5 -> "provisioned"
            /\ i \in 3 .. 4 => s[i].step = i - 2
  BY Places
<1>2. s = <<>> <=> Len(s) = 0
  BY <1>1, EmptySeq
<1>3. HeadType(m) = IF Len(s) = 0 THEN "none" ELSE s[Len(s)].type
  BY <1>2 DEF HeadType
<1>4. EventsOf(m) = Entries(s)
  BY DEF EventsOf, Entries
<1> HIDE DEF s
<1>5. \A i \in 1 .. Len(s) : s[i].type = "marker" <=> i \in 3 .. 4
  BY <1>1
<1>6. Markers(m) = {s[i] : i \in DOMAIN s \cap (3 .. 4)}
  BY <1>1, <1>4, <1>5 DEF Markers, Entries
<1>7. ASSUME NEW step \in Steps
      PROVE  Witness(m, step) = IF step + 2 \in DOMAIN s THEN {s[step + 2]} ELSE {}
  <2>1. step \in 1 .. 2
    BY DEF Steps
  <2>2. \A e : e \in Witness(m, step) <=>
                 \E i \in DOMAIN s \cap (3 .. 4) : e = s[i] /\ s[i].step = step
    BY <1>6 DEF Witness
  <2>3. \A i \in DOMAIN s \cap (3 .. 4) : s[i].step = step <=> i = step + 2
    BY <1>1, <2>1
  <2> QED BY <2>1, <2>2, <2>3
<1>8. \A i \in 1 .. Len(s) : s[i].type = "provisioned" <=> i = 5
  BY <1>1
<1>9. ProvisionedOf(m) = IF 5 \in DOMAIN s THEN {s[5]} ELSE {}
  BY <1>1, <1>4, <1>8 DEF ProvisionedOf, Entries
<1>10. /\ HeadType(m) = "none" <=> Len(s) = 0
       /\ HeadType(m) = "prepare" <=> Len(s) = 1
       /\ HeadType(m) = "claim" <=> Len(s) = 2
       /\ HeadType(m) = "marker" <=> Len(s) \in 3 .. 4
  <2>1. CASE Len(s) = 0
    BY <1>3, <2>1
  <2>2. CASE Len(s) # 0
    <3> DEFINE n == Len(s)
    <3>1. n \in 1 .. Len(s) /\ HeadType(m) = s[n].type
      BY <1>1, <1>3, <2>2
    <3>2. n = 1 \/ n = 2 \/ n \in 3 .. 4 \/ n = 5
      BY <1>1, <3>1
    <3>3. HeadType(m) = CASE n = 1 -> "prepare" [] n = 2 -> "claim"
                          [] n \in 3 .. 4 -> "marker" [] n = 5 -> "provisioned"
      BY <1>1, <3>1
    <3> HIDE DEF n
    <3>4. CASE n = 1
      BY <3>3, <3>4 DEF n
    <3>5. CASE n = 2
      BY <3>3, <3>5 DEF n
    <3>6. CASE n \in 3 .. 4
      <4>1. n # 1 /\ n # 2 /\ n # 0
        BY <3>6
      <4>2. HeadType(m) = "marker"
        BY <3>3, <3>6, <4>1
      <4> QED BY <3>6, <4>1, <4>2 DEF n
    <3>7. CASE n = 5
      <4>1. n # 1 /\ n # 2 /\ n \notin 3 .. 4 /\ n # 0
        BY <3>7
      <4>2. HeadType(m) = "provisioned"
        BY <3>3, <3>7, <4>1
      <4> QED BY <4>1, <4>2 DEF n
    <3> QED BY <3>2, <3>4, <3>5, <3>6, <3>7
  <2> QED BY <2>1, <2>2
<1> QED BY <1>4, <1>6, <1>7, <1>9, <1>10 DEF s

LEMMA MarkersCounted ==
  ASSUME NEW m, LaneOK(m, lane[m], History)
  PROVE  LET n == Len(lane[m].slots) IN
         Cardinality(Markers(m)) = IF n <= 2 THEN 0 ELSE IF n = 3 THEN 1 ELSE 2
<1> DEFINE s == lane[m].slots
<1>1. /\ Len(s) \in 0 .. 5 /\ DOMAIN s = 1 .. Len(s)
      /\ \A i \in 1 .. Len(s) : i \in 3 .. 4 => s[i].step = i - 2
  BY Places
<1>2. Markers(m) = {s[i] : i \in DOMAIN s \cap (3 .. 4)}
  BY ReadLane
<1> HIDE DEF s
<1>3. CASE Len(s) <= 2
  <2>1. Markers(m) = {}
    BY <1>1, <1>2, <1>3
  <2> QED BY <1>3, <2>1, FS_EmptySet DEF s
<1>4. CASE Len(s) = 3
  <2>1. Markers(m) = {s[3]}
    BY <1>1, <1>2, <1>4
  <2>2. Cardinality({s[3]}) = 1
    BY FS_Singleton
  <2> QED BY <1>4, <2>1, <2>2 DEF s
<1>5. CASE Len(s) > 3
  <2>1. Markers(m) = {s[3]} \cup {s[4]}
    BY <1>1, <1>2, <1>5
  <2>2. s[3].step = 1 /\ s[4].step = 2
    BY <1>1, <1>5
  <2>3. s[4] \notin {s[3]}
    BY <2>2
  <2>4. IsFiniteSet({s[3]}) /\ Cardinality({s[3]}) = 1
    BY FS_Singleton
  <2>5. Cardinality(Markers(m)) = 1 + 1
    BY <2>1, <2>3, <2>4, FS_AddElement
  <2>6. ~(Len(s) <= 2) /\ Len(s) # 3
    BY <1>1, <1>5
  <2> QED BY <2>5, <2>6 DEF s
<1> QED BY <1>1, <1>3, <1>4, <1>5

\* Where the reducer admits an event.
LEMMA Reducing ==
  ASSUME NEW m, LaneOK(m, lane[m], History), NEW e, Reduces(m, e)
  PROVE  LET n == Len(lane[m].slots) IN
         /\ e.type = "prepare" => n = 0
         /\ e.type = "claim" => n = 1
         /\ e.type = "marker" /\ e.step \in Steps => n = e.step + 1
         /\ e.type = "provisioned" => n \in 2 .. 4
<1> DEFINE n == Len(lane[m].slots)
<1>1. /\ HeadType(m) = "none" <=> n = 0
      /\ HeadType(m) = "prepare" <=> n = 1
      /\ HeadType(m) = "claim" <=> n = 2
      /\ HeadType(m) = "marker" <=> n \in 3 .. 4
  BY ReadLane
<1>2. Cardinality(Markers(m)) = IF n <= 2 THEN 0 ELSE IF n = 3 THEN 1 ELSE 2
  BY MarkersCounted
<1>3. n \in 0 .. 5
  BY Places
<1> HIDE DEF n
<1>4. CASE e.type = "prepare"
  BY <1>1, <1>4 DEF Reduces, n
<1>5. CASE e.type = "claim"
  BY <1>1, <1>5 DEF Reduces, n
<1>6. CASE e.type = "marker" /\ e.step \in Steps
  <2>1. /\ HeadType(m) = IF e.step = 1 THEN "claim" ELSE "marker"
        /\ Cardinality(Markers(m)) = e.step - 1
    BY <1>6 DEF Reduces
  <2>2. e.step = 1 \/ e.step = 2
    BY <1>6 DEF Steps
  <2>3. n = e.step + 1
    BY <1>1, <1>2, <1>3, <2>1, <2>2
  <2> QED BY <1>6, <2>3 DEF n
<1>7. CASE e.type = "provisioned"
  <2>1. HeadType(m) \in {"claim", "marker"}
    BY <1>7 DEF Reduces
  <2>2. n \in 2 .. 4
    BY <1>1, <1>3, <2>1
  <2> QED BY <1>7, <2>2 DEF n
<1> QED BY <1>4, <1>5, <1>6, <1>7 DEF n
\* A lane beside a history that grows: the mutation is recorded after the
\* claim, and a command as its witness has it.
LEMMA LaneBesideHistory ==
  ASSUME NEW m \in Requests, NEW x, NEW log, LaneOK(m, x, log), HistoryOK(log),
         NEW r, Extends(log, r),
         r = MutationRecord(m) => 2 <= Len(x.slots),
         \A step \in Steps :
            r = CommandRecord(m, step) /\ MutationRecord(m) \in Entries(log) =>
                /\ step + 2 \in DOMAIN x.slots
                /\ x.slots[step + 2].command = Append(log, r)
  PROVE  LaneOK(m, x, Append(log, r))
<1> DEFINE s == x.slots
           new == Append(log, r)
           E == Entries(log)
           P == MutationRecord(m)
           C(step) == CommandRecord(m, step)
<1>1. log \in Seq(Records) /\ r \in Records /\ r \notin E
  BY Extended DEF HistoryOK
<1>2. Entries(new) = E \cup {r}
  BY <1>1, Appended
<1>3. /\ \A y : y # r => Digests(new, y) = Digests(log, y)
      /\ Digests(log, r) = {} /\ Digests(new, r) = {new}
  BY <1>1, DigestsOfAppend
<1>4. \A y : Digests(log, y) # {} => y \in E
  BY DEF Digests, Entries
<1>5. Witnessed(m, s, log) /\ Settlement(m, s, log)
  BY DEF LaneOK
<1>6. Len(s) \in 0 .. 5 /\ DOMAIN s = 1 .. Len(s)
  BY Places
<1>7. \A step \in Steps : C(step) = r /\ P \in E =>
          step + 2 \in DOMAIN s /\ s[step + 2].command = new
  OBVIOUS
<1>8. r = P => 2 <= Len(s) /\ \A step \in Steps : C(step) \notin Entries(new)
  <2> SUFFICES ASSUME r = P, NEW step \in Steps, C(step) \in Entries(new) PROVE FALSE
    OBVIOUS
  <2>1. C(step) # r /\ r.kind = "mutation" /\ r.intent = m
    BY Fields
  <2>2. m.mutation \notin MutationIds(log)
    BY <2>1, Fields DEF Extends
  <2>3. C(step) \in E /\ MutationOf(C(step)) = m.mutation
    BY <1>2, <2>1, Fields DEF MutationOf
  <2> QED BY <2>2, <2>3 DEF HistoryOK
<1> HIDE DEF new, E, P, C, s
<1>9. ASSUME NEW i \in DOMAIN s \cap (3 .. 4)
      PROVE  /\ s[i].mutation \in Digests(new, P)
             /\ C(i - 2) \in Entries(new) => Digests(new, C(i - 2)) = {s[i].command}
  <2>1. s[i].mutation \in Digests(log, P)
    BY <1>5, <1>9 DEF Witnessed, s, P
  <2>2. P \in E /\ P # r
    BY <1>1, <1>4, <2>1
  <2>3. s[i].mutation \in Digests(new, P)
    BY <1>3, <2>1, <2>2
  <2>4. CASE C(i - 2) = r
    <3>1. i - 2 \in Steps /\ (i - 2) + 2 = i
      BY <1>9 DEF Steps
    <3>2. s[i].command = new
      BY <1>7, <2>2, <2>4, <3>1
    <3> QED BY <1>3, <2>3, <2>4, <3>2
  <2>5. CASE C(i - 2) # r
    <3>1. C(i - 2) \in E => Digests(log, C(i - 2)) = {s[i].command}
      BY <1>5, <1>9 DEF Witnessed, s, C, E
    <3> QED BY <1>2, <1>3, <2>3, <2>5, <3>1
  <2> QED BY <2>4, <2>5
<1>10. 4 \in DOMAIN s => ReceiptRecord(m, 1) \in Entries(new)
  BY <1>2, <1>5 DEF Witnessed, s, E
<1>11. ASSUME P \in Entries(new)
       PROVE  2 <= Len(s) /\ \A step \in Steps : C(step) \in Entries(new) => step + 2 <= Len(s)
  <2>1. CASE r = P
    BY <1>8, <2>1
  <2>2. CASE r # P
    <3>1. P \in E
      BY <1>2, <1>11, <2>2
    <3>2. 2 <= Len(s) /\ \A step \in Steps : C(step) \in E => step + 2 <= Len(s)
      BY <1>5, <3>1 DEF Witnessed, s, P, C, E
    <3>3. \A step \in Steps : C(step) = r => step + 2 <= Len(s)
      BY <1>6, <1>7, <3>1
    <3> QED BY <1>2, <3>2, <3>3
  <2> QED BY <2>1, <2>2
<1>12. Witnessed(m, s, new)
  BY <1>9, <1>10, <1>11 DEF Witnessed, P, C
<1>13. Settlement(m, s, new)
  <2> SUFFICES ASSUME 5 \in DOMAIN s
               PROVE  \E y \in RecordsOf(new, "settlement") :
                         y.mutation = m.mutation /\ s[5].settlement \in Digests(new, y)
    BY <1>5 DEF Settlement
  <2>1. PICK y \in RecordsOf(log, "settlement") :
           y.mutation = m.mutation /\ s[5].settlement \in Digests(log, y)
    BY <1>5 DEF Settlement
  <2>2. y \in E /\ y.kind = "settlement"
    BY <2>1, InKind DEF E
  <2>3. y \in RecordsOf(new, "settlement") /\ y # r
    BY <1>1, <1>2, <2>2, InKind
  <2> QED BY <1>3, <2>1, <2>3
<1> QED BY <1>12, <1>13 DEF LaneOK, s, new

LEMMA LaneStaged ==
  ASSUME NEW m, NEW x, NEW log, LaneOK(m, x, log),
         NEW y, y \in [slots : {x.slots}, cand : {y.cand}],
         IsCandidate(y.cand),
         y.cand.event.type = "provisioned" => Finalized(y.cand.event, x.slots)
  PROVE  LaneOK(m, y, log)
<1>1. y.slots = x.slots
  OBVIOUS
<1>2. y \in [slots : Seq(Entries(y.slots)), cand : {y.cand}]
  BY <1>1 DEF LaneOK
<1> QED BY <1>1, <1>2 DEF LaneOK

\* What the n-th event of a lane finds when it is promoted.
Follows(m, s, e, n, log) ==
    /\ n <= 5 /\ EventAt(n, e)
    /\ n \in 3 .. 4 => /\ e.mutation \in Digests(log, MutationRecord(m))
                       /\ CommandRecord(m, n - 2) \notin Entries(log)
    /\ n = 4 => ReceiptRecord(m, 1) \in Entries(log)
    /\ n = 5 => /\ \E r \in RecordsOf(log, "settlement") :
                      r.mutation = m.mutation /\ e.settlement \in Digests(log, r)
                /\ Finalized(e, s)

LEMMA LanePromoted ==
  ASSUME NEW m, NEW x, NEW log, LaneOK(m, x, log), NEW e,
         Follows(m, x.slots, e, Len(x.slots) + 1, log)
  PROVE  LaneOK(m, [slots |-> Append(x.slots, e), cand |-> None], log)
<1> DEFINE s == x.slots
           S == Entries(s) \cup {e}
           new == Append(s, e)
           n == Len(s) + 1
           y == [slots |-> new, cand |-> None]
<1>1. s \in Seq(S) /\ e \in S
  BY Places
<1>2. /\ new \in Seq(S) /\ Entries(new) = S
      /\ DOMAIN s = 1 .. Len(s) /\ Len(new) = n /\ DOMAIN new = 1 .. n
      /\ \A i \in 1 .. Len(s) : new[i] = s[i]
      /\ new[n] = e
  <2>1. Entries(new) = Entries(s) \cup {e}
    BY <1>1, Appended
  <2> QED BY <1>1, <2>1, Appended
<1>3. Len(s) \in 0 .. 4 /\ n \in 1 .. 5
  <2>1. Len(s) \in 0 .. 5 /\ Len(s) + 1 <= 5
    BY Places DEF Follows
  <2>2. \A k \in 0 .. 5 : k + 1 <= 5 => k \in 0 .. 4 /\ k + 1 \in 1 .. 5
    OBVIOUS
  <2> QED BY <2>1, <2>2
<1>4. Shape(s) /\ Witnessed(m, s, log)
  BY DEF LaneOK
<1>5. n = 5 => SubSeq(new, 1, 4) = s
  <2> SUFFICES ASSUME n = 5 PROVE SubSeq(new, 1, 4) = s
    OBVIOUS
  <2>1. Len(s) = 4 /\ 4 \in 0 .. Len(s)
    <3>1. \A k \in 0 .. 4 : k + 1 = 5 => k = 4 /\ 4 \in 0 .. k
      OBVIOUS
    <3> QED BY <1>3, <3>1
  <2>2. SubSeq(new, 1, 4) = SubSeq(s, 1, 4)
    BY <1>1, <2>1, PrefixOfAppend
  <2>3. SubSeq(s, 1, 4) = s
    BY <1>1, <2>1, SubSeqFull
  <2> QED BY <2>2, <2>3
<1>6. /\ EventAt(n, e)
      /\ n \in 3 .. 4 => /\ e.mutation \in Digests(log, MutationRecord(m))
                         /\ CommandRecord(m, n - 2) \notin Entries(log)
      /\ n = 4 => ReceiptRecord(m, 1) \in Entries(log)
      /\ n = 5 => /\ \E r \in RecordsOf(log, "settlement") :
                        r.mutation = m.mutation /\ e.settlement \in Digests(log, r)
                  /\ Finalized(e, s)
  BY DEF Follows
<1> HIDE DEF new, n, s, S
<1>7. \A i \in 1 .. n : i \in 1 .. Len(s) \/ i = n
  BY <1>3 DEF n
<1>8. Shape(new)
  <2>1. \A i \in 1 .. Len(s) : EventAt(i, s[i])
    BY <1>2, <1>4 DEF Shape
  <2>2. \A i \in 1 .. n : EventAt(i, new[i])
    BY <1>2, <1>6, <1>7, <2>1
  <2> QED BY <1>2, <1>3, <2>2 DEF Shape
<1>9. ASSUME NEW i \in DOMAIN new \cap (3 .. 4)
      PROVE  /\ new[i].mutation \in Digests(log, MutationRecord(m))
             /\ CommandRecord(m, i - 2) \in Entries(log)
                   => Digests(log, CommandRecord(m, i - 2)) = {new[i].command}
  <2>1. CASE i \in 1 .. Len(s)
    <3>1. new[i] = s[i] /\ i \in DOMAIN s \cap (3 .. 4)
      BY <1>2, <1>9, <2>1
    <3> QED BY <1>4, <3>1 DEF Witnessed
  <2>2. CASE i = n
    BY <1>2, <1>6, <1>9, <2>2
  <2> QED BY <1>2, <1>7, <1>9, <2>1, <2>2
<1>10. 4 \in DOMAIN new => ReceiptRecord(m, 1) \in Entries(log)
  BY <1>2, <1>4, <1>6, <1>7 DEF Witnessed
<1>11. MutationRecord(m) \in Entries(log) =>
          /\ 2 <= Len(new)
          /\ \A step \in Steps : CommandRecord(m, step) \in Entries(log)
                                    => step + 2 <= Len(new)
  <2> SUFFICES ASSUME MutationRecord(m) \in Entries(log)
               PROVE  /\ 2 <= Len(new)
                      /\ \A step \in Steps : CommandRecord(m, step) \in Entries(log)
                                                => step + 2 <= Len(new)
    OBVIOUS
  <2>1. /\ 2 <= Len(s)
        /\ \A step \in Steps : CommandRecord(m, step) \in Entries(log)
                                  => step + 2 <= Len(s)
    BY <1>4 DEF Witnessed
  <2>2. \A k \in 1 .. 4 : k <= Len(s) => k <= Len(new)
    BY <1>2, <1>3 DEF n
  <2>3. \A step \in Steps : step + 2 \in 1 .. 4
    BY DEF Steps
  <2> QED BY <2>1, <2>2, <2>3
<1>12. Settlement(m, new, log)
  <2>1. 5 \in DOMAIN new => n = 5
    BY <1>2, <1>3
  <2> QED BY <1>2, <1>5, <1>6, <2>1 DEF Settlement
<1>13. y \in [slots : Seq(Entries(y.slots)), cand : {y.cand}]
  BY <1>2
<1>14. Witnessed(m, new, log)
  BY <1>9, <1>10, <1>11 DEF Witnessed
<1> QED BY <1>8, <1>12, <1>13, <1>14 DEF LaneOK, new, s
----------------------------------------------------------------------------
(* What the model reads from a history.                                    *)

LEMMA ReadSteps ==
  ASSUME NEW log \in Seq(Records), NEW m \in Requests
  PROVE  /\ \A r : r \in CommandsOf(log, m.mutation) <=>
                      \E t \in Steps : r = CommandRecord(m, t) /\ r \in Entries(log)
         /\ \A r : r \in ReceiptsOf(log, m.mutation) <=>
                      \E t \in Steps : r = ReceiptRecord(m, t) /\ r \in Entries(log)
         /\ \A t : t \in ConfirmedSteps(log, m.mutation) <=>
                      t \in Steps /\ ReceiptRecord(m, t) \in Entries(log)
<1>1. \A r \in Entries(log) : r \in Records
  BY ElementOfSeq DEF Entries
<1>2. ASSUME NEW r
      PROVE  r \in CommandsOf(log, m.mutation) <=>
                \E t \in Steps : r = CommandRecord(m, t) /\ r \in Entries(log)
  <2>1. r \in CommandsOf(log, m.mutation) <=>
           r \in Entries(log) /\ r.kind = "command" /\ r.mutation = m.mutation
    BY InKind DEF CommandsOf
  <2>2. ASSUME r \in Entries(log), r.kind = "command", r.mutation = m.mutation
        PROVE  \E t \in Steps : r = CommandRecord(m, t)
    <3>1. PICK n \in Requests, t \in Steps : r = CommandRecord(n, t)
      BY <1>1, <2>2, OfKind
    <3>2. n.mutation = m.mutation
      BY <2>2, <3>1, Fields
    <3> QED BY <3>1, <3>2, SameId
  <2> QED BY <2>1, <2>2, Fields
<1>3. ASSUME NEW r
      PROVE  r \in ReceiptsOf(log, m.mutation) <=>
                \E t \in Steps : r = ReceiptRecord(m, t) /\ r \in Entries(log)
  <2>1. r \in ReceiptsOf(log, m.mutation) <=>
           r \in Entries(log) /\ r.kind = "receipt" /\ r.mutation = m.mutation
    BY InKind DEF ReceiptsOf
  <2>2. ASSUME r \in Entries(log), r.kind = "receipt", r.mutation = m.mutation
        PROVE  \E t \in Steps : r = ReceiptRecord(m, t)
    <3>1. PICK n \in Requests, t \in Steps : r = ReceiptRecord(n, t)
      BY <1>1, <2>2, OfKind
    <3>2. n.mutation = m.mutation
      BY <2>2, <3>1, Fields
    <3> QED BY <3>1, <3>2, SameId
  <2> QED BY <2>1, <2>2, Fields
<1>4. ASSUME NEW t
      PROVE  t \in ConfirmedSteps(log, m.mutation) <=>
                t \in Steps /\ ReceiptRecord(m, t) \in Entries(log)
  <2>1. t \in ConfirmedSteps(log, m.mutation) <=>
           \E r \in ReceiptsOf(log, m.mutation) : r.confirmed /\ t = r.step
    BY DEF ConfirmedSteps
  <2>2. \A u \in Steps : ReceiptRecord(m, u).confirmed /\ ReceiptRecord(m, u).step = u
    BY Fields
  <2> QED BY <1>3, <2>1, <2>2
<1> QED BY <1>2, <1>3, <1>4

\* What a commit function publishes extends the history.
LEMMA MutationPublished ==
  ASSUME NEW log, NEW m \in Requests,
         \/ CommitMutation(log, MutationRecord(m)) = "publish"
         \/ Admits(log, MutationRecord(m))
  PROVE  Extends(log, MutationRecord(m))
<1> DEFINE r == MutationRecord(m)
<1>1. r.kind = "mutation" /\ r.intent = m
  BY Fields
<1>2. m.mutation \notin MutationIds(log) /\ Open(log) = {}
  <2>1. CASE Admits(log, r)
    BY <1>1, <2>1 DEF Admits, AdmitsMutation
  <2>2. CASE CommitMutation(log, r) = "publish"
    BY <1>1, <2>2 DEF CommitMutation
  <2> QED BY <2>1, <2>2
<1> QED BY <1>2 DEF Extends

LEMMA CommandPublished ==
  ASSUME NEW log, HistoryOK(log), NEW m \in Requests, NEW step \in Steps,
         CommitCommand(log, CommandRecord(m, step)) = "publish"
  PROVE  Extends(log, CommandRecord(m, step))
<1> DEFINE r == CommandRecord(m, step)
<1>1. r.kind = "command" /\ r.mutation = m.mutation /\ r.step = step
  BY Fields
<1>2. /\ r.mutation \in Open(log) /\ r \notin CommandsOf(log, r.mutation)
      /\ ~OutOfOrder(log, r)
  BY DEF CommitCommand
<1>3. log \in Seq(Records)
  BY DEF HistoryOK
<1>4. r \notin Entries(log)
  BY <1>1, <1>2, <1>3, ReadSteps
<1>5. step = 2 => 1 \in ConfirmedSteps(log, m.mutation)
  BY <1>1, <1>2 DEF OutOfOrder
<1>6. step = 2 => ReceiptRecord(m, 1) \in Entries(log)
  BY <1>3, <1>5, ReadSteps
<1> QED BY <1>1, <1>2, <1>4, <1>6 DEF Extends

LEMMA ReceiptPublished ==
  ASSUME NEW log, HistoryOK(log), NEW m \in Requests, NEW step \in Steps,
         CommitReceipt(log, ReceiptRecord(m, step)) = "publish"
  PROVE  Extends(log, ReceiptRecord(m, step))
<1> DEFINE r == ReceiptRecord(m, step)
           same == {e \in ReceiptsOf(log, r.mutation) : e.step = r.step}
<1>1. r.kind = "receipt" /\ r.mutation = m.mutation /\ r.step = step
  BY Fields
<1>2. /\ same = {} /\ \E c \in CommandsOf(log, r.mutation) : c.step = r.step
      /\ r.mutation \notin Settled(log)
  BY DEF CommitReceipt
<1>3. log \in Seq(Records)
  BY DEF HistoryOK
<1> HIDE DEF r
<1>4. r \notin Entries(log)
  <2>1. r \notin ReceiptsOf(log, m.mutation)
    BY <1>1, <1>2
  <2> QED BY <1>3, <2>1, ReadSteps DEF r
<1>5. CommandRecord(m, step) \in Entries(log)
  <2>1. PICK c \in CommandsOf(log, m.mutation) : c.step = step
    BY <1>1, <1>2
  <2>2. PICK t \in Steps : c = CommandRecord(m, t) /\ c \in Entries(log)
    BY <1>3, <2>1, ReadSteps
  <2> QED BY <2>1, <2>2, Fields
<1>6. m.mutation \in Open(log)
  <2>1. MutationOf(CommandRecord(m, step)) = m.mutation
    BY Fields DEF MutationOf
  <2>2. m.mutation \in MutationIds(log)
    BY <1>5, <2>1 DEF HistoryOK
  <2> QED BY <1>1, <1>2, <2>2, Read
<1> QED BY <1>4, <1>5, <1>6 DEF Extends, r

LEMMA SettlementPublished ==
  ASSUME NEW log, HistoryOK(log), NEW m \in Requests, NEW receipts \in SUBSET Receipts,
         CommitSettlement(log, SettlementRecord(m, receipts)) = "publish"
  PROVE  Extends(log, SettlementRecord(m, receipts))
<1> DEFINE r == SettlementRecord(m, receipts)
<1>1. r.kind = "settlement" /\ r.mutation = m.mutation
  BY Fields
<1> HIDE DEF r
<1>2. Open(log) = {r.mutation} /\ SettlementEvidence(log, r)
  BY DEF CommitSettlement, r
<1>3. log \in Seq(Records)
  BY DEF HistoryOK
<1>4. PICK c \in CommandsOf(log, m.mutation) : c.step = 2
  BY <1>1, <1>2 DEF SettlementEvidence
<1>5. PICK e \in ReceiptsOf(log, m.mutation) : e.step = c.step
  BY <1>1, <1>2, <1>4 DEF SettlementEvidence
<1>6. PICK t \in Steps : e = ReceiptRecord(m, t) /\ e \in Entries(log)
  BY <1>3, <1>5, ReadSteps
<1>7. ReceiptRecord(m, 2) \in Entries(log)
  BY <1>4, <1>5, <1>6, Fields
<1> QED BY <1>1, <1>2, <1>7 DEF Extends, r

LEMMA Publishes ==
  ASSUME NEW log, HistoryOK(log), NEW r \in Records,
         \/ Commit(log, r) = "publish"
         \/ r.kind = "mutation" /\ Admits(log, r)
  PROVE  Extends(log, r)
<1>1. CASE r.kind = "mutation"
  <2>1. PICK m \in Requests : r = MutationRecord(m)
    BY <1>1, OfKind
  <2>2. Commit(log, r) = CommitMutation(log, r)
    BY <1>1 DEF Commit
  <2> QED BY <2>1, <2>2, MutationPublished
<1>2. CASE r.kind = "command"
  <2>1. PICK m \in Requests, step \in Steps : r = CommandRecord(m, step)
    BY <1>2, OfKind
  <2>2. Commit(log, r) = CommitCommand(log, r)
    BY <1>2 DEF Commit
  <2> QED BY <1>2, <2>1, <2>2, CommandPublished
<1>3. CASE r.kind = "receipt"
  <2>1. PICK m \in Requests, step \in Steps : r = ReceiptRecord(m, step)
    BY <1>3, OfKind
  <2>2. Commit(log, r) = CommitReceipt(log, r)
    BY <1>3 DEF Commit
  <2> QED BY <1>3, <2>1, <2>2, ReceiptPublished
<1>4. CASE r.kind = "settlement"
  <2>1. PICK m \in Requests, receipts \in SUBSET Receipts : r = SettlementRecord(m, receipts)
    BY <1>4, OfKind
  <2>2. Commit(log, r) = CommitSettlement(log, r)
    BY <1>4 DEF Commit
  <2> QED BY <1>4, <2>1, <2>2, SettlementPublished
<1> QED BY <1>1, <1>2, <1>3, <1>4, OfKind

LEMMA TopologyRecords ==
  ASSUME NEW c, run[c].req \in Requests, run[c].step \in Steps,
         run[c].receipts \in SUBSET Receipts, run[c].pc \in TopologyPcs
  PROVE  /\ TopologyRecord(c) \in Records
         /\ TopologyRecord(c).kind = "mutation" <=> run[c].pc = "intend"
         /\ run[c].pc = "intend" => TopologyRecord(c) = MutationRecord(run[c].req)
         /\ run[c].pc = "record" =>
                TopologyRecord(c) = CommandRecord(run[c].req, run[c].step)
         /\ run[c].pc = "receipt" =>
                TopologyRecord(c) = ReceiptRecord(run[c].req, run[c].step)
         /\ run[c].pc = "settle" =>
                TopologyRecord(c) = SettlementRecord(run[c].req, run[c].receipts)
<1>1. CASE run[c].pc = "intend"
  <2>1. TopologyRecord(c) = MutationRecord(run[c].req)
    BY <1>1 DEF TopologyRecord
  <2> QED BY <1>1, <2>1, IsRecord, Fields
<1>2. CASE run[c].pc = "record"
  <2>1. TopologyRecord(c) = CommandRecord(run[c].req, run[c].step)
    BY <1>2 DEF TopologyRecord
  <2> QED BY <1>2, <2>1, IsRecord, Fields
<1>3. CASE run[c].pc = "receipt"
  <2>1. TopologyRecord(c) = ReceiptRecord(run[c].req, run[c].step)
    BY <1>3 DEF TopologyRecord
  <2> QED BY <1>3, <2>1, IsRecord, Fields
<1>4. CASE run[c].pc = "settle"
  <2>1. TopologyRecord(c) = SettlementRecord(run[c].req, run[c].receipts)
    BY <1>4 DEF TopologyRecord
  <2> QED BY <1>4, <2>1, IsRecord, Fields
<1> QED BY <1>1, <1>2, <1>3, <1>4 DEF TopologyPcs

\* What the readers of the state say, of the records of the history.
LEMMA ReadState ==
  ASSUME JournalsOK, NEW m \in Requests
  PROVE  /\ StepsRecorded(m) = {t \in Steps : CommandRecord(m, t) \in Entries(History)}
         /\ Answered(m) = {t \in Steps : ReceiptRecord(m, t) \in Entries(History)}
         /\ ConfirmedSteps(History, m.mutation) = Answered(m)
         /\ \A t : Recorded(m, t) = Digests(History, CommandRecord(m, t))
         /\ \A r : DigestsOf(r) = Digests(History, r)
         /\ Prepared(m) <=> MutationRecord(m) \in Entries(History)
<1>1. History \in Seq(Records)
  BY DEF JournalsOK, HistoryOK
<1>2. \A r : DigestsOf(r) = Digests(History, r)
  BY DEF DigestsOf, Digests, DigestAt
<1>3. \A t : Recorded(m, t) = Digests(History, CommandRecord(m, t))
  BY <1>2 DEF Recorded
<1>4. StepsRecorded(m) = {t \in Steps : CommandRecord(m, t) \in Entries(History)}
  <2>1. \A r : r \in CommandsOf(History, m.mutation) <=>
                 \E t \in Steps : r = CommandRecord(m, t) /\ r \in Entries(History)
    BY <1>1, ReadSteps
  <2>2. \A t \in Steps : CommandRecord(m, t).step = t
    BY Fields
  <2>3. \A t : t \in StepsRecorded(m) <=> \E r \in CommandsOf(History, m.mutation) : t = r.step
    BY DEF StepsRecorded
  <2> QED BY <2>1, <2>2, <2>3
<1>5. Answered(m) = {t \in Steps : ReceiptRecord(m, t) \in Entries(History)}
  <2>1. \A r : r \in ReceiptsOf(History, m.mutation) <=>
                 \E t \in Steps : r = ReceiptRecord(m, t) /\ r \in Entries(History)
    BY <1>1, ReadSteps
  <2>2. \A t \in Steps : ReceiptRecord(m, t).step = t
    BY Fields
  <2>3. \A t : t \in Answered(m) <=> \E r \in ReceiptsOf(History, m.mutation) : t = r.step
    BY DEF Answered
  <2> QED BY <2>1, <2>2, <2>3
<1>6. ConfirmedSteps(History, m.mutation) = Answered(m)
  BY <1>1, <1>5, ReadSteps
<1>7. Prepared(m) <=> MutationRecord(m) \in Entries(History)
  BY <1>1, ReadMutations DEF Prepared
<1> QED BY <1>2, <1>3, <1>4, <1>5, <1>6, <1>7
----------------------------------------------------------------------------
(* Steps of a process.                                                     *)

LEMMA KnowsKept ==
  ASSUME NEW x, NEW E, NEW given, NEW answered, Knows(x, E, given, answered),
         NEW F, E \subseteq F, NEW after,
         x.pc = "send" => after[Command(x)] = given[Command(x)],
         NEW more, answered \subseteq more
  PROVE  Knows(x, F, after, more)
BY DEF Knows

Moves(c) == run' = [run EXCEPT ![c] = run'[c]]

\* What a step of c does to the others.
Aside(c) ==
    /\ Entries(History) \subseteq Entries(History')
    /\ proved \subseteq proved'
    /\ \A d \in Controllers \ {c} : run[d].pc = "send" =>
          sent'[Command(run[d])] = sent[Command(run[d])]
    /\ holder \in {None, c} \/ UNCHANGED <<lane, topo, holder>>

LEMMA WriterKept ==
  ASSUME NEW d, NEW m, UNCHANGED <<lane, topo>>, run'[d] = run[d], WriterOK(d, m)
  PROVE  WriterOK(d, m)'
<1>1. History' = History /\ Pending' = Pending
  BY DEF History, Pending
<1>2. EventsOf(m)' = EventsOf(m) /\ Markers(m)' = Markers(m)
  BY DEF EventsOf, Markers
<1>3. \A r : DigestsOf(r)' = DigestsOf(r)
  BY <1>1 DEF DigestsOf, DigestAt
<1>4. LaneEvent(d)' = LaneEvent(d)
  BY <1>1, <1>3 DEF LaneEvent, Prospective
<1>5. TopologyRecord(d)' = TopologyRecord(d)
  BY DEF TopologyRecord
<1>6. Settles(m)' = Settles(m)
  BY <1>1, <1>2, <1>3 DEF Settles, SettlementsOf, Witness, Recorded
<1>7. \A step : Plans(m, step)' = Plans(m, step) /\ Prospective(m, step)' = Prospective(m, step)
  BY <1>1 DEF Plans, Prospective
<1>8. \A t : MayProvide(m, t)' = MayProvide(m, t)
  BY <1>1 DEF MayProvide
<1>9. Reduces(m, LaneEvent(d))' = Reduces(m, LaneEvent(d))
  BY <1>2, <1>4 DEF Reduces, HeadType
<1>10. WritesLane(d, m)' = WritesLane(d, m)
  BY <1>4, <1>9 DEF WritesLane
<1>11. WritesTopology(d, m)' = WritesTopology(d, m)
  BY <1>1, <1>5 DEF WritesTopology
<1> QED BY <1>6, <1>7, <1>8, <1>10, <1>11 DEF WriterOK

LEMMA OthersKept ==
  ASSUME IInv, NEW c \in Controllers, Moves(c), Aside(c), NEW d \in Controllers \ {c}
  PROVE  run'[d] = run[d] /\ ProcessOK(d)'
<1>1. run'[d] = run[d]
  BY DEF Moves, IInv, RunsOK
<1>2. ProcessOK(d)
  BY DEF IInv, RunsOK
<1>3. Knows(run[d], Entries(History)', sent', proved')
  BY <1>2, KnowsKept DEF Aside, ProcessOK
<1>4. ASSUME run[d].pc \in LockedPcs
      PROVE  holder' = d /\ WriterOK(d, run[d].req)'
  <2>1. holder = d /\ WriterOK(d, run[d].req)
    BY <1>2, <1>4 DEF ProcessOK
  <2>2. UNCHANGED <<lane, topo, holder>>
    BY <2>1, StopsAssumption DEF Aside
  <2> QED BY <1>1, <2>1, <2>2, WriterKept
<1> QED BY <1>1, <1>3, <1>4 DEF ProcessOK

\* A step of one process keeps the invariant if it keeps what is said of the
\* journals, of Herdr and of the process itself.
LEMMA StepKept ==
  ASSUME IInv, NEW c \in Controllers, Moves(c), Aside(c),
         JournalsOK', SentOK', ProcessOK(c)',
         run'[c].pc = "send" => \A d \in Controllers \ {c} :
            run[d].pc = "send" => Command(run[d]) # Command(run'[c])
  PROVE  IInv'
<1>1. \A d \in Controllers \ {c} : run'[d] = run[d] /\ ProcessOK(d)'
  BY OthersKept
<1>2. DOMAIN run' = Controllers /\ run' = [d \in Controllers |-> run'[d]]
  BY DEF Moves, IInv, RunsOK
<1>3. \A d \in Controllers : ProcessOK(d)'
  BY <1>1
<1>4. OneSends'
  <2> SUFFICES ASSUME NEW a \in Controllers, NEW b \in Controllers,
                      run'[a].pc = "send", run'[b].pc = "send",
                      Command(run'[a]) = Command(run'[b])
               PROVE  a = b
    BY DEF OneSends
  <2>1. CASE a # c /\ b # c
    BY <1>1, <2>1 DEF IInv, RunsOK, OneSends
  <2>2. CASE a = c \/ b = c
    BY <1>1, <2>2
  <2> QED BY <2>1, <2>2
<1> QED BY <1>2, <1>3, <1>4 DEF IInv, RunsOK

LEMMA JournalsSame ==
  ASSUME JournalsOK, UNCHANGED <<lane, topo>>
  PROVE  JournalsOK' /\ History' = History
<1>1. History' = History
  BY DEF History
<1> QED BY <1>1 DEF JournalsOK

\* A step that leaves lane and topology alone, and gives Herdr nothing.
LEMMA Quiet ==
  ASSUME IInv, NEW c \in Controllers, Moves(c), UNCHANGED <<lane, topo, sent, proved>>,
         holder \in {None, c} \/ holder' = holder,
         ProcessOK(c)', run'[c].pc # "send"
  PROVE  IInv'
<1>1. JournalsOK' /\ History' = History
  BY JournalsSame DEF IInv
<1>2. SentOK'
  BY <1>1 DEF IInv, SentOK
<1>3. Aside(c)
  BY <1>1 DEF Aside
<1> QED BY <1>1, <1>2, <1>3, StepKept

Same(x, y) ==
    y.req = x.req /\ y.step = x.step /\ y.receipts = x.receipts /\ y.token = x.token

Pcs == {"idle"} \cup LockedPcs \cup WorkPcs
Ats == {"begin", "planned", "staged"}

Turn(x, y, pc, at) ==
    \/ y = [x EXCEPT !.pc = pc, !.at = at]
    \/ y = [x EXCEPT !.pc = pc] /\ at = x.at
    \/ y = [x EXCEPT !.at = at] /\ pc = x.pc

LEMMA Turned ==
  ASSUME NEW x, x \in Runs({x.token}), NEW pc \in Pcs, NEW at \in Ats, NEW y,
         Turn(x, y, pc, at)
  PROVE  y \in Runs({y.token}) /\ y.pc = pc /\ y.at = at /\ Same(x, y)
BY DEF Runs, Pcs, Ats, Same, Turn

LEMMA Raises ==
  ASSUME IInv, NEW c \in Controllers, Raise(c)
  PROVE  /\ Moves(c) /\ run'[c].pc = "idle" /\ ProcessOK(c)'
         /\ holder \in {None, c} \/ holder' = holder
<1>1. run'[c] = Ends(c) /\ Moves(c)
  BY DEF Raise, Set, Moves, IInv, RunsOK
<1>2. Knows(run[c], Entries(History), sent, proved)
  BY DEF IInv, RunsOK, ProcessOK
<1>3. run'[c] \in Runs({run'[c].token}) /\ run'[c].pc = "idle"
  BY <1>1 DEF Ends, Idle, Runs, Steps
<1>4. ProcessOK(c)'
  BY <1>3 DEF ProcessOK, Knows, WorkPcs, LockedPcs
<1> QED BY <1>1, <1>3, <1>4 DEF Raise

LEMMA QuietRaise ==
  ASSUME IInv, NEW c \in Controllers, Raise(c), UNCHANGED <<lane, topo, sent, proved>>
  PROVE  IInv'
<1>1. /\ Moves(c) /\ run'[c].pc = "idle" /\ ProcessOK(c)'
      /\ holder \in {None, c} \/ holder' = holder
  BY Raises
<1>2. run'[c].pc # "send"
  BY <1>1
<1> QED BY <1>1, <1>2, Quiet

Turning(c, pc, at) ==
    \/ Set(c, [run[c] EXCEPT !.pc = pc, !.at = at])
    \/ Set(c, [run[c] EXCEPT !.pc = pc]) /\ at = run[c].at
    \/ Set(c, [run[c] EXCEPT !.at = at]) /\ pc = run[c].pc

LEMMA Turns ==
  ASSUME IInv, NEW c \in Controllers, NEW pc \in Pcs, NEW at \in Ats, Turning(c, pc, at)
  PROVE  /\ Moves(c) /\ run'[c] \in Runs({run'[c].token})
         /\ run'[c].pc = pc /\ run'[c].at = at /\ Same(run[c], run'[c])
<1>1. Moves(c)
  BY DEF Turning, Set, Moves, IInv, RunsOK
<1>2. \/ run'[c] = [run[c] EXCEPT !.pc = pc, !.at = at]
      \/ run'[c] = [run[c] EXCEPT !.pc = pc] /\ at = run[c].at
      \/ run'[c] = [run[c] EXCEPT !.at = at] /\ pc = run[c].pc
  BY DEF Turning, Set, IInv, RunsOK
<1> DEFINE x == run[c]
           y == run'[c]
<1>3. x \in Runs({x.token})
  BY DEF IInv, RunsOK, ProcessOK, Knows
<1>4. Turn(x, y, pc, at)
  BY <1>2 DEF Turn
<1> HIDE DEF x, y
<1>5. y \in Runs({y.token}) /\ y.pc = pc /\ y.at = at /\ Same(x, y)
  BY <1>3, <1>4, Turned
<1> QED BY <1>1, <1>5 DEF x, y

----------------------------------------------------------------------------
(* The classification of a mutation that was prepared.                     *)

\* What is settled was confirmed.
LEMMA SettledConfirmed ==
  ASSUME JournalsOK, NEW m \in Requests, SettlementsOf(m) # {}
  PROVE  Answered(m) = Steps /\ ConfirmedSteps(History, m.mutation) = Steps
<1>1. PICK r \in RecordsOf(History, "settlement") : r.mutation = m.mutation
  BY DEF SettlementsOf
<1>2. InOrder(History)
  BY DEF JournalsOK, HistoryOK
<1>3. ReceiptRecord(m, 2) \in Entries(History)
  BY <1>1, <1>2 DEF InOrder
<1>4. CommandRecord(m, 2) \in Entries(History)
  BY <1>2, <1>3 DEF InOrder, Steps
<1>5. ReceiptRecord(m, 1) \in Entries(History)
  BY <1>2, <1>4 DEF InOrder
<1>6. \A t \in Steps : t = 1 \/ t = 2
  BY DEF Steps
<1> QED BY <1>3, <1>5, <1>6, ReadState

\* Unless a residue bars it, the lane and the history answer to each other,
\* but for a second witness that runs ahead.
LEMMA Witnesses ==
  ASSUME JournalsOK, NEW m \in Requests, Prepared(m), ~NothingBegan(m),
         WitnessMismatch(m)
  PROVE  Witness(m, 2) # {} /\ StepsRecorded(m) = {1} /\ Answered(m) = {1}
<1> DEFINE s == lane[m].slots
           E == Entries(History)
<1>1. LaneOK(m, lane[m], History) /\ InOrder(History)
  BY DEF JournalsOK, HistoryOK
<1>2. MutationRecord(m) \in E
  BY ReadState
<1>3. /\ 2 <= Len(s)
      /\ \A step \in Steps : CommandRecord(m, step) \in E => step + 2 <= Len(s)
      /\ 4 \in DOMAIN s => ReceiptRecord(m, 1) \in E
      /\ \A i \in DOMAIN s \cap (3 .. 4) :
          /\ s[i].mutation \in Digests(History, MutationRecord(m))
          /\ CommandRecord(m, i - 2) \in E
                => Digests(History, CommandRecord(m, i - 2)) = {s[i].command}
  BY <1>1, <1>2 DEF LaneOK, Witnessed
<1>4. Len(s) \in 0 .. 5 /\ DOMAIN s = 1 .. Len(s)
  BY <1>1, Places
<1>5. /\ HeadType(m) = "claim" <=> Len(s) = 2
      /\ Markers(m) = {s[i] : i \in DOMAIN s \cap (3 .. 4)}
      /\ \A step \in Steps :
            Witness(m, step) = IF step + 2 \in DOMAIN s THEN {s[step + 2]} ELSE {}
  BY <1>1, ReadLane
<1>6. /\ StepsRecorded(m) = {t \in Steps : CommandRecord(m, t) \in E}
      /\ Answered(m) = {t \in Steps : ReceiptRecord(m, t) \in E}
      /\ \A t : Recorded(m, t) = Digests(History, CommandRecord(m, t))
      /\ DigestsOf(MutationRecord(m)) = Digests(History, MutationRecord(m))
  BY ReadState
<1>7. /\ \A t \in Steps : t = 1 \/ t = 2
      /\ 1 \in Steps /\ 2 \in Steps
  BY DEF Steps
<1> HIDE DEF s, E
\* Witnesses are there.
<1>8. Markers(m) # {}
  <2> SUFFICES ASSUME Markers(m) = {} PROVE FALSE
    OBVIOUS
  <2>1. 3 \notin DOMAIN s
    BY <1>5
  <2>2. Len(s) = 2
    BY <1>3, <1>4, <2>1
  <2>3. StepsRecorded(m) = {}
    BY <1>3, <1>6, <1>7, <2>2
  <2> QED BY <1>5, <2>2, <2>3 DEF NothingBegan
<1>9. \A e \in Markers(m) : e.mutation \in DigestsOf(MutationRecord(m))
  BY <1>3, <1>5, <1>6
<1>10. PICK step \in Steps : {e.command : e \in Witness(m, step)} # Recorded(m, step)
  BY <1>8, <1>9 DEF WitnessMismatch
<1>11. StepsRecorded(m) # {}
  BY <1>8, <1>9 DEF WitnessMismatch
<1>12. CommandRecord(m, step) \notin E
  <2> SUFFICES ASSUME CommandRecord(m, step) \in E PROVE FALSE
    OBVIOUS
  <2>1. step + 2 \in DOMAIN s \cap (3 .. 4) /\ (step + 2) - 2 = step
    BY <1>3, <1>4, <1>7
  <2>2. Recorded(m, step) = {s[step + 2].command}
    BY <1>3, <1>6, <2>1
  <2>3. {e.command : e \in Witness(m, step)} = {s[step + 2].command}
    BY <1>5, <2>1
  <2> QED BY <1>10, <2>2, <2>3
<1>13. Witness(m, step) # {}
  <2>1. Recorded(m, step) = {}
    BY <1>6, <1>12 DEF Digests, Entries, E
  <2> QED BY <1>10, <2>1
<1>14. step = 2
  <2> SUFFICES ASSUME step = 1 PROVE FALSE
    BY <1>7
  <2>1. CommandRecord(m, 2) \in E
    BY <1>6, <1>7, <1>11, <1>12
  <2>2. ReceiptRecord(m, 1) \in E
    BY <1>1, <2>1 DEF InOrder, E
  <2>3. CommandRecord(m, 1) \in E
    BY <1>1, <1>7, <2>2 DEF InOrder, E
  <2> QED BY <1>12, <2>3
<1>15. StepsRecorded(m) = {1}
  BY <1>6, <1>7, <1>11, <1>12, <1>14
<1>16. ReceiptRecord(m, 2) \notin E
  BY <1>1, <1>7, <1>12, <1>14 DEF InOrder, E
<1>17. 4 \in DOMAIN s
  BY <1>5, <1>7, <1>13, <1>14
<1>18. Answered(m) = {1}
  BY <1>3, <1>6, <1>7, <1>16, <1>17
<1> QED BY <1>13, <1>14, <1>15, <1>18

LEMMA ProvisionedMatches ==
  ASSUME JournalsOK, NEW m \in Requests
  PROVE  ~ProvisionedMismatch(m)
<1> DEFINE s == lane[m].slots
<1>1. LaneOK(m, lane[m], History)
  BY DEF JournalsOK
<1>2. ProvisionedOf(m) = IF 5 \in DOMAIN s THEN {s[5]} ELSE {}
  BY <1>1, ReadLane
<1>3. 5 \in DOMAIN s => \E r \in RecordsOf(History, "settlement") :
         r.mutation = m.mutation /\ s[5].settlement \in Digests(History, r)
  BY <1>1 DEF LaneOK, Settlement
<1>4. \A r, x \in RecordsOf(History, "settlement") : r.mutation = x.mutation => r = x
  BY DEF JournalsOK, HistoryOK
<1>5. \A r : DigestsOf(r) = Digests(History, r)
  BY DEF DigestsOf, Digests, DigestAt
<1> HIDE DEF s
<1>6. ProvisionedOf(m) # {} => SettlementsOf(m) # {}
  BY <1>2, <1>3 DEF SettlementsOf
<1>7. ASSUME NEW e \in ProvisionedOf(m), NEW x \in SettlementsOf(m)
      PROVE  e.settlement \in DigestsOf(x)
  BY <1>2, <1>3, <1>4, <1>5, <1>7 DEF SettlementsOf
<1> QED BY <1>6, <1>7 DEF ProvisionedMismatch

LEMMA ResultFields ==
  \A status, detail, confirmed, pending :
     LET k == Result(status, detail, confirmed, pending) IN
     /\ k.status = status /\ k.detail = detail
     /\ k.confirmed = confirmed /\ k.pending = pending
BY DEF Result

\* What a classification says that no residue bars.
Truthful(m) ==
    LET k == Classify(m) IN
    /\ k.confirmed \subseteq Answered(m)
    /\ StepsRecorded(m) \subseteq k.confirmed \cup k.pending
    /\ k.detail = "already_complete" => ProvisionedOf(m) # {} /\ k.confirmed = Steps
    /\ k.detail = "lane_finalization_required" =>
          k = Result("reconciliation_required", "lane_finalization_required", Steps, {})
    /\ k.status = "quarantined" => Witness(m, 2) # {} /\ StepsRecorded(m) = {1}
    /\ k.detail \notin {"lane_reconciliation_required",
                        "topology_reconciliation_required"}

LEMMA Unbarred ==
  ASSUME JournalsOK, NEW m \in Requests, Prepared(m), ~Barred(m)
  PROVE  Truthful(m)
<1> DEFINE confirmed == ConfirmedSteps(History, m.mutation)
<1>1. confirmed = Answered(m)
  BY ReadState
<1>2. CASE NothingBegan(m)
  <2>1. Classify(m) = Result("not_interrupted", "not_interrupted", {}, {})
    BY <1>2 DEF Classify
  <2>2. StepsRecorded(m) = {}
    BY <1>2 DEF NothingBegan
  <2> QED BY <2>1, <2>2, ResultFields DEF Truthful
<1>3. CASE ~NothingBegan(m) /\ WitnessMismatch(m)
  <2>1. Classify(m) = Result("quarantined", "cross_journal_mismatch", confirmed, {})
    BY <1>3 DEF Classify
  <2>2. Witness(m, 2) # {} /\ StepsRecorded(m) = {1} /\ Answered(m) = {1}
    BY <1>3, Witnesses
  <2> QED BY <1>1, <2>1, <2>2, ResultFields DEF Truthful
<1>4. CASE ~NothingBegan(m) /\ ~WitnessMismatch(m) /\ StepsRecorded(m) = {}
  <2>1. Classify(m) = Result("reconciliation_required", "witnessed_command_unresolved",
                             {}, {})
    BY <1>4, ProvisionedMatches DEF Classify
  <2> QED BY <1>4, <2>1, ResultFields DEF Truthful
<1>5. CASE /\ ~NothingBegan(m) /\ ~WitnessMismatch(m) /\ StepsRecorded(m) # {}
           /\ SettlementsOf(m) # {}
  <2>1. Classify(m) = SettledResult(m)
    BY <1>5, ProvisionedMatches DEF Classify
  <2>2. confirmed = Steps /\ StepsRecorded(m) \subseteq Steps
    BY <1>5, SettledConfirmed, ReadState
  <2>3. \/ Classify(m) = Result("reconciliation_required",
                                "confirmed_postcondition_proof_unavailable", confirmed, {})
        \/ /\ ProvisionedOf(m) # {}
           /\ Classify(m) = Result("not_interrupted", "already_complete", confirmed, {})
        \/ Classify(m) = Result("reconciliation_required", "lane_finalization_required",
                                confirmed, {})
    BY <2>1 DEF SettledResult
  <2> HIDE DEF confirmed
  <2>4. CASE Classify(m) = Result("reconciliation_required",
                                  "confirmed_postcondition_proof_unavailable",
                                  confirmed, {})
    BY <1>1, <2>2, <2>4, ResultFields DEF Truthful
  <2>5. CASE /\ ProvisionedOf(m) # {}
             /\ Classify(m) = Result("not_interrupted", "already_complete", confirmed, {})
    BY <1>1, <2>2, <2>5, ResultFields DEF Truthful
  <2>6. CASE Classify(m) = Result("reconciliation_required", "lane_finalization_required",
                                  confirmed, {})
    BY <1>1, <2>2, <2>6, ResultFields DEF Truthful
  <2> QED BY <2>3, <2>4, <2>5, <2>6
<1>6. CASE /\ ~NothingBegan(m) /\ ~WitnessMismatch(m) /\ StepsRecorded(m) # {}
           /\ SettlementsOf(m) = {}
  <2> DEFINE unresolved == StepsRecorded(m) \ Answered(m)
  <2>1. Classify(m) = UnsettledResult(m)
    BY <1>6, ProvisionedMatches DEF Classify
  <2>2. PICK detail \in {"command_outcome_unresolved",
                         "confirmed_postcondition_proof_unavailable",
                         "confirmed_prefix_observation_required"} :
           Classify(m) = Result("reconciliation_required", detail, confirmed, unresolved)
    BY <2>1 DEF UnsettledResult
  <2> QED BY <1>1, <2>2, ResultFields DEF Truthful
<1> QED BY <1>2, <1>3, <1>4, <1>5, <1>6

LEMMA BarredBy ==
  ASSUME NEW m, Barred(m)
  PROVE  /\ Classify(m).detail \in {"lane_reconciliation_required",
                                    "topology_reconciliation_required"}
         /\ Classify(m).detail = "lane_reconciliation_required" => lane[m].cand # None
         /\ Classify(m).status = "reconciliation_required"
<1>1. Classify(m) = BarrierResult(m)
  BY DEF Classify
<1>2. CASE Clean(m)
  <2>1. Classify(m) = Result("reconciliation_required", "topology_reconciliation_required",
                             {}, {})
    BY <1>1, <1>2 DEF BarrierResult
  <2> QED BY <2>1, ResultFields
<1>3. CASE ~Clean(m)
  <2>1. Classify(m) = Result("reconciliation_required", "lane_reconciliation_required",
                             {}, {})
    BY <1>1, <1>3 DEF BarrierResult
  <2> QED BY <1>3, <2>1, ResultFields DEF Clean
<1> QED BY <1>2, <1>3

----------------------------------------------------------------------------
(* The steps that leave lane and topology alone.                           *)

Start(y, token, pc, req) ==
    y = [[Idle EXCEPT !.token = token] EXCEPT !.pc = pc, !.req = req]

LEMMA Started ==
  ASSUME NEW y, NEW token, NEW pc \in Pcs, NEW req \in Requests, Start(y, token, pc, req)
  PROVE  y \in Runs({y.token}) /\ y.pc = pc /\ y.req = req /\ y.at = "begin"
<1>1. [Idle EXCEPT !.token = token] =
         [pc |-> "idle", at |-> "begin", req |-> None, step |-> 1,
          receipts |-> {}, token |-> token]
  BY DEF Idle
<1>2. y = [pc |-> pc, at |-> "begin", req |-> req, step |-> 1,
           receipts |-> {}, token |-> token]
  BY <1>1 DEF Start
<1> QED BY <1>2 DEF Runs, Pcs, Steps

LEMMA BeginPrepareKeeps ==
  ASSUME IInv, NEW c \in Controllers, NEW m \in Requests, BeginPrepare(c, m)
  PROVE  IInv'
<1>1. /\ Moves(c) /\ run'[c] = [Ends(c) EXCEPT !.pc = "admit", !.req = m]
      /\ holder = None /\ holder' = c
  BY DEF BeginPrepare, Set, Moves, IInv, RunsOK
<1>2. /\ run'[c] \in Runs({run'[c].token}) /\ run'[c].pc = "admit" /\ run'[c].req = m
      /\ run'[c].at = "begin"
  <2>1. Start(run'[c], run[c].token, "admit", m) /\ "admit" \in Pcs
    BY <1>1 DEF Start, Ends, Pcs, LockedPcs
  <2> QED BY <2>1, Started
<1>3. ProcessOK(c)'
  BY <1>1, <1>2 DEF ProcessOK, Knows, WriterOK, WorkPcs, LanePcs, TopologyPcs
<1> QED BY <1>1, <1>2, <1>3, Quiet DEF BeginPrepare, journals

LEMMA ExecuteKeeps ==
  ASSUME IInv, NEW c \in Controllers, NEW m \in Requests, Execute(c, m)
  PROVE  IInv'
<1>1. Moves(c) /\ run'[c] = [Ends(c) EXCEPT !.pc = "command", !.req = m]
  BY DEF Execute, Set, Moves, IInv, RunsOK
<1>2. run'[c] \in Runs({run'[c].token}) /\ run'[c].pc = "command" /\ run'[c].req = m
  <2>1. Start(run'[c], run[c].token, "command", m) /\ "command" \in Pcs
    BY <1>1 DEF Start, Ends, Pcs, WorkPcs
  <2> QED BY <2>1, Started
<1>3. History' = History /\ MutationRecord(m) \in Entries(History)
  <2>1. JournalsOK /\ UNCHANGED <<lane, topo>> /\ m \in Mutations(History)
    BY DEF Execute, journals, IInv
  <2>2. History \in Seq(Records)
    BY <2>1 DEF JournalsOK, HistoryOK
  <2> QED BY <2>1, <2>2, JournalsSame, ReadMutations
<1>4. ProcessOK(c)'
  BY <1>2, <1>3 DEF ProcessOK, Knows, LockedPcs
<1> QED BY <1>1, <1>2, <1>4, Quiet DEF Execute, journals

LEMMA InspectKeeps ==
  ASSUME IInv, NEW c \in Controllers, NEW m \in Requests, Inspect(c, m)
  PROVE  IInv'
<1>1. /\ Moves(c) /\ run'[c] = [run[c] EXCEPT !.token = StateDigest(m)]
      /\ run[c].pc = "idle"
  BY DEF Inspect, Set, Moves, IInv, RunsOK
<1>2. Knows(run[c], Entries(History), sent, proved)
  BY DEF IInv, RunsOK, ProcessOK
<1> DEFINE token == StateDigest(m)
<1> HIDE DEF token
<1>3. run'[c] \in Runs({run'[c].token}) /\ run'[c].pc = "idle"
  <2>1. run'[c] = [run[c] EXCEPT !.token = token] /\ run[c] \in Runs({run[c].token})
    BY <1>1, <1>2 DEF token, Knows
  <2> QED BY <1>1, <2>1 DEF Runs
<1>4. ProcessOK(c)'
  BY <1>3 DEF ProcessOK, Knows, LockedPcs, WorkPcs
<1> QED BY <1>1, <1>3, <1>4, Quiet DEF Inspect, journals

LEMMA StopKeeps ==
  ASSUME IInv, NEW c \in Controllers, Stop(c) \/ Busy(c)
  PROVE  IInv'
<1>1. Raise(c)
  BY DEF Stop, Busy, Raise
<1> QED BY <1>1, QuietRaise DEF Stop, Busy, journals

LEMMA QuietTurn ==
  ASSUME IInv, NEW c \in Controllers, NEW pc \in Pcs, NEW at \in Ats, Turning(c, pc, at),
         UNCHANGED <<lane, topo, sent, proved>>,
         holder \in {None, c} \/ holder' = holder,
         run[c].pc # "idle", pc # "send",
         pc \in WorkPcs => MutationRecord(run[c].req) \in Entries(History),
         pc \in {"answer", "receipt"} =>
            /\ CommandRecord(run[c].req, run[c].step) \in Entries(History)
            /\ Command(run[c]) \in proved,
         pc = "settled" => at = "begin",
         pc \in LockedPcs => holder' = c /\ WriterOK(c, run[c].req)'
  PROVE  IInv'
<1>1. /\ Moves(c) /\ run'[c] \in Runs({run'[c].token})
      /\ run'[c].pc = pc /\ run'[c].at = at /\ Same(run[c], run'[c])
  BY Turns
<1>2. Knows(run[c], Entries(History), sent, proved)
  BY DEF IInv, RunsOK, ProcessOK
<1>3. History' = History
  BY JournalsSame DEF IInv
<1>4. Knows(run'[c], Entries(History)', sent', proved')
  BY <1>1, <1>2, <1>3 DEF Knows, Same, Command
<1>5. ProcessOK(c)'
  BY <1>1, <1>4 DEF ProcessOK, Same
<1>6. run'[c].pc # "send"
  BY <1>1
<1> QED BY <1>1, <1>5, <1>6, Quiet

\* The process that holds the lease, by where it is.
LEMMA Holds ==
  ASSUME IInv, NEW c \in Controllers
  PROVE  /\ Knows(run[c], Entries(History), sent, proved)
         /\ run[c] \in Runs({run[c].token})
         /\ run[c].pc # "idle" =>
                /\ run[c].req \in Requests /\ run[c].step \in Steps
                /\ run[c].receipts \in SUBSET Receipts
         /\ run[c].pc \in LockedPcs => holder = c /\ WriterOK(c, run[c].req)
<1>1. ProcessOK(c)
  BY DEF IInv, RunsOK
<1>2. Knows(run[c], Entries(History), sent, proved)
  BY <1>1 DEF ProcessOK
<1> QED BY <1>1, <1>2 DEF ProcessOK, Knows, Runs

LEMMA AdmitKeeps ==
  ASSUME IInv, NEW c \in Controllers, Admit(c) \/ Admitted(c)
  PROVE  IInv'
<1>1. run[c].pc = "admit" /\ UNCHANGED <<lane, topo, sent, proved>>
  BY DEF Admit, Admitted, At
<1>2. holder = c /\ run[c].req \in Requests
  BY <1>1, Holds DEF LockedPcs
<1>3. \/ Raise(c) \/ Then(c, "prepare", TRUE)
      \/ Set(c, [run[c] EXCEPT !.at = "staged"]) /\ UNCHANGED holder
  BY DEF Admit, Admitted
<1>4. CASE Raise(c)
  BY <1>1, <1>4, QuietRaise
<1>5. CASE Then(c, "prepare", TRUE)
  <2>1. Turning(c, "prepare", "begin") /\ holder' = c
    BY <1>5 DEF Then, Turning
  <2>2. "prepare" \in Pcs /\ "begin" \in Ats
    BY DEF Pcs, Ats, LockedPcs
  <2>3. run'[c].pc = "prepare" /\ run'[c].at = "begin"
    BY <2>1, <2>2, Turns
  <2>4. WriterOK(c, run[c].req)'
    BY <2>3 DEF WriterOK, LanePcs, TopologyPcs
  <2>5. "prepare" \notin WorkPcs
    BY DEF WorkPcs
  <2> QED BY <1>1, <1>2, <2>1, <2>2, <2>4, <2>5, QuietTurn
<1>6. CASE Set(c, [run[c] EXCEPT !.at = "staged"]) /\ UNCHANGED holder
  <2>1. Turning(c, "admit", "staged")
    BY <1>1, <1>6 DEF Turning
  <2>2. "admit" \in Pcs /\ "staged" \in Ats
    BY DEF Pcs, Ats, LockedPcs
  <2>3. run'[c].pc = "admit" /\ run'[c].at = "staged"
    BY <2>1, <2>2, Turns
  <2>4. WriterOK(c, run[c].req)'
    BY <2>3 DEF WriterOK, LanePcs, TopologyPcs
  <2>5. "admit" \notin WorkPcs
    BY DEF WorkPcs
  <2> QED BY <1>1, <1>2, <1>6, <2>1, <2>2, <2>4, <2>5, QuietTurn
<1> QED BY <1>3, <1>4, <1>5, <1>6

\* What is planned for a command.
LEMMA Planning ==
  ASSUME JournalsOK, NEW m \in Requests, NEW step \in Steps, Planned(m, step)
  PROVE  Plans(m, step)
<1> DEFINE r == CommandRecord(m, step)
<1>1. /\ Open(History) = {m.mutation} /\ r \notin CommandsOf(History, m.mutation)
      /\ ~OutOfOrder(History, r)
  BY DEF Planned
<1>2. History \in Seq(Records) /\ r.mutation = m.mutation /\ r.step = step
  BY Fields DEF JournalsOK, HistoryOK
<1>3. r \notin Entries(History)
  BY <1>1, <1>2, ReadSteps
<1>4. step = 2 => 1 \in ConfirmedSteps(History, m.mutation)
  BY <1>1, <1>2 DEF OutOfOrder
<1>5. step = 2 => ReceiptRecord(m, 1) \in Entries(History)
  BY <1>2, <1>4, ReadSteps
<1> QED BY <1>1, <1>3, <1>5 DEF Plans

LEMMA BeginCommandKeeps ==
  ASSUME IInv, NEW c \in Controllers, BeginCommand(c)
  PROVE  IInv'
<1> DEFINE m == run[c].req
           step == run[c].step
<1>1. /\ run[c].pc = "command" /\ UNCHANGED <<lane, topo, sent, proved>> /\ holder = None
      /\ (Planned(m, step) /\ Take(c, "marker")) \/ Raise(c)
  BY DEF BeginCommand, journals
<1>2. CASE Raise(c)
  BY <1>1, <1>2, QuietRaise
<1>3. CASE Planned(m, step) /\ Take(c, "marker")
  <2>1. /\ m \in Requests /\ step \in Steps
        /\ MutationRecord(m) \in Entries(History)
    BY <1>1, Holds DEF Knows, WorkPcs
  <2>2. Plans(m, step)
    BY <1>3, <2>1, Planning DEF IInv
  <2>3. Turning(c, "marker", "begin") /\ holder' = c
    BY <1>3 DEF Take, Turning
  <2>4. "marker" \in Pcs /\ "begin" \in Ats
    BY DEF Pcs, Ats, LockedPcs
  <2>5. /\ run'[c].pc = "marker" /\ run'[c].at = "begin" /\ run'[c].step = step
        /\ run'[c].req = m
    BY <2>3, <2>4, Turns DEF Same
  <2>6. Plans(m, step)'
    BY <1>1, <2>2, <2>5 DEF Plans, History
  <2>7. WriterOK(c, m)'
    BY <2>5, <2>6 DEF WriterOK, LanePcs, TopologyPcs
  <2> QED BY <1>1, <2>1, <2>3, <2>4, <2>7, QuietTurn
<1> QED BY <1>1, <1>2, <1>3

LEMMA BeginAnswerKeeps ==
  ASSUME IInv, NEW c \in Controllers, BeginAnswer(c)
  PROVE  IInv'
<1>1. /\ run[c].pc = "answer" /\ UNCHANGED <<lane, topo, sent, proved>>
      /\ holder = None /\ holder' = c /\ Turning(c, "receipt", "begin")
  BY DEF BeginAnswer, Take, Turning, journals
<1>2. /\ MutationRecord(run[c].req) \in Entries(History)
      /\ CommandRecord(run[c].req, run[c].step) \in Entries(History)
      /\ Command(run[c]) \in proved
  BY <1>1, Holds DEF Knows, WorkPcs
<1>3. "receipt" \in Pcs /\ "begin" \in Ats
  BY DEF Pcs, Ats, LockedPcs
<1>4. run'[c].pc = "receipt" /\ run'[c].at = "begin"
  BY <1>1, <1>3, Turns
<1>5. WriterOK(c, run[c].req)'
  BY <1>4 DEF WriterOK, LanePcs, TopologyPcs
<1> QED BY <1>1, <1>2, <1>3, <1>5, QuietTurn

LEMMA BeginSettleKeeps ==
  ASSUME IInv, NEW c \in Controllers, BeginSettle(c)
  PROVE  IInv'
<1>1. /\ run[c].pc = "settling" /\ UNCHANGED <<lane, topo, sent, proved>>
      /\ holder = None /\ holder' = c /\ Turning(c, "settle", "begin")
  BY DEF BeginSettle, Take, Turning, journals
<1>2. MutationRecord(run[c].req) \in Entries(History)
  BY <1>1, Holds DEF Knows, WorkPcs
<1>3. "settle" \in Pcs /\ "begin" \in Ats
  BY DEF Pcs, Ats, LockedPcs
<1>4. run'[c].pc = "settle" /\ run'[c].at = "begin"
  BY <1>1, <1>3, Turns
<1>5. WriterOK(c, run[c].req)'
  BY <1>4 DEF WriterOK, LanePcs, TopologyPcs
<1> QED BY <1>1, <1>2, <1>3, <1>5, QuietTurn

LEMMA SettlesSame ==
  ASSUME NEW m, UNCHANGED <<lane, topo>>
  PROVE  /\ Settles(m)' = Settles(m) /\ History' = History
         /\ \A t : MayProvide(m, t)' = MayProvide(m, t)
<1>1. History' = History /\ Pending' = Pending
  BY DEF History, Pending
<1>2. \A r : DigestsOf(r)' = DigestsOf(r)
  BY <1>1 DEF DigestsOf, DigestAt
<1>3. EventsOf(m)' = EventsOf(m)
  BY DEF EventsOf
<1>4. Settles(m)' = Settles(m)
  BY <1>1, <1>2, <1>3 DEF Settles, SettlementsOf, Witness, Recorded, Markers
<1>5. \A t : MayProvide(m, t)' = MayProvide(m, t)
  BY <1>1 DEF MayProvide
<1> QED BY <1>1, <1>4, <1>5

\* A process that takes the lease to record what was provisioned.
LEMMA ProvideKeeps ==
  ASSUME IInv, NEW c \in Controllers, NEW m \in Requests, NEW token,
         Moves(c), UNCHANGED <<lane, topo, sent, proved>>, holder = None, holder' = c,
         run'[c] \in Runs({token}), run'[c].token = token, run'[c].req = m,
         run'[c].pc = "provide", run'[c].at = "begin",
         MutationRecord(m) \in Entries(History), Settles(m), MayProvide(m, token)
  PROVE  IInv'
<1>1. Settles(m)' /\ History' = History /\ MayProvide(m, token)'
  BY SettlesSame
<1>2. Knows(run'[c], Entries(History)', sent', proved')
  BY <1>1 DEF Knows
<1>3. WriterOK(c, m)'
  BY <1>1 DEF WriterOK, LanePcs, TopologyPcs
<1>4. ProcessOK(c)' /\ run'[c].pc # "send"
  BY <1>2, <1>3 DEF ProcessOK
<1> QED BY <1>4, Quiet

LEMMA BeginProvisionedKeeps ==
  ASSUME IInv, NEW c \in Controllers, BeginProvisioned(c)
  PROVE  IInv'
<1> DEFINE m == run[c].req
<1>1. /\ run[c].pc = "settled" /\ UNCHANGED <<lane, topo, sent, proved>> /\ holder = None
      /\ \/ Raise(c)
         \/ /\ Settles(m) /\ holder' = c
            /\ Set(c, [run[c] EXCEPT !.pc = "provide", !.token = None])
  BY DEF BeginProvisioned, journals
<1>2. CASE Raise(c)
  BY <1>1, <1>2, QuietRaise
<1>3. CASE /\ Settles(m) /\ holder' = c
           /\ Set(c, [run[c] EXCEPT !.pc = "provide", !.token = None])
  <2>1. Moves(c) /\ run'[c] = [run[c] EXCEPT !.pc = "provide", !.token = None]
    BY <1>3 DEF Set, Moves, IInv, RunsOK
  <2>2. /\ run[c] \in Runs({run[c].token}) /\ m \in Requests
        /\ run[c].at = "begin" /\ MutationRecord(m) \in Entries(History)
    BY <1>1, Holds DEF Knows, WorkPcs
  <2>3. /\ run'[c] \in Runs({None}) /\ run'[c].token = None /\ run'[c].req = m
        /\ run'[c].pc = "provide" /\ run'[c].at = "begin"
    BY <2>1, <2>2 DEF Runs, LockedPcs
  <2>4. MayProvide(m, None)
    BY DEF MayProvide
  <2> QED BY <1>1, <1>3, <2>1, <2>2, <2>3, <2>4, ProvideKeeps
<1> QED BY <1>1, <1>2, <1>3

LEMMA FinalizeKeeps ==
  ASSUME IInv, NEW c \in Controllers, NEW m \in Requests, Finalize(c, m)
  PROVE  IInv'
<1> DEFINE token == run[c].token
<1>1. /\ UNCHANGED <<lane, topo, sent, proved>> /\ holder = None /\ holder' = c
      /\ Prepared(m) /\ MayFinalize(m, token) /\ Settles(m)
      /\ Set(c, [run[c] EXCEPT !.pc = "provide", !.at = "begin", !.req = m])
  BY DEF Finalize, journals
<1>2. /\ Moves(c)
      /\ run'[c] = [run[c] EXCEPT !.pc = "provide", !.at = "begin", !.req = m]
  BY <1>1 DEF Set, Moves, IInv, RunsOK
<1>3. run[c] \in Runs({token})
  BY Holds
<1>4. MutationRecord(m) \in Entries(History)
  BY <1>1, ReadState DEF IInv
<1> HIDE DEF token
<1>5. /\ run'[c] \in Runs({token}) /\ run'[c].token = token /\ run'[c].req = m
      /\ run'[c].pc = "provide" /\ run'[c].at = "begin"
  BY <1>2, <1>3 DEF Runs, LockedPcs
<1>6. MayProvide(m, token)
  <2>1. CASE Barred(m)
    <3>1. /\ Classify(m).detail \in {"lane_reconciliation_required",
                                     "topology_reconciliation_required"}
          /\ Classify(m).detail = "lane_reconciliation_required" => lane[m].cand # None
      BY <2>1, BarredBy
    <3> QED BY <1>1, <3>1 DEF MayFinalize, MayProvide
  <2>2. CASE ~Barred(m)
    <3>1. Truthful(m) /\ LaneOK(m, lane[m], History)
      BY <1>1, <2>2, Unbarred DEF IInv, JournalsOK
    <3>2. ProvisionedOf(m) # {} => 5 \in DOMAIN lane[m].slots
      BY <3>1, ReadLane
    <3>3. CASE token = StateDigest(m) /\ Classify(m).detail = "lane_finalization_required"
      BY <3>1, <3>3 DEF StateDigest, MayProvide, Truthful
    <3>4. CASE Classify(m).detail \in {"already_complete", "lane_reconciliation_required"}
      BY <3>1, <3>2, <3>4 DEF MayProvide, Truthful
    <3> QED BY <1>1, <3>3, <3>4 DEF MayFinalize
  <2> QED BY <2>1, <2>2
<1> QED BY <1>1, <1>2, <1>4, <1>5, <1>6, ProvideKeeps

----------------------------------------------------------------------------
(* Herdr is given a command.                                               *)

LEMMA SendKeeps ==
  ASSUME IInv, NEW c \in Controllers, Send(c)
  PROVE  IInv'
<1> DEFINE m == run[c].req
           step == run[c].step
           command == Command(run[c])
<1>1. /\ run[c].pc = "send" /\ UNCHANGED <<lane, topo>>
      /\ sent' = [sent EXCEPT ![command] = @ + 1]
      /\ \/ /\ proved' = proved \cup {command}
            /\ Set(c, [run[c] EXCEPT !.pc = "answer"]) /\ UNCHANGED holder
         \/ Raise(c) /\ UNCHANGED proved
  BY DEF Send, Command, journals
<1>2. /\ m \in Requests /\ step \in Steps /\ sent[command] = 0
      /\ MutationRecord(m) \in Entries(History)
      /\ CommandRecord(m, step) \in Entries(History)
  BY <1>1, Holds DEF Knows, WorkPcs
<1>3. command = <<m.mutation, step>> /\ command \in Commands
  BY <1>2 DEF Command, Commands
<1>4. /\ sent' \in [Commands -> 0 .. 1] /\ sent'[command] = 1
      /\ \A x \in Commands : x # command => sent'[x] = sent[x]
  BY <1>1, <1>2, <1>3 DEF IInv, SentOK
<1>5. JournalsOK' /\ History' = History
  BY <1>1, JournalsSame DEF IInv
<1>6. proved \subseteq proved'
  BY <1>1
<1> HIDE DEF command, m, step
<1>7. SentOK'
  <2>1. ASSUME NEW n \in Requests, NEW t \in Steps, sent'[<<n.mutation, t>>] > 0
        PROVE  CommandRecord(n, t) \in Entries(History)
    <3>1. <<n.mutation, t>> \in Commands
      BY DEF Commands
    <3>2. CASE <<n.mutation, t>> = command
      <4>1. n.mutation = m.mutation /\ t = step
        BY <1>3, <3>2
      <4> QED BY <1>2, <4>1, SameId
    <3>3. CASE <<n.mutation, t>> # command
      BY <1>4, <2>1, <3>1, <3>3 DEF IInv, SentOK
    <3> QED BY <3>2, <3>3
  <2>2. \A n \in Requests, t \in Steps : ReceiptRecord(n, t) \in Entries(History)
           => <<n.mutation, t>> \in proved'
    BY <1>6 DEF IInv, SentOK
  <2> QED BY <1>4, <1>5, <2>1, <2>2 DEF SentOK
<1>8. ASSUME NEW d \in Controllers \ {c}, run[d].pc = "send"
      PROVE  sent'[Command(run[d])] = sent[Command(run[d])]
  <2>1. Command(run[d]) # command
    BY <1>1, <1>8 DEF IInv, RunsOK, OneSends, command
  <2>2. Command(run[d]) \in Commands
    <3>1. run[d].req \in Requests /\ run[d].step \in Steps
      BY <1>8, Holds
    <3> QED BY <3>1 DEF Command, Commands
  <2> QED BY <1>4, <2>1, <2>2
<1>9. CASE Raise(c)
  <2>1. /\ Moves(c) /\ run'[c].pc = "idle" /\ ProcessOK(c)'
        /\ holder \in {None, c} \/ holder' = holder
    BY <1>9, Raises
  <2>2. Aside(c)
    BY <1>1, <1>5, <1>6, <1>8, <2>1 DEF Aside
  <2>3. run'[c].pc # "send"
    BY <2>1
  <2> QED BY <1>5, <1>7, <2>1, <2>2, <2>3, StepKept
<1>10. CASE /\ proved' = proved \cup {command}
            /\ Set(c, [run[c] EXCEPT !.pc = "answer"]) /\ UNCHANGED holder
  <2> DEFINE at == run[c].at
  <2>1. "answer" \in Pcs /\ at \in Ats
    BY Holds DEF Pcs, Ats, WorkPcs, Runs
  <2>2. Turning(c, "answer", at)
    BY <1>10 DEF Turning
  <2> HIDE DEF at
  <2>3. /\ Moves(c) /\ run'[c] \in Runs({run'[c].token})
        /\ run'[c].pc = "answer" /\ Same(run[c], run'[c])
    BY <2>1, <2>2, Turns
  <2>4. Command(run'[c]) = command /\ run'[c].req = m /\ run'[c].step = step
    BY <2>3 DEF Same, Command, command, m, step
  <2>5. Knows(run'[c], Entries(History)', sent', proved')
    BY <1>2, <1>5, <1>10, <2>3, <2>4 DEF Knows
  <2>6. ProcessOK(c)' /\ run'[c].pc # "send"
    BY <2>3, <2>5 DEF ProcessOK, LockedPcs
  <2>7. Aside(c)
    BY <1>1, <1>5, <1>6, <1>8, <1>10 DEF Aside
  <2> QED BY <1>5, <1>7, <2>3, <2>6, <2>7, StepKept
<1> QED BY <1>1, <1>9, <1>10

----------------------------------------------------------------------------
(* The steps under the lease.                                              *)

\* What a step under the lease makes of the journals.
Grown ==
    /\ JournalsOK' /\ UNCHANGED <<sent, proved>>
    /\ Entries(History) \subseteq Entries(History')
    /\ \A m \in Requests, step \in Steps :
          ReceiptRecord(m, step) \in Entries(History') => <<m.mutation, step>> \in proved

LEMMA LockedStep ==
  ASSUME IInv, NEW c \in Controllers, Moves(c), Grown, run[c].pc \in LockedPcs,
         ProcessOK(c)',
         run'[c].pc = "send" => \A d \in Controllers \ {c} :
            run[d].pc = "send" => Command(run[d]) # Command(run'[c])
  PROVE  IInv'
<1>1. holder = c
  BY Holds
<1>2. SentOK'
  BY DEF Grown, IInv, SentOK
<1>3. Aside(c) /\ JournalsOK'
  BY <1>1 DEF Aside, Grown
<1> QED BY <1>2, <1>3, StepKept

LEMMA LockedRaise ==
  ASSUME IInv, NEW c \in Controllers, Raise(c), Grown, run[c].pc \in LockedPcs
  PROVE  IInv'
<1>1. Moves(c) /\ run'[c].pc = "idle" /\ ProcessOK(c)'
  BY Raises
<1>2. run'[c].pc # "send"
  BY <1>1
<1> QED BY <1>1, <1>2, LockedStep

LEMMA LockedTurn ==
  ASSUME IInv, NEW c \in Controllers, NEW pc \in Pcs, NEW at \in Ats, Turning(c, pc, at),
         Grown, run[c].pc \in LockedPcs,
         pc \in WorkPcs => MutationRecord(run[c].req) \in Entries(History'),
         pc \in {"send", "answer", "receipt"} =>
            CommandRecord(run[c].req, run[c].step) \in Entries(History'),
         pc = "send" =>
            /\ sent[Command(run[c])] = 0
            /\ \A d \in Controllers \ {c} :
                  run[d].pc = "send" => Command(run[d]) # Command(run[c]),
         pc \in {"answer", "receipt"} => Command(run[c]) \in proved,
         pc = "settled" => at = "begin",
         pc \in LockedPcs => holder' = c /\ WriterOK(c, run[c].req)'
  PROVE  IInv'
<1>1. /\ Moves(c) /\ run'[c] \in Runs({run'[c].token})
      /\ run'[c].pc = pc /\ run'[c].at = at /\ Same(run[c], run'[c])
  BY Turns
<1>2. run[c].req \in Requests
  BY Holds DEF LockedPcs
<1>3. sent' = sent /\ proved' = proved
  BY DEF Grown
<1>4. Knows(run'[c], Entries(History'), sent', proved')
  BY <1>1, <1>2, <1>3 DEF Knows, Same, Command
<1>5. ProcessOK(c)'
  BY <1>1, <1>4 DEF ProcessOK, Same
<1>6. Command(run'[c]) = Command(run[c])
  BY <1>1 DEF Same, Command
<1> QED BY <1>1, <1>5, <1>6, LockedStep

LEMMA EnsureStoreKeeps ==
  ASSUME IInv, NEW c \in Controllers, EnsureStore(c)
  PROVE  IInv'
<1>1. /\ run[c].pc = "ensure" /\ UNCHANGED <<lane, sent, proved>>
      /\ topo' = IF topo = None THEN [slots |-> <<>>, cand |-> None] ELSE topo
      /\ Turning(c, "claim", "begin") /\ holder' = c
  BY DEF EnsureStore, Then, Turning
<1>2. topo' \in Stores /\ topo' # None /\ History' = History
  <2>1. CASE topo = None
    <3>1. topo' = [slots |-> <<>>, cand |-> None] /\ <<>> \in Seq(Records)
      BY <1>1, <2>1
    <3>2. topo' \in Stores /\ topo'.slots = <<>>
      BY <3>1 DEF Stores
    <3> QED BY <2>1, <3>2, NoneAssumption DEF History
  <2>2. CASE topo # None
    BY <1>1, <2>2 DEF IInv, JournalsOK, History
  <2> QED BY <2>1, <2>2
<1>3. Grown
  BY <1>1, <1>2 DEF Grown, IInv, JournalsOK, SentOK
<1>4. "claim" \in Pcs /\ "begin" \in Ats /\ "claim" \notin WorkPcs /\ run[c].pc \in LockedPcs
  BY <1>1 DEF Pcs, Ats, LockedPcs, WorkPcs
<1>5. run'[c].pc = "claim" /\ run'[c].at = "begin"
  BY <1>1, <1>4, Turns
<1>6. WriterOK(c, run[c].req)'
  BY <1>2, <1>5 DEF WriterOK, LanePcs, TopologyPcs
<1> QED BY <1>1, <1>3, <1>4, <1>6, LockedTurn

----------------------------------------------------------------------------
(* The commits to a lane.                                                  *)

LEMMA LaneEvents ==
  ASSUME NEW c, run[c].pc \in LanePcs
  PROVE  /\ run[c].pc = "prepare" => LaneEvent(c) = PrepareEvent
         /\ run[c].pc = "claim" => LaneEvent(c) = ClaimEvent
         /\ run[c].pc = "marker" =>
               LaneEvent(c) = Marker(run[c].step,
                                     CHOOSE d \in DigestsOf(MutationRecord(run[c].req)) : TRUE,
                                     Prospective(run[c].req, run[c].step))
         /\ run[c].pc = "provide" => LaneEvent(c) = Provisioned(History, run[c].token)
         /\ LaneEvent(c).type = "provisioned" <=> run[c].pc = "provide"
         /\ run[c].pc = "marker" => /\ LaneEvent(c).type = "marker"
                                    /\ LaneEvent(c).step = run[c].step
<1>1. CASE run[c].pc = "prepare"
  BY <1>1, EventFields DEF LaneEvent
<1>2. CASE run[c].pc = "claim"
  BY <1>2, EventFields DEF LaneEvent
<1>3. CASE run[c].pc = "marker"
  <2>1. LaneEvent(c) = Marker(run[c].step,
                              CHOOSE d \in DigestsOf(MutationRecord(run[c].req)) : TRUE,
                              Prospective(run[c].req, run[c].step))
    BY <1>3 DEF LaneEvent
  <2>2. LaneEvent(c).type = "marker" /\ LaneEvent(c).step = run[c].step
    BY <2>1, EventFields
  <2> QED BY <1>3, <2>1, <2>2
<1>4. CASE run[c].pc = "provide"
  BY <1>4, EventFields DEF LaneEvent
<1> QED BY <1>1, <1>2, <1>3, <1>4 DEF LanePcs

LEMMA LaneGrown ==
  ASSUME IInv, NEW m \in Requests, lane' = [lane EXCEPT ![m] = lane'[m]],
         UNCHANGED <<topo, sent, proved>>, LaneOK(m, lane'[m], History)
  PROVE  Grown /\ History' = History
<1>1. History' = History
  BY DEF History
<1>2. DOMAIN lane = Requests /\ \A o \in Requests : LaneOK(o, lane[o], History)
  BY DEF IInv, JournalsOK
<1>3. DOMAIN lane' = Requests /\ lane' = [o \in Requests |-> lane'[o]]
  BY <1>2 DEF IInv, JournalsOK
<1>4. \A o \in Requests : LaneOK(o, lane'[o], History)
  <2>1. \A o \in Requests : o # m => lane'[o] = lane[o]
    BY <1>2
  <2> QED BY <1>2, <2>1
<1>5. JournalsOK'
  BY <1>1, <1>3, <1>4 DEF IInv, JournalsOK
<1> QED BY <1>1, <1>5 DEF Grown, IInv, SentOK

\* What is read from the events of a lane does not depend on its candidate.
LEMMA SameEvents ==
  ASSUME NEW m, lane'[m].slots = lane[m].slots, UNCHANGED topo
  PROVE  /\ \A e : Reduces(m, e)' = Reduces(m, e)
         /\ Settles(m)' = Settles(m)
         /\ \A step : Plans(m, step)' = Plans(m, step)
<1>1. History' = History /\ Pending' = Pending
  BY DEF History, Pending
<1>2. \A r : DigestsOf(r)' = DigestsOf(r)
  BY <1>1 DEF DigestsOf, DigestAt
<1>3. EventsOf(m)' = EventsOf(m) /\ HeadType(m)' = HeadType(m)
  BY DEF EventsOf, HeadType
<1>4. Markers(m)' = Markers(m)
  BY <1>3 DEF Markers
<1>5. \A e : Reduces(m, e)' = Reduces(m, e)
  BY <1>3, <1>4 DEF Reduces
<1>6. Settles(m)' = Settles(m)
  BY <1>1, <1>2, <1>4 DEF Settles, SettlementsOf, Witness, Recorded
<1>7. \A step : Plans(m, step)' = Plans(m, step)
  BY <1>1 DEF Plans
<1> QED BY <1>5, <1>6, <1>7

LEMMA SameLaneEvent ==
  ASSUME NEW c, UNCHANGED topo, Same(run[c], run'[c]), run'[c].pc = run[c].pc
  PROVE  LaneEvent(c)' = LaneEvent(c)
<1>1. History' = History
  BY DEF History
<1>2. \A r : DigestsOf(r)' = DigestsOf(r)
  BY <1>1 DEF DigestsOf, DigestAt
<1>3. /\ run'[c].req = run[c].req /\ run'[c].step = run[c].step
      /\ run'[c].token = run[c].token
  BY DEF Same
<1>4. (CHOOSE d \in DigestsOf(MutationRecord(run[c].req)) : TRUE)' =
         CHOOSE d \in DigestsOf(MutationRecord(run[c].req)) : TRUE
  BY <1>2, <1>3
<1>5. Prospective(run[c].req, run[c].step)' = Prospective(run[c].req, run[c].step)
  BY <1>1, <1>3 DEF Prospective
<1> QED BY <1>1, <1>3, <1>4, <1>5 DEF LaneEvent

\* The candidate of a process is planned, or shown.
LEMMA CandidateKeeps ==
  ASSUME IInv, NEW c \in Controllers, NEW pc \in LanePcs, run[c].pc = pc,
         NEW at \in {"planned", "staged"}, Turning(c, pc, at),
         UNCHANGED <<topo, holder, sent, proved>>,
         NEW m \in Requests, run[c].req = m,
         lane' = [lane EXCEPT ![m] = lane'[m]],
         lane'[m] \in [slots : {lane[m].slots}, cand : {lane'[m].cand}],
         IsCandidate(lane'[m].cand), lane'[m].cand.event = LaneEvent(c),
         Reduces(m, LaneEvent(c)),
         pc = "provide" => Finalized(LaneEvent(c), lane[m].slots)
  PROVE  IInv'
<1>1. /\ run[c].step \in Steps /\ pc \in LockedPcs
      /\ holder = c /\ WriterOK(c, m) /\ pc \in Pcs /\ pc # "idle"
      /\ pc \in WorkPcs => MutationRecord(m) \in Entries(History)
  BY Holds DEF LanePcs, LockedPcs, Pcs, Knows
<1>2. LaneEvent(c).type = "provisioned" <=> pc = "provide"
  BY LaneEvents
<1>3. LaneOK(m, lane'[m], History)
  <2>1. LaneOK(m, lane[m], History)
    BY <1>1 DEF IInv, JournalsOK
  <2>2. lane'[m].cand.event.type = "provisioned" =>
           Finalized(lane'[m].cand.event, lane[m].slots)
    BY <1>2
  <2> QED BY <2>1, <2>2, LaneStaged
<1>4. Grown /\ History' = History
  BY <1>1, <1>3, LaneGrown
<1>5. at \in Ats /\ pc \notin {"send", "answer", "receipt", "settled"} /\ at # "begin"
      /\ pc \notin TopologyPcs /\ pc # "record" /\ pc # "intend"
  BY DEF Ats, LanePcs, TopologyPcs
<1>6. run'[c].pc = pc /\ run'[c].at = at /\ Same(run[c], run'[c])
  <2>1. pc \in Pcs /\ at \in Ats /\ Turning(c, pc, at)
    BY <1>1, <1>5
  <2> QED BY ONLY <2>1, IInv, c \in Controllers, Turns
<1>7. lane'[m].slots = lane[m].slots
  OBVIOUS
<1>8. /\ Reduces(m, LaneEvent(c))' /\ LaneEvent(c)' = LaneEvent(c)
      /\ Settles(m)' = Settles(m)
      /\ Plans(m, run[c].step)' = Plans(m, run[c].step)
  <2>1. LaneEvent(c)' = LaneEvent(c)
    BY <1>6, SameLaneEvent
  <2>2. /\ \A e : Reduces(m, e)' = Reduces(m, e)
        /\ Settles(m)' = Settles(m)
        /\ \A step : Plans(m, step)' = Plans(m, step)
    BY <1>7, SameEvents
  <2>3. run'[c].step = run[c].step
    BY <1>6 DEF Same
  <2> QED BY <2>1, <2>2, <2>3
<1>9. WritesLane(c, m)'
  BY <1>6, <1>7, <1>8 DEF WritesLane
<1>10. WriterOK(c, m)'
  BY <1>1, <1>5, <1>6, <1>8, <1>9 DEF WriterOK, Same
<1>11. run'[c].req = m
  BY <1>6 DEF Same
<1> QED BY <1>1, <1>4, <1>5, <1>10, <1>11, LockedTurn

\* The facts a lane writer rests on.
LEMMA LaneWriter ==
  ASSUME IInv, NEW c \in Controllers, NEW pc \in LanePcs, run[c].pc = pc,
         NEW m \in Requests, run[c].req = m
  PROVE  /\ run[c].step \in Steps /\ holder = c /\ pc \in LockedPcs
         /\ LaneOK(m, lane[m], History) /\ DOMAIN lane = Requests
         /\ pc = "claim" => topo # None
         /\ pc = "marker" => Plans(m, run[c].step)
         /\ pc = "provide" => /\ Settles(m)
                              /\ run[c].at = "begin" => MayProvide(m, run[c].token)
         /\ run[c].at # "begin" => WritesLane(c, m)
         /\ pc \in {"marker", "provide"} => MutationRecord(m) \in Entries(History)
<1>1. pc \in LockedPcs /\ pc # "idle" /\ (pc \in {"marker", "provide"} => pc \in WorkPcs)
  BY DEF LanePcs, LockedPcs, WorkPcs
<1>2. WriterOK(c, m) /\ run[c].step \in Steps /\ holder = c
  BY <1>1, Holds
<1>3. pc \in {"marker", "provide"} => MutationRecord(m) \in Entries(History)
  BY <1>1, Holds DEF Knows
<1> QED BY <1>1, <1>2, <1>3 DEF WriterOK, IInv, JournalsOK

\* A record goes on from its residue, or is new.
LEMMA LaneStagesNew ==
  ASSUME IInv, NEW c \in Controllers, NEW pc \in LanePcs, run[c].pc = pc,
         NEW m \in Requests, run[c].req = m, run[c].at = "begin",
         UNCHANGED <<topo, holder, sent, proved>>,
         Set(c, [run[c] EXCEPT !.at = "planned"]),
         lane' = [lane EXCEPT ![m].cand =
                     IF @ = None THEN [event |-> LaneEvent(c), shown |-> FALSE] ELSE @],
         Reduces(m, LaneEvent(c)), lane[m].cand # None => lane[m].cand.event = LaneEvent(c)
  PROVE  IInv'
<1> DEFINE e == LaneEvent(c)
           k == IF lane[m].cand = None THEN [event |-> e, shown |-> FALSE] ELSE lane[m].cand
<1>1. /\ LaneOK(m, lane[m], History) /\ DOMAIN lane = Requests
      /\ pc = "provide" => MayProvide(m, run[c].token)
  BY LaneWriter
<1>2. Turning(c, pc, "planned")
  BY DEF Turning
<1>3. lane' = [lane EXCEPT ![m].cand = k]
  OBVIOUS
<1>4. IsCandidate(k) /\ k.event = e
  <2>1. CASE lane[m].cand = None
    <3>1. k = [event |-> e, shown |-> FALSE]
      BY <2>1
    <3>2. \A x : /\ IsCandidate([event |-> x, shown |-> FALSE])
                 /\ [event |-> x, shown |-> FALSE].event = x
      BY DEF IsCandidate
    <3> HIDE DEF k, e
    <3> QED BY <3>1, <3>2
  <2>2. CASE lane[m].cand # None
    BY <1>1, <2>2 DEF LaneOK
  <2> QED BY <2>1, <2>2
<1>5. pc = "provide" => Finalized(e, lane[m].slots)
  <2> SUFFICES ASSUME pc = "provide" PROVE Finalized(e, lane[m].slots)
    OBVIOUS
  <2>1. e = Provisioned(History, run[c].token) /\ e.type = "provisioned"
    BY LaneEvents
  <2>2. e.settlement = History /\ e.token = run[c].token
    BY <2>1, EventFields
  <2>3. 5 \notin DOMAIN lane[m].slots
    <3>1. Len(lane[m].slots) \in 2 .. 4
      BY <1>1, <2>1, Reducing
    <3>2. DOMAIN lane[m].slots = 1 .. Len(lane[m].slots)
      BY <1>1, Places
    <3>3. \A n \in 2 .. 4 : 5 \notin 1 .. n
      OBVIOUS
    <3> QED BY <3>1, <3>2, <3>3
  <2>4. CASE lane[m].cand # None
    BY <1>1, <2>1, <2>4 DEF LaneOK
  <2>5. CASE \/ run[c].token = None
             \/ run[c].token = <<Result("reconciliation_required",
                                        "lane_finalization_required", Steps, {}),
                                 lane[m].slots, History>>
    BY <2>2, <2>5 DEF Finalized
  <2> QED BY <1>1, <2>3, <2>4, <2>5 DEF MayProvide
<1> DEFINE y == lane'[m]
<1>6. /\ lane' = [lane EXCEPT ![m] = y] /\ y.slots = lane[m].slots /\ y.cand = k
      /\ y \in [slots : {lane[m].slots}, cand : {y.cand}]
  <2>1. lane[m] \in [slots : {lane[m].slots}, cand : {lane[m].cand}]
    BY <1>1 DEF LaneOK
  <2> HIDE DEF k
  <2>2. y = [lane[m] EXCEPT !.cand = k]
    BY <1>1, <1>3
  <2>3. lane' = [lane EXCEPT ![m] = y]
    BY <1>3, <2>2
  <2>4. y.slots = lane[m].slots /\ y.cand = k
    BY <2>1, <2>2
  <2>5. y \in [slots : {lane[m].slots}, cand : {y.cand}]
    BY <2>1, <2>2, <2>4
  <2> QED BY <2>3, <2>4, <2>5
<1> HIDE DEF k
<1> QED BY <1>2, <1>4, <1>5, <1>6, CandidateKeeps

\* A record that is there already is acknowledged again.
LEMMA LaneReplays ==
  ASSUME IInv, NEW c \in Controllers, NEW pc \in LanePcs, run[c].pc = pc,
         NEW m \in Requests, run[c].req = m,
         UNCHANGED <<lane, topo, sent, proved>>, LaneDone(c),
         LaneEvent(c) \in EventsOf(m), ~MarkerRefused(c)
  PROVE  IInv'
<1>1. /\ run[c].step \in Steps /\ holder = c /\ pc \in LockedPcs
      /\ pc = "claim" => topo # None
  BY LaneWriter
<1>2. pc # "idle"
  BY DEF LanePcs
<1>3. CASE pc = "prepare"
  <2>1. Turning(c, "ensure", "begin") /\ holder' = c
    BY <1>3 DEF LaneDone, Then, Turning
  <2>2. "ensure" \in Pcs /\ "begin" \in Ats /\ "ensure" \notin WorkPcs
    BY DEF Pcs, Ats, LockedPcs, WorkPcs
  <2>3. run'[c].pc = "ensure" /\ run'[c].at = "begin"
    BY ONLY <2>1, <2>2, IInv, c \in Controllers, Turns
  <2>4. WriterOK(c, run[c].req)'
    BY <2>3 DEF WriterOK, LanePcs, TopologyPcs
  <2> QED BY <1>1, <1>2, <2>1, <2>2, <2>4, QuietTurn
<1>4. CASE pc = "claim"
  <2>1. Turning(c, "intend", "begin") /\ holder' = c
    BY <1>4 DEF LaneDone, Then, Turning
  <2>2. "intend" \in Pcs /\ "begin" \in Ats /\ "intend" \notin WorkPcs
    BY DEF Pcs, Ats, LockedPcs, WorkPcs
  <2>3. run'[c].pc = "intend" /\ run'[c].at = "begin"
    BY ONLY <2>1, <2>2, IInv, c \in Controllers, Turns
  <2>4. WriterOK(c, run[c].req)'
    BY <1>1, <1>4, <2>3 DEF WriterOK, LanePcs, TopologyPcs
  <2> QED BY <1>1, <1>2, <2>1, <2>2, <2>4, QuietTurn
<1>5. CASE pc = "marker"
  <2>1. LaneEvent(c).type = "marker" /\ LaneEvent(c).step = run[c].step
    BY <1>5, LaneEvents
  <2>2. LaneEvent(c) \in Witness(m, run[c].step)
    BY <2>1 DEF Witness, Markers
  <2> QED BY <1>5, <2>2 DEF MarkerRefused
<1>6. CASE pc = "provide"
  <2>1. Raise(c)
    BY <1>6 DEF LaneDone
  <2> QED BY <2>1, QuietRaise
<1> QED BY <1>3, <1>4, <1>5, <1>6 DEF LanePcs

LEMMA LaneStagesKeeps ==
  ASSUME IInv, NEW c \in Controllers, LaneStages(c)
  PROVE  IInv'
<1>1. PICK pc \in LanePcs : run[c].pc = pc
  BY DEF LaneStages
<1>2. run[c].pc # "idle"
  BY <1>1 DEF LanePcs
<1>3. PICK m \in Requests : run[c].req = m
  BY <1>2, Holds
<1>4. UNCHANGED <<topo, sent, proved>> /\ run[c].at = "begin"
  BY DEF LaneStages
<1>5. CASE LaneRefuses(c)
  <2>1. Raise(c) /\ UNCHANGED lane
    BY <1>5 DEF LaneStages
  <2> QED BY <1>4, <2>1, QuietRaise
<1>6. CASE ~LaneRefuses(c) /\ LaneEvent(c) \in EventsOf(m)
  <2>1. LaneDone(c) /\ UNCHANGED lane /\ ~MarkerRefused(c)
    BY <1>3, <1>6 DEF LaneStages, LaneRefuses
  <2> QED BY <1>1, <1>3, <1>4, <1>6, <2>1, LaneReplays
<1>7. CASE ~LaneRefuses(c) /\ LaneEvent(c) \notin EventsOf(m)
  <2>1. /\ lane' = [lane EXCEPT ![m].cand =
                       IF @ = None THEN [event |-> LaneEvent(c), shown |-> FALSE] ELSE @]
        /\ Set(c, [run[c] EXCEPT !.at = "planned"]) /\ UNCHANGED holder
    BY <1>3, <1>7 DEF LaneStages
  <2>2. /\ Reduces(m, LaneEvent(c))
        /\ lane[m].cand # None => lane[m].cand.event = LaneEvent(c)
    BY <1>3, <1>7 DEF LaneRefuses
  <2> QED BY <1>1, <1>3, <1>4, <2>1, <2>2, LaneStagesNew
<1> QED BY <1>5, <1>6, <1>7

LEMMA LaneShowsKeeps ==
  ASSUME IInv, NEW c \in Controllers, LaneShows(c)
  PROVE  IInv'
<1>1. PICK pc \in LanePcs : run[c].pc = pc
  BY DEF LaneShows
<1>2. run[c].pc # "idle"
  BY <1>1 DEF LanePcs
<1>3. PICK m \in Requests : run[c].req = m
  BY <1>2, Holds
<1>4. /\ UNCHANGED <<topo, holder, sent, proved>> /\ run[c].at = "planned"
      /\ lane' = [lane EXCEPT ![m].cand.shown = TRUE]
      /\ Turning(c, pc, "staged")
  BY <1>1, <1>3 DEF LaneShows, Turning
<1>5. /\ LaneOK(m, lane[m], History) /\ DOMAIN lane = Requests /\ WritesLane(c, m)
  BY <1>1, <1>3, <1>4, LaneWriter
<1> DEFINE k == [lane[m].cand EXCEPT !.shown = TRUE]
           y == lane'[m]
<1>6. IsCandidate(k) /\ k.event = LaneEvent(c)
  BY <1>5 DEF WritesLane, IsCandidate
<1>7. lane' = [lane EXCEPT ![m].cand = k]
  BY <1>4, <1>5
<1>8. /\ lane' = [lane EXCEPT ![m] = y] /\ y.cand = k
      /\ y \in [slots : {lane[m].slots}, cand : {y.cand}]
  <2>1. lane[m] \in [slots : {lane[m].slots}, cand : {lane[m].cand}]
    BY <1>5 DEF LaneOK
  <2> HIDE DEF k
  <2>2. y = [lane[m] EXCEPT !.cand = k]
    BY <1>5, <1>7
  <2>3. lane' = [lane EXCEPT ![m] = y]
    BY <1>7, <2>2
  <2>4. y.slots = lane[m].slots /\ y.cand = k
    BY <2>1, <2>2
  <2>5. y \in [slots : {lane[m].slots}, cand : {y.cand}]
    BY <2>1, <2>2, <2>4
  <2> QED BY <2>3, <2>4, <2>5
<1> HIDE DEF k
<1>9. /\ Reduces(m, LaneEvent(c))
      /\ pc = "provide" => Finalized(LaneEvent(c), lane[m].slots)
  BY <1>1, <1>5 DEF WritesLane
<1> QED BY <1>1, <1>3, <1>4, <1>6, <1>8, <1>9, CandidateKeeps

LEMMA MarkerFollows ==
  ASSUME IInv, NEW c \in Controllers, run[c].pc = "marker",
         NEW m \in Requests, run[c].req = m, run[c].at # "begin"
  PROVE  /\ Len(lane[m].slots) = run[c].step + 1
         /\ Follows(m, lane[m].slots, LaneEvent(c), Len(lane[m].slots) + 1, History)
<1> DEFINE step == run[c].step
           e == LaneEvent(c)
           n == Len(lane[m].slots)
<1>1. /\ step \in Steps /\ LaneOK(m, lane[m], History) /\ Plans(m, step)
      /\ WritesLane(c, m) /\ MutationRecord(m) \in Entries(History)
  BY LaneWriter DEF LanePcs
<1>2. /\ e = Marker(step, CHOOSE d \in DigestsOf(MutationRecord(m)) : TRUE,
                    Prospective(m, step))
      /\ e.type = "marker" /\ e.step = step
  BY LaneEvents DEF LanePcs
<1>3. n = step + 1
  BY <1>1, <1>2, Reducing DEF WritesLane
<1>4. e.mutation \in Digests(History, MutationRecord(m))
  <2>1. DigestsOf(MutationRecord(m)) = Digests(History, MutationRecord(m))
    BY ReadState DEF IInv
  <2>2. Digests(History, MutationRecord(m)) # {}
    BY <1>1 DEF Digests, Entries
  <2>3. e.mutation = CHOOSE d \in DigestsOf(MutationRecord(m)) : TRUE
    BY <1>2, EventFields
  <2> QED BY <2>1, <2>2, <2>3
<1>5. e = Marker(step, e.mutation, e.command)
  <2>1. e.mutation = (CHOOSE d \in DigestsOf(MutationRecord(m)) : TRUE)
           /\ e.command = Prospective(m, step)
    BY <1>2, EventFields
  <2> QED BY <1>2, <2>1
<1>6. step = 1 \/ step = 2
  BY <1>1 DEF Steps
<1> HIDE DEF step, e, n
<1>7. /\ n + 1 <= 5 /\ n + 1 # 1 /\ n + 1 # 2 /\ n + 1 # 5
      /\ (n + 1) - 2 = step /\ (n + 1 = 4 => step = 2)
  BY <1>3, <1>6
<1>8. EventAt(n + 1, e)
  BY <1>5, <1>7 DEF EventAt
<1>9. CommandRecord(m, step) \notin Entries(History)
         /\ (step = 2 => ReceiptRecord(m, 1) \in Entries(History))
  BY <1>1 DEF Plans
<1>10. Follows(m, lane[m].slots, e, n + 1, History)
  BY <1>4, <1>7, <1>8, <1>9 DEF Follows
<1> QED BY <1>3, <1>10 DEF step, e, n

LEMMA ProvidedFollows ==
  ASSUME IInv, NEW c \in Controllers, run[c].pc = "provide",
         NEW m \in Requests, run[c].req = m, run[c].at # "begin"
  PROVE  Follows(m, lane[m].slots, LaneEvent(c), Len(lane[m].slots) + 1, History)
<1> DEFINE e == LaneEvent(c)
           s == lane[m].slots
           n == Len(s)
<1>1. /\ LaneOK(m, lane[m], History) /\ Settles(m) /\ WritesLane(c, m)
      /\ MutationRecord(m) \in Entries(History)
  BY LaneWriter DEF LanePcs
<1>2. e = Provisioned(History, run[c].token) /\ e.type = "provisioned"
  BY LaneEvents DEF LanePcs
<1>3. e.settlement = History /\ e.token = run[c].token
  BY <1>2, EventFields
<1>4. n \in 2 .. 4 /\ Finalized(e, s)
  BY <1>1, <1>2, Reducing DEF WritesLane
\* Both commands are recorded, and their witnesses are there.
<1>5. n = 4
  <2>1. SettlementsOf(m) # {} /\ InOrder(History)
    BY <1>1 DEF Settles, IInv, JournalsOK, HistoryOK
  <2>2. Answered(m) = Steps /\ 2 \in Steps
    BY <2>1, SettledConfirmed DEF IInv, Steps
  <2>3. ReceiptRecord(m, 2) \in Entries(History)
    BY <2>2, ReadState DEF IInv
  <2>4. CommandRecord(m, 2) \in Entries(History)
    BY <2>1, <2>2, <2>3 DEF InOrder
  <2>5. 2 + 2 <= n
    BY <1>1, <2>2, <2>4 DEF LaneOK, Witnessed
  <2> HIDE DEF n
  <2> QED BY <1>4, <2>5
<1>6. \E r \in RecordsOf(History, "settlement") :
         r.mutation = m.mutation /\ e.settlement \in Digests(History, r)
  <2> DEFINE k == Len(History)
             r == History[k]
  <2>1. r \in SettlementsOf(m) /\ SettlementsOf(m) # {}
    BY <1>1 DEF Settles
  <2>2. History \in Seq(Records)
    BY DEF IInv, JournalsOK, HistoryOK
  <2>3. r \in RecordsOf(History, "settlement") /\ r.mutation = m.mutation
    BY <2>1 DEF SettlementsOf
  <2>4. DOMAIN History = 1 .. k /\ k \in Nat
    BY <2>2
  <2>5. k \in DOMAIN History
    <3>1. DOMAIN History # {}
      BY <2>3 DEF RecordsOf
    <3> QED BY <2>4, <3>1
  <2>6. SubSeq(History, 1, k) = History
    BY <2>2, SubSeqFull
  <2>7. History \in Digests(History, r)
    BY <2>5, <2>6 DEF Digests
  <2> QED BY <1>3, <2>3, <2>7
<1> HIDE DEF n, e, s
<1>7. EventAt(5, e)
  BY <1>2, <1>3 DEF EventAt
<1>8. Follows(m, s, e, 5, History)
  BY <1>4, <1>6, <1>7 DEF Follows
<1>9. n + 1 = 5
  BY <1>5
<1> QED BY <1>8, <1>9 DEF n, e, s

LEMMA LaneFollows ==
  ASSUME IInv, NEW c \in Controllers, NEW pc \in LanePcs, run[c].pc = pc,
         NEW m \in Requests, run[c].req = m, run[c].at # "begin"
  PROVE  Follows(m, lane[m].slots, LaneEvent(c), Len(lane[m].slots) + 1, History)
<1>1. LaneOK(m, lane[m], History) /\ WritesLane(c, m)
  BY LaneWriter
<1>2. CASE pc = "prepare"
  <2>1. LaneEvent(c) = PrepareEvent /\ PrepareEvent.type = "prepare"
    BY <1>2, LaneEvents, EventFields
  <2>2. Len(lane[m].slots) = 0
    BY <1>1, <2>1, Reducing DEF WritesLane
  <2>3. Follows(m, lane[m].slots, PrepareEvent, 1, History)
    BY DEF Follows, EventAt
  <2>4. Len(lane[m].slots) + 1 = 1
    BY <2>2
  <2> QED BY <2>1, <2>3, <2>4
<1>3. CASE pc = "claim"
  <2>1. LaneEvent(c) = ClaimEvent /\ ClaimEvent.type = "claim"
    BY <1>3, LaneEvents, EventFields
  <2>2. Len(lane[m].slots) = 1
    BY <1>1, <2>1, Reducing DEF WritesLane
  <2>3. Follows(m, lane[m].slots, ClaimEvent, 2, History)
    BY DEF Follows, EventAt
  <2>4. Len(lane[m].slots) + 1 = 2
    BY <2>2
  <2> QED BY <2>1, <2>3, <2>4
<1>4. CASE pc = "marker"
  BY <1>4, MarkerFollows
<1>5. CASE pc = "provide"
  BY <1>5, ProvidedFollows
<1> QED BY <1>2, <1>3, <1>4, <1>5 DEF LanePcs

LEMMA LanePromotesKeeps ==
  ASSUME IInv, NEW c \in Controllers, LanePromotes(c)
  PROVE  IInv'
<1>1. PICK pc \in LanePcs : run[c].pc = pc
  BY DEF LanePromotes
<1>2. run[c].pc # "idle"
  BY <1>1 DEF LanePcs
<1>3. PICK m \in Requests : run[c].req = m
  BY <1>2, Holds
<1> DEFINE s == lane[m].slots
           e == LaneEvent(c)
           n == Len(s) + 1
           step == run[c].step
<1>4. /\ UNCHANGED <<topo, sent, proved>> /\ run[c].at = "staged" /\ LaneDone(c)
      /\ lane' = [lane EXCEPT ![m] = [slots |-> Append(@.slots, @.cand.event),
                                      cand |-> None]]
  BY <1>1, <1>3 DEF LanePromotes
<1>5. /\ step \in Steps /\ holder = c /\ pc \in LockedPcs
      /\ LaneOK(m, lane[m], History) /\ DOMAIN lane = Requests
      /\ pc = "claim" => topo # None
      /\ pc = "marker" => Plans(m, step) /\ MutationRecord(m) \in Entries(History)
      /\ lane[m].cand.event = e
  BY <1>1, <1>3, <1>4, LaneWriter DEF WritesLane
<1>6. /\ lane'[m] = [slots |-> Append(s, e), cand |-> None]
      /\ lane' = [lane EXCEPT ![m] = lane'[m]]
  BY <1>4, <1>5
<1>7. LaneOK(m, lane'[m], History)
  <2>1. Follows(m, s, e, n, History)
    BY <1>1, <1>3, <1>4, LaneFollows
  <2> HIDE DEF e
  <2> QED BY <1>5, <1>6, <2>1, LanePromoted
<1>8. Grown /\ History' = History
  BY <1>4, <1>6, <1>7, LaneGrown
<1>9. CASE pc = "prepare"
  <2>1. Turning(c, "ensure", "begin") /\ holder' = c
    BY <1>1, <1>4, <1>9 DEF LaneDone, Then, Turning
  <2>2. "ensure" \in Pcs /\ "begin" \in Ats /\ "ensure" \notin WorkPcs
    BY DEF Pcs, Ats, LockedPcs, WorkPcs
  <2>3. run'[c].pc = "ensure" /\ run'[c].at = "begin"
    BY ONLY <2>1, <2>2, IInv, c \in Controllers, Turns
  <2>4. WriterOK(c, run[c].req)'
    BY <2>3 DEF WriterOK, LanePcs, TopologyPcs
  <2> QED BY <1>1, <1>5, <1>8, <2>1, <2>2, <2>4, LockedTurn
<1>10. CASE pc = "claim"
  <2>1. Turning(c, "intend", "begin") /\ holder' = c
    BY <1>1, <1>4, <1>10 DEF LaneDone, Then, Turning
  <2>2. "intend" \in Pcs /\ "begin" \in Ats /\ "intend" \notin WorkPcs
    BY DEF Pcs, Ats, LockedPcs, WorkPcs
  <2>3. run'[c].pc = "intend" /\ run'[c].at = "begin"
    BY ONLY <2>1, <2>2, IInv, c \in Controllers, Turns
  <2>4. WriterOK(c, run[c].req)'
    BY <1>4, <1>5, <1>10, <2>3 DEF WriterOK, LanePcs, TopologyPcs
  <2> QED BY <1>1, <1>5, <1>8, <2>1, <2>2, <2>4, LockedTurn
<1>11. CASE pc = "marker"
  <2>1. Turning(c, "record", "begin") /\ holder' = c
    BY <1>1, <1>4, <1>11 DEF LaneDone, Then, Turning
  <2>2. "record" \in Pcs /\ "begin" \in Ats
    BY DEF Pcs, Ats, LockedPcs
  <2>3. run'[c].pc = "record" /\ run'[c].at = "begin" /\ Same(run[c], run'[c])
    BY ONLY <2>1, <2>2, IInv, c \in Controllers, Turns
  <2>4. run'[c].step = step /\ run'[c].req = m
    BY <1>3, <2>3 DEF Same
  <2>5. Plans(m, step)'
    BY <1>5, <1>8, <1>11, <2>4 DEF Plans
  <2>6. step + 2 \in DOMAIN lane'[m].slots /\ lane'[m].slots[step + 2].command = Prospective(m, step)'
    <3>1. Len(s) = step + 1
      BY <1>1, <1>3, <1>4, <1>11, MarkerFollows
    <3>2. e.command = Prospective(m, step)
      <4>1. e = Marker(step, CHOOSE d \in DigestsOf(MutationRecord(m)) : TRUE,
                       Prospective(m, step))
        BY <1>1, <1>3, <1>11, LaneEvents
      <4> QED BY <4>1, EventFields
    <3>3. /\ DOMAIN Append(s, e) = 1 .. (Len(s) + 1)
          /\ Append(s, e)[Len(s) + 1] = e
      <4>1. s \in Seq(Entries(s) \cup {e}) /\ e \in Entries(s) \cup {e}
        <5>1. s \in Seq(Entries(s))
          BY <1>5, Places
        <5> HIDE DEF s, e
        <5> QED BY <5>1
      <4> HIDE DEF s, e
      <4> QED BY <4>1, Appended
    <3>4. Prospective(m, step)' = Prospective(m, step)
      BY <1>8, <2>4 DEF Prospective
    <3>5. Len(s) + 1 = step + 2 /\ step + 2 \in 1 .. (step + 2)
      BY <1>5, <3>1 DEF Steps
    <3> HIDE DEF s, e, step
    <3> QED BY <1>6, <3>2, <3>3, <3>4, <3>5
  <2>7. WriterOK(c, m)'
    BY <2>3, <2>4, <2>5, <2>6 DEF WriterOK, LanePcs, TopologyPcs
  <2> QED BY <1>1, <1>3, <1>5, <1>8, <1>11, <2>1, <2>2, <2>4, <2>7, LockedTurn
<1>12. CASE pc = "provide"
  <2>1. Raise(c)
    BY <1>1, <1>4, <1>12 DEF LaneDone
  <2> QED BY <1>1, <1>5, <1>8, <2>1, LockedRaise
<1> QED BY <1>9, <1>10, <1>11, <1>12 DEF LanePcs

----------------------------------------------------------------------------
(* The commits to the topology journal.                                    *)

\* The facts a writer of the topology journal rests on.
LEMMA TopologyWriter ==
  ASSUME IInv, NEW c \in Controllers, NEW pc \in TopologyPcs, run[c].pc = pc,
         NEW m \in Requests, run[c].req = m
  PROVE  /\ run[c].step \in Steps /\ run[c].receipts \in SUBSET Receipts
         /\ holder = c /\ pc \in LockedPcs /\ LaneOK(m, lane[m], History)
         /\ HistoryOK(History) /\ topo \in Stores /\ topo # None
         /\ pc # "intend" => MutationRecord(m) \in Entries(History)
         /\ pc = "record" =>
               /\ Plans(m, run[c].step)
               /\ run[c].step + 2 \in DOMAIN lane[m].slots
               /\ lane[m].slots[run[c].step + 2].command = Prospective(m, run[c].step)
         /\ pc = "receipt" => /\ CommandRecord(m, run[c].step) \in Entries(History)
                              /\ Command(run[c]) \in proved
         /\ run[c].at # "begin" => WritesTopology(c, m)
<1>1. pc \in LockedPcs /\ pc # "idle" /\ (pc # "intend" => pc \in WorkPcs)
  BY DEF TopologyPcs, LockedPcs, WorkPcs
<1>2. /\ WriterOK(c, m) /\ holder = c /\ run[c].step \in Steps
      /\ run[c].receipts \in SUBSET Receipts
  BY <1>1, Holds
<1>3. /\ pc # "intend" => MutationRecord(m) \in Entries(History)
      /\ pc = "receipt" => /\ CommandRecord(m, run[c].step) \in Entries(History)
                           /\ Command(run[c]) \in proved
  BY <1>1, Holds DEF Knows
<1>4. topo # None
  <2>1. CASE pc = "intend"
    BY <1>2, <2>1 DEF WriterOK
  <2>2. CASE pc # "intend"
    <3>1. Entries(History) # {}
      BY <1>3, <2>2
    <3> QED BY <3>1 DEF History, Entries
  <2> QED BY <2>1, <2>2
<1> QED BY <1>1, <1>2, <1>3, <1>4 DEF WriterOK, IInv, JournalsOK

LEMMA TopologyStagesNew ==
  ASSUME IInv, NEW c \in Controllers, NEW pc \in TopologyPcs, run[c].pc = pc,
         NEW m \in Requests, run[c].req = m, run[c].at = "begin",
         UNCHANGED <<lane, holder, sent, proved>>,
         Set(c, [run[c] EXCEPT !.at = "staged"]),
         topo' = [topo EXCEPT !.cand = TopologyRecord(c)],
         Extends(History, TopologyRecord(c)),
         pc = "intend" => HeadType(m) = "claim"
  PROVE  IInv'
<1> DEFINE r == TopologyRecord(c)
<1>1. /\ run[c].step \in Steps /\ holder = c /\ pc \in LockedPcs
      /\ LaneOK(m, lane[m], History) /\ topo \in Stores /\ topo # None
      /\ pc # "intend" => MutationRecord(m) \in Entries(History)
      /\ pc = "record" =>
            /\ Plans(m, run[c].step)
            /\ run[c].step + 2 \in DOMAIN lane[m].slots
            /\ lane[m].slots[run[c].step + 2].command = Prospective(m, run[c].step)
      /\ pc = "receipt" => /\ CommandRecord(m, run[c].step) \in Entries(History)
                           /\ Command(run[c]) \in proved
  BY TopologyWriter
<1>2. HistoryOK(History) /\ r \in Records
  <2>1. HistoryOK(History)
    BY DEF IInv, JournalsOK
  <2> QED BY <2>1, Extended
<1>3. topo' \in Stores /\ topo' # None /\ topo'.slots = topo.slots /\ topo'.cand = r
  <2> HIDE DEF r
  <2>1. topo' = [topo EXCEPT !.cand = r]
    BY DEF r
  <2>2. topo' \in Stores /\ topo'.slots = topo.slots /\ topo'.cand = r
    BY <1>1, <1>2, <2>1 DEF Stores
  <2> QED BY <2>2, NoneAssumption
<1>4. History' = History
  BY <1>1, <1>3 DEF History
<1>5. Grown
  BY <1>3, <1>4 DEF Grown, IInv, JournalsOK, SentOK
<1>6. Turning(c, pc, "staged") /\ pc \in Pcs /\ "staged" \in Ats
  BY <1>1 DEF Turning, Pcs, Ats
<1>7. run'[c].pc = pc /\ run'[c].at = "staged" /\ Same(run[c], run'[c])
  BY ONLY <1>6, IInv, c \in Controllers, Turns
<1>8. run'[c].req = m /\ run'[c].step = run[c].step
  BY <1>7 DEF Same
<1>9. TopologyRecord(c)' = r
  BY <1>7 DEF TopologyRecord, Same
<1>10. pc = "intend" => 2 <= Len(lane'[m].slots)
  <2>1. HeadType(m) = "claim" <=> Len(lane[m].slots) = 2
    BY <1>1, ReadLane
  <2> DEFINE n == Len(lane'[m].slots)
  <2>2. pc = "intend" => n = 2
    BY <2>1
  <2> HIDE DEF n
  <2>3. pc = "intend" => 2 <= n
    BY <2>2
  <2> QED BY <2>3 DEF n
<1> HIDE DEF r
<1>11. WritesTopology(c, m)'
  BY <1>3, <1>4, <1>7, <1>9, <1>10 DEF WritesTopology, r
<1>12. /\ pc \notin LanePcs /\ pc # "claim" /\ pc # "marker" /\ pc # "provide"
       /\ pc # "send" /\ pc # "answer" /\ pc # "settled"
  BY DEF LanePcs, TopologyPcs
<1>13. /\ Plans(m, run[c].step)' = Plans(m, run[c].step)
       /\ Prospective(m, run[c].step)' = Prospective(m, run[c].step)
  BY <1>4, <1>8 DEF Plans, Prospective
<1>14. WriterOK(c, m)'
  BY <1>1, <1>3, <1>7, <1>8, <1>11, <1>12, <1>13 DEF WriterOK
<1>15. pc \in WorkPcs => pc # "intend"
  BY DEF WorkPcs
<1> QED BY <1>1, <1>4, <1>5, <1>6, <1>8, <1>12, <1>14, <1>15, LockedTurn

LEMMA TopologyStagesKeeps ==
  ASSUME IInv, NEW c \in Controllers, TopologyStages(c)
  PROVE  IInv'
<1>1. PICK pc \in TopologyPcs : run[c].pc = pc
  BY DEF TopologyStages
<1>2. run[c].pc # "idle"
  BY <1>1 DEF TopologyPcs
<1>3. PICK m \in Requests : run[c].req = m
  BY <1>2, Holds
<1> DEFINE r == TopologyRecord(c)
           mine == Pending /\ topo.cand = r /\ r.kind = "mutation" /\ Admits(History, r)
           refuses == \/ r.kind = "mutation" /\ (HeadType(m) # "claim" \/ ~Clean(m))
                      \/ Pending /\ ~mine
                      \/ ~Pending /\ Commit(History, r) # "publish"
                         /\ ~(r.kind = "mutation" /\ Commit(History, r) = "replay")
           replays == ~Pending /\ Commit(History, r) = "replay"
<1>4. UNCHANGED <<lane, sent, proved>> /\ run[c].at = "begin"
  BY DEF TopologyStages
<1>5. /\ r \in Records /\ (r.kind = "mutation" <=> pc = "intend")
      /\ HistoryOK(History)
  BY <1>1, <1>3, TopologyWriter, TopologyRecords
<1>6. \/ refuses /\ Raise(c) /\ UNCHANGED topo
      \/ ~refuses /\ replays /\ TopologyDone(c) /\ UNCHANGED topo
      \/ /\ ~refuses /\ ~replays /\ UNCHANGED holder
         /\ topo' = [topo EXCEPT !.cand = r]
         /\ Set(c, [run[c] EXCEPT !.at = "staged"])
  BY <1>3 DEF TopologyStages
<1> HIDE DEF r
<1>7. CASE refuses /\ Raise(c) /\ UNCHANGED topo
  BY <1>4, <1>7, QuietRaise
<1>8. CASE ~refuses /\ replays /\ TopologyDone(c) /\ UNCHANGED topo
  <2>1. r.kind = "mutation"
    BY <1>8
  <2>2. Raise(c)
    BY <1>1, <1>5, <1>8, <2>1 DEF TopologyDone
  <2> QED BY <1>4, <1>8, <2>2, QuietRaise
<1>9. CASE /\ ~refuses /\ ~replays /\ UNCHANGED holder
           /\ topo' = [topo EXCEPT !.cand = r]
           /\ Set(c, [run[c] EXCEPT !.at = "staged"])
  <2>1. Commit(History, r) = "publish" \/ (r.kind = "mutation" /\ Admits(History, r))
    BY <1>9
  <2>2. Extends(History, r)
    BY <1>5, <2>1, Publishes
  <2>3. pc = "intend" => HeadType(m) = "claim"
    BY <1>5, <1>9
  <2> HIDE DEF refuses, replays, mine
  <2> QED BY <1>1, <1>3, <1>4, <1>9, <2>2, <2>3, TopologyStagesNew DEF r
<1> QED BY <1>6, <1>7, <1>8, <1>9

\* What a record that is promoted makes of the journals.
LEMMA TopologyGrown ==
  ASSUME IInv, NEW c \in Controllers, NEW pc \in TopologyPcs, run[c].pc = pc,
         NEW m \in Requests, run[c].req = m, run[c].at = "staged",
         UNCHANGED <<lane, sent, proved>>,
         topo' = [slots |-> Append(topo.slots, topo.cand), cand |-> None]
  PROVE  /\ Grown
         /\ Entries(History') = Entries(History) \cup {TopologyRecord(c)}
         /\ TopologyRecord(c) \notin Entries(History)
<1> DEFINE r == TopologyRecord(c)
           step == run[c].step
<1>1. /\ step \in Steps /\ run[c].receipts \in SUBSET Receipts
      /\ HistoryOK(History) /\ topo \in Stores /\ topo # None
      /\ pc # "intend" => MutationRecord(m) \in Entries(History)
      /\ pc = "record" =>
            /\ step + 2 \in DOMAIN lane[m].slots
            /\ lane[m].slots[step + 2].command = Prospective(m, step)
      /\ pc = "receipt" => Command(run[c]) \in proved
      /\ WritesTopology(c, m)
  BY TopologyWriter
<1>2. /\ topo.cand = r /\ Extends(History, r)
      /\ pc = "intend" => 2 <= Len(lane[m].slots)
  BY <1>1 DEF WritesTopology
<1>3. /\ r \in Records
      /\ pc = "intend" => r = MutationRecord(m)
      /\ pc = "record" => r = CommandRecord(m, step)
      /\ pc = "receipt" => r = ReceiptRecord(m, step)
      /\ pc = "settle" => r = SettlementRecord(m, run[c].receipts)
  BY <1>1, TopologyRecords
<1> HIDE DEF r, step
<1>4. r \notin Entries(History) /\ History \in Seq(Records) /\ History = topo.slots
  BY <1>1, <1>2, Extended DEF HistoryOK, History
<1>5. topo' = [slots |-> Append(History, r), cand |-> None]
  BY <1>2, <1>4
<1>6. Append(History, r) \in Seq(Records) /\ Entries(Append(History, r)) = Entries(History) \cup {r}
  BY <1>3, <1>4, Appended
<1>7. topo' \in Stores /\ topo' # None
  <2>1. \A log \in Seq(Records) : [slots |-> log, cand |-> None] \in Stores
    BY DEF Stores
  <2> QED BY <1>5, <1>6, <2>1, NoneAssumption
<1>8. History' = Append(History, r)
  BY <1>5, <1>7 DEF History
<1>9. HistoryOK(History')
  BY <1>1, <1>2, <1>8, HistoryKept
<1>10. pc \in {"intend", "record", "receipt", "settle"}
  BY DEF TopologyPcs
<1>11. ASSUME NEW o \in Requests PROVE LaneOK(o, lane'[o], History')
  <2>1. LaneOK(o, lane[o], History)
    BY DEF IInv, JournalsOK
  <2>2. r = MutationRecord(o) => 2 <= Len(lane[o].slots)
    <3> SUFFICES ASSUME r = MutationRecord(o) PROVE 2 <= Len(lane[o].slots)
      OBVIOUS
    <3>1. r.kind = "mutation" /\ r.intent = o
      BY Fields
    <3>2. pc = "intend"
      BY <1>3, <1>10, <3>1, Fields
    <3>3. o = m
      BY <1>3, <3>1, <3>2, Fields
    <3> QED BY <1>2, <3>2, <3>3
  <2>3. ASSUME NEW t \in Steps, r = CommandRecord(o, t), MutationRecord(o) \in Entries(History)
        PROVE  /\ t + 2 \in DOMAIN lane[o].slots
               /\ lane[o].slots[t + 2].command = Append(History, r)
    <3>1. r.kind = "command" /\ r.mutation = o.mutation /\ r.step = t
      BY <2>3, Fields
    <3>2. pc = "record"
      BY <1>3, <1>10, <3>1, Fields
    <3>3. r.mutation = m.mutation /\ r.step = step
      BY <1>3, <3>2, Fields
    <3>4. MutationRecord(m) \in Entries(History)
      BY <1>1, <3>2
    <3>5. m \in Mutations(History) /\ o \in Mutations(History)
      BY <1>4, <2>3, <3>4, ReadMutations
    <3>6. o = m /\ t = step
      BY <1>1, <3>1, <3>3, <3>5 DEF HistoryOK
    <3> QED BY <1>1, <1>3, <3>2, <3>6 DEF Prospective
  <2>4. LaneOK(o, lane[o], Append(History, r))
    BY <1>1, <1>2, <2>1, <2>2, <2>3, LaneBesideHistory
  <2> QED BY <1>8, <2>4
<1>12. JournalsOK'
  BY <1>7, <1>9, <1>11 DEF JournalsOK, IInv
<1>13. ASSUME NEW o \in Requests, NEW t \in Steps, ReceiptRecord(o, t) \in Entries(History')
       PROVE  <<o.mutation, t>> \in proved
  <2>1. CASE ReceiptRecord(o, t) \in Entries(History)
    BY <2>1 DEF IInv, SentOK
  <2>2. CASE r = ReceiptRecord(o, t)
    <3>1. r.kind = "receipt" /\ r.mutation = o.mutation /\ r.step = t
      BY <2>2, Fields
    <3>2. pc = "receipt"
      BY <1>3, <1>10, <3>1, Fields
    <3>3. r.mutation = m.mutation /\ r.step = step
      BY <1>3, <3>2, Fields
    <3> QED BY <1>1, <3>1, <3>2, <3>3 DEF Command, step
  <2> QED BY <1>6, <1>8, <1>13, <2>1, <2>2
<1> QED BY <1>4, <1>6, <1>8, <1>12, <1>13 DEF Grown, r

\* The receipt of a command, and its next piece of work.
Receives(c) ==
    Set(c, [run[c] EXCEPT
              !.pc = IF run[c].step = 1 THEN "command" ELSE "settling",
              !.at = "begin", !.step = 2,
              !.receipts = @ \cup {TopologyRecord(c)}])

LEMMA ReceiptKeeps ==
  ASSUME IInv, NEW c \in Controllers, run[c].pc = "receipt",
         NEW m \in Requests, run[c].req = m, Grown, Receives(c)
  PROVE  IInv'
<1> DEFINE x == run[c]
           y == run'[c]
           pc == IF x.step = 1 THEN "command" ELSE "settling"
           more == x.receipts \cup {TopologyRecord(c)}
<1>1. /\ Moves(c)
      /\ y = [x EXCEPT !.pc = pc, !.at = "begin", !.step = 2, !.receipts = more]
  BY DEF Receives, Set, Moves, IInv, RunsOK
<1>2. /\ x \in Runs({x.token}) /\ x.step \in Steps /\ x.receipts \in SUBSET Receipts
      /\ x.req = m /\ x.pc = "receipt"
      /\ MutationRecord(m) \in Entries(History)
  BY Holds DEF Knows, WorkPcs
<1>3. more \in SUBSET Receipts
  <2>1. TopologyRecord(c) = ReceiptRecord(m, x.step)
    BY <1>2, TopologyRecords DEF TopologyPcs
  <2> QED BY <1>2, <2>1, IsRecord
<1>4. pc \in {"command", "settling"}
  OBVIOUS
<1> HIDE DEF pc, more, x, y
<1>5. y \in Runs({y.token}) /\ y.pc = pc /\ y.req = m
  <2> DEFINE u == [x EXCEPT !.pc = pc]
             v == [u EXCEPT !.at = "begin"]
             w == [v EXCEPT !.step = 2]
  <2>1. u \in Runs({x.token}) /\ u.pc = pc /\ u.req = x.req
    BY ONLY <1>2, <1>4 DEF Runs, WorkPcs
  <2>2. y = [w EXCEPT !.receipts = more]
    BY <1>1
  <2> HIDE DEF u
  <2>3. v \in Runs({x.token}) /\ v.pc = pc /\ v.req = x.req
    BY ONLY <2>1 DEF Runs
  <2> HIDE DEF v
  <2>4. w \in Runs({x.token}) /\ w.pc = pc /\ w.req = x.req
    BY ONLY <2>3 DEF Runs, Steps
  <2> HIDE DEF w
  <2>5. y \in Runs({x.token}) /\ y.pc = pc /\ y.req = x.req
    BY ONLY <1>3, <2>2, <2>4 DEF Runs
  <2>6. y.token = x.token
    BY ONLY <2>5 DEF Runs
  <2> QED BY <1>2, <2>5, <2>6
<1>6. Knows(y, Entries(History'), sent', proved')
  BY <1>2, <1>4, <1>5 DEF Knows, Grown
<1>7. y.pc \notin LockedPcs /\ y.pc # "send"
  BY <1>4, <1>5 DEF LockedPcs
<1>8. ProcessOK(c)'
  BY <1>6, <1>7 DEF ProcessOK, y
<1>9. run[c].pc \in LockedPcs
  BY DEF LockedPcs
<1> QED BY <1>1, <1>7, <1>8, <1>9, LockedStep DEF y

LEMMA TopologyPromotesKeeps ==
  ASSUME IInv, NEW c \in Controllers, TopologyPromotes(c)
  PROVE  IInv'
<1>1. PICK pc \in TopologyPcs : run[c].pc = pc
  BY DEF TopologyPromotes
<1>2. run[c].pc # "idle"
  BY <1>1 DEF TopologyPcs
<1>3. PICK m \in Requests : run[c].req = m
  BY <1>2, Holds
<1> DEFINE step == run[c].step
           r == TopologyRecord(c)
<1>4. /\ UNCHANGED <<lane, sent, proved>> /\ run[c].at = "staged" /\ TopologyDone(c)
      /\ topo' = [slots |-> Append(topo.slots, topo.cand), cand |-> None]
  BY DEF TopologyPromotes
<1>5. /\ Grown /\ Entries(History') = Entries(History) \cup {r}
      /\ r \notin Entries(History)
  BY <1>1, <1>3, <1>4, TopologyGrown
<1>6. /\ step \in Steps /\ run[c].receipts \in SUBSET Receipts /\ pc \in LockedPcs
      /\ pc # "intend" => MutationRecord(m) \in Entries(History)
  BY <1>1, <1>3, TopologyWriter
<1>7. CASE pc = "intend"
  <2>1. Raise(c)
    BY <1>1, <1>4, <1>7 DEF TopologyDone
  <2> QED BY <1>1, <1>5, <1>6, <2>1, LockedRaise
<1>8. CASE pc = "record"
  <2>1. Turning(c, "send", "begin")
    BY <1>1, <1>4, <1>8 DEF TopologyDone, Then, Turning
  <2>2. "send" \in Pcs /\ "begin" \in Ats /\ "send" \notin LockedPcs
    BY DEF Pcs, Ats, WorkPcs, LockedPcs
  <2>3. r = CommandRecord(m, step)
    BY <1>1, <1>3, <1>6, <1>8, TopologyRecords
  <2>4. Command(run[c]) = <<m.mutation, step>> /\ Command(run[c]) \in Commands
    BY <1>3, <1>6 DEF Command, Commands
  <2>5. sent[Command(run[c])] = 0
    <3>1. sent[Command(run[c])] \in 0 .. 1
      BY <2>4 DEF IInv, SentOK
    <3>2. ~(sent[Command(run[c])] > 0)
      BY <1>5, <1>6, <2>3, <2>4 DEF IInv, SentOK
    <3> QED BY <3>1, <3>2
  <2>6. ASSUME NEW d \in Controllers \ {c}, run[d].pc = "send"
        PROVE  Command(run[d]) # Command(run[c])
    <3> SUFFICES ASSUME Command(run[d]) = Command(run[c]) PROVE FALSE
      OBVIOUS
    <3>1. run[d].req.mutation = m.mutation /\ run[d].step = step
      BY <2>4 DEF Command
    <3>2. CommandRecord(run[d].req, run[d].step) \in Entries(History)
      BY <2>6, Holds DEF Knows
    <3> QED BY <1>5, <2>3, <3>1, <3>2, SameId
  <2>7. /\ MutationRecord(run[c].req) \in Entries(History')
        /\ CommandRecord(run[c].req, run[c].step) \in Entries(History')
    BY <1>3, <1>5, <1>6, <1>8, <2>3
  <2> QED BY <1>1, <1>5, <1>6, <2>1, <2>2, <2>5, <2>6, <2>7, LockedTurn
<1>9. CASE pc = "receipt"
  <2>1. Receives(c)
    BY <1>1, <1>4, <1>9 DEF TopologyDone, Receives
  <2> QED BY <1>1, <1>3, <1>5, <1>9, <2>1, ReceiptKeeps
<1>10. CASE pc = "settle"
  <2>1. Turning(c, "settled", "begin")
    BY <1>1, <1>4, <1>10 DEF TopologyDone, Then, Turning
  <2>2. "settled" \in Pcs /\ "begin" \in Ats /\ "settled" \notin LockedPcs
    BY DEF Pcs, Ats, WorkPcs, LockedPcs
  <2>3. MutationRecord(run[c].req) \in Entries(History')
    BY <1>3, <1>5, <1>6, <1>10
  <2> QED BY <1>1, <1>5, <1>6, <2>1, <2>2, <2>3, LockedTurn
<1> QED BY <1>7, <1>8, <1>9, <1>10 DEF TopologyPcs

----------------------------------------------------------------------------
(* The invariant.                                                          *)

LEMMA InitOK == Init => IInv
<1> SUFFICES ASSUME Init PROVE IInv
  OBVIOUS
<1>1. topo = None /\ History = <<>>
  BY DEF Init, History
<1>2. Entries(History) = {}
  BY <1>1 DEF Entries
<1>3. HistoryOK(History)
  <2>1. /\ \A kind : RecordsOf(History, kind) = {}
        /\ Mutations(History) = {} /\ Open(History) = {}
    BY <1>1 DEF RecordsOf, Mutations, MutationIds, Open
  <2>2. InOrder(History)
    BY <1>2, <2>1 DEF InOrder
  <2>3. History \in Seq(Records) /\ DOMAIN History = {}
    BY <1>1
  <2> QED BY <1>2, <2>1, <2>2, <2>3 DEF HistoryOK
<1>4. lane = [m \in Requests |-> [slots |-> <<>>, cand |-> None]]
  BY DEF Init
<1>5. ASSUME NEW m \in Requests PROVE LaneOK(m, lane[m], History)
  <2> DEFINE x == lane[m]
  <2>1. x = [slots |-> <<>>, cand |-> None]
    BY <1>4
  <2>2. /\ x.slots = <<>> /\ x.cand = None
        /\ x \in [slots : Seq(Entries(x.slots)), cand : {x.cand}]
    BY <2>1
  <2> HIDE DEF x
  <2>3. Len(x.slots) = 0 /\ DOMAIN x.slots = {}
    BY <2>2
  <2>4. Shape(x.slots) /\ Settlement(m, x.slots, History)
    BY <2>3 DEF Shape, Settlement
  <2>5. Witnessed(m, x.slots, History)
    BY <1>2, <2>3 DEF Witnessed
  <2> QED BY <2>2, <2>4, <2>5 DEF LaneOK, x
<1>6. JournalsOK
  BY <1>1, <1>3, <1>4, <1>5 DEF JournalsOK
<1>7. SentOK
  BY <1>2 DEF Init, SentOK, Commands
<1>8. RunsOK
  <2>1. run = [c \in Controllers |-> Idle]
    BY DEF Init
  <2>2. Idle.pc = "idle" /\ Idle \in Runs({Idle.token})
    BY DEF Idle, Runs, Steps
  <2>3. \A c \in Controllers : ProcessOK(c)
    BY <2>1, <2>2 DEF ProcessOK, Knows, LockedPcs, WorkPcs
  <2>4. OneSends
    BY <2>1, <2>2 DEF OneSends
  <2> QED BY <2>1, <2>3, <2>4 DEF RunsOK
<1> QED BY <1>6, <1>7, <1>8 DEF IInv

LEMMA GoesKeeps ==
  ASSUME IInv, NEW c \in Controllers, Goes(c)
  PROVE  IInv'
<1>1. CASE Admit(c) \/ Admitted(c)
  BY <1>1, AdmitKeeps
<1>2. CASE EnsureStore(c)
  BY <1>2, EnsureStoreKeeps
<1>3. CASE BeginCommand(c)
  BY <1>3, BeginCommandKeeps
<1>4. CASE Send(c)
  BY <1>4, SendKeeps
<1>5. CASE BeginAnswer(c)
  BY <1>5, BeginAnswerKeeps
<1>6. CASE BeginSettle(c)
  BY <1>6, BeginSettleKeeps
<1>7. CASE BeginProvisioned(c)
  BY <1>7, BeginProvisionedKeeps
<1>8. CASE LaneStages(c)
  BY <1>8, LaneStagesKeeps
<1>9. CASE LaneShows(c)
  BY <1>9, LaneShowsKeeps
<1>10. CASE LanePromotes(c)
  BY <1>10, LanePromotesKeeps
<1>11. CASE TopologyStages(c)
  BY <1>11, TopologyStagesKeeps
<1>12. CASE TopologyPromotes(c)
  BY <1>12, TopologyPromotesKeeps
<1> QED BY <1>1, <1>2, <1>3, <1>4, <1>5, <1>6, <1>7, <1>8, <1>9, <1>10, <1>11, <1>12
        DEF Goes

LEMMA StutterKeeps ==
  ASSUME IInv, UNCHANGED vars
  PROVE  IInv'
<1>1. UNCHANGED <<lane, topo, holder, run, sent, proved>>
  BY DEF vars, journals
<1>2. JournalsOK' /\ History' = History
  BY <1>1, JournalsSame DEF IInv
<1>3. SentOK' /\ OneSends'
  BY <1>1, <1>2 DEF IInv, SentOK, RunsOK, OneSends
<1>4. ASSUME NEW c \in Controllers PROVE ProcessOK(c)'
  <2>1. ProcessOK(c)
    BY DEF IInv, RunsOK
  <2>2. WriterOK(c, run[c].req) => WriterOK(c, run[c].req)'
    BY <1>1, WriterKept
  <2> QED BY <1>1, <1>2, <2>1, <2>2 DEF ProcessOK
<1> QED BY <1>1, <1>2, <1>3, <1>4 DEF IInv, RunsOK

\* Whatever the processes do and wherever they stop, the journals, what Herdr
\* was given and what each process knows go together as the invariant says.
THEOREM Invariance == Spec => []IInv
<1>1. Init => IInv
  BY InitOK
<1>2. IInv /\ [Next]_vars => IInv'
  <2> SUFFICES ASSUME IInv, [Next]_vars PROVE IInv'
    OBVIOUS
  <2>1. CASE UNCHANGED vars
    BY <2>1, StutterKeeps
  <2>2. ASSUME NEW c \in Controllers, Goes(c) \/ Busy(c) \/ Stop(c)
        PROVE  IInv'
    BY <2>2, GoesKeeps, StopKeeps
  <2>3. ASSUME NEW c \in Controllers, NEW m \in Requests,
               BeginPrepare(c, m) \/ Execute(c, m) \/ Inspect(c, m) \/ Finalize(c, m)
        PROVE  IInv'
    BY <2>3, BeginPrepareKeeps, ExecuteKeeps, InspectKeeps, FinalizeKeeps
  <2> QED BY <2>1, <2>2, <2>3 DEF Next
<1> QED BY <1>1, <1>2, PTL DEF Spec

----------------------------------------------------------------------------
(* What it says of the properties.                                         *)

LEMMA WitnessedCommand ==
  ASSUME JournalsOK, NEW r \in RecordsOf(History, "command")
  PROVE  \E m \in Mutations(History) :
            /\ m.mutation = r.mutation
            /\ {e.command : e \in Witness(m, r.step)} = DigestsOf(r)
<1>1. HistoryOK(History) /\ History \in Seq(Records)
  BY DEF JournalsOK, HistoryOK
<1>2. r \in Entries(History) /\ r.kind = "command"
  BY InKind
<1>3. r \in Records
  BY <1>1, <1>2, ElementOfSeq DEF Entries
<1>4. PICK n \in Requests, t \in Steps : r = CommandRecord(n, t)
  BY <1>2, <1>3, OfKind
<1>5. r.mutation = n.mutation /\ r.step = t
  BY <1>4, Fields
<1>6. r.mutation \in MutationIds(History)
  BY <1>1, <1>2 DEF HistoryOK, MutationOf
<1>7. PICK m \in Mutations(History) : m.mutation = r.mutation
  BY <1>6, Read
<1>8. m \in Requests /\ MutationRecord(m) \in Entries(History)
  BY <1>1, ReadMutations
<1>9. r = CommandRecord(m, t)
  BY <1>4, <1>5, <1>7, SameId
<1> DEFINE s == lane[m].slots
<1>10. LaneOK(m, lane[m], History)
  BY <1>8 DEF JournalsOK
<1>11. /\ t + 2 <= Len(s)
       /\ \A i \in DOMAIN s \cap (3 .. 4) : CommandRecord(m, i - 2) \in Entries(History)
             => Digests(History, CommandRecord(m, i - 2)) = {s[i].command}
  BY <1>2, <1>8, <1>9, <1>10 DEF LaneOK, Witnessed
<1>12. Len(s) \in 0 .. 5 /\ DOMAIN s = 1 .. Len(s)
  BY <1>10, Places
<1>13. Witness(m, t) = IF t + 2 \in DOMAIN s THEN {s[t + 2]} ELSE {}
  BY <1>10, ReadLane
<1> HIDE DEF s
<1>14. t + 2 \in DOMAIN s \cap (3 .. 4) /\ (t + 2) - 2 = t
  BY <1>11, <1>12 DEF Steps
<1>15. Digests(History, r) = {s[t + 2].command}
  BY <1>2, <1>9, <1>11, <1>14
<1>16. {e.command : e \in Witness(m, t)} = {s[t + 2].command}
  BY <1>13, <1>14
<1>17. DigestsOf(r) = Digests(History, r)
  BY <1>8, ReadState
<1> QED BY <1>5, <1>7, <1>15, <1>16, <1>17

LEMMA WitnessAhead ==
  ASSUME JournalsOK, NEW m \in Requests
  PROVE  Cardinality(Markers(m)) <= Cardinality(StepsRecorded(m)) + 1
<1> DEFINE n == Len(lane[m].slots)
<1>1. LaneOK(m, lane[m], History)
  BY DEF JournalsOK
<1>2. Cardinality(Markers(m)) = IF n <= 2 THEN 0 ELSE IF n = 3 THEN 1 ELSE 2
  BY <1>1, MarkersCounted
<1>3. n \in 0 .. 5 /\ DOMAIN lane[m].slots = 1 .. n
  BY <1>1, Places
<1>4. StepsRecorded(m) = {t \in Steps : CommandRecord(m, t) \in Entries(History)}
  BY ReadState
<1>5. IsFiniteSet(StepsRecorded(m)) /\ Cardinality(StepsRecorded(m)) \in Nat
  <2>1. IsFiniteSet(Steps)
    <3>1. 1 \in Int /\ 2 \in Int /\ Steps = 1 .. 2
      BY DEF Steps
    <3>2. IsFiniteSet(1 .. 2)
      BY ONLY <3>1, FS_Interval
    <3> QED BY <3>1, <3>2
  <2>2. IsFiniteSet(StepsRecorded(m))
    BY <1>4, <2>1, FS_Subset
  <2> QED BY <2>2, FS_CardinalityType
<1> HIDE DEF n
<1>6. CASE n <= 3
  <2>1. Cardinality(Markers(m)) \in 0 .. 1
    BY <1>2, <1>3, <1>6
  <2> QED BY <1>5, <2>1
<1>7. CASE n > 3
  <2>1. 4 \in DOMAIN lane[m].slots
    BY <1>3, <1>7
  <2>2. ReceiptRecord(m, 1) \in Entries(History) /\ InOrder(History)
    BY <1>1, <2>1 DEF LaneOK, Witnessed, JournalsOK, HistoryOK
  <2>3. 1 \in Steps
    BY DEF Steps
  <2>4. StepsRecorded(m) # {}
    BY <1>4, <2>2, <2>3 DEF InOrder
  <2>5. Cardinality(StepsRecorded(m)) # 0
    BY <1>5, <2>4, FS_EmptySet
  <2>6. Cardinality(Markers(m)) = 2
    BY <1>2, <1>3, <1>7
  <2> QED BY <1>5, <2>5, <2>6
<1> QED BY <1>3, <1>6, <1>7

\* Herdr is given a command once at most, and only one that both journals know:
\* its record stands in the topology journal, and the lane holds the one witness
\* that names exactly this record; a witness runs ahead of its record by one
\* command at most (commit_claimed_command_intent_under_lease).
THEOREM Witnessing == Spec => []CommandsAreWitnessed
<1>1. IInv => CommandsAreWitnessed
  <2> SUFFICES ASSUME IInv PROVE CommandsAreWitnessed
    OBVIOUS
  <2>1. ASSUME NEW m \in Requests, NEW step \in Steps
        PROVE  /\ sent[<<m.mutation, step>>] <= 1
               /\ sent[<<m.mutation, step>>] > 0 => step \in StepsRecorded(m)
    <3>1. <<m.mutation, step>> \in Commands
      BY DEF Commands
    <3>2. sent[<<m.mutation, step>>] \in 0 .. 1
      BY <3>1 DEF IInv, SentOK
    <3>3. sent[<<m.mutation, step>>] > 0 => step \in StepsRecorded(m)
      BY ReadState DEF IInv, SentOK
    <3> QED BY <3>2, <3>3
  <2>2. JournalsOK
    BY DEF IInv
  <2> QED BY <2>1, <2>2, WitnessedCommand, WitnessAhead DEF CommandsAreWitnessed
<1> QED BY <1>1, Invariance, PTL

\* Unless a residue bars the classification, a command Herdr was given is
\* confirmed or pending in it, one it calls confirmed was proved, and what it
\* calls complete or to be finalized is confirmed in every step
\* (_inspect_prepared_topology_reconciliation).
THEOREM RecoveryTruth == Spec => []RecoveryTellsTruth
<1>1. IInv => RecoveryTellsTruth
  <2> SUFFICES ASSUME IInv, NEW m \in Requests, Prepared(m),
                      Classify(m).detail \notin {"lane_reconciliation_required",
                                                 "topology_reconciliation_required"},
                      NEW step \in Steps
               PROVE  /\ sent[<<m.mutation, step>>] > 0 =>
                            step \in Classify(m).confirmed \cup Classify(m).pending
                      /\ step \in Classify(m).confirmed => <<m.mutation, step>> \in proved
                      /\ Classify(m).detail \in {"already_complete",
                                                 "lane_finalization_required"}
                            => step \in Classify(m).confirmed
    BY DEF RecoveryTellsTruth
  <2>1. ~Barred(m)
    BY BarredBy
  <2>2. Truthful(m)
    BY <2>1, Unbarred DEF IInv
  <2>3. sent[<<m.mutation, step>>] > 0 => step \in StepsRecorded(m)
    BY ReadState DEF IInv, SentOK
  <2>4. step \in Answered(m) => <<m.mutation, step>> \in proved
    BY ReadState DEF IInv, SentOK
  <2>5. Classify(m).detail = "lane_finalization_required" => Classify(m).confirmed = Steps
    BY <2>2, ResultFields DEF Truthful
  <2> QED BY <2>2, <2>3, <2>4, <2>5 DEF Truthful
<1> QED BY <1>1, Invariance, PTL

\* A process that stopped is taken for tampering in one place alone, between
\* the witness of the second command and its record.
THEOREM Quarantine == Spec => []QuarantineOnlyInTheGap
<1>1. IInv => QuarantineOnlyInTheGap
  <2> SUFFICES ASSUME IInv, NEW m \in Requests, Prepared(m),
                      Classify(m).status = "quarantined"
               PROVE  Witness(m, 2) # {} /\ StepsRecorded(m) = {1}
    BY DEF QuarantineOnlyInTheGap
  <2>1. ~Barred(m)
    BY BarredBy
  <2> QED BY <2>1, Unbarred DEF IInv, Truthful
<1> QED BY <1>1, Invariance, PTL

\* What a lane says of its provisioning is the settlement of the topology
\* journal, and the digest a finalization leaves there is that of the very
\* state it finalized (finalize_prepared_topology_reconciliation).
THEOREM ProvisionedInspected == Spec => []ProvisionedAsInspected
<1>1. IInv => ProvisionedAsInspected
  <2> SUFFICES ASSUME IInv, NEW m \in Requests, NEW i \in DOMAIN lane[m].slots,
                      lane[m].slots[i].type = "provisioned"
               PROVE  LET e == lane[m].slots[i] IN
                      /\ \E s \in SettlementsOf(m) : e.settlement \in DigestsOf(s)
                      /\ e.token # None =>
                            e.token = <<Result("reconciliation_required",
                                               "lane_finalization_required", Steps, {}),
                                        SubSeq(lane[m].slots, 1, i - 1), e.settlement>>
    BY DEF ProvisionedAsInspected
  <2> DEFINE s == lane[m].slots
  <2>1. LaneOK(m, lane[m], History)
    BY DEF IInv, JournalsOK
  <2>2. /\ Len(s) \in 0 .. 5 /\ DOMAIN s = 1 .. Len(s)
        /\ \A k \in 1 .. Len(s) :
              s[k].type = CASE k = 1 -> "prepare" [] k = 2 -> "claim"
                            [] k \in 3 .. 4 -> "marker" [] k = 5 -> "provisioned"
    BY <2>1, Places
  <2>3. Settlement(m, s, History)
    BY <2>1 DEF LaneOK
  <2>4. \A r : DigestsOf(r) = Digests(History, r)
    BY ReadState DEF IInv
  <2> HIDE DEF s
  <2>5. i = 5 /\ i - 1 = 4
    BY <2>2 DEF s
  <2>6. \E r \in SettlementsOf(m) : s[5].settlement \in DigestsOf(r)
    BY <2>3, <2>4, <2>5 DEF Settlement, SettlementsOf, s
  <2>7. Finalized(s[5], SubSeq(s, 1, 4))
    BY <2>3, <2>5 DEF Settlement, s
  <2> QED BY <2>5, <2>6, <2>7 DEF Finalized, s
<1> QED BY <1>1, Invariance, PTL

=============================================================================
