------------------------- MODULE PolicyLedgerProofs -------------------------
(***************************************************************************)
(* Proofs about PolicyLedger, for every choice of its constants.           *)
(*                                                                         *)
(* The inductive invariant is IInv. The three directories are synced apart *)
(* from each other, so a power loss may leave any of their values together: *)
(* IInv says of every chain of records that may be left, with every head   *)
(* that may be left, that it is whole and extends the head, or is torn     *)
(* (ChainsOK). What keeps it so is the order of the syncs: a head names a  *)
(* chain only once the chain is durable (HeadIsSynced), and every step     *)
(* after that of the object runs on a durable chain (WriterOK).            *)
(***************************************************************************)
EXTENDS PolicyLedger, SequenceTheorems, TLAPS

Objects == [chain : Heads, torn : BOOLEAN]

Typed ==
    /\ objects \in objectsDisk /\ objectsDisk \subseteq Objects
    /\ active \in activeDisk /\ activeDisk \subseteq Heads
    /\ acked \subseteq Requests

\* The record that is torn is the last one; a staged head has a record.
LastOK ==
    /\ \A o \in objectsDisk : o.torn => o.chain # <<>>
    /\ stage \in stageDisk /\ \A s \in stageDisk : s # None => s.head # <<>>

ChainsOK ==
    \A o \in objectsDisk :
        o.torn \/ /\ IdentitiesHold(o.chain)
                  /\ \A a \in activeDisk : IsPrefix(a, o.chain)

HeadIsSynced ==
    ~objects.torn /\ active = objects.chain => objectsDisk = {objects}

\* What an append has checked before it writes.
Appendable(r) ==
    /\ r \notin Records /\ ~Conflicts(r)
    /\ Kind[r] = "settlement" => IsAdmitted(r)

Pcs == {"object", "sync_object", "stage", "sync_stage", "sync_pending",
        "rename", "sync_active", "unlink_stale", "sync_staging"}

WriterOK ==
    writer # None =>
        /\ writer \in [pc : Pcs, request : Requests] /\ ~objects.torn
        /\ writer.pc = "object" =>
               /\ active = objects.chain
               /\ Appendable(writer.request)
        /\ writer.pc # "object" => writer.request \in Records
        /\ writer.pc \notin {"object", "sync_object", "sync_pending"} =>
               objectsDisk = {objects}

IInv ==
    /\ Typed /\ LastOK /\ ChainsOK /\ HeadIsSynced /\ WriterOK
    /\ RecordedStays
----------------------------------------------------------------------------
(* Chains.                                                                 *)

LEMMA Appended ==
  ASSUME NEW c \in Heads, NEW r \in Requests
  PROVE  /\ Append(c, r) \in Heads
         /\ Len(c) \in Nat /\ DOMAIN c = 1 .. Len(c)
         /\ Len(Append(c, r)) = Len(c) + 1
         /\ DOMAIN Append(c, r) = 1 .. Len(c) + 1
         /\ \A i \in 1 .. Len(c) : Append(c, r)[i] = c[i]
         /\ Append(c, r)[Len(c) + 1] = r
         /\ Append(c, r) # <<>> /\ Append(c, r) # c
<1>1. c \in Seq(Requests)
  BY DEF Heads
<1>2. Append(c, r) \in Seq(Requests) /\ Len(Append(c, r)) = Len(c) + 1
  BY <1>1
<1>3. Append(c, r) # <<>> /\ Append(c, r) # c
  BY <1>1, <1>2
<1> QED BY <1>1, <1>2, <1>3 DEF Heads

LEMMA FrontOfAppend ==
  ASSUME NEW c \in Heads, NEW r \in Requests
  PROVE  Front(Append(c, r)) = c
<1>1. c \in Seq(Requests) /\ Append(c, r) \in Seq(Requests)
  BY DEF Heads
<1>2. Len(Append(c, r)) - 1 = Len(c)
  BY <1>1
<1>3. SubSeq(Append(c, r), 1, Len(c)) \in Seq(Requests)
  BY <1>1
<1>4. Len(SubSeq(Append(c, r), 1, Len(c))) = Len(c)
  BY <1>1
<1>5. \A i \in 1 .. Len(c) : SubSeq(Append(c, r), 1, Len(c))[i] = c[i]
  BY <1>1
<1>6. SubSeq(Append(c, r), 1, Len(c)) = c
  BY <1>1, <1>3, <1>4, <1>5, SeqEqual
<1> QED BY <1>2, <1>6 DEF Front

LEMMA PrefixByElement ==
  ASSUME NEW a \in Heads, NEW c \in Heads
  PROVE  IsPrefix(a, c) <=> /\ Len(a) <= Len(c)
                            /\ \A i \in 1 .. Len(a) : a[i] = c[i]
<1>1. a \in Seq(Requests) /\ c \in Seq(Requests)
  BY DEF Heads
<1>2. CASE Len(a) <= Len(c)
  <2> DEFINE u == SubSeq(a, 1, Len(a))
             v == SubSeq(c, 1, Len(a))
  <2>1. u \in Seq(Requests) /\ Len(u) = Len(a)
        /\ \A i \in 1 .. Len(a) : u[i] = a[i]
    BY <1>1, <1>2
  <2>2. v \in Seq(Requests) /\ Len(v) = Len(a)
        /\ \A i \in 1 .. Len(a) : v[i] = c[i]
    BY <1>1, <1>2
  <2> HIDE DEF u, v
  <2>3. u = v <=> \A i \in 1 .. Len(a) : a[i] = c[i]
    BY <2>1, <2>2, SeqEqual
  <2> QED BY <1>2, <2>3 DEF IsPrefix, u, v
<1>3. CASE ~(Len(a) <= Len(c))
  BY <1>3 DEF IsPrefix
<1> QED BY <1>2, <1>3

LEMMA PrefixSelf ==
  ASSUME NEW c \in Heads
  PROVE  IsPrefix(c, c)
<1>1. Len(c) \in Nat
  BY DEF Heads
<1> QED BY <1>1, PrefixByElement

LEMMA PrefixOfAppend ==
  ASSUME NEW a \in Heads, NEW c \in Heads, NEW r \in Requests, IsPrefix(a, c)
  PROVE  IsPrefix(a, Append(c, r))
<1>1. Len(a) <= Len(c) /\ \A i \in 1 .. Len(a) : a[i] = c[i]
  BY PrefixByElement
<1>2. Len(a) \in Nat
  BY DEF Heads
<1>3. /\ Append(c, r) \in Heads /\ Len(c) \in Nat
      /\ Len(Append(c, r)) = Len(c) + 1
      /\ \A i \in 1 .. Len(c) : Append(c, r)[i] = c[i]
  BY Appended
<1>4. \A i \in 1 .. Len(a) : a[i] = Append(c, r)[i]
  BY <1>1, <1>2, <1>3
<1> DEFINE d == Append(c, r)
<1>5. d \in Heads /\ Len(a) <= Len(d) /\ \A i \in 1 .. Len(a) : a[i] = d[i]
  BY <1>1, <1>2, <1>3, <1>4
<1> HIDE DEF d
<1>6. IsPrefix(a, d)
  BY <1>5, PrefixByElement
<1> QED BY <1>6 DEF d

\* A head as long as the chain it is a prefix of names all of it.
LEMMA PrefixOfEqualLength ==
  ASSUME NEW a \in Heads, NEW c \in Heads, IsPrefix(a, c), Len(c) = Len(a)
  PROVE  a = c
<1>1. \A i \in 1 .. Len(a) : a[i] = c[i]
  BY PrefixByElement
<1>2. a \in Seq(Requests) /\ c \in Seq(Requests)
  BY DEF Heads
<1> QED BY <1>1, <1>2, SeqEqual

\* The identities of a chain hold with one more record that may be appended.
LEMMA AppendKeepsIdentities ==
  ASSUME NEW r \in Requests, objects.chain \in Heads,
         IdentitiesHold(objects.chain), Appendable(r)
  PROVE  IdentitiesHold(Append(objects.chain, r))
<1> DEFINE c == objects.chain
           d == Append(c, r)
           n == Len(c)
<1>1. /\ n \in Nat /\ DOMAIN c = 1 .. n
      /\ DOMAIN d = 1 .. n + 1
      /\ \A i \in 1 .. n : d[i] = c[i]
      /\ d[n + 1] = r
  BY Appended
<1>2. \A i \in 1 .. n :
          /\ Owner[c[i]] # Owner[r]
          /\ Consumes[r] = None \/ Consumes[c[i]] # Consumes[r]
  <2> TAKE i \in 1 .. n
  <2>1. c[i] \in Records
    BY <1>1 DEF Records
  <2>2. c[i] \in Records \ {r}
    BY <2>1 DEF Appendable
  <2> QED BY <2>2 DEF Appendable, Conflicts
<1>3. Kind[r] = "settlement" =>
          \E j \in 1 .. n : /\ Kind[c[j]] = "access"
                            /\ Owner[c[j]] = Consumes[r]
  BY <1>1 DEF Appendable, IsAdmitted, Records
<1>4. /\ \A i, j \in 1 .. n : i # j =>
            /\ Owner[c[i]] # Owner[c[j]]
            /\ Consumes[c[i]] = None \/ Consumes[c[i]] # Consumes[c[j]]
      /\ \A i \in 1 .. n : Kind[c[i]] = "settlement" =>
            \E j \in 1 .. i - 1 : /\ Kind[c[j]] = "access"
                                  /\ Owner[c[j]] = Consumes[c[i]]
  BY <1>1 DEF IdentitiesHold
<1> HIDE DEF c, d, n
<1>5. ASSUME NEW i \in 1 .. n + 1, NEW j \in 1 .. n + 1, i # j
      PROVE  /\ Owner[d[i]] # Owner[d[j]]
             /\ Consumes[d[i]] = None \/ Consumes[d[i]] # Consumes[d[j]]
  <2>1. CASE i \in 1 .. n /\ j \in 1 .. n
    BY <1>1, <1>4, <1>5, <2>1
  <2>2. CASE i = n + 1
    <3>1. j \in 1 .. n
      BY <1>1, <1>5, <2>2
    <3> QED BY <1>1, <1>2, <2>2, <3>1
  <2>3. CASE j = n + 1
    <3>1. i \in 1 .. n
      BY <1>1, <1>5, <2>3
    <3>2. /\ Owner[d[i]] # Owner[d[j]]
          /\ Consumes[r] = None \/ Consumes[d[i]] # Consumes[d[j]]
      BY <1>1, <1>2, <2>3, <3>1
    <3> QED BY <1>1, <2>3, <3>2
  <2> QED BY <1>1, <2>1, <2>2, <2>3
<1>6. ASSUME NEW i \in 1 .. n + 1, Kind[d[i]] = "settlement"
      PROVE  \E j \in 1 .. i - 1 : /\ Kind[d[j]] = "access"
                                   /\ Owner[d[j]] = Consumes[d[i]]
  <2>1. CASE i \in 1 .. n
    <3>1. PICK j \in 1 .. i - 1 : /\ Kind[c[j]] = "access"
                                  /\ Owner[c[j]] = Consumes[c[i]]
      BY <1>1, <1>4, <1>6, <2>1
    <3>2. j \in 1 .. n
      BY <1>1, <2>1
    <3>3. d[j] = c[j] /\ d[i] = c[i]
      BY <1>1, <2>1, <3>2
    <3> QED BY <3>1, <3>3
  <2>2. CASE i = n + 1
    <3>1. PICK j \in 1 .. n : /\ Kind[c[j]] = "access"
                              /\ Owner[c[j]] = Consumes[r]
      BY <1>1, <1>3, <1>6, <2>2
    <3>2. j \in 1 .. i - 1 /\ d[j] = c[j] /\ d[i] = r
      BY <1>1, <2>2, <3>1
    <3> QED BY <3>1, <3>2
  <2> QED BY <1>1, <2>1, <2>2
<1>7. IdentitiesHold(d)
  BY <1>1, <1>5, <1>6 DEF IdentitiesHold
<1> QED BY <1>7 DEF d, c
----------------------------------------------------------------------------
(* Calls that write no file.                                               *)

\* What the status of a ledger tells about its chain and head.
LEMMA StatusTells ==
  ASSUME IInv
  PROVE  /\ Status # "quarantined" => ~objects.torn
         /\ Status = "active" => active = objects.chain /\ stage = None
         /\ Status = "stale" => active = objects.chain
         /\ Status \in Recoverable => objects.chain # <<>>
<1> DEFINE c == objects.chain
           ahead == Len(c) - Len(active)
           bad == objects.torn \/ ~IdentitiesHold(c) \/ ~IsPrefix(active, c)
<1>1. c \in Heads /\ active \in Heads /\ c \in Seq(Requests)
      /\ Len(c) \in Nat /\ Len(active) \in Nat
  BY DEF IInv, Typed, Objects, Heads
<1>2. Status # "quarantined" => ~bad
  BY DEF Status, Classify
<1> DEFINE far == ahead > 1 \/ (stage # None /\ stage.head # c)
           near == IF stage.torn THEN "quarantined"
                   ELSE IF ahead = 0 THEN "stale" ELSE "pending"
<1>3. ASSUME ~bad
      PROVE  /\ Status = "active" => ahead = 0 /\ stage = None
             /\ Status = "stale" => ahead = 0 /\ stage # None /\ stage.head = c
             /\ Status \in {"pending", "orphaned"} => ahead = 1
  <2>1. Status = CASE ahead = 0 /\ stage = None -> "active"
                   [] ahead = 1 /\ stage = None -> "orphaned"
                   [] far -> "unknown"
                   [] OTHER -> near
    BY <1>3 DEF Status, Classify
  <2>2. Len(active) <= Len(c)
    BY <1>1, <1>3, PrefixByElement
  <2>3. ahead \in Nat
    BY <1>1, <2>2
  <2> DEFINE n == ahead
  <2> HIDE DEF bad, c
  <2>4. CASE stage = None
    BY <2>1, <2>3, <2>4
  <2>5. CASE stage # None /\ far
    BY <2>1, <2>3, <2>5
  <2>6. CASE stage # None /\ ~far
    BY <2>1, <2>3, <2>6
  <2> QED BY <2>4, <2>5, <2>6
<1> HIDE DEF c, bad
<1>4. ASSUME ~bad, ahead = 0
      PROVE  active = c
  BY <1>1, <1>4, PrefixOfEqualLength DEF bad, c
<1>5. Status = "active" => active = c /\ stage = None
  BY <1>2, <1>3, <1>4
<1>6. Status = "stale" => active = c
  BY <1>2, <1>3, <1>4
<1>7. Status \in Recoverable => c # <<>>
  <2>1. CASE Status = "stale"
    BY <1>2, <1>3, <2>1 DEF IInv, LastOK
  <2>2. CASE Status \in {"pending", "orphaned"}
    <3>1. Len(c) - Len(active) = 1
      BY <1>2, <1>3, <2>2
    <3>2. Len(c) # 0
      BY <1>1, <3>1
    <3> QED BY <3>2, EmptySeq, LenProperties
  <2> QED BY <2>1, <2>2 DEF Recoverable
<1> QED BY <1>2, <1>5, <1>6, <1>7 DEF bad, c

LEMMA FilesKept ==
  ASSUME IInv, UNCHANGED files, WriterOK', acked' \subseteq Requests,
         RecordedStays'
  PROVE  IInv'
<1>1. Typed' /\ LastOK' /\ ChainsOK' /\ HeadIsSynced'
  BY DEF files, IInv, Typed, LastOK, ChainsOK, HeadIsSynced
<1> QED BY <1>1 DEF IInv

\* The records of a chain that did not change are the same, and so is what
\* they admit and what conflicts with them.
LEMMA SameRecords ==
  ASSUME UNCHANGED objects
  PROVE  Records' = Records /\ \A r \in Requests : Appendable(r)' <=> Appendable(r)
BY DEF Records, Appendable, Conflicts, IsAdmitted

LEMMA SameWriter == IInv /\ UNCHANGED <<files, writer>> => WriterOK'
<1> SUFFICES ASSUME IInv, UNCHANGED <<files, writer>> PROVE WriterOK'
  OBVIOUS
<1>1. UNCHANGED <<objects, active, objectsDisk>>
  BY DEF files
<1> QED BY <1>1, SameRecords DEF IInv, WriterOK

LEMMA NoWriter == writer' = None => WriterOK'
BY DEF WriterOK

LEMMA RefuseStep ==
  ASSUME NEW answer
  PROVE  IInv /\ Refuse(answer) => IInv'
<1> SUFFICES ASSUME IInv, Refuse(answer) PROVE IInv'
  OBVIOUS
<1>1. UNCHANGED files /\ WriterOK'
  BY SameWriter DEF Refuse
<1>2. acked' \subseteq Requests /\ RecordedStays'
  BY DEF Refuse, IInv, Typed, RecordedStays, files
<1> QED BY <1>1, <1>2, FilesKept

\* A record that is there, on a chain that is durable, may be reported.
LEMMA AckRecorded ==
  ASSUME IInv, NEW r \in Records, r \in Requests, ~objects.torn,
         objectsDisk = {objects}, UNCHANGED <<objects, objectsDisk>>,
         acked' = acked \cup {r}
  PROVE  acked' \subseteq Requests /\ RecordedStays'
<1>1. acked' \subseteq Requests
  BY DEF IInv, Typed
<1>2. \A q \in acked' : q \in ToSet(objects.chain)
  BY DEF IInv, RecordedStays, Records, ToSet
<1> QED BY <1>1, <1>2 DEF RecordedStays

LEMMA ReplayStep ==
  ASSUME NEW r \in Requests
  PROVE  IInv /\ Replay(r) => IInv'
<1> SUFFICES ASSUME IInv, Replay(r) PROVE IInv'
  OBVIOUS
<1>1. Status = "active" /\ r \in Records /\ UNCHANGED <<files, writer>>
      /\ acked' = acked \cup {r}
  BY DEF Replay, Ack
<1>2. ~objects.torn /\ active = objects.chain
  BY <1>1, StatusTells
<1>3. objectsDisk = {objects}
  BY <1>2 DEF IInv, HeadIsSynced
<1>4. acked' \subseteq Requests /\ RecordedStays'
  BY <1>1, <1>2, <1>3, AckRecorded DEF files
<1> QED BY <1>1, <1>4, SameWriter, FilesKept

\* A call that goes on reports nothing yet.
LEMMA ProceedKeeps ==
  ASSUME IInv, NEW r, NEW pc, Proceed(r, pc), WriterOK'
  PROVE  IInv'
<1>1. UNCHANGED files /\ acked' \subseteq Requests /\ RecordedStays'
  BY DEF Proceed, IInv, Typed, RecordedStays, files
<1> QED BY <1>1, FilesKept

LEMMA AppendStep ==
  ASSUME NEW r \in Requests
  PROVE  IInv /\ AppendRecord(r) => IInv'
<1> SUFFICES ASSUME IInv, AppendRecord(r) PROVE IInv'
  OBVIOUS
<1>1. Status = "active" /\ Appendable(r) /\ Proceed(r, "object")
  BY DEF AppendRecord, Appendable
<1>2. ~objects.torn /\ active = objects.chain
  BY <1>1, StatusTells
<1>3. /\ writer'.pc = "object" /\ writer'.request = r
      /\ writer' \in [pc : Pcs, request : Requests]
      /\ UNCHANGED <<objects, active, objectsDisk>>
  BY <1>1 DEF Proceed, files, Pcs
<1>4. Appendable(r)'
  BY <1>1, <1>3, SameRecords
<1>5. WriterOK'
  BY <1>2, <1>3, <1>4 DEF WriterOK
<1> QED BY <1>1, <1>5, ProceedKeeps

LEMMA RecoverStep ==
  ASSUME NEW r \in Requests
  PROVE  IInv /\ Recover(r) => IInv'
<1> SUFFICES ASSUME IInv, Recover(r) PROVE IInv'
  OBVIOUS
<1>1. /\ Status \in Recoverable /\ r = Last(objects.chain)
      /\ Proceed(r, RecoveryStep)
  BY DEF Recover, ResidueOf
<1>2. ~objects.torn /\ objects.chain # <<>>
  BY <1>1, StatusTells DEF Recoverable
<1>3. /\ RecoveryStep \in {"sync_pending", "sync_object", "unlink_stale"}
      /\ RecoveryStep = "unlink_stale" => Status = "stale"
  BY <1>1 DEF Recoverable, RecoveryStep
<1>4. RecoveryStep = "unlink_stale" => objectsDisk = {objects}
  BY <1>2, <1>3, StatusTells DEF IInv, HeadIsSynced
<1>5. r \in Records
  <2>1. objects.chain \in Seq(Requests)
    BY DEF IInv, Typed, Objects, Heads
  <2>2. Len(objects.chain) \in DOMAIN objects.chain
    BY <1>2, <2>1, EmptySeq, LenProperties
  <2> QED BY <1>1, <2>2 DEF Last, Records
<1>6. /\ writer'.pc = RecoveryStep /\ writer'.request = r
      /\ writer' \in [pc : Pcs, request : Requests]
      /\ UNCHANGED <<objects, active, objectsDisk>>
  BY <1>1, <1>3 DEF Proceed, files, Pcs
<1>7. WriterOK'
  BY <1>2, <1>3, <1>4, <1>5, <1>6, SameRecords DEF WriterOK
<1> QED BY <1>1, <1>7, ProceedKeeps
----------------------------------------------------------------------------
(* The file operations of the call that holds the lock.                    *)

LEMMA WriterTells ==
  ASSUME IInv, NEW pc, At(pc)
  PROVE  /\ writer \in [pc : Pcs, request : Requests] /\ writer.pc = pc
         /\ writer # None /\ ~objects.torn
         /\ objects.chain \in Heads /\ active \in Heads
         /\ pc # "object" => writer.request \in Records /\ objects.chain # <<>>
<1>1. /\ writer \in [pc : Pcs, request : Requests] /\ writer.pc = pc
      /\ writer # None /\ ~objects.torn
      /\ objects.chain \in Heads /\ active \in Heads
      /\ pc # "object" => writer.request \in Records
  BY DEF At, IInv, WriterOK, Typed, Objects
<1>2. writer.request \in Records => objects.chain # <<>>
  BY DEF Records
<1> QED BY <1>1, <1>2

LEMMA WriterGoes ==
  ASSUME IInv, NEW at, At(at), at # "object",
         NEW pc \in Pcs, pc # "object", GoTo(pc),
         UNCHANGED objects, pc = "sync_pending" \/ objectsDisk' = {objects}
  PROVE  WriterOK'
<1>1. /\ writer \in [pc : Pcs, request : Requests] /\ ~objects.torn
      /\ writer.request \in Records
  BY WriterTells
<1>2. /\ writer' \in [pc : Pcs, request : Requests]
      /\ writer'.pc = pc /\ writer'.request = writer.request
  BY <1>1 DEF GoTo
<1> QED BY <1>1, <1>2, SameRecords DEF WriterOK

\* The stages that may be left name a chain.
StagesOK ==
    stage \in stageDisk /\ \A s \in stageDisk : s # None => s.head # <<>>

\* What holds of the files holds when fewer of their values are left and one
\* chain only.
LEMMA FilesSettle ==
  ASSUME IInv, objects' \in objectsDisk, objectsDisk' = {objects'},
         active' \in activeDisk', activeDisk' \subseteq activeDisk,
         StagesOK', UNCHANGED acked
  PROVE  Typed' /\ LastOK' /\ ChainsOK' /\ HeadIsSynced' /\ RecordedStays'
<1>1. Typed' /\ HeadIsSynced'
  BY DEF IInv, Typed, HeadIsSynced
<1>2. LastOK'
  BY DEF IInv, LastOK, StagesOK
<1>3. ChainsOK'
  BY DEF IInv, ChainsOK
<1>4. RecordedStays'
  BY DEF IInv, RecordedStays
<1> QED BY <1>1, <1>2, <1>3, <1>4

\* A record is written: whole or torn, it may be left or not.
LEMMA ObjectWritten ==
  ASSUME IInv, At("object"), objects' \in {Object(TRUE), Object(FALSE)},
         objects' \in objectsDisk',
         objectsDisk' \subseteq objectsDisk \cup {Object(TRUE), Object(FALSE)},
         UNCHANGED <<stage, active, stageDisk, activeDisk, acked>>
  PROVE  /\ Typed' /\ LastOK' /\ ChainsOK' /\ HeadIsSynced' /\ RecordedStays'
         /\ objects'.chain = Append(objects.chain, writer.request)
         /\ writer.request \in Records'
<1> DEFINE c == objects.chain
           r == writer.request
           d == Append(c, r)
<1>1. /\ r \in Requests /\ c \in Heads /\ ~objects.torn /\ active = c
      /\ Appendable(r)
  BY WriterTells DEF At, IInv, WriterOK
<1>2. objectsDisk = {objects}
  BY <1>1 DEF IInv, HeadIsSynced
<1>3. /\ d \in Heads /\ d # <<>> /\ d # c
      /\ Len(c) \in Nat /\ DOMAIN c = 1 .. Len(c) /\ DOMAIN d = 1 .. Len(c) + 1
      /\ \A i \in 1 .. Len(c) : d[i] = c[i]
      /\ d[Len(c) + 1] = r
  BY <1>1, Appended
<1>4. Front(d) = c
  BY <1>1, FrontOfAppend
<1>5. IdentitiesHold(c) /\ \A a \in activeDisk : IsPrefix(a, c) /\ a \in Heads
  BY <1>1, <1>2 DEF IInv, ChainsOK, Typed
<1>6. IdentitiesHold(d)
  BY <1>1, <1>5, AppendKeepsIdentities
<1>7. \A a \in activeDisk : IsPrefix(a, d)
  BY <1>1, <1>5, PrefixOfAppend
<1>8. \A q \in acked : q \in ToSet(c)
  BY <1>1, <1>2 DEF IInv, RecordedStays
<1>9. \A q \in ToSet(c) : q \in ToSet(d)
  BY <1>3 DEF ToSet
<1>10. objects'.chain = d
  BY DEF Object
<1> HIDE DEF c, r, d
<1>11. ASSUME NEW o \in objectsDisk'
       PROVE  \/ o = objects
              \/ o = [chain |-> d, torn |-> TRUE]
              \/ o = [chain |-> d, torn |-> FALSE]
  BY <1>2 DEF Object, d, c, r
<1>13. Typed'
  <2>1. /\ [chain |-> d, torn |-> TRUE] \in Objects
        /\ [chain |-> d, torn |-> FALSE] \in Objects
    BY <1>3 DEF Objects
  <2>2. objects \in Objects
    BY DEF IInv, Typed
  <2>3. objectsDisk' \subseteq Objects
    BY <1>11, <2>1, <2>2
  <2> QED BY <2>3 DEF IInv, Typed
<1>14. LastOK'
  <2>1. ASSUME NEW o \in objectsDisk', o.torn
        PROVE  o.chain # <<>>
    BY <1>1, <1>3, <1>11, <2>1
  <2> QED BY <2>1 DEF IInv, LastOK
<1>15. ChainsOK'
  <2>1. ASSUME NEW o \in objectsDisk', ~o.torn
        PROVE  o.chain = c \/ o.chain = d
    BY <1>11, <2>1 DEF c
  <2> QED BY <1>5, <1>6, <1>7, <2>1 DEF ChainsOK
<1>16. HeadIsSynced'
  BY <1>1, <1>3, <1>10 DEF HeadIsSynced
<1>17. RecordedStays'
  <2>1. ASSUME NEW o \in objectsDisk'
        PROVE  \/ ~o.torn /\ o.chain = c
               \/ ~o.torn /\ o.chain = d
               \/ o.torn /\ o.chain = d
    BY <1>1, <1>11 DEF c
  <2>2. \A q \in acked' : \A o \in objectsDisk' :
            q \in ToSet(IF o.torn THEN Front(o.chain) ELSE o.chain)
    BY <1>4, <1>8, <1>9, <2>1
  <2> QED BY <2>2 DEF RecordedStays
<1>18. r \in Records'
  BY <1>3, <1>10 DEF Records
<1> QED BY <1>10, <1>13, <1>14, <1>15, <1>16, <1>17, <1>18 DEF c, d, r

LEMMA WriteObjectStep == IInv /\ WriteObject => IInv'
<1> SUFFICES ASSUME IInv, WriteObject PROVE IInv'
  OBVIOUS
<1>1. /\ At("object") /\ objects' = Object(FALSE)
      /\ objectsDisk' = objectsDisk \cup {Object(FALSE)}
      /\ UNCHANGED <<stage, active, stageDisk, activeDisk, acked>>
      /\ GoTo("sync_object")
  BY DEF WriteObject, Quiet
<1>2. /\ Typed' /\ LastOK' /\ ChainsOK' /\ HeadIsSynced' /\ RecordedStays'
      /\ writer.request \in Records'
  BY <1>1, ObjectWritten
<1>3. writer \in [pc : Pcs, request : Requests]
  BY <1>1, WriterTells
<1>4. /\ writer' \in [pc : Pcs, request : Requests]
      /\ writer'.pc = "sync_object" /\ writer'.request = writer.request
  BY <1>1, <1>3 DEF GoTo, Pcs
<1>5. ~objects'.torn
  BY <1>1 DEF Object
<1>6. WriterOK'
  BY <1>2, <1>4, <1>5 DEF WriterOK
<1> QED BY <1>2, <1>6 DEF IInv

LEMMA SyncObjectStep == IInv /\ (SyncObject \/ SyncPending) => IInv'
<1> SUFFICES ASSUME IInv, SyncObject \/ SyncPending PROVE IInv'
  OBVIOUS
<1>1. PICK pc \in {"sync_object", "sync_pending"} :
          At(pc) /\ (GoTo("stage") \/ GoTo("rename"))
  BY DEF SyncObject, SyncPending
<1>2. /\ UNCHANGED <<objects, stage, active, activeDisk, acked>>
      /\ objectsDisk' = {objects}
      /\ stageDisk' = stageDisk \/ stageDisk' = {stage}
  BY DEF SyncObject, SyncPending, Quiet
<1>3. StagesOK'
  BY <1>2 DEF StagesOK, IInv, LastOK
<1>4. objects \in objectsDisk /\ active \in activeDisk
  BY DEF IInv, Typed
<1>5. Typed' /\ LastOK' /\ ChainsOK' /\ HeadIsSynced' /\ RecordedStays'
  BY <1>2, <1>3, <1>4, FilesSettle
<1>6. CASE GoTo("stage")
  <2>1. WriterOK'
    BY <1>1, <1>2, <1>6, WriterGoes DEF Pcs
  <2> QED BY <1>5, <2>1 DEF IInv
<1>7. CASE GoTo("rename")
  <2>1. WriterOK'
    BY <1>1, <1>2, <1>7, WriterGoes DEF Pcs
  <2> QED BY <1>5, <2>1 DEF IInv
<1> QED BY <1>1, <1>6, <1>7

\* Past the sync of the object one chain only may be left.
LEMMA ChainIsDurable ==
  ASSUME IInv, NEW pc, At(pc), pc \notin {"object", "sync_object", "sync_pending"}
  PROVE  objectsDisk = {objects}
BY DEF IInv, WriterOK, At

LEMMA WriteStageStep == IInv /\ WriteStage => IInv'
<1> SUFFICES ASSUME IInv, WriteStage PROVE IInv'
  OBVIOUS
<1>1. /\ At("stage") /\ stage' = Stage(FALSE)
      /\ stageDisk' = stageDisk \cup {Stage(FALSE)}
      /\ UNCHANGED <<objects, active, objectsDisk, activeDisk, acked>>
      /\ GoTo("sync_stage")
  BY DEF WriteStage, Quiet
<1>2. objectsDisk = {objects} /\ objects.chain # <<>>
  BY <1>1, ChainIsDurable, WriterTells
<1>3. StagesOK'
  BY <1>1, <1>2 DEF StagesOK, Stage, IInv, LastOK
<1>4. active \in activeDisk
  BY DEF IInv, Typed
<1>5. Typed' /\ LastOK' /\ ChainsOK' /\ HeadIsSynced' /\ RecordedStays'
  BY <1>1, <1>2, <1>3, <1>4, FilesSettle
<1>6. WriterOK'
  BY <1>1, <1>2, WriterGoes DEF Pcs
<1> QED BY <1>5, <1>6 DEF IInv

LEMMA SyncStageStep == IInv /\ SyncStage => IInv'
<1> SUFFICES ASSUME IInv, SyncStage PROVE IInv'
  OBVIOUS
<1>1. /\ At("sync_stage") /\ stageDisk' = {stage}
      /\ UNCHANGED <<objects, stage, active, objectsDisk, activeDisk, acked>>
      /\ GoTo("rename")
  BY DEF SyncStage, Quiet
<1>2. objectsDisk = {objects}
  BY <1>1, ChainIsDurable
<1>3. StagesOK'
  BY <1>1 DEF StagesOK, IInv, LastOK
<1>4. active \in activeDisk
  BY DEF IInv, Typed
<1>5. Typed' /\ LastOK' /\ ChainsOK' /\ HeadIsSynced' /\ RecordedStays'
  BY <1>1, <1>2, <1>3, <1>4, FilesSettle
<1>6. WriterOK'
  BY <1>1, <1>2, WriterGoes DEF Pcs
<1> QED BY <1>5, <1>6 DEF IInv

\* The head is renamed over the active one on a chain that is durable.
LEMMA PublishStep == IInv /\ Publish => IInv'
<1> SUFFICES ASSUME IInv, Publish PROVE IInv'
  OBVIOUS
<1>1. /\ At("rename") /\ active' = objects.chain
      /\ activeDisk' = activeDisk \cup {objects.chain}
      /\ stage' = None /\ stageDisk' = stageDisk \cup {None}
      /\ UNCHANGED <<objects, objectsDisk, acked>>
      /\ GoTo("sync_active")
  BY DEF Publish, Quiet
<1>2. objectsDisk = {objects} /\ objects.chain \in Heads
  BY <1>1, ChainIsDurable, WriterTells
<1>3. Typed' /\ HeadIsSynced'
  BY <1>1, <1>2 DEF IInv, Typed, HeadIsSynced
<1>4. LastOK'
  BY <1>1 DEF IInv, LastOK
<1>5. ChainsOK'
  BY <1>1, <1>2, PrefixSelf DEF IInv, ChainsOK
<1>6. RecordedStays'
  BY <1>1 DEF IInv, RecordedStays
<1>7. WriterOK'
  BY <1>1, <1>2, WriterGoes DEF Pcs
<1> QED BY <1>3, <1>4, <1>5, <1>6, <1>7 DEF IInv

LEMMA SyncActiveStep == IInv /\ (SyncActive \/ UnlinkStale) => IInv'
<1> SUFFICES ASSUME IInv, SyncActive \/ UnlinkStale PROVE IInv'
  OBVIOUS
<1>1. PICK pc \in {"sync_active", "unlink_stale"} : At(pc) /\ GoTo("sync_staging")
  BY DEF SyncActive, UnlinkStale
<1>2. objectsDisk = {objects}
  BY <1>1, ChainIsDurable
<1>3. /\ UNCHANGED <<objects, active, acked>>
      /\ objectsDisk' = {objects} /\ activeDisk' = {active}
  BY <1>2 DEF SyncActive, UnlinkStale, Quiet
<1>4. StagesOK'
  BY DEF StagesOK, IInv, LastOK, SyncActive, UnlinkStale
<1>5. objects \in objectsDisk /\ active \in activeDisk
  BY DEF IInv, Typed
<1>6. Typed' /\ LastOK' /\ ChainsOK' /\ HeadIsSynced' /\ RecordedStays'
  BY <1>3, <1>4, <1>5, FilesSettle
<1>7. WriterOK'
  BY <1>1, <1>3, WriterGoes DEF Pcs
<1> QED BY <1>6, <1>7 DEF IInv

LEMMA SyncStagingStep == IInv /\ SyncStaging => IInv'
<1> SUFFICES ASSUME IInv, SyncStaging PROVE IInv'
  OBVIOUS
<1>1. /\ At("sync_staging") /\ stageDisk' = {stage} /\ writer' = None
      /\ acked' = acked \cup {writer.request}
      /\ UNCHANGED <<objects, stage, active, objectsDisk, activeDisk>>
  BY DEF SyncStaging, Ack
<1>2. /\ objectsDisk = {objects} /\ ~objects.torn
      /\ writer.request \in Records /\ writer.request \in Requests
  BY <1>1, ChainIsDurable, WriterTells
<1>3. acked' \subseteq Requests /\ RecordedStays'
  BY <1>1, <1>2, AckRecorded
<1>4. Typed' /\ LastOK' /\ ChainsOK' /\ HeadIsSynced'
  BY <1>1, <1>3 DEF IInv, Typed, LastOK, ChainsOK, HeadIsSynced
<1> QED BY <1>1, <1>3, <1>4, NoWriter DEF IInv
----------------------------------------------------------------------------
(* Failures.                                                               *)

LEMMA CrashStep == IInv /\ Crash => IInv'
<1> SUFFICES ASSUME IInv, Crash PROVE IInv'
  OBVIOUS
<1>1. writer' = None /\ UNCHANGED files /\ UNCHANGED acked
  BY DEF Crash
<1>2. acked' \subseteq Requests /\ RecordedStays'
  BY <1>1 DEF IInv, Typed, RecordedStays, files
<1> QED BY <1>1, <1>2, NoWriter, FilesKept

LEMMA CrashWritingStep == IInv /\ CrashWriting => IInv'
<1> SUFFICES ASSUME IInv, CrashWriting PROVE IInv'
  OBVIOUS
<1>1. writer' = None /\ UNCHANGED <<active, activeDisk, acked>>
  BY DEF CrashWriting
<1>2. CASE /\ At("object")
           /\ objects' \in {Object(TRUE), Object(FALSE)}
           /\ objectsDisk' = objectsDisk \cup {Object(TRUE), objects'}
           /\ UNCHANGED <<stage, stageDisk>>
  <2>1. Typed' /\ LastOK' /\ ChainsOK' /\ HeadIsSynced' /\ RecordedStays'
    BY <1>1, <1>2, ObjectWritten
  <2> QED BY <1>1, <2>1, NoWriter DEF IInv
<1>3. CASE /\ At("stage")
           /\ stage' \in {Stage(TRUE), Stage(FALSE)}
           /\ stageDisk' = stageDisk \cup {Stage(TRUE), stage'}
           /\ UNCHANGED <<objects, objectsDisk>>
  <2>1. objectsDisk = {objects} /\ objects.chain # <<>>
    BY <1>3, ChainIsDurable, WriterTells
  <2>2. StagesOK'
    BY <1>3, <2>1 DEF StagesOK, Stage, IInv, LastOK
  <2>3. active \in activeDisk
    BY DEF IInv, Typed
  <2>4. Typed' /\ LastOK' /\ ChainsOK' /\ HeadIsSynced' /\ RecordedStays'
    BY <1>1, <1>3, <2>1, <2>2, <2>3, FilesSettle
  <2> QED BY <1>1, <2>4, NoWriter DEF IInv
<1> QED BY <1>2, <1>3 DEF CrashWriting

LEMMA PowerLossStep == IInv /\ PowerLoss => IInv'
<1> SUFFICES ASSUME IInv, PowerLoss PROVE IInv'
  OBVIOUS
<1>1. /\ writer' = None /\ UNCHANGED acked
      /\ objects' \in objectsDisk /\ objectsDisk' = {objects'}
      /\ active' \in activeDisk /\ activeDisk' = {active'}
  BY DEF PowerLoss
<1>2. StagesOK'
  BY DEF PowerLoss, StagesOK, IInv, LastOK
<1>3. Typed' /\ LastOK' /\ ChainsOK' /\ HeadIsSynced' /\ RecordedStays'
  BY <1>1, <1>2, FilesSettle
<1> QED BY <1>1, <1>3, NoWriter DEF IInv
----------------------------------------------------------------------------
LEMMA InitHolds == Init => IInv
<1> SUFFICES ASSUME Init PROVE IInv
  OBVIOUS
<1>1. objects = [chain |-> <<>>, torn |-> FALSE] /\ <<>> \in Heads
  BY DEF Init, Heads
<1>2. Typed /\ LastOK /\ HeadIsSynced /\ WriterOK /\ RecordedStays
  BY <1>1 DEF Init, Typed, Objects, LastOK, HeadIsSynced, WriterOK, RecordedStays
<1>3. IdentitiesHold(<<>>)
  BY DEF IdentitiesHold
<1>4. ChainsOK
  BY <1>1, <1>3, PrefixSelf DEF Init, ChainsOK
<1> QED BY <1>2, <1>4 DEF IInv

LEMMA StepKeeps == IInv /\ [Next]_vars => IInv'
<1> SUFFICES ASSUME IInv, [Next]_vars PROVE IInv'
  OBVIOUS
<1>1. ASSUME NEW r \in Requests, Conflict(r) \/ Deny(r) \/ Inactive(r)
      PROVE  IInv'
  <2>1. PICK answer : Refuse(answer)
    BY <1>1 DEF Conflict, Deny, Inactive
  <2> QED BY <2>1, RefuseStep
<1>2. ASSUME NEW r \in Requests, Replay(r) \/ AppendRecord(r) \/ Recover(r)
      PROVE  IInv'
  BY <1>2, ReplayStep, AppendStep, RecoverStep
<1>3. ASSUME Step
      PROVE  IInv'
  BY <1>3, WriteObjectStep, SyncObjectStep, WriteStageStep, SyncStageStep,
     PublishStep, SyncActiveStep, SyncStagingStep DEF Step
<1>4. CASE UNCHANGED vars
  <2>1. UNCHANGED <<files, writer>> /\ UNCHANGED acked
    BY <1>4 DEF vars, files
  <2>2. acked' \subseteq Requests /\ RecordedStays'
    BY <2>1 DEF IInv, Typed, RecordedStays, files
  <2> QED BY <2>1, <2>2, SameWriter, FilesKept
<1> QED BY <1>1, <1>2, <1>3, <1>4, CrashStep, CrashWritingStep, PowerLossStep
        DEF Next

\* In every reachable state each chain that a failure may leave is whole and
\* extends every head that may be left, or ends in a torn record, and the call
\* that holds the lock goes on only from a chain that is durable.
THEOREM Invariance == Spec => []IInv
<1> QED BY InitHolds, StepKeeps, PTL DEF Spec

\* What was reported as recorded is in every chain that a failure may leave:
\* the report follows the syncs of all three directories, and a replay is
\* answered from a chain that its head shows to be durable.
THEOREM Recorded == Spec => []RecordedStays
<1>1. IInv => RecordedStays
  BY DEF IInv
<1> QED BY <1>1, Invariance, PTL

\* The integrity check takes no ledger that calls and failures can leave for
\* one that was tampered with, whichever values of the three directories a
\* power loss leaves together: only a torn file quarantines it.
THEOREM OnlyTornIsQuarantined == Spec => []QuarantineOnlyIfTorn
<1>1. ASSUME IInv, NEW o \in objectsDisk, NEW s \in stageDisk, NEW a \in activeDisk,
             ~o.torn, ~(s # None /\ s.torn)
      PROVE  Classify(o, s, a) # "quarantined"
  <2> DEFINE ahead == Len(o.chain) - Len(a)
             far == ahead > 1 \/ (s # None /\ s.head # o.chain)
             near == IF s.torn THEN "quarantined"
                     ELSE IF ahead = 0 THEN "stale" ELSE "pending"
  <2>1. IdentitiesHold(o.chain) /\ IsPrefix(a, o.chain)
    BY <1>1 DEF IInv, ChainsOK
  <2>2. o.chain \in Heads /\ a \in Heads
    BY <1>1 DEF IInv, Typed, Objects
  <2>3. ahead \in Nat
    <3>1. Len(a) <= Len(o.chain)
      BY <2>1, <2>2, PrefixByElement
    <3> QED BY <2>2, <3>1 DEF Heads
  <2>4. Classify(o, s, a) = CASE ahead = 0 /\ s = None -> "active"
                              [] ahead = 1 /\ s = None -> "orphaned"
                              [] far -> "unknown"
                              [] OTHER -> near
    BY <1>1, <2>1 DEF Classify
  <2> HIDE DEF ahead
  <2>5. CASE s = None
    BY <2>3, <2>4, <2>5
  <2>6. CASE s # None
    BY <1>1, <2>3, <2>4, <2>6
  <2> QED BY <2>5, <2>6
<1>2. IInv => QuarantineOnlyIfTorn
  BY <1>1 DEF QuarantineOnlyIfTorn
<1> QED BY <1>2, Invariance, PTL

=============================================================================
