-------------------------- MODULE ReadEpochProofs --------------------------
(***************************************************************************)
(* Proof that every epoch ReadEpoch hands out existed, for any number of   *)
(* readers, attempts and mutations.                                        *)
(*                                                                         *)
(* Heads only grow. What the first reading saw is at most what was there   *)
(* when it ended, and what the second saw is at least that; when both agree *)
(* they agree with what was there. Its third observation held the lock.    *)
(***************************************************************************)
EXTENDS ReadEpoch, TLAPS

ReaderType ==
    [reading : BOOLEAN, locked : BOOLEAN, attempt : Nat,
     seen : Seq(Observations),
     status : {None, "active", "reconciliation_required", "busy"},
     epoch : {None} \cup [Stores -> Nat],
     actual : [Stores -> Nat], quiet : BOOLEAN]

\* A lock is held for one of the six observations, and excludes writers.
LockSound(R, w) ==
    /\ Len(R.seen) <= 6
    /\ R.locked => R.reading /\ Len(R.seen) < 6 /\ ~w

\* The first reading is below the heads h, and once it has ended below the
\* actual ones; the second is above these.
Below(o, n) == ~o.busy => o.head <= n
Above(o, n) == ~o.busy => n <= o.head

ReadingsSound(R, h) ==
    /\ \A s \in Stores : s <= Len(R.seen) => Below(R.seen[s], h[s])
    /\ Len(R.seen) >= 3 => \A s \in Stores : /\ R.actual[s] <= h[s]
                                             /\ Below(R.seen[s], R.actual[s])
    /\ Len(R.seen) >= 3 => (~R.seen[3].busy => R.quiet)
    /\ \A s \in Stores :
          s + 3 <= Len(R.seen) => Above(R.seen[s + 3], R.actual[s])

EpochSound(R) ==
    R.epoch # None => R.epoch = R.actual /\ R.quiet /\ ~R.reading

ReaderInv(R, w, h) == LockSound(R, w) /\ ReadingsSound(R, h) /\ EpochSound(R)

IInv == TypeOK /\ \A r \in Readers : ReaderInv(reader[r], writer, head)

----------------------------------------------------------------------------
\* The type predicate in terms of the type of one reader.
LEMMA TypeOfReaders == TypeOK <=> /\ head \in [Stores -> Nat]
                                  /\ residue \in [Stores -> BOOLEAN]
                                  /\ writer \in BOOLEAN
                                  /\ reader \in [Readers -> ReaderType]
BY DEF TypeOK, ReaderType

LEMMA Initially == Init => IInv
<1> SUFFICES ASSUME Init PROVE IInv
  OBVIOUS
<1>1. \A s \in Stores : s \in Nat /\ s >= 1
  BY DEF Stores
<1>2. [s \in Stores |-> 0] \in [Stores -> Nat]
  OBVIOUS
<1>3. reader \in [Readers -> ReaderType]
  BY <1>2 DEF Init, ReaderType
<1>4. TypeOK
  BY <1>2, <1>3, TypeOfReaders DEF Init
<1>5. ASSUME NEW r \in Readers PROVE ReaderInv(reader[r], writer, head)
  <2>1. Len(reader[r].seen) = 0 /\ ~reader[r].locked /\ reader[r].epoch = None
    BY DEF Init
  <2> QED
    BY <1>1, <2>1 DEF ReaderInv, LockSound, ReadingsSound, EpochSound
<1> QED
  BY <1>4, <1>5 DEF IInv

\* A reader that does nothing stays sound while heads grow, unless a writer
\* starts while it holds the lock.
LEMMA Undisturbed ==
  ASSUME NEW R \in ReaderType, NEW w, NEW w2,
         NEW h \in [Stores -> Nat], NEW h2 \in [Stores -> Nat],
         ReaderInv(R, w, h), \A s \in Stores : h[s] <= h2[s],
         ~w2 \/ w \/ ~R.locked
  PROVE  ReaderInv(R, w2, h2)
<1>1. LockSound(R, w2) /\ EpochSound(R)
  BY DEF ReaderInv, LockSound
<1>2. ASSUME NEW s \in Stores, s <= Len(R.seen)
      PROVE  R.seen[s] \in Observations
  <2>1. R.seen \in Seq(Observations)
    BY DEF ReaderType
  <2>2. s \in 1 .. Len(R.seen)
    BY <1>2, <2>1 DEF Stores
  <2> QED
    BY <2>1, <2>2
<1>3. ReadingsSound(R, h2)
  <2>1. R.actual \in [Stores -> Nat]
    BY DEF ReaderType
  <2>2. ASSUME NEW s \in Stores, s <= Len(R.seen) PROVE Below(R.seen[s], h2[s])
    <3>1. Below(R.seen[s], h[s])
      BY <2>2 DEF ReaderInv, ReadingsSound
    <3> QED
      BY <3>1, <1>2, <2>2 DEF Below, Observations
  <2>3. ASSUME NEW s \in Stores, Len(R.seen) >= 3 PROVE R.actual[s] <= h2[s]
    <3>1. R.actual[s] <= h[s]
      BY <2>3 DEF ReaderInv, ReadingsSound
    <3> QED
      BY <3>1, <2>1
  <2> QED
    BY <2>2, <2>3 DEF ReaderInv, ReadingsSound
<1> QED
  BY <1>1, <1>3 DEF ReaderInv

\* One more observation keeps a reader sound, if it is busy or made under the
\* lock with the head of the next store.
LEMMA Observed ==
  ASSUME NEW R \in ReaderType, NEW w \in BOOLEAN, NEW h \in [Stores -> Nat],
         NEW o \in Observations, NEW R2 \in ReaderType,
         ReaderInv(R, w, h), R.reading, Len(R.seen) < 6,
         o.busy \/ (~w /\ o.head = h[(Len(R.seen) % 3) + 1]),
         R2.locked = FALSE, R2.reading = R.reading, R2.epoch = R.epoch,
         R2.seen = Append(R.seen, o),
         R2.actual = (IF Len(R.seen) = 2 THEN h ELSE R.actual),
         R2.quiet = (IF Len(R.seen) = 2 THEN ~w ELSE R.quiet)
  PROVE  ReaderInv(R2, w, h)
<1> DEFINE n == Len(R.seen)
<1>1. /\ n \in 0 .. 5 /\ Len(R2.seen) = n + 1 /\ R2.seen[n + 1] = o
      /\ \A i \in 1 .. n : R2.seen[i] = R.seen[i] /\ R.seen[i] \in Observations
  <2>1. R.seen \in Seq(Observations)
    BY DEF ReaderType
  <2>2. n \in Nat /\ n < 6
    BY <2>1
  <2>3. Len(R2.seen) = n + 1 /\ R2.seen[n + 1] = o
    BY <2>1
  <2>4. \A i \in 1 .. n : R2.seen[i] = R.seen[i] /\ R.seen[i] \in Observations
    BY <2>1
  <2> HIDE DEF n
  <2>5. n \in 0 .. 5
    BY <2>2
  <2> QED
    BY <2>3, <2>4, <2>5
<1>2. R.actual \in [Stores -> Nat] /\ R.epoch = None
  BY DEF ReaderType, ReaderInv, EpochSound
<1>3. LockSound(R2, w) /\ EpochSound(R2)
  BY <1>1, <1>2 DEF LockSound, EpochSound
<1> HIDE DEF n
<1>4. ReadingsSound(R2, h)
  <2>1. \A s \in Stores : s \in 1 .. 3
    BY DEF Stores
  <2>2. \A s \in Stores : s <= n => Below(R.seen[s], h[s])
    BY DEF ReaderInv, ReadingsSound, n
  <2>3. n >= 3 => \A s \in Stores : /\ R.actual[s] <= h[s]
                                    /\ Below(R.seen[s], R.actual[s])
    BY DEF ReaderInv, ReadingsSound, n
  <2>4. /\ n >= 3 => (~R.seen[3].busy => R.quiet)
        /\ \A s \in Stores : s + 3 <= n => Above(R.seen[s + 3], R.actual[s])
    BY DEF ReaderInv, ReadingsSound, n
  <2>5. o.busy \/ (~w /\ o.head = h[(n % 3) + 1])
    BY DEF n
  <2>6. n % 3 = IF n < 3 THEN n ELSE n - 3
    BY <1>1
  <2>7. R2.actual = (IF n = 2 THEN h ELSE R.actual)
    BY DEF n
  <2>8. R2.quiet = (IF n = 2 THEN ~w ELSE R.quiet)
    BY DEF n
  <2>9. ASSUME NEW s \in Stores, s <= n + 1 PROVE Below(R2.seen[s], h[s])
    <3>1. CASE s <= n
      BY <1>1, <2>1, <2>2, <3>1
    <3>2. CASE s = n + 1
      BY <1>1, <2>1, <2>5, <2>6, <3>2 DEF Below, Observations
    <3> QED
      BY <1>1, <2>1, <2>9, <3>1, <3>2
  <2>10. ASSUME NEW s \in Stores, n + 1 >= 3
         PROVE  R2.actual[s] <= h[s] /\ Below(R2.seen[s], R2.actual[s])
    <3>1. CASE n = 2
      <4>1. R2.actual = h /\ h[s] \in Nat /\ s <= n + 1
        BY <2>1, <2>7, <3>1
      <4>2. h[s] <= h[s]
        BY <4>1
      <4> QED
        BY <2>9, <4>1, <4>2
    <3>2. CASE n >= 3
      <4>1. R2.actual = R.actual /\ R2.seen[s] = R.seen[s]
        BY <1>1, <2>1, <2>7, <3>2
      <4> QED
        BY <2>3, <3>2, <4>1
    <3>3. n = 2 \/ n >= 3
      BY <1>1, <2>10
    <3> QED
      BY <3>1, <3>2, <3>3
  <2>11. ASSUME n + 1 >= 3, ~R2.seen[3].busy PROVE R2.quiet
    <3>1. CASE n = 2
      <4>1. R2.seen[3] = o
        BY <1>1, <3>1
      <4>2. ~w
        BY <2>5, <2>11, <4>1
      <4> QED
        BY <2>8, <3>1, <4>2
    <3>2. CASE n >= 3
      <4>1. R2.seen[3] = R.seen[3] /\ n # 2
        BY <1>1, <3>2
      <4> QED
        BY <2>4, <2>8, <2>11, <3>2, <4>1
    <3>3. n = 2 \/ n >= 3
      BY <1>1, <2>11
    <3> QED
      BY <3>1, <3>2, <3>3
  <2>12. ASSUME NEW s \in Stores, s + 3 <= n + 1
         PROVE  Above(R2.seen[s + 3], R2.actual[s])
    <3>1. n >= 3 /\ R2.actual = R.actual
      BY <1>1, <2>1, <2>7, <2>12
    <3>2. CASE s + 3 <= n
      BY <1>1, <2>1, <2>4, <3>1, <3>2
    <3>3. CASE s + 3 = n + 1
      <4>1. (n % 3) + 1 = s /\ R.actual[s] <= h[s]
        BY <1>1, <2>1, <2>3, <2>6, <3>1, <3>3
      <4> QED
        BY <1>1, <2>5, <3>1, <3>3, <4>1 DEF Above
    <3> QED
      BY <1>1, <2>1, <2>12, <3>2, <3>3
  <2> QED
    BY <1>1, <2>9, <2>10, <2>11, <2>12 DEF ReadingsSound
<1> QED
  BY <1>3, <1>4 DEF ReaderInv

----------------------------------------------------------------------------
\* A step of reader r that leaves the rest alone has to keep r sound.
LEMMA ReaderStep ==
  ASSUME IInv, NEW r \in Readers, NEW R2 \in ReaderType,
         reader' = [reader EXCEPT ![r] = R2],
         UNCHANGED <<head, residue, writer>>,
         ReaderInv(R2, writer, head)
  PROVE  IInv'
<1>1. /\ head' \in [Stores -> Nat] /\ residue' \in [Stores -> BOOLEAN]
      /\ writer' \in BOOLEAN /\ reader' \in [Readers -> ReaderType]
  BY TypeOfReaders DEF IInv
<1>2. TypeOK'
  BY <1>1 DEF TypeOK, ReaderType
<1>3. ASSUME NEW q \in Readers
      PROVE  ReaderInv(reader'[q], writer', head')
  <2>1. reader \in [Readers -> ReaderType] /\ ReaderInv(reader[q], writer, head)
    BY TypeOfReaders DEF IInv
  <2>2. reader'[q] = IF q = r THEN R2 ELSE reader[q]
    BY <2>1
  <2> QED
    BY <2>1, <2>2
<1> QED
  BY <1>2, <1>3 DEF IInv

\* A step of a writer keeps every reader sound.
LEMMA WriterStep ==
  ASSUME IInv, UNCHANGED reader,
         head' \in [Stores -> Nat], residue' \in [Stores -> BOOLEAN],
         writer' \in BOOLEAN, \A s \in Stores : head[s] <= head'[s],
         ~writer' \/ writer \/ \A r \in Readers : ~reader[r].locked
  PROVE  IInv'
<1>1. /\ head \in [Stores -> Nat] /\ reader \in [Readers -> ReaderType]
      /\ \A r \in Readers : ReaderInv(reader[r], writer, head)
  BY TypeOfReaders DEF IInv
<1>2. TypeOK'
  BY <1>1 DEF TypeOK, ReaderType
<1>3. ASSUME NEW r \in Readers
      PROVE  ReaderInv(reader'[r], writer', head')
  <2>1. /\ reader[r] \in ReaderType /\ ReaderInv(reader[r], writer, head)
        /\ ~writer' \/ writer \/ ~reader[r].locked
    BY <1>1
  <2> QED
    BY <1>1, <2>1, Undisturbed
<1> QED
  BY <1>2, <1>3 DEF IInv

\* Both ways to observe keep the reader sound.
LEMMA ObserveStep ==
  ASSUME IInv, NEW r \in Readers, NEW o \in Observations, Observe(r, o),
         UNCHANGED <<head, residue, writer>>,
         reader[r].reading, Len(reader[r].seen) < 6,
         o.busy \/ (~writer /\ o.head = head[NextStore(r)])
  PROVE  IInv'
<1> DEFINE R == reader[r]
           R2 == [R EXCEPT !.locked = FALSE, !.seen = Append(@, o),
                           !.actual = IF Len(R.seen) = 2 THEN head ELSE @,
                           !.quiet = IF Len(R.seen) = 2 THEN ~writer ELSE @]
<1>1. /\ head \in [Stores -> Nat] /\ writer \in BOOLEAN
      /\ reader \in [Readers -> ReaderType] /\ R \in ReaderType
      /\ ReaderInv(R, writer, head)
  BY TypeOfReaders DEF IInv
<1>2. reader' = [reader EXCEPT ![r] = R2]
  BY <1>1 DEF Observe
<1>3. Append(R.seen, o) \in Seq(Observations)
  BY <1>1 DEF ReaderType
<1>4. R2 \in ReaderType
  BY <1>1, <1>3 DEF ReaderType
<1>5. /\ R2.locked = FALSE /\ R2.reading = R.reading /\ R2.epoch = R.epoch
      /\ R2.seen = Append(R.seen, o)
      /\ R2.actual = (IF Len(R.seen) = 2 THEN head ELSE R.actual)
      /\ R2.quiet = (IF Len(R.seen) = 2 THEN ~writer ELSE R.quiet)
  BY <1>1 DEF ReaderType
<1>6. o.busy \/ (~writer /\ o.head = head[(Len(R.seen) % 3) + 1])
  BY DEF NextStore
<1>7. R.reading /\ Len(R.seen) < 6
  OBVIOUS
<1> HIDE DEF R, R2
<1>8. ReaderInv(R2, writer, head)
  BY <1>1, <1>4, <1>5, <1>6, <1>7, Observed
<1> QED
  BY <1>2, <1>4, <1>8, ReaderStep

LEMMA AcquirePreserves ==
  ASSUME IInv, NEW r \in Readers, Acquire(r)
  PROVE  IInv'
<1> DEFINE R == reader[r]
           R2 == [R EXCEPT !.reading = TRUE, !.attempt = 1, !.seen = <<>>,
                           !.status = None, !.epoch = None,
                           !.actual = [s \in Stores |-> 0], !.quiet = TRUE]
<1>1. /\ reader \in [Readers -> ReaderType] /\ R \in ReaderType
      /\ ReaderInv(R, writer, head)
  BY TypeOfReaders DEF IInv
<1>2. reader' = [reader EXCEPT ![r] = R2] /\ UNCHANGED <<head, residue, writer>>
  BY <1>1 DEF Acquire
<1>3. R2 \in ReaderType
  <2>1. <<>> \in Seq(Observations) /\ [s \in Stores |-> 0] \in [Stores -> Nat]
    OBVIOUS
  <2> QED
    BY <1>1, <2>1 DEF ReaderType
<1>4. Len(R2.seen) = 0 /\ ~R2.locked /\ R2.epoch = None
  BY <1>1 DEF Acquire, ReaderInv, LockSound, ReaderType
<1>5. \A s \in Stores : ~(s <= 0) /\ ~(s + 3 <= 0)
  BY DEF Stores
<1> HIDE DEF R2
<1>6. LockSound(R2, writer) /\ EpochSound(R2)
  BY <1>4 DEF LockSound, EpochSound
<1>7. ReadingsSound(R2, head)
  BY <1>4, <1>5 DEF ReadingsSound
<1> QED
  BY <1>2, <1>3, <1>6, <1>7, ReaderStep DEF ReaderInv

LEMMA LockSharedPreserves ==
  ASSUME IInv, NEW r \in Readers, LockShared(r)
  PROVE  IInv'
<1>1. CASE writer
  <2>1. Busy \in Observations /\ Busy.busy
    BY DEF Busy, Observations
  <2> QED
    BY <1>1, <2>1, ObserveStep DEF LockShared
<1>2. CASE ~writer
  <2> DEFINE R2 == [reader[r] EXCEPT !.locked = TRUE]
  <2>1. /\ reader \in [Readers -> ReaderType] /\ reader[r] \in ReaderType
        /\ ReaderInv(reader[r], writer, head)
    BY TypeOfReaders DEF IInv
  <2>2. /\ reader' = [reader EXCEPT ![r] = R2]
        /\ UNCHANGED <<head, residue, writer>>
    BY <1>2, <2>1 DEF LockShared
  <2>3. /\ R2 \in ReaderType /\ R2.reading = reader[r].reading
        /\ R2.seen = reader[r].seen /\ R2.actual = reader[r].actual
        /\ R2.quiet = reader[r].quiet /\ R2.epoch = reader[r].epoch
    BY <2>1 DEF ReaderType
  <2>4. reader[r].reading /\ Len(reader[r].seen) < 6
    BY DEF LockShared
  <2> HIDE DEF R2
  <2>5. LockSound(R2, writer)
    BY <1>2, <2>1, <2>3, <2>4 DEF ReaderInv, LockSound
  <2>6. ReadingsSound(R2, head) /\ EpochSound(R2)
    BY <2>1, <2>3 DEF ReaderInv, ReadingsSound, EpochSound
  <2> QED
    BY <2>2, <2>3, <2>5, <2>6, ReaderStep DEF ReaderInv
<1> QED
  BY <1>1, <1>2

LEMMA InspectPreserves ==
  ASSUME IInv, NEW r \in Readers, Inspect(r)
  PROVE  IInv'
<1>1. /\ head \in [Stores -> Nat] /\ residue \in [Stores -> BOOLEAN]
      /\ reader[r] \in ReaderType /\ ReaderInv(reader[r], writer, head)
  BY TypeOfReaders DEF IInv
<1>2. reader[r].reading /\ Len(reader[r].seen) < 6 /\ ~writer
  BY <1>1 DEF Inspect, ReaderInv, LockSound
<1>3. NextStore(r) \in Stores
  <2> DEFINE n == Len(reader[r].seen)
  <2>1. n \in Nat
    BY <1>1 DEF ReaderType
  <2> HIDE DEF n
  <2>2. (n % 3) + 1 \in 1 .. 3
    BY <2>1
  <2> QED
    BY <2>2 DEF NextStore, Stores, n
<1> DEFINE o == [busy |-> FALSE, head |-> head[NextStore(r)],
                 residue |-> residue[NextStore(r)]]
<1>4. o \in Observations /\ o.head = head[NextStore(r)]
  BY <1>1, <1>3 DEF Observations
<1>5. Observe(r, o) /\ UNCHANGED <<head, residue, writer>>
  BY DEF Inspect
<1> HIDE DEF o
<1> QED
  BY <1>2, <1>4, <1>5, ObserveStep

LEMMA JudgePreserves ==
  ASSUME IInv, NEW r \in Readers, Judge(r)
  PROVE  IInv'
<1> DEFINE R == reader[r]
<1>1. /\ head \in [Stores -> Nat] /\ reader \in [Readers -> ReaderType]
      /\ R \in ReaderType /\ ReaderInv(R, writer, head)
  BY TypeOfReaders DEF IInv
<1>2. /\ R.reading /\ Len(R.seen) = 6 /\ UNCHANGED <<head, residue, writer>>
  BY DEF Judge
<1>3. ~R.locked /\ R.epoch = None
  BY <1>1, <1>2 DEF ReaderInv, LockSound, EpochSound
<1>4. CASE Stable(R.seen)
  <2> DEFINE heads == [s \in Stores |-> R.seen[s + 3].head]
             R2 == [R EXCEPT !.reading = FALSE,
                       !.status = IF \E s \in Stores : R.seen[s + 3].residue
                                  THEN "reconciliation_required" ELSE "active",
                       !.epoch = IF R.seen[Lanes + 3].residue THEN None
                                 ELSE heads]
  <2>1. reader' = [reader EXCEPT ![r] = R2]
    BY <1>2, <1>4 DEF Judge
  <2>2. ASSUME NEW s \in Stores
        PROVE  /\ R.seen[s] \in Observations /\ R.seen[s + 3] = R.seen[s]
               /\ ~R.seen[s].busy
    <3>1. R.seen \in Seq(Observations) /\ s \in 1 .. 6
      BY <1>1 DEF ReaderType, Stores
    <3> QED
      BY <1>2, <1>4, <3>1 DEF Stable
  <2>3. ASSUME NEW s \in Stores
        PROVE  R.seen[s + 3].head = R.actual[s] /\ R.seen[s + 3].head \in Nat
    <3>1. s <= 6 /\ s + 3 <= 6 /\ R.actual[s] \in Nat
      BY <1>1 DEF Stores, ReaderType
    <3>2. /\ Below(R.seen[s], R.actual[s]) /\ Above(R.seen[s + 3], R.actual[s])
      BY <1>1, <1>2, <3>1 DEF ReaderInv, ReadingsSound
    <3> QED
      BY <2>2, <3>1, <3>2 DEF Below, Above, Observations
  <2>4. heads \in [Stores -> Nat] /\ heads = R.actual
    BY <1>1, <2>3 DEF ReaderType
  <2>5. R.quiet
    <3>1. 3 \in Stores
      BY DEF Stores
    <3> QED
      BY <1>1, <1>2, <2>2, <3>1 DEF ReaderInv, ReadingsSound
  <2> HIDE DEF heads
  <2>6. R2 \in ReaderType
    BY <1>1, <2>4 DEF ReaderType
  <2>7. /\ R2.seen = R.seen /\ R2.actual = R.actual /\ R2.quiet = R.quiet
        /\ R2.locked = R.locked /\ ~R2.reading
        /\ R2.epoch = None \/ R2.epoch = heads
    BY <1>1 DEF ReaderType
  <2> HIDE DEF R, R2
  <2>8. LockSound(R2, writer) /\ ReadingsSound(R2, head)
    BY <1>1, <1>3, <2>7 DEF ReaderInv, LockSound, ReadingsSound
  <2>9. EpochSound(R2)
    BY <2>4, <2>5, <2>7 DEF EpochSound
  <2> QED
    BY <1>2, <2>1, <2>6, <2>8, <2>9, ReaderStep DEF ReaderInv
<1>5. CASE ~Stable(R.seen) /\ R.attempt < MaximumCompleteAttempts
  <2> DEFINE R2 == [R EXCEPT !.attempt = @ + 1, !.seen = <<>>]
  <2>1. reader' = [reader EXCEPT ![r] = R2]
    <3>1. ~(R.attempt >= MaximumCompleteAttempts)
      BY <1>1, <1>5, AttemptsAssumption DEF ReaderType
    <3>2. reader' = [reader EXCEPT ![r].attempt = @ + 1, ![r].seen = <<>>]
      BY <1>5, <3>1 DEF Judge
    <3> QED
      BY <1>1, <3>2 DEF ReaderType
  <2>2. <<>> \in Seq(Observations) /\ R.attempt + 1 \in Nat
    BY <1>1 DEF ReaderType
  <2>3. R2 \in ReaderType
    BY <1>1, <2>2 DEF ReaderType
  <2>4. Len(R2.seen) = 0 /\ R2.locked = R.locked /\ R2.epoch = R.epoch
    BY <1>1 DEF ReaderType
  <2>5. \A s \in Stores : ~(s <= 0) /\ ~(s + 3 <= 0)
    BY DEF Stores
  <2> HIDE DEF R, R2
  <2>6. LockSound(R2, writer) /\ EpochSound(R2)
    BY <1>3, <2>4 DEF LockSound, EpochSound
  <2>7. ReadingsSound(R2, head)
    BY <2>4, <2>5 DEF ReadingsSound
  <2> QED
    BY <1>2, <2>1, <2>3, <2>6, <2>7, ReaderStep DEF ReaderInv
<1>6. CASE ~Stable(R.seen) /\ R.attempt >= MaximumCompleteAttempts
  <2> DEFINE R2 == [R EXCEPT !.reading = FALSE, !.status = "busy"]
  <2>1. reader' = [reader EXCEPT ![r] = R2]
    <3>1. ~(R.attempt < MaximumCompleteAttempts)
      BY <1>1, <1>6, AttemptsAssumption DEF ReaderType
    <3>2. reader' = [reader EXCEPT ![r].reading = FALSE, ![r].status = "busy"]
      BY <1>6, <3>1 DEF Judge
    <3> QED
      BY <1>1, <3>2 DEF ReaderType
  <2>2. /\ R2 \in ReaderType /\ R2.seen = R.seen /\ R2.actual = R.actual
        /\ R2.quiet = R.quiet /\ R2.locked = R.locked /\ R2.epoch = R.epoch
    BY <1>1 DEF ReaderType
  <2> HIDE DEF R, R2
  <2>3. LockSound(R2, writer) /\ EpochSound(R2)
    BY <1>1, <1>3, <2>2 DEF ReaderInv, LockSound, EpochSound
  <2>4. ReadingsSound(R2, head)
    BY <1>1, <2>2 DEF ReaderInv, ReadingsSound
  <2> QED
    BY <1>2, <2>1, <2>2, <2>3, <2>4, ReaderStep DEF ReaderInv
<1> QED
  BY <1>4, <1>5, <1>6 DEF Judge

----------------------------------------------------------------------------
\* The conjunction is inductive: every action of a writer or a reader keeps it.
THEOREM Invariance == Spec => []IInv
<1>1. Init => IInv
  BY Initially
<1>2. IInv /\ [Next]_vars => IInv'
  <2> SUFFICES ASSUME IInv, [Next]_vars PROVE IInv'
    OBVIOUS
  <2>1. /\ head \in [Stores -> Nat] /\ residue \in [Stores -> BOOLEAN]
        /\ writer \in BOOLEAN
    BY TypeOfReaders DEF IInv
  <2>2. \A s \in Stores : head[s] \in Nat /\ head[s] <= head[s]
    BY <2>1
  <2>3. CASE Lock
    BY <2>1, <2>2, <2>3, WriterStep DEF Lock
  <2>4. CASE Unlock
    BY <2>1, <2>2, <2>4, WriterStep DEF Unlock
  <2>5. ASSUME NEW s \in Stores, BeginAppend(s) PROVE IInv'
    BY <2>1, <2>2, <2>5, WriterStep DEF BeginAppend
  <2>6. ASSUME NEW s \in Stores, Publish(s) PROVE IInv'
    <3>1. head' \in [Stores -> Nat] /\ residue' \in [Stores -> BOOLEAN]
      BY <2>1, <2>6 DEF Publish
    <3>2. \A t \in Stores : head[t] <= head'[t]
      BY <2>1, <2>6 DEF Publish
    <3> QED
      BY <2>1, <2>6, <3>1, <3>2, WriterStep DEF Publish
  <2>7. ASSUME NEW s \in Stores, Discard(s) PROVE IInv'
    BY <2>1, <2>2, <2>7, WriterStep DEF Discard
  <2>8. ASSUME NEW r \in Readers, Acquire(r) PROVE IInv'
    BY <2>8, AcquirePreserves
  <2>9. ASSUME NEW r \in Readers, LockShared(r) PROVE IInv'
    BY <2>9, LockSharedPreserves
  <2>10. ASSUME NEW r \in Readers, Inspect(r) PROVE IInv'
    BY <2>10, InspectPreserves
  <2>11. ASSUME NEW r \in Readers, Judge(r) PROVE IInv'
    BY <2>11, JudgePreserves
  <2>12. CASE UNCHANGED vars
    BY <2>1, <2>2, <2>12, WriterStep DEF vars
  <2> QED
    BY <2>3, <2>4, <2>5, <2>6, <2>7, <2>8, <2>9, <2>10, <2>11, <2>12 DEF Next
<1> QED
  BY <1>1, <1>2, PTL DEF Spec

\* The heads of every epoch existed together, while no writer was at work,
\* whatever the writers do and however often a reading is repeated.
THEOREM EpochsExisted == Spec => []EpochExisted
<1>1. IInv => EpochExisted
  BY DEF IInv, ReaderInv, EpochSound, EpochExisted
<1> QED
  BY <1>1, Invariance, PTL
=============================================================================
