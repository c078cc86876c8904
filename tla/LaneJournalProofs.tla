------------------------- MODULE LaneJournalProofs -------------------------
(***************************************************************************)
(* Proofs about the commit of a lane event, for any number of lanes,       *)
(* events and failures.                                                    *)
(*                                                                         *)
(* A power loss combines any value laneDisk allows with any indexDisk      *)
(* allows, so the inductive invariant is about pairs of values: a lane     *)
(* value and an index value that may be read together fit (Fits). The last *)
(* record of a lane is in the index, or the index candidate is its; an     *)
(* event candidate has its own index candidate behind it; and the index    *)
(* candidate of a lane is either the one of its last record or the one of  *)
(* its next, in which case it has no transition. Fits speaks of the names  *)
(* and of what is in the files that can be read, and only once of whether  *)
(* a file is there: that is why it outlives torn files.                    *)
(*                                                                         *)
(* UncertainOK says what may be uncertain: the last record of the one lane *)
(* the index candidate is of. WriterOK is what the commit that holds the   *)
(* lock has established at each of its steps.                              *)
(***************************************************************************)
EXTENDS LaneJournal, SequenceTheorems, TLAPS

----------------------------------------------------------------------------
(* The values of the files.                                                *)

Records == [event : Events, intent : Intents]
EventCapsules == [record : Records, file : FileStates]
LaneValues == [slots : Seq(EventCapsules), cand : EventCapsules \cup {None}]
IndexCapsules == [intent : Intents, record : Records, file : FileStates]
IndexCandidates == [intent : Intents, file : FileStates, transition : FileStates]
IndexValues == [log : Seq(IndexCapsules), cand : IndexCandidates \cup {None}]

\* The index candidate is the one of this intent, and its file is there.
Pending(x, intent) == x.cand # None /\ x.cand.intent = intent
Ready(x, intent) == Pending(x, intent) /\ x.cand.file # "none"

ProjectedIn(x) == {x.log[k].record : k \in DOMAIN x.log}

LaneOK(l, d) ==
    /\ d \in LaneValues
    /\ \A i \in DOMAIN d.slots : /\ d.slots[i].record.intent.lane = l
                                 /\ d.slots[i].record.intent.sequence = i
    /\ \A i, j \in DOMAIN d.slots :
          d.slots[i].record.event = d.slots[j].record.event => i = j
    /\ d.cand # None => /\ d.cand.record.intent.lane = l
                        /\ d.cand.record.intent.sequence = Len(d.slots) + 1

IndexOK(x) ==
    /\ x \in IndexValues
    /\ \A k \in DOMAIN x.log : /\ x.log[k].intent = x.log[k].record.intent
                               /\ x.log[k].intent.previous = k - 1
    /\ x.cand # None => x.cand.intent.previous = Len(x.log)

\* A record of the index is in its lane.
Backed(l, d, x) ==
    \A k \in DOMAIN x.log : x.log[k].intent.lane = l =>
        \E i \in DOMAIN d.slots : d.slots[i].record = x.log[k].record

\* A record of the lane is in the index, or is the last and about to be.
Trails(d, x) ==
    \A i \in DOMAIN d.slots :
        \/ d.slots[i].record \in ProjectedIn(x)
        \/ i = Len(d.slots) /\ Ready(x, d.slots[i].record.intent)

\* The index candidate of a lane is of its next record or of its last.
NextOrLast(l, d, x) ==
    x.cand # None /\ x.cand.intent.lane = l =>
        \/ /\ x.cand.intent.sequence = Len(d.slots) + 1
           /\ x.cand.transition = "none"
        \/ /\ d.slots # <<>>
           /\ Ready(x, d.slots[Len(d.slots)].record.intent)

Fits(l, d, x) ==
    /\ Backed(l, d, x)
    /\ Trails(d, x)
    /\ d.cand # None => Pending(x, d.cand.record.intent)
    /\ NextOrLast(l, d, x)

----------------------------------------------------------------------------
(* The inductive invariant.                                                *)

LanesOK ==
    /\ lane \in [Lanes -> LaneValues]
    /\ laneDisk \in [Lanes -> SUBSET LaneValues]
    /\ \A l \in Lanes : /\ lane[l] \in laneDisk[l]
                        /\ \A d \in laneDisk[l] : LaneOK(l, d)

IndexesOK ==
    /\ index \in indexDisk
    /\ \A x \in indexDisk : IndexOK(x)

DisksFit ==
    \A l \in Lanes : \A d \in laneDisk[l] : \A x \in indexDisk : Fits(l, d, x)

OneShort(s, t) == t # <<>> /\ t = Append(s, t[Len(t)])

UncertainOK ==
    \A l \in Lanes :
        /\ \A d \in laneDisk[l] : d.slots = Slots(l) \/ OneShort(d.slots, Slots(l))
        /\ \/ laneDisk[l] = {lane[l]}
           \/ \A x \in indexDisk : x.cand # None /\ x.cand.intent.lane = l

CallersOK ==
    /\ wanted \in [Lanes -> Events \cup {None}]
    /\ acked \in [Lanes -> SUBSET Events]

Pcs == {"prior", "decide", "intent", "event_candidate", "write_event",
        "promote_event", "barrier_event", "transition", "promote_transition",
        "barrier_transition"}
Writers == [pc : Pcs, lane : Lanes, event : Events, record : Records \cup {None},
            then : {None, "decide", "reply"}]

\* What a commit w of lane l knows at each of its steps.
Between(w, pcs) == w # None /\ w.pc \in pcs

\* The scan found no torn capsule in its lane, and none is torn since.
SoundOK(w) ==
    Between(w, Pcs) =>
        \A i \in DOMAIN Slots(w.lane) : Slots(w.lane)[i].file # "torn"

Certain(w) ==
    Between(w, Pcs \ {"barrier_event"}) =>
        \A d \in laneDisk[w.lane] : d.slots = Slots(w.lane)

DecideOK(w) ==
    Between(w, {"decide"}) /\ Slots(w.lane) # <<>> =>
        LastRecord(w.lane) \in Projected

IntentOK(w) ==
    Between(w, {"intent"}) =>
        /\ index.cand # None
        /\ Plan(index.cand.intent) = NewPlan(w.lane, w.event)
        /\ index.cand.transition = "none"
        /\ w.event \notin Committed(w.lane)

EventOK(w) ==
    Between(w, {"event_candidate", "write_event", "promote_event"}) =>
        /\ indexDisk = {index}
        /\ w.record \in Records /\ w.record.event = w.event
        /\ w.event \notin Committed(w.lane)
        /\ index.cand # None /\ index.cand.file \in Written
        /\ index.cand.intent = w.record.intent
        /\ w.record.intent.lane = w.lane
        /\ w.record.intent.sequence = Len(Slots(w.lane)) + 1

CandidateOK(w) ==
    Between(w, {"write_event", "promote_event"}) =>
        /\ lane[w.lane].cand \in EventCapsules
        /\ lane[w.lane].cand.record = w.record
        /\ w.pc = "promote_event" => lane[w.lane].cand.file \in Written

PromotedOK(w) ==
    Between(w, {"barrier_event", "transition", "promote_transition",
                "barrier_transition"}) =>
        /\ w.record \in Records
        /\ Slots(w.lane) # <<>> /\ LastRecord(w.lane) = w.record

AwaitedOK(w) ==
    Between(w, {"barrier_event", "transition", "promote_transition"}) =>
        /\ Ready(index, w.record.intent)
        /\ w.pc = "barrier_event" => w.record.event = w.event

ThenOK(w) ==
    Between(w, {"transition", "promote_transition", "barrier_transition"}) =>
        /\ w.then \in {"decide", "reply"}
        /\ w.then = "reply" => /\ w.record.event = w.event
                               /\ Slots(w.lane)[Len(Slots(w.lane))].file = "whole"
        /\ w.pc = "barrier_transition" =>
              /\ index.log # <<>>
              /\ index.log[Len(index.log)].record = w.record

WriterOK(w) ==
    /\ w \in Writers \cup {None}
    /\ SoundOK(w) /\ Certain(w) /\ DecideOK(w) /\ IntentOK(w) /\ EventOK(w)
    /\ CandidateOK(w) /\ PromotedOK(w) /\ AwaitedOK(w) /\ ThenOK(w)

FilesOK == LanesOK /\ IndexesOK /\ DisksFit /\ UncertainOK

IInv == FilesOK /\ CallersOK /\ WriterOK(writer)

----------------------------------------------------------------------------
(* Pairs of values that fit.                                               *)

\* Capsules with the same records, whatever their files.
SameRecords(s, t) ==
    /\ Len(t) = Len(s) /\ DOMAIN t = DOMAIN s
    /\ \A i \in DOMAIN s : t[i].record = s[i].record

\* What a pair of values that fit says of the last record, and of the others.
LEMMA FitFacts ==
  ASSUME NEW l \in Lanes, NEW d, NEW x,
         LaneOK(l, d), IndexOK(x), Fits(l, d, x)
  PROVE  /\ d.cand # None => x.cand.transition = "none"
         /\ \A i \in DOMAIN d.slots : i # Len(d.slots) =>
               d.slots[i].record \in ProjectedIn(x)
         /\ d.slots # <<>> /\ Pending(x, d.slots[Len(d.slots)].record.intent) =>
               d.slots[Len(d.slots)].record \notin ProjectedIn(x) /\ d.cand = None
         /\ x.cand # None =>
               \A r \in ProjectedIn(x) : r.intent # x.cand.intent
<1> DEFINE n == Len(d.slots)
<1>0. /\ d.slots \in Seq(EventCapsules) /\ n \in Nat /\ DOMAIN d.slots = 1 .. n
      /\ d.slots # <<>> => n \in 1 .. n
      /\ x.log \in Seq(IndexCapsules) /\ Len(x.log) \in Nat
      /\ DOMAIN x.log = 1 .. Len(x.log)
  BY EmptySeq, LenProperties DEF LaneOK, LaneValues, IndexOK, IndexValues
<1>1. x.cand # None => \A r \in ProjectedIn(x) : r.intent # x.cand.intent
  BY <1>0 DEF ProjectedIn, IndexOK
<1>2. d.cand # None /\ d.slots # <<>> =>
         ~ Pending(x, d.slots[n].record.intent)
  BY <1>0 DEF Pending, Fits, LaneOK
<1>3. d.cand # None => x.cand.transition = "none"
  BY <1>0, <1>2 DEF Fits, NextOrLast, Pending, Ready, LaneOK
<1>4. \A i \in DOMAIN d.slots : i # n => d.slots[i].record \in ProjectedIn(x)
  BY DEF Fits, Trails
<1>5. d.slots # <<>> /\ Pending(x, d.slots[n].record.intent) =>
         d.slots[n].record \notin ProjectedIn(x)
  BY <1>1 DEF Pending
<1> QED BY <1>1, <1>2, <1>3, <1>4, <1>5

\* The index candidate of a new record, when there was none.
LEMMA FitsNewCandidate ==
  ASSUME NEW l \in Lanes, NEW d, NEW x, NEW y,
         LaneOK(l, d), IndexOK(x), Fits(l, d, x),
         y \in IndexValues, y.log = x.log, x.cand = None, y.cand # None,
         y.cand.transition = "none", y.cand.intent.previous = Len(x.log),
         y.cand.intent.lane = l =>
            y.cand.intent.sequence = Len(d.slots) + 1
  PROVE  IndexOK(y) /\ Fits(l, d, y)
<1>1. IndexOK(y)
  BY DEF IndexOK
<1>2. Backed(l, d, y) /\ Trails(d, y) /\ NextOrLast(l, d, y)
  BY DEF Fits, Backed, Trails, ProjectedIn, Pending, Ready, NextOrLast
<1> QED BY <1>1, <1>2 DEF Fits, Pending

\* The files of the index change, and the same is in them: a transition is
\* written beside the intent of the last record only, and no intent is gone
\* that is of a record of the lane.
SameIndex(x, y) ==
    /\ y \in IndexValues /\ SameRecords(x.log, y.log)
    /\ \A k \in DOMAIN x.log : y.log[k].intent = x.log[k].intent
    /\ (y.cand = None) = (x.cand = None)
    /\ x.cand # None => y.cand.intent = x.cand.intent

LEMMA FitsFiles ==
  ASSUME NEW l \in Lanes, NEW d, NEW x, NEW y,
         LaneOK(l, d), IndexOK(x), Fits(l, d, x), SameIndex(x, y),
         x.cand # None /\ y.cand.file = "none" =>
            \/ x.cand.file = "none"
            \/ \A i \in DOMAIN d.slots : d.slots[i].record.intent # x.cand.intent,
         x.cand # None /\ y.cand.transition # "none" /\ x.cand.intent.lane = l =>
            \/ x.cand.transition # "none"
            \/ d.slots # <<>> /\ Pending(x, d.slots[Len(d.slots)].record.intent)
  PROVE  IndexOK(y) /\ Fits(l, d, y)
<1>0. /\ d.slots \in Seq(EventCapsules) /\ Len(d.slots) \in Nat
      /\ DOMAIN d.slots = 1 .. Len(d.slots)
      /\ d.slots # <<>> => Len(d.slots) \in DOMAIN d.slots
  BY EmptySeq, LenProperties DEF LaneOK, LaneValues
<1>1. IndexOK(y)
  BY DEF IndexOK, SameIndex, SameRecords
<1>2. /\ ProjectedIn(y) = ProjectedIn(x)
      /\ \A intent : Pending(x, intent) <=> Pending(y, intent)
  BY DEF Pending, ProjectedIn, SameIndex, SameRecords
<1>3. \A i \in DOMAIN d.slots :
         Ready(x, d.slots[i].record.intent) => Ready(y, d.slots[i].record.intent)
  BY <1>2 DEF Ready, Pending
<1>4. Backed(l, d, y)
  BY DEF Fits, Backed, SameIndex, SameRecords
<1>5. Trails(d, y)
  BY <1>2, <1>3 DEF Fits, Trails
<1>6. NextOrLast(l, d, y)
  <2> SUFFICES ASSUME y.cand # None, y.cand.intent.lane = l
               PROVE  \/ /\ y.cand.intent.sequence = Len(d.slots) + 1
                         /\ y.cand.transition = "none"
                      \/ /\ d.slots # <<>>
                         /\ Ready(y, d.slots[Len(d.slots)].record.intent)
    BY DEF NextOrLast
  <2>1. x.cand # None /\ x.cand.intent = y.cand.intent
    BY DEF SameIndex
  <2>2. CASE d.slots # <<>> /\ Ready(x, d.slots[Len(d.slots)].record.intent)
    BY <1>0, <1>3, <2>2
  <2>3. CASE ~ (d.slots # <<>> /\ Ready(x, d.slots[Len(d.slots)].record.intent))
    <3>1. x.cand.intent.sequence = Len(d.slots) + 1 /\ x.cand.transition = "none"
      BY <2>1, <2>3 DEF Fits, NextOrLast
    <3>2. d.slots # <<>> => ~ Pending(x, d.slots[Len(d.slots)].record.intent)
      BY <1>0, <3>1 DEF Pending, LaneOK
    <3> QED BY <2>1, <3>1, <3>2
  <2> QED BY <2>2, <2>3
<1> QED BY <1>1, <1>2, <1>4, <1>5, <1>6 DEF Fits

\* The index candidate of a lane's last record becomes an index capsule.
LEMMA FitsPromoted ==
  ASSUME NEW l \in Lanes, NEW d, NEW x, NEW y, NEW r \in Records,
         NEW entry \in IndexCapsules, entry.intent = x.cand.intent, entry.record = r,
         LaneOK(l, d), IndexOK(x), Fits(l, d, x),
         x.cand # None, r.intent = x.cand.intent,
         y = [log |-> Append(x.log, entry), cand |-> None],
         r.intent.lane = l =>
            /\ d.slots # <<>> /\ d.slots[Len(d.slots)].record = r
            /\ d.cand = None
  PROVE  IndexOK(y) /\ Fits(l, d, y)
<1> DEFINE m == Len(x.log)
<1>0. /\ x.log \in Seq(IndexCapsules) /\ m \in Nat /\ DOMAIN x.log = 1 .. m
      /\ x.cand.intent.previous = m
  BY LenProperties DEF IndexOK, IndexValues
<1>1. /\ y.log \in Seq(IndexCapsules) /\ DOMAIN y.log = 1 .. m + 1
      /\ Len(y.log) = m + 1
      /\ \A k \in 1 .. m : y.log[k] = x.log[k]
      /\ y.log[m + 1] = entry
  BY <1>0, AppendProperties, LenProperties
<1>2. IndexOK(y)
  <2>1. y \in IndexValues
    BY <1>1 DEF IndexValues
  <2>2. \A k \in 1 .. m : /\ y.log[k].intent = y.log[k].record.intent
                           /\ y.log[k].intent.previous = k - 1
    BY <1>0, <1>1 DEF IndexOK
  <2> QED BY <1>0, <1>1, <2>1, <2>2 DEF IndexOK
<1>d. d.slots \in Seq(EventCapsules) /\ DOMAIN d.slots = 1 .. Len(d.slots)
      /\ (d.slots # <<>> => Len(d.slots) \in 1 .. Len(d.slots))
  BY EmptySeq, LenProperties DEF LaneOK, LaneValues
<1>3. Backed(l, d, y)
  <2> SUFFICES ASSUME NEW k \in 1 .. m + 1, y.log[k].intent.lane = l
               PROVE  \E i \in DOMAIN d.slots : d.slots[i].record = y.log[k].record
    BY <1>1 DEF Backed
  <2>1. CASE k \in 1 .. m
    BY <2>1, <1>0, <1>1 DEF Fits, Backed
  <2>2. CASE k = m + 1
    BY <2>2, <1>0, <1>1, <1>d
  <2> QED BY <2>1, <2>2, <1>0
<1>4. Trails(d, y)
  <2>1. ProjectedIn(x) \subseteq ProjectedIn(y) /\ r \in ProjectedIn(y)
    BY <1>0, <1>1 DEF ProjectedIn
  <2>2. ASSUME NEW i \in DOMAIN d.slots, Pending(x, d.slots[i].record.intent),
               i = Len(d.slots)
        PROVE  d.slots[i].record = r
    BY <2>2, <1>d DEF Pending, LaneOK
  <2> QED BY <2>1, <2>2 DEF Fits, Trails, Ready
<1>5. d.cand = None
  BY DEF Fits, Pending, LaneOK
<1> QED BY <1>2, <1>3, <1>4, <1>5 DEF Fits, NextOrLast

\* The files of a lane change, or its event candidate is made or discarded.
LEMMA FitsCandidate ==
  ASSUME NEW l \in Lanes, NEW d, NEW e, NEW x,
         LaneOK(l, d), Fits(l, d, x),
         e \in LaneValues, SameRecords(d.slots, e.slots),
         e.cand # None => /\ Pending(x, e.cand.record.intent)
                          /\ e.cand.record.intent.lane = l
                          /\ e.cand.record.intent.sequence = Len(d.slots) + 1
  PROVE  LaneOK(l, e) /\ Fits(l, e, x)
<1>0. /\ d.slots \in Seq(EventCapsules) /\ e.slots \in Seq(EventCapsules)
      /\ DOMAIN d.slots = 1 .. Len(d.slots) /\ Len(d.slots) \in Nat
      /\ d.slots # <<>> => Len(d.slots) \in DOMAIN d.slots
      /\ e.slots # <<>> <=> d.slots # <<>>
  BY EmptySeq, LenProperties DEF LaneOK, LaneValues, SameRecords
<1>1. LaneOK(l, e)
  BY DEF LaneOK, SameRecords
<1>2. Backed(l, e, x) /\ Trails(e, x)
  BY DEF Fits, Backed, Trails, SameRecords
<1>3. NextOrLast(l, e, x)
  BY <1>0 DEF Fits, NextOrLast, SameRecords
<1> QED BY <1>1, <1>2, <1>3 DEF Fits

\* The event candidate becomes the next capsule of its lane.
LEMMA FitsAppended ==
  ASSUME NEW l \in Lanes, NEW d, NEW e, NEW x, NEW c \in EventCapsules,
         LaneOK(l, d), Fits(l, d, x),
         e \in LaneValues, e.slots = Append(d.slots, c), e.cand = None,
         Ready(x, c.record.intent), c.record.intent.lane = l,
         c.record.intent.sequence = Len(d.slots) + 1,
         \A i \in DOMAIN d.slots : d.slots[i].record.event # c.record.event
  PROVE  LaneOK(l, e) /\ Fits(l, e, x)
<1> DEFINE n == Len(d.slots)
<1>0. d.slots \in Seq(EventCapsules) /\ n \in Nat /\ DOMAIN d.slots = 1 .. n
  BY LenProperties DEF LaneOK, LaneValues
<1>1. /\ e.slots \in Seq(EventCapsules) /\ DOMAIN e.slots = 1 .. n + 1
      /\ Len(e.slots) = n + 1
      /\ \A i \in 1 .. n : e.slots[i] = d.slots[i]
      /\ e.slots[n + 1] = c
  BY <1>0, AppendProperties, LenProperties
<1>2. LaneOK(l, e)
  <2>1. e \in LaneValues
    BY <1>1 DEF LaneValues
  <2>2. \A i \in 1 .. n + 1 : i \in 1 .. n \/ i = n + 1
    BY <1>0
  <2>3. \A i \in 1 .. n + 1 : /\ e.slots[i].record.intent.lane = l
                              /\ e.slots[i].record.intent.sequence = i
    BY <1>0, <1>1, <2>2 DEF LaneOK
  <2>4. \A i, j \in 1 .. n + 1 :
           e.slots[i].record.event = e.slots[j].record.event => i = j
    BY <1>0, <1>1, <2>2 DEF LaneOK
  <2> QED BY <1>1, <2>1, <2>3, <2>4 DEF LaneOK
<1>3. Backed(l, e, x)
  BY <1>0, <1>1 DEF Fits, Backed
<1>4. Trails(e, x)
  <2>1. \A i \in 1 .. n : ~ Pending(x, d.slots[i].record.intent)
    BY <1>0 DEF Pending, Ready, LaneOK
  <2>2. \A i \in 1 .. n : d.slots[i].record \in ProjectedIn(x)
    BY <1>0, <2>1 DEF Fits, Trails, Ready
  <2> QED BY <1>0, <1>1, <2>2 DEF Trails
<1>5. NextOrLast(l, e, x)
  <2>1. e.slots # <<>> /\ e.slots[Len(e.slots)] = c
    BY ONLY <1>0, <1>1, EmptySeq
  <2> QED BY <2>1 DEF NextOrLast
<1> QED BY <1>2, <1>3, <1>4, <1>5 DEF Fits

----------------------------------------------------------------------------
(* Writing files.                                                          *)

\* A lane directory changes, to one of the values D on disk.
LEMMA LaneWritten ==
  ASSUME FilesOK, NEW l \in Lanes, NEW new, NEW D,
         lane' = [lane EXCEPT ![l] = new],
         laneDisk' = [laneDisk EXCEPT ![l] = D],
         UNCHANGED <<index, indexDisk>>, new \in D,
         \A d \in D : LaneOK(l, d) /\ \A x \in indexDisk : Fits(l, d, x),
         \A d \in D : d.slots = new.slots \/ OneShort(d.slots, new.slots),
         D = {new} \/ \A x \in indexDisk : x.cand # None /\ x.cand.intent.lane = l
  PROVE  FilesOK'
<1>1. /\ lane \in [Lanes -> LaneValues]
      /\ laneDisk \in [Lanes -> SUBSET LaneValues]
      /\ D \subseteq LaneValues
  BY DEF FilesOK, LanesOK, LaneOK
<1>2. /\ lane' \in [Lanes -> LaneValues]
      /\ laneDisk' \in [Lanes -> SUBSET LaneValues]
      /\ lane'[l] = new /\ laneDisk'[l] = D
      /\ \A m \in Lanes \ {l} : lane'[m] = lane[m] /\ laneDisk'[m] = laneDisk[m]
  BY <1>1
<1>3. LanesOK'
  BY <1>2 DEF FilesOK, LanesOK
<1>4. IndexesOK'
  BY DEF FilesOK, IndexesOK
<1>5. DisksFit'
  BY <1>2 DEF FilesOK, DisksFit
<1>6. UncertainOK'
  BY <1>2 DEF FilesOK, UncertainOK, Slots
<1> QED BY <1>3, <1>4, <1>5, <1>6 DEF FilesOK

\* The index directory changes, to one of the values D on disk.
LEMMA IndexWritten ==
  ASSUME FilesOK, NEW new, NEW D, index' = new, indexDisk' = D,
         UNCHANGED <<lane, laneDisk>>, new \in D,
         \A x \in D : IndexOK(x),
         \A l \in Lanes : \A d \in laneDisk[l] : \A x \in D : Fits(l, d, x),
         \A l \in Lanes : laneDisk[l] # {lane[l]} =>
            \A x \in D : x.cand # None /\ x.cand.intent.lane = l
  PROVE  FilesOK'
<1>1. LanesOK' /\ IndexesOK' /\ DisksFit'
  BY DEF FilesOK, LanesOK, IndexesOK, DisksFit
<1>2. UncertainOK'
  BY DEF FilesOK, UncertainOK, Slots
<1> QED BY <1>1, <1>2 DEF FilesOK

\* What the disks may hold of the lane a process sees.
LEMMA LaneSeen ==
  ASSUME FilesOK, NEW l \in Lanes
  PROVE  /\ lane \in [Lanes -> LaneValues]
         /\ laneDisk \in [Lanes -> SUBSET LaneValues]
         /\ lane[l] \in laneDisk[l] /\ lane[l].slots = Slots(l)
         /\ \A d \in laneDisk[l] :
               /\ d \in LaneValues /\ LaneOK(l, d)
               /\ \A x \in indexDisk : Fits(l, d, x)
BY DEF FilesOK, LanesOK, DisksFit, Slots

----------------------------------------------------------------------------
(* Syncs and power losses: the same is left, in other files.               *)

\* The files of a lane change, and the same is in them.
SameLane(c, d) ==
    /\ d \in LaneValues /\ SameRecords(c.slots, d.slots)
    /\ d.cand # None => c.cand # None /\ d.cand.record = c.cand.record

\* No file of the index candidate comes or goes.
SameCandidate(x, y) ==
    x.cand # None => /\ y.cand.file = "none" => x.cand.file = "none"
                     /\ y.cand.transition # "none" => x.cand.transition # "none"

LanesKept ==
    /\ lane' \in [Lanes -> LaneValues]
    /\ laneDisk' \in [Lanes -> SUBSET LaneValues]
    /\ \A l \in Lanes :
          /\ lane'[l] \in laneDisk'[l]
          /\ \A d \in laneDisk'[l] : \E c \in laneDisk[l] : SameLane(c, d)
          /\ \/ laneDisk'[l] = {lane'[l]}
             \/ lane'[l] = lane[l] /\ laneDisk'[l] \subseteq laneDisk[l]

IndexKept ==
    /\ index' \in indexDisk'
    /\ \A y \in indexDisk' : \E x \in indexDisk : SameIndex(x, y) /\ SameCandidate(x, y)

LEMMA SameFiles ==
  ASSUME FilesOK, LanesKept, IndexKept
  PROVE  FilesOK'
<1>1. ASSUME NEW y \in indexDisk'
      PROVE  /\ IndexOK(y)
             /\ \A l \in Lanes : \A d \in laneDisk[l] : Fits(l, d, y)
             /\ \A l \in Lanes : laneDisk[l] # {lane[l]} =>
                   y.cand # None /\ y.cand.intent.lane = l
  <2>1. PICK x \in indexDisk : SameIndex(x, y) /\ SameCandidate(x, y)
    BY DEF IndexKept
  <2>2. IndexOK(x) /\ \A l \in Lanes : \A d \in laneDisk[l] : LaneOK(l, d) /\ Fits(l, d, x)
    BY DEF FilesOK, IndexesOK, LanesOK, DisksFit
  <2>3. \A l \in Lanes : \A d \in laneDisk[l] : Fits(l, d, y)
    BY <2>1, <2>2, FitsFiles DEF SameCandidate
  <2>4. \A l \in Lanes : laneDisk[l] # {lane[l]} =>
           y.cand # None /\ y.cand.intent.lane = l
    BY <2>1 DEF FilesOK, UncertainOK, SameIndex
  <2>5. IndexOK(y)
    BY <2>1, <2>2 DEF IndexOK, SameIndex, SameRecords
  <2> QED BY <2>3, <2>4, <2>5
<1>2. ASSUME NEW l \in Lanes, NEW d \in laneDisk'[l]
      PROVE  LaneOK(l, d) /\ \A y \in indexDisk' : Fits(l, d, y)
  <2>1. PICK c \in laneDisk[l] : SameLane(c, d)
    BY DEF LanesKept
  <2>2. LaneOK(l, c)
    BY DEF FilesOK, LanesOK
  <2>3. ASSUME NEW y \in indexDisk'
        PROVE  LaneOK(l, d) /\ Fits(l, d, y)
    <3>1. Fits(l, c, y)
      BY <1>1
    <3>2. d.cand # None => /\ Pending(y, d.cand.record.intent)
                           /\ d.cand.record.intent.lane = l
                           /\ d.cand.record.intent.sequence = Len(c.slots) + 1
      BY <2>1, <2>2, <3>1 DEF SameLane, LaneOK, Fits
    <3> QED BY <2>1, <2>2, <3>1, <3>2, FitsCandidate DEF SameLane
  <2>4. index' \in indexDisk'
    BY DEF IndexKept
  <2> QED BY <2>3, <2>4
<1>3. LanesOK'
  BY <1>2 DEF LanesOK, LanesKept
<1>4. IndexesOK'
  BY <1>1 DEF IndexesOK, IndexKept
<1>5. DisksFit'
  BY <1>2 DEF DisksFit
<1>6. UncertainOK'
  <2> SUFFICES ASSUME NEW l \in Lanes
               PROVE  /\ \A d \in laneDisk'[l] : \/ d.slots = lane'[l].slots
                                                 \/ OneShort(d.slots, lane'[l].slots)
                      /\ \/ laneDisk'[l] = {lane'[l]}
                         \/ \A x \in indexDisk' : x.cand # None /\ x.cand.intent.lane = l
    BY DEF UncertainOK, Slots
  <2>1. CASE laneDisk'[l] = {lane'[l]}
    BY <2>1
  <2>2. CASE lane'[l] = lane[l] /\ laneDisk'[l] \subseteq laneDisk[l]
    <3>1. laneDisk[l] = {lane[l]} => laneDisk'[l] = {lane'[l]}
      BY <2>2 DEF LanesKept
    <3>2. \A d \in laneDisk[l] : d.slots = lane[l].slots \/ OneShort(d.slots, lane[l].slots)
      BY DEF FilesOK, UncertainOK, Slots
    <3> QED BY <1>1, <2>2, <3>1, <3>2
  <2> QED BY <2>1, <2>2 DEF LanesKept
<1> QED BY <1>3, <1>4, <1>5, <1>6 DEF FilesOK

LEMMA SameLaneSelf ==
  ASSUME NEW d \in LaneValues
  PROVE  SameLane(d, d)
BY DEF SameLane, SameRecords

LEMMA SameIndexSelf ==
  ASSUME NEW x \in IndexValues
  PROVE  SameIndex(x, x) /\ SameCandidate(x, x)
BY DEF SameIndex, SameRecords, SameCandidate

LEMMA LanesUnchanged ==
  ASSUME FilesOK, UNCHANGED <<lane, laneDisk>>
  PROVE  LanesKept
BY LaneSeen, SameLaneSelf DEF LanesKept, FilesOK, LanesOK

LEMMA IndexUnchanged ==
  ASSUME FilesOK, UNCHANGED <<index, indexDisk>>
  PROVE  IndexKept
BY SameIndexSelf DEF IndexKept, FilesOK, IndexesOK, IndexOK

\* The names of a lane, or of the index, are made durable.
LEMMA LaneNamedKept ==
  ASSUME FilesOK, NEW l \in Lanes, UNCHANGED lane,
         laneDisk' = [laneDisk EXCEPT ![l] = LaneNamed(l)]
  PROVE  LanesKept /\ \A d \in laneDisk'[l] : d.slots = Slots(l)
<1>1. /\ lane[l] \in LaneNamed(l) /\ LaneNamed(l) \subseteq laneDisk[l]
      /\ \A d \in LaneNamed(l) : d.slots = Slots(l)
  BY LaneSeen DEF LaneNamed, Slots
<1>2. /\ lane \in [Lanes -> LaneValues]
      /\ laneDisk \in [Lanes -> SUBSET LaneValues]
      /\ \A m \in Lanes : lane[m] \in laneDisk[m]
  BY LaneSeen DEF FilesOK, LanesOK
<1>3. /\ laneDisk' \in [Lanes -> SUBSET LaneValues] /\ laneDisk'[l] = LaneNamed(l)
      /\ \A m \in Lanes : laneDisk'[m] \subseteq laneDisk[m] /\ lane[m] \in laneDisk'[m]
  BY <1>1, <1>2
<1>4. \A m \in Lanes : \A d \in laneDisk'[m] : d \in laneDisk[m] /\ SameLane(d, d)
  BY <1>3, SameLaneSelf
<1> QED BY <1>1, <1>2, <1>3, <1>4 DEF LanesKept

LEMMA IndexNamedKept ==
  ASSUME FilesOK, SyncIndexNames
  PROVE  IndexKept /\ index' = index
<1>1. index' = index /\ index \in indexDisk' /\ indexDisk' \subseteq indexDisk
  BY DEF SyncIndexNames, IndexNamed, FilesOK, IndexesOK
<1>2. \A y \in indexDisk' : y \in indexDisk /\ SameIndex(y, y) /\ SameCandidate(y, y)
  BY <1>1, SameIndexSelf DEF FilesOK, IndexesOK, IndexOK
<1> QED BY <1>1, <1>2 DEF IndexKept

\* The files of the i-th capsule are synced.
LEMMA WholeFacts ==
  ASSUME NEW S, NEW s \in Seq(S), NEW i \in DOMAIN s,
         [s[i] EXCEPT !.file = "whole"] \in S,
         [s[i] EXCEPT !.file = "whole"].record = s[i].record,
         [s[i] EXCEPT !.file = "whole"].file = "whole"
  PROVE  /\ WithWhole(s, i) \in Seq(S) /\ SameRecords(s, WithWhole(s, i))
         /\ WithWhole(s, i)[i].file = "whole"
         /\ WithWhole(s, i)[i] = [s[i] EXCEPT !.file = "whole"]
         /\ \A j \in DOMAIN s : j # i => WithWhole(s, i)[j] = s[j]
<1> DEFINE e == [s[i] EXCEPT !.file = "whole"]
<1>1. i \in 1 .. Len(s) /\ DOMAIN s = 1 .. Len(s) /\ e \in S
  BY LenProperties
<1>2. WithWhole(s, i) = [s EXCEPT ![i] = e]
  BY DEF WithWhole
<1>3. e.record = s[i].record /\ e.file = "whole"
  OBVIOUS
<1> HIDE DEF e
<1>4. /\ [s EXCEPT ![i] = e] \in Seq(S) /\ Len([s EXCEPT ![i] = e]) = Len(s)
      /\ \A j \in 1 .. Len(s) : [s EXCEPT ![i] = e][j] = IF j = i THEN e ELSE s[j]
  BY <1>1, ExceptSeq
<1>5. DOMAIN WithWhole(s, i) = DOMAIN s
  BY <1>2
<1> QED BY <1>1, <1>2, <1>3, <1>4, <1>5 DEF SameRecords, e

LEMMA WholeSlots ==
  ASSUME NEW s \in Seq(EventCapsules), NEW i \in DOMAIN s
  PROVE  /\ WithWhole(s, i) \in Seq(EventCapsules) /\ SameRecords(s, WithWhole(s, i))
         /\ WithWhole(s, i)[i].file = "whole"
         /\ \A j \in DOMAIN s : j # i => WithWhole(s, i)[j] = s[j]
<1>1. s[i] \in EventCapsules
  BY ElementOfSeq, LenProperties
<1>2. /\ [s[i] EXCEPT !.file = "whole"] \in EventCapsules
      /\ [s[i] EXCEPT !.file = "whole"].record = s[i].record
      /\ [s[i] EXCEPT !.file = "whole"].file = "whole"
  BY <1>1 DEF EventCapsules, FileStates
<1> QED BY <1>2, WholeFacts

LEMMA WholeLog ==
  ASSUME NEW s \in Seq(IndexCapsules), NEW i \in DOMAIN s
  PROVE  /\ WithWhole(s, i) \in Seq(IndexCapsules) /\ SameRecords(s, WithWhole(s, i))
         /\ WithWhole(s, i)[i].file = "whole"
         /\ \A j \in DOMAIN s : WithWhole(s, i)[j].intent = s[j].intent
         /\ \A j \in DOMAIN s : j # i => WithWhole(s, i)[j] = s[j]
<1>1. s[i] \in IndexCapsules
  BY ElementOfSeq, LenProperties
<1>2. /\ [s[i] EXCEPT !.file = "whole"] \in IndexCapsules
      /\ [s[i] EXCEPT !.file = "whole"].record = s[i].record
      /\ [s[i] EXCEPT !.file = "whole"].intent = s[i].intent
      /\ [s[i] EXCEPT !.file = "whole"].file = "whole"
  BY <1>1 DEF IndexCapsules, FileStates
<1>3. /\ WithWhole(s, i) \in Seq(IndexCapsules) /\ SameRecords(s, WithWhole(s, i))
      /\ WithWhole(s, i)[i].file = "whole"
      /\ WithWhole(s, i)[i] = [s[i] EXCEPT !.file = "whole"]
      /\ \A j \in DOMAIN s : j # i => WithWhole(s, i)[j] = s[j]
  BY <1>2, WholeFacts
<1> QED BY <1>2, <1>3

\* A capsule of a lane is made durable.
LEMMA LaneSyncedKept ==
  ASSUME FilesOK, NEW l \in Lanes, NEW i \in DOMAIN Slots(l),
         SyncLane(l, [lane[l] EXCEPT !.slots = WithWhole(@, i)])
  PROVE  /\ LanesKept /\ laneDisk'[l] = {lane'[l]}
         /\ lane'[l].cand = lane[l].cand
         /\ Slots(l)' = WithWhole(Slots(l), i)
         /\ Slots(l)' \in Seq(EventCapsules) /\ SameRecords(Slots(l), Slots(l)')
         /\ \A m \in Lanes \ {l} : lane'[m] = lane[m] /\ laneDisk'[m] = laneDisk[m]
<1> DEFINE new == [lane[l] EXCEPT !.slots = WithWhole(lane[l].slots, i)]
<1>1. /\ lane[l] \in LaneValues /\ lane[l].slots = Slots(l)
      /\ lane \in [Lanes -> LaneValues] /\ lane[l] \in laneDisk[l]
      /\ laneDisk \in [Lanes -> SUBSET LaneValues]
      /\ \A m \in Lanes : lane[m] \in laneDisk[m]
  BY LaneSeen DEF FilesOK, LanesOK
<1>2. /\ WithWhole(Slots(l), i) \in Seq(EventCapsules)
      /\ SameRecords(Slots(l), WithWhole(Slots(l), i))
  BY <1>1, WholeSlots DEF LaneValues
<1>3. /\ new \in LaneValues /\ new.slots = WithWhole(Slots(l), i)
      /\ new.cand = lane[l].cand
  BY <1>1, <1>2 DEF LaneValues
<1>4. lane' = [lane EXCEPT ![l] = new] /\ laneDisk' = [laneDisk EXCEPT ![l] = {new}]
  BY DEF SyncLane
<1> HIDE DEF new
<1>5. SameLane(lane[l], new)
  BY <1>1, <1>2, <1>3 DEF SameLane
<1>6. /\ lane' \in [Lanes -> LaneValues] /\ laneDisk' \in [Lanes -> SUBSET LaneValues]
      /\ lane'[l] = new /\ laneDisk'[l] = {new}
      /\ \A m \in Lanes \ {l} : lane'[m] = lane[m] /\ laneDisk'[m] = laneDisk[m]
  BY <1>1, <1>3, <1>4
<1>7. ASSUME NEW m \in Lanes
      PROVE  /\ lane'[m] \in laneDisk'[m]
             /\ \A d \in laneDisk'[m] : \E c \in laneDisk[m] : SameLane(c, d)
             /\ \/ laneDisk'[m] = {lane'[m]}
                \/ lane'[m] = lane[m] /\ laneDisk'[m] \subseteq laneDisk[m]
  <2>1. CASE m = l
    BY <1>1, <1>5, <1>6, <2>1
  <2>2. CASE m # l
    <3>1. \A d \in laneDisk[m] : SameLane(d, d)
      BY <1>1, SameLaneSelf
    <3> QED BY <1>1, <1>6, <2>2, <3>1
  <2> QED BY <2>1, <2>2
<1> QED BY <1>2, <1>3, <1>6, <1>7 DEF LanesKept, Slots

\* A capsule of the index is made durable.
LEMMA BarrierCapsuleKept ==
  ASSUME FilesOK, NEW r \in Projected, BarrierCapsule(r)
  PROVE  /\ IndexKept /\ index'.cand = index.cand
         /\ \E k \in DOMAIN index.log :
               /\ index.log[k].record = r
               /\ \A x \in indexDisk' : x.log = WithWhole(index.log, k)
         /\ SameRecords(index.log, index'.log)
<1> DEFINE k == CHOOSE k \in DOMAIN index.log : index.log[k].record = r
           log == WithWhole(index.log, k)
<1>1. k \in DOMAIN index.log /\ index.log[k].record = r
  BY DEF Projected
<1>2. index \in IndexNamed /\ index.log \in Seq(IndexCapsules)
  BY DEF FilesOK, IndexesOK, IndexOK, IndexNamed, IndexValues
<1>3. /\ index' = [index EXCEPT !.log = log]
      /\ indexDisk' = {[d EXCEPT !.log = log] : d \in IndexNamed}
  BY DEF BarrierCapsule
<1> HIDE DEF k
<1>4. /\ log \in Seq(IndexCapsules) /\ SameRecords(index.log, log)
      /\ \A j \in DOMAIN index.log : log[j].intent = index.log[j].intent
  BY <1>1, <1>2, WholeLog
<1>5. ASSUME NEW d \in IndexNamed
      PROVE  /\ d \in indexDisk /\ SameIndex(d, [d EXCEPT !.log = log])
             /\ SameCandidate(d, [d EXCEPT !.log = log])
             /\ [d EXCEPT !.log = log].cand = d.cand
             /\ [d EXCEPT !.log = log].log = log
  <2>1. d \in indexDisk /\ d.log = index.log /\ d \in IndexValues
    BY DEF IndexNamed, FilesOK, IndexesOK, IndexOK
  <2> HIDE DEF log
  <2>2. /\ [d EXCEPT !.log = log].cand = d.cand /\ [d EXCEPT !.log = log].log = log
        /\ [d EXCEPT !.log = log] \in IndexValues
    BY <1>4, <2>1 DEF IndexValues
  <2> QED BY <1>4, <2>1, <2>2 DEF SameIndex, SameCandidate
<1>6. index' \in indexDisk' /\ index'.cand = index.cand /\ index'.log = log
  BY <1>2, <1>3, <1>5
<1>7. \A y \in indexDisk' : y.log = log
  BY <1>3, <1>5
<1>8. IndexKept
  <2> HIDE DEF log
  <2> QED BY <1>3, <1>5, <1>6 DEF IndexKept
<1> QED BY <1>1, <1>4, <1>6, <1>7, <1>8

----------------------------------------------------------------------------
(* The commit that holds the lock.                                         *)

\* What the invariant says of the files a process sees.
LEMMA Seen ==
  ASSUME IInv, NEW l \in Lanes
  PROVE  /\ lane[l] \in LaneValues /\ lane[l] \in laneDisk[l]
         /\ lane[l].slots = Slots(l)
         /\ Slots(l) \in Seq(EventCapsules) /\ Len(Slots(l)) \in Nat
         /\ DOMAIN Slots(l) = 1 .. Len(Slots(l))
         /\ \A i \in DOMAIN Slots(l) : Slots(l)[i].record \in Records
         /\ Slots(l) # <<>> => Len(Slots(l)) \in DOMAIN Slots(l)
         /\ Slots(l) = <<>> => DOMAIN Slots(l) = {}
         /\ LaneOK(l, lane[l]) /\ index \in indexDisk /\ IndexOK(index)
         /\ Fits(l, lane[l], index)
         /\ index \in IndexValues /\ Len(index.log) \in Nat
         /\ index.cand # None => index.cand \in IndexCandidates
         /\ Projected = ProjectedIn(index)
<1>1. lane[l] \in LaneValues /\ lane[l] \in laneDisk[l] /\ LaneOK(l, lane[l])
      /\ lane[l].slots = Slots(l)
  BY LaneSeen DEF IInv
<1>2. index \in indexDisk /\ IndexOK(index) /\ Fits(l, lane[l], index)
  BY <1>1 DEF IInv, FilesOK, IndexesOK, DisksFit
<1>3. Slots(l) \in Seq(EventCapsules)
  BY <1>1 DEF LaneValues
<1>4. index \in IndexValues /\ Len(index.log) \in Nat
      /\ (index.cand # None => index.cand \in IndexCandidates)
  BY <1>2, LenProperties DEF IndexOK, IndexValues
<1>5. Len(Slots(l)) \in Nat /\ DOMAIN Slots(l) = 1 .. Len(Slots(l))
      /\ (Slots(l) # <<>> => Len(Slots(l)) \in DOMAIN Slots(l))
      /\ (Slots(l) = <<>> => DOMAIN Slots(l) = {})
  BY <1>3, LenProperties, EmptySeq
<1>6. ASSUME NEW i \in DOMAIN Slots(l) PROVE Slots(l)[i].record \in Records
  <2>1. Slots(l)[i] \in EventCapsules
    BY <1>3, <1>5, ElementOfSeq
  <2> QED BY <2>1 DEF EventCapsules
<1> QED BY <1>1, <1>2, <1>3, <1>4, <1>5, <1>6 DEF Projected, ProjectedIn

LEMMA AtFacts ==
  ASSUME IInv, NEW pc, At(pc)
  PROVE  /\ writer # None /\ writer.pc = pc /\ writer \in Writers
         /\ writer.lane \in Lanes /\ writer.event \in Events
         /\ \A i \in DOMAIN Slots(writer.lane) :
               Slots(writer.lane)[i].file # "torn"
         /\ pc # "barrier_event" =>
               \A d \in laneDisk[writer.lane] : d.slots = Slots(writer.lane)
BY DEF IInv, At, WriterOK, Writers, SoundOK, Certain, Between

LEMMA GoToFacts ==
  ASSUME writer \in Writers, NEW pc \in Pcs, GoTo(pc)
  PROVE  /\ writer' \in Writers /\ writer'.pc = pc
         /\ writer'.lane = writer.lane /\ writer'.event = writer.event
         /\ writer'.record = writer.record /\ writer'.then = writer.then
BY DEF GoTo, Writers

\* No commit holds the lock.
LEMMA WriterGone ==
  ASSUME writer' = None
  PROVE  WriterOK(writer)'
BY DEF WriterOK, Between, SoundOK, Certain, DecideOK, IntentOK, EventOK,
       CandidateOK, PromotedOK, AwaitedOK, ThenOK

LEMMA FilesUnchanged ==
  ASSUME FilesOK, UNCHANGED files
  PROVE  FilesOK'
BY DEF files, FilesOK, LanesOK, IndexesOK, DisksFit, UncertainOK, Slots

LEMMA WriterKept ==
  ASSUME WriterOK(writer), UNCHANGED <<files, writer>>
  PROVE  WriterOK(writer)'
BY DEF files, WriterOK, Between, SoundOK, Certain, DecideOK, IntentOK, EventOK,
       CandidateOK, PromotedOK, AwaitedOK, ThenOK, Slots, LastRecord, Committed,
       Projected, NewPlan

LEMMA CallersKept ==
  ASSUME CallersOK, UNCHANGED <<wanted, acked>>
  PROVE  CallersOK'
BY DEF CallersOK

LEMMA ReplyCallers ==
  ASSUME IInv, writer # None, ReplyCommitted
  PROVE  CallersOK' /\ writer' = None
BY DEF IInv, CallersOK, ReplyCommitted, WriterOK, Writers

LEMMA InitIInv == Init => IInv
<1> SUFFICES ASSUME Init PROVE IInv
  OBVIOUS
<1> DEFINE d0 == [slots |-> <<>>, cand |-> None]
           x0 == [log |-> <<>>, cand |-> None]
<1>0. <<>> \in Seq(EventCapsules) /\ <<>> \in Seq(IndexCapsules) /\ DOMAIN <<>> = {}
  BY EmptySeq
<1>1. d0 \in LaneValues /\ x0 \in IndexValues
  BY <1>0 DEF LaneValues, IndexValues
<1>2. IndexOK(x0)
  BY <1>0, <1>1 DEF IndexOK
<1>3. ASSUME NEW l \in Lanes PROVE LaneOK(l, d0) /\ Fits(l, d0, x0)
  BY <1>0, <1>1 DEF LaneOK, Fits, Backed, Trails, NextOrLast
<1>4. /\ lane = [l \in Lanes |-> d0] /\ laneDisk = [l \in Lanes |-> {d0}]
      /\ index = x0 /\ indexDisk = {x0}
  BY DEF Init
<1>5. LanesOK /\ IndexesOK /\ DisksFit /\ UncertainOK
  <2> HIDE DEF d0, x0
  <2> QED BY <1>1, <1>2, <1>3, <1>4
          DEF LanesOK, IndexesOK, DisksFit, UncertainOK, Slots
<1>6. CallersOK
  BY DEF Init, CallersOK
<1>7. WriterOK(writer)
  BY DEF Init, WriterOK, Between, SoundOK, Certain, DecideOK, IntentOK, EventOK,
         CandidateOK, PromotedOK, AwaitedOK, ThenOK
<1> QED BY <1>5, <1>6, <1>7 DEF IInv, FilesOK

LEMMA RequestIInv ==
  ASSUME IInv, NEW l \in Lanes, Abandon(l) \/ \E e \in EventsOf[l] : Request(l, e)
  PROVE  IInv'
<1>1. EventsOf[l] \subseteq Events
  BY EventsAssumption
<1>2. UNCHANGED <<files, writer>> /\ CallersOK'
  BY <1>1 DEF Request, Abandon, IInv, CallersOK
<1> QED BY <1>2, FilesUnchanged, WriterKept DEF IInv, files

LEMMA BeginIInv ==
  ASSUME IInv, NEW l \in Lanes, Begin(l)
  PROVE  IInv'
<1>1. LanesKept /\ \A d \in laneDisk'[l] : d.slots = Slots(l)
  BY LaneNamedKept DEF IInv, Begin
<1>2. FilesOK' /\ lane' = lane
  BY <1>1, IndexUnchanged, SameFiles DEF IInv, Begin
<1>3. wanted[l] \in Events
  BY DEF Begin, IInv, CallersOK
<1>4. CASE \E i \in DOMAIN Slots(l) : Slots(l)[i].file = "torn"
  <2>1. writer' = None
    BY <1>4 DEF Begin
  <2> QED BY <1>2, <2>1, CallersKept, WriterGone DEF IInv, Begin
<1>5. CASE ~ \E i \in DOMAIN Slots(l) : Slots(l)[i].file = "torn"
  <2>1. /\ writer' \in Writers /\ writer'.pc = "prior" /\ writer'.lane = l
    BY <1>3, <1>5 DEF Begin, Writers, Pcs
  <2>2. Slots(l)' = Slots(l)
    BY <1>2 DEF Slots
  <2>3. WriterOK(writer)'
    BY <1>1, <1>5, <2>1, <2>2 DEF WriterOK, Between, SoundOK, Certain, DecideOK,
         IntentOK, EventOK, CandidateOK, PromotedOK, AwaitedOK, ThenOK
  <2> QED BY <1>2, <2>3, CallersKept DEF IInv, Begin
<1> QED BY <1>4, <1>5

----------------------------------------------------------------------------
(* What the integrity checks find.                                         *)

\* A record the index trails has its own candidate; if that candidate cannot
\* be read, the intent under a committed record was lost.
LEMMA TrailingLost ==
  ASSUME IInv, NEW l \in Lanes, NEW i \in DOMAIN Slots(l),
         Slots(l)[i].record \notin Projected
  PROVE  /\ i = Len(Slots(l)) /\ Ready(index, Slots(l)[i].record.intent)
         /\ index.cand.file \notin Written => CommittedFileLost
<1>1. /\ Fits(l, lane[l], index) /\ lane[l].slots = Slots(l)
      /\ Projected = ProjectedIn(index)
      /\ index.cand # None => index.cand \in IndexCandidates
  BY Seen
<1>2. i = Len(Slots(l)) /\ Ready(index, Slots(l)[i].record.intent)
  BY <1>1 DEF Fits, Trails
<1>3. ASSUME index.cand.file \notin Written PROVE CommittedFileLost
  <2>1. index.cand.file = "torn"
    BY <1>1, <1>2, <1>3 DEF Ready, Pending, IndexCandidates, FileStates, Written
  <2>2. <<l, i>> \in Trailing
    BY DEF Trailing, Positions, RecordAt
  <2> QED BY <2>1, <2>2 DEF CommittedFileLost
<1> QED BY <1>2, <1>3

LEMMA ScanFails ==
  ASSUME IInv, NEW m \in Lanes, ~ ScanPasses
  PROVE  CommittedFileLost
<1>1. IndexOK(index)
  BY Seen
<1>2. CASE \E i \in DOMAIN index.log : index.log[i].file = "torn"
  BY <1>2 DEF CommittedFileLost
<1>3. CASE index.cand # None /\ index.cand.file \notin Written /\ TransitionPresent
  <2> DEFINE l == index.cand.intent.lane
  <2>1. index.cand \in IndexCandidates /\ l \in Lanes
    BY <1>3, Seen DEF IndexCandidates, Intents
  <2>2. Fits(l, lane[l], index) /\ lane[l].slots = Slots(l)
        /\ (Slots(l) # <<>> => Len(Slots(l)) \in DOMAIN Slots(l))
        /\ LaneOK(l, lane[l]) /\ IndexOK(index) /\ Projected = ProjectedIn(index)
    BY <2>1, Seen
  <2>3. Slots(l) # <<>> /\ Ready(index, Slots(l)[Len(Slots(l))].record.intent)
    BY <1>3, <2>2 DEF Fits, NextOrLast, TransitionPresent
  <2>4. Slots(l)[Len(Slots(l))].record \notin Projected
    BY <2>1, <2>2, <2>3, FitFacts DEF Ready
  <2> QED BY <1>3, <2>1, <2>2, <2>3, <2>4, TrailingLost
<1> QED BY <1>1, <1>2, <1>3 DEF ScanPasses, IndexOK

\* What _finalize_lane_index_transition_under_root finds for a record of the
\* lane, which is the last one when a pending successor is allowed: a failed
\* integrity check only where a file of a committed record was lost.
LEMMA FindingFacts ==
  ASSUME IInv, NEW l \in Lanes, NEW i \in DOMAIN Slots(l), NEW allow \in BOOLEAN,
         allow => i = Len(Slots(l))
  PROVE  LET r == Slots(l)[i].record
             found == Finding(l, r, allow)
         IN /\ found = "integrity" => CommittedFileLost
            /\ found = "replay" => r \in Projected
            /\ found = "promote" => /\ Ready(index, r.intent)
                                    /\ i = Len(Slots(l))
            /\ r \notin Projected => found \in {"promote", "integrity"}
<1> DEFINE r == Slots(l)[i].record
<1>1. /\ LaneOK(l, lane[l]) /\ IndexOK(index) /\ Fits(l, lane[l], index)
      /\ lane[l].slots = Slots(l) /\ Slots(l) # <<>>
      /\ Projected = ProjectedIn(index)
      /\ Len(Slots(l)) \in DOMAIN Slots(l)
  BY Seen
<1>2. ~ ScanPasses => CommittedFileLost
  BY ScanFails
<1>3. CASE r \in Projected
  <2>1. index.cand # None /\ index.cand.intent.lane = l /\ allow =>
           ~ TransitionPresent
    <3> SUFFICES ASSUME index.cand # None, index.cand.intent.lane = l, allow,
                        TransitionPresent
                 PROVE  FALSE
      OBVIOUS
    <3>1. Ready(index, Slots(l)[Len(Slots(l))].record.intent)
      BY <1>1 DEF TransitionPresent, Fits, NextOrLast
    <3>2. Slots(l)[Len(Slots(l))].record \notin Projected
      BY <1>1, <3>1, FitFacts DEF Ready
    <3> QED BY <1>3, <3>2
  <2> QED BY <1>2, <1>3, <2>1 DEF Finding
<1>4. CASE r \notin Projected
  <2>1. /\ i = Len(Slots(l)) /\ Ready(index, r.intent)
        /\ index.cand.file \notin Written => CommittedFileLost
    BY <1>4, TrailingLost
  <2>2. /\ Finding(l, r, allow) \in {"promote", "integrity"}
        /\ Finding(l, r, allow) = "integrity" =>
              ~ ScanPasses \/ index.cand.file \notin Written
    BY <1>4, <2>1 DEF Finding, Ready, Pending
  <2> QED BY <1>2, <1>4, <2>1, <2>2
<1> QED BY <1>3, <1>4

----------------------------------------------------------------------------
(* The steps of a commit.                                                  *)

\* What the first step of a finalization, or a refusal, leaves of the index.
LEMMA FinalizeFiles ==
  ASSUME FilesOK, NEW l \in Lanes, NEW r, NEW allow, NEW then,
         Finding(l, r, allow) = "replay" => r \in Projected,
         Finalize(l, r, allow, then)
  PROVE  IndexKept /\ index'.cand = index.cand /\ Projected' = Projected
<1>1. CASE Finding(l, r, allow) = "replay" /\ BarrierCapsule(r)
  <2>1. IndexKept /\ index'.cand = index.cand /\ SameRecords(index.log, index'.log)
    BY <1>1, BarrierCapsuleKept
  <2> QED BY <2>1 DEF Projected, SameRecords
<1>2. CASE UNCHANGED <<index, indexDisk>>
  BY <1>2, IndexUnchanged DEF Projected
<1> QED BY <1>1, <1>2 DEF Finalize

\* What a finalization of the i-th record leaves of the commit and its caller.
LEMMA FinalizeIInv ==
  ASSUME IInv, writer # None, NEW l \in Lanes, l = writer.lane,
         NEW i \in DOMAIN Slots(l),
         NEW allow \in BOOLEAN, allow => i = Len(Slots(l)),
         NEW then \in {"decide", "reply"},
         then = "decide" => i = Len(Slots(l)),
         then = "reply" => /\ Slots(l)[i].record.event = writer.event
                           /\ Slots(l)'[i].file = "whole",
         LanesKept, SameRecords(Slots(l), Slots(l)'),
         \A d \in laneDisk'[l] : d.slots = Slots(l)',
         \A j \in DOMAIN Slots(l)' : Slots(l)'[j].file # "torn",
         Finalize(l, Slots(l)[i].record, allow, then)
  PROVE  IInv'
<1> DEFINE r == Slots(l)[i].record
           found == Finding(l, r, allow)
<1>1. /\ found = "replay" => r \in Projected
      /\ found = "promote" => Ready(index, r.intent) /\ i = Len(Slots(l))
  BY FindingFacts
<1>2. IndexKept /\ index'.cand = index.cand /\ Projected' = Projected
  BY <1>1, FinalizeFiles DEF IInv
<1>3. FilesOK'
  BY <1>2, SameFiles DEF IInv
<1>4. writer \in Writers
  BY DEF IInv, WriterOK
<1>5. /\ r \in Records /\ Slots(l) # <<>> /\ Len(Slots(l)) \in DOMAIN Slots(l)
      /\ Slots(l) \in Seq(EventCapsules)
  BY Seen
<1>6. Slots(l)' # <<>> /\ (i = Len(Slots(l)) => LastRecord(l)' = r)
  <2>1. Len(Slots(l)') = Len(Slots(l)) /\ Slots(l)'[i].record = r
    BY DEF SameRecords
  <2>2. Len(Slots(l)) # 0
    BY <1>5, Seen
  <2>3. Slots(l)' # <<>>
    BY <2>1, <2>2, EmptySeq
  <2> QED BY <2>1, <2>3 DEF LastRecord
<1>7. CASE found = "replay" /\ then = "reply"
  <2>1. ReplyCommitted
    BY <1>7 DEF Finalize
  <2> QED BY <1>3, <2>1, ReplyCallers, WriterGone DEF IInv
<1>8. CASE found = "replay" /\ then = "decide"
  <2>1. Continue("decide")
    BY <1>8 DEF Finalize
  <2>2. /\ writer' \in Writers /\ writer'.pc = "decide" /\ writer'.lane = l
    BY <1>4, <2>1, GoToFacts DEF Continue, Pcs
  <2>3. LastRecord(l)' \in Projected'
    BY <1>1, <1>2, <1>6, <1>8
  <2>4. WriterOK(writer)'
    BY <2>2, <2>3 DEF WriterOK, Between, SoundOK, Certain, DecideOK, IntentOK,
         EventOK, CandidateOK, PromotedOK, AwaitedOK, ThenOK
  <2> QED BY <1>3, <2>1, <2>4, CallersKept DEF IInv, Continue
<1>9. CASE found = "promote"
  <2>1. writer' = [writer EXCEPT !.pc = "transition", !.record = r, !.then = then]
        /\ UNCHANGED <<index, indexDisk, wanted, acked, reply>>
    BY <1>9 DEF Finalize
  <2>2. /\ writer' \in Writers /\ writer'.pc = "transition" /\ writer'.lane = l
        /\ writer'.record = r /\ writer'.then = then /\ writer'.event = writer.event
    BY <1>4, <1>5, <2>1 DEF Writers, Pcs
  <2>3. LastRecord(l)' = r /\ Ready(index', r.intent) /\ i = Len(Slots(l)')
    BY <1>1, <1>6, <1>9, <2>1 DEF SameRecords
  <2>4. /\ Slots(writer.lane)' = Slots(l)' /\ LastRecord(writer.lane)' = r
        /\ then = "reply" => /\ r.event = writer.event
                             /\ Slots(l)'[Len(Slots(l)')].file = "whole"
    BY <2>2, <2>3 DEF Slots, LastRecord
  <2>5. SoundOK(writer)' /\ Certain(writer)' /\ PromotedOK(writer)'
    BY <1>5, <1>6, <2>2, <2>4 DEF Between, SoundOK, Certain, PromotedOK
  <2>6. ThenOK(writer)'
    BY <2>2, <2>4 DEF Between, ThenOK
  <2>8. AwaitedOK(writer)'
    BY <2>2, <2>3 DEF Between, AwaitedOK
  <2>7. WriterOK(writer)'
    BY <2>2, <2>5, <2>6, <2>8 DEF WriterOK, Between, DecideOK, IntentOK, EventOK,
         CandidateOK
  <2> QED BY <1>3, <2>1, <2>7, CallersKept DEF IInv
<1>10. CASE found \in {"contention", "integrity", "pending"}
  <2>1. writer' = None /\ UNCHANGED <<wanted, acked>>
    BY <1>10 DEF Finalize, Reply
  <2> QED BY <1>3, <2>1, CallersKept, WriterGone DEF IInv
<1> QED BY <1>7, <1>8, <1>9, <1>10 DEF Finalize

LEMMA FinalizePriorIInv ==
  ASSUME IInv, FinalizePrior
  PROVE  IInv'
<1> DEFINE l == writer.lane
<1>1. /\ writer # None /\ writer.pc = "prior" /\ writer \in Writers /\ l \in Lanes
      /\ \A i \in DOMAIN Slots(l) : Slots(l)[i].file # "torn"
      /\ \A d \in laneDisk[l] : d.slots = Slots(l)
  BY AtFacts DEF FinalizePrior
<1>2. UNCHANGED <<lane, laneDisk>> /\ Slots(l) \in Seq(EventCapsules)
  BY <1>1, Seen DEF FinalizePrior
<1>3. CASE Slots(l) = <<>>
  <2>1. Continue("decide") /\ UNCHANGED files
    BY <1>2, <1>3 DEF FinalizePrior, files
  <2>2. writer' \in Writers /\ writer'.pc = "decide" /\ writer'.lane = l
    BY <1>1, <2>1, GoToFacts DEF Continue, Pcs
  <2>3. Slots(l)' = Slots(l)
    BY <1>2, <2>2 DEF Slots
  <2>4. WriterOK(writer)'
    BY <1>1, <1>2, <1>3, <2>1, <2>2, <2>3 DEF WriterOK, Between, SoundOK, Certain,
         DecideOK, IntentOK, EventOK, CandidateOK, PromotedOK, AwaitedOK, ThenOK
  <2> QED BY <2>1, <2>4, FilesUnchanged, CallersKept DEF IInv, Continue
<1>4. CASE Slots(l) # <<>>
  <2> DEFINE i == Len(Slots(l))
  <2>1. Finalize(l, Slots(l)[i].record, TRUE, "decide")
    BY <1>4 DEF FinalizePrior, LastRecord
  <2>2. i \in DOMAIN Slots(l)
    BY <1>1, <1>4, Seen
  <2> HIDE DEF l
  <2>3. Slots(l)' = lane'[l'].slots /\ l' = writer'.lane
    BY DEF Slots, l
  <2>4. LanesKept
    BY <1>2, LanesUnchanged DEF IInv
  <2> QED BY <1>1, <1>2, <2>1, <2>2, <2>4, FinalizeIInv DEF l, Slots, SameRecords
<1> QED BY <1>3, <1>4

\* A capsule that is made durable leaves no capsule of its lane torn.
LEMMA SyncedSlots ==
  ASSUME IInv, NEW l \in Lanes, NEW i \in DOMAIN Slots(l),
         SyncLane(l, [lane[l] EXCEPT !.slots = WithWhole(@, i)]),
         \A j \in DOMAIN Slots(l) : Slots(l)[j].file # "torn"
  PROVE  /\ LanesKept /\ SameRecords(Slots(l), Slots(l)')
         /\ \A d \in laneDisk'[l] : d.slots = Slots(l)'
         /\ \A j \in DOMAIN Slots(l)' : Slots(l)'[j].file # "torn"
         /\ Slots(l)'[i].file = "whole"
         /\ lane'[l].cand = lane[l].cand
         /\ \A m \in Lanes \ {l} : lane'[m] = lane[m] /\ laneDisk'[m] = laneDisk[m]
<1>1. /\ LanesKept /\ laneDisk'[l] = {lane'[l]} /\ lane'[l].cand = lane[l].cand
      /\ Slots(l)' = WithWhole(Slots(l), i) /\ SameRecords(Slots(l), Slots(l)')
      /\ \A m \in Lanes \ {l} : lane'[m] = lane[m] /\ laneDisk'[m] = laneDisk[m]
  BY LaneSyncedKept DEF IInv
<1>2. Slots(l) \in Seq(EventCapsules)
  BY Seen
<1>3. /\ Slots(l)'[i].file = "whole" /\ DOMAIN Slots(l)' = DOMAIN Slots(l)
      /\ \A j \in DOMAIN Slots(l) : j # i => Slots(l)'[j] = Slots(l)[j]
  <2>1. /\ WithWhole(Slots(l), i)[i].file = "whole"
        /\ \A j \in DOMAIN Slots(l) : j # i => WithWhole(Slots(l), i)[j] = Slots(l)[j]
    BY <1>2, WholeSlots
  <2>2. DOMAIN Slots(l)' = DOMAIN Slots(l)
    BY <1>1 DEF SameRecords
  <2> QED BY ONLY <1>1, <2>1, <2>2
<1>4. \A j \in DOMAIN Slots(l)' : Slots(l)'[j].file # "torn"
  BY <1>3
<1>5. \A d \in laneDisk'[l] : d.slots = Slots(l)'
  BY <1>1 DEF Slots
<1> QED BY <1>1, <1>3, <1>4, <1>5

LEMMA ReplayIInv ==
  ASSUME IInv, Replay
  PROVE  IInv'
<1> PICK l \in Lanes : l = writer.lane
  BY AtFacts DEF Replay
<1> DEFINE i == CHOOSE i \in DOMAIN Slots(l) : Slots(l)[i].record.event = writer.event
<1>1. /\ writer # None
      /\ \A j \in DOMAIN Slots(l) : Slots(l)[j].file # "torn"
  BY AtFacts DEF Replay
<1>2. i \in DOMAIN Slots(l) /\ Slots(l)[i].record.event = writer.event
  BY DEF Replay, Committed
<1>3. CASE lane[l].cand # None
  <2>1. UNCHANGED files /\ writer' = None /\ UNCHANGED <<wanted, acked>>
    BY <1>3 DEF Replay, Reply
  <2> QED BY <2>1, FilesUnchanged, CallersKept, WriterGone DEF IInv
<1>4. CASE lane[l].cand = None
  <2>1. /\ SyncLane(l, [lane[l] EXCEPT !.slots = WithWhole(@, i)])
        /\ Finalize(l, Slots(l)[i].record, FALSE, "reply")
    BY <1>4 DEF Replay
  <2> PICK k \in DOMAIN Slots(l) : k = i
    BY <1>2
  <2>2. Slots(l)[k].record.event = writer.event
    BY <1>2
  <2>3. /\ SyncLane(l, [lane[l] EXCEPT !.slots = WithWhole(@, k)])
        /\ Finalize(l, Slots(l)[k].record, FALSE, "reply")
    BY <2>1
  <2> HIDE DEF i
  <2>4. /\ LanesKept /\ SameRecords(Slots(l), Slots(l)')
        /\ \A d \in laneDisk'[l] : d.slots = Slots(l)'
        /\ \A j \in DOMAIN Slots(l)' : Slots(l)'[j].file # "torn"
        /\ Slots(l)'[k].file = "whole"
    BY <1>1, <2>3, SyncedSlots
  <2> QED BY ONLY <1>1, <2>2, <2>3, <2>4, FinalizeIInv, l = writer.lane, IInv
<1> QED BY <1>3, <1>4

LEMMA RefuseDispatchIInv ==
  ASSUME IInv, RefuseDispatch
  PROVE  IInv'
<1>1. UNCHANGED files /\ writer' = None /\ UNCHANGED <<wanted, acked>>
  BY DEF RefuseDispatch, Reply
<1> QED BY <1>1, FilesUnchanged, CallersKept, WriterGone DEF IInv

\* Before a commit prepares its index candidate, the index is at its lane's
\* head, and the candidate of its own plan has no transition.
LEMMA PrepareFinds ==
  ASSUME IInv, At("decide")
  PROVE  /\ ~ ScanPasses => CommittedFileLost
         /\ IndexAtHead(writer.lane)
         /\ index.cand # None
               /\ Plan(index.cand.intent) = NewPlan(writer.lane, writer.event) =>
            /\ ~ TransitionPresent
            /\ index.cand.transition = "none"
<1> DEFINE l == writer.lane
<1>1. /\ writer # None /\ writer.pc = "decide" /\ l \in Lanes
  BY AtFacts
<1>2. /\ LaneOK(l, lane[l]) /\ IndexOK(index) /\ Fits(l, lane[l], index)
      /\ lane[l].slots = Slots(l)
      /\ Projected = ProjectedIn(index) /\ DOMAIN Slots(l) = 1 .. Len(Slots(l))
      /\ Len(Slots(l)) \in Nat
      /\ (Slots(l) # <<>> => Len(Slots(l)) \in DOMAIN Slots(l))
      /\ (Slots(l) = <<>> => DOMAIN Slots(l) = {})
  BY <1>1, Seen
<1>3. ~ ScanPasses => CommittedFileLost
  BY <1>1, ScanFails
<1>4. Slots(l) # <<>> => LastRecord(l) \in Projected /\ LastRecord(l).intent.lane = l
  BY <1>1, <1>2 DEF IInv, WriterOK, DecideOK, Between, LaneOK, LastRecord
<1>5. \A r \in Projected : r.intent.lane = l =>
         \E i \in DOMAIN Slots(l) : Slots(l)[i].record = r
  BY <1>2 DEF ProjectedIn, Fits, Backed, IndexOK
<1>6. \A r \in Projected : r.intent.lane = l => r.intent.sequence <= Len(Slots(l))
  BY <1>2, <1>5 DEF LaneOK
<1>7. IndexAtHead(l)
  BY <1>2, <1>4, <1>5, <1>6 DEF IndexAtHead
<1>8. ASSUME index.cand # None, Plan(index.cand.intent) = NewPlan(l, writer.event)
      PROVE  index.cand.transition = "none"
  <2>1. index.cand.intent.lane = l
        /\ index.cand.intent.sequence = Len(Slots(l)) + 1
    BY <1>8 DEF Plan, NewPlan
  <2>2. Slots(l) # <<>> => ~ Ready(index, LastRecord(l).intent)
    BY <1>2, <2>1 DEF Ready, Pending, LaneOK, LastRecord
  <2> QED BY <1>2, <1>8, <2>1, <2>2 DEF Fits, NextOrLast, LastRecord
<1> QED BY <1>3, <1>7, <1>8 DEF TransitionPresent

LEMMA PrepareIndexIInv ==
  ASSUME IInv, PrepareIndex
  PROVE  IInv'
<1> PICK l \in Lanes : l = writer.lane
  BY AtFacts DEF PrepareIndex
<1> PICK e \in Events : e = writer.event
  BY AtFacts DEF PrepareIndex
<1> DEFINE plan == NewPlan(l, e)
<1>1. /\ writer # None /\ writer.pc = "decide" /\ writer \in Writers /\ At("decide")
      /\ \A j \in DOMAIN Slots(l) : Slots(l)[j].file # "torn"
      /\ \A d \in laneDisk[l] : d.slots = Slots(l)
  BY AtFacts DEF PrepareIndex
<1>2. /\ UNCHANGED <<lane, laneDisk>> /\ e \notin Committed(l)
      /\ Slots(l)' = Slots(l) /\ Committed(l)' = Committed(l)
  BY DEF PrepareIndex, Slots, Committed
<1>3. /\ index \in indexDisk /\ IndexOK(index) /\ index \in IndexValues
      /\ Len(Slots(l)) \in Nat /\ Len(index.log) \in Nat
      /\ index.cand # None => index.cand \in IndexCandidates
  BY Seen
<1>4. index.cand # None /\ Plan(index.cand.intent) = plan =>
         index.cand.transition = "none"
  BY <1>1, PrepareFinds
\* The step to the next file, once the index candidate is the event's own.
<1>5. ASSUME FilesOK', Continue("intent"), index'.cand # None,
             Plan(index'.cand.intent) = plan, index'.log = index.log,
             index'.cand.transition = "none"
      PROVE  IInv'
  <2>1. /\ writer' \in Writers /\ writer'.pc = "intent" /\ writer'.lane = l
        /\ writer'.event = e
    BY <1>1, <1>5, GoToFacts DEF Continue, Pcs
  <2>2. Plan(index.cand.intent)' = NewPlan(writer.lane, writer.event)'
    BY <1>2, <1>5, <2>1 DEF NewPlan, Plan
  <2>3. /\ Slots(writer.lane)' = Slots(l)
        /\ Committed(writer.lane)' = Committed(l)
        /\ laneDisk'[writer'.lane] = laneDisk[l]
    BY <1>2, <2>1 DEF Slots, Committed
  <2>4. SoundOK(writer)' /\ Certain(writer)'
    BY <1>1, <2>1, <2>3 DEF SoundOK, Certain, Between
  <2>5. IntentOK(writer)'
    BY <1>2, <1>5, <2>1, <2>2, <2>3 DEF IntentOK, Between
  <2>6. WriterOK(writer)'
    BY <2>1, <2>4, <2>5 DEF WriterOK, Between, DecideOK, EventOK, CandidateOK,
         PromotedOK, AwaitedOK, ThenOK
  <2> QED BY <1>5, <2>6, CallersKept DEF IInv, Continue
<1>6. ASSUME index.cand = None, NEW inode \in Inodes,
             index' = [index EXCEPT !.cand = NewCandidate(plan, inode)],
             indexDisk' = {index, [index EXCEPT !.cand = NewCandidate(plan, inode)]},
             Continue("intent")
      PROVE  IInv'
  <2> DEFINE c == NewCandidate(plan, inode)
  <2>1. /\ c \in IndexCandidates /\ c # None /\ c.transition = "none"
        /\ c.intent.lane = l /\ c.intent.sequence = Len(Slots(l)) + 1
        /\ c.intent.previous = Len(index.log)
        /\ Plan(c.intent) = plan
    BY <1>3, EventsAssumption
       DEF NewCandidate, NewPlan, Plan, IndexCandidates, Intents, FileStates
  <2> DEFINE new == [index EXCEPT !.cand = c]
             D == {index, new}
  <2> HIDE DEF c
  <2>2. /\ new \in IndexValues /\ new.log = index.log /\ new.cand = c
    BY <1>3, <2>1 DEF IndexValues
  <2> HIDE DEF new
  <2>3. ASSUME NEW m \in Lanes, NEW d \in laneDisk[m]
        PROVE  IndexOK(new) /\ Fits(m, d, new)
    <3>1. LaneOK(m, d) /\ Fits(m, d, index)
      BY <1>3 DEF IInv, FilesOK, LanesOK, DisksFit
    <3>2. m = l => c.intent.sequence = Len(d.slots) + 1
      BY <1>1, <2>1
    <3> QED BY <1>3, <1>6, <2>1, <2>2, <3>1, <3>2, FitsNewCandidate
  <2>4. \A m \in Lanes : laneDisk[m] = {lane[m]} /\ lane[m] \in laneDisk[m]
    BY <1>3, <1>6 DEF IInv, FilesOK, UncertainOK
  <2>5. /\ \A x \in D : IndexOK(x)
        /\ \A m \in Lanes : \A d \in laneDisk[m] : \A x \in D : Fits(m, d, x)
        /\ \A m \in Lanes : laneDisk[m] # {lane[m]} =>
              \A x \in D : x.cand # None /\ x.cand.intent.lane = m
        /\ new \in D
    BY <1>3, <2>3, <2>4 DEF IInv, FilesOK, DisksFit
  <2>6. index' = new /\ indexDisk' = D
    BY <1>6 DEF new, c
  <2> HIDE DEF D
  <2>7. FilesOK'
    BY <1>2, <2>5, <2>6, IndexWritten DEF IInv
  <2> QED BY <1>5, <1>6, <2>1, <2>2, <2>6, <2>7
<1>7. ASSUME SyncIndexNames PROVE FilesOK' /\ index' = index
  BY <1>2, <1>7, LanesUnchanged, IndexNamedKept, SameFiles DEF IInv
<1>8. ASSUME SyncIndexNames, Continue("intent"), index.cand # None,
             Plan(index.cand.intent) = plan
      PROVE  IInv'
  BY <1>4, <1>5, <1>7, <1>8
<1>9. ASSUME SyncIndexNames, NEW outcome, NEW reason, Reply(outcome, reason)
      PROVE  IInv'
  BY <1>7, <1>9, CallersKept, WriterGone DEF IInv, Reply
<1>10. \/ /\ index.cand = None
          /\ \E inode \in Inodes :
                /\ index' = [index EXCEPT !.cand = NewCandidate(plan, inode)]
                /\ indexDisk' = {index, [index EXCEPT !.cand = NewCandidate(plan, inode)]}
          /\ Continue("intent")
       \/ /\ SyncIndexNames /\ Continue("intent") /\ index.cand # None
          /\ Plan(index.cand.intent) = plan
       \/ /\ SyncIndexNames /\ Reply("reconciliation_required", "contention")
       \/ /\ SyncIndexNames /\ Reply("quarantined", "integrity")
  BY DEF PrepareIndex
<1> QED BY <1>6, <1>8, <1>9, <1>10

LEMMA WriteIntentIInv ==
  ASSUME IInv, WriteIntent
  PROVE  IInv'
<1> PICK l \in Lanes : l = writer.lane
  BY AtFacts DEF WriteIntent
<1> DEFINE new == [index EXCEPT !.cand.file = Repaired(index.cand.file)]
           r == [event |-> writer.event, intent |-> index.cand.intent]
<1>1. /\ writer # None /\ writer.pc = "intent" /\ writer \in Writers
      /\ writer.event \in Events
      /\ \A j \in DOMAIN Slots(l) : Slots(l)[j].file # "torn"
      /\ \A d \in laneDisk[l] : d.slots = Slots(l)
  BY AtFacts DEF WriteIntent
<1>2. /\ index.cand # None /\ Plan(index.cand.intent) = NewPlan(l, writer.event)
      /\ index.cand.transition = "none" /\ writer.event \notin Committed(l)
  BY <1>1 DEF IInv, WriterOK, IntentOK, Between
<1>3. /\ index \in indexDisk /\ IndexOK(index) /\ index \in IndexValues
      /\ index.cand \in IndexCandidates
  BY <1>2, Seen
<1>4. /\ new \in IndexValues /\ new.log = index.log /\ new.cand # None
      /\ new.cand.intent = index.cand.intent /\ new.cand.file \in Written
      /\ new.cand.transition = index.cand.transition
      /\ new.cand.file # "none"
  BY <1>2, <1>3, EventsAssumption
     DEF IndexValues, IndexCandidates, FileStates, Repaired, Written
<1>5. /\ index' = new /\ indexDisk' = {new} /\ UNCHANGED <<lane, laneDisk, wanted, acked>>
      /\ writer' = [writer EXCEPT !.pc = "event_candidate", !.record = r]
  BY DEF WriteIntent, SyncIndex
<1>6. r \in Records /\ r.event = writer.event /\ r.intent = index.cand.intent
      /\ r.intent.lane = l /\ r.intent.sequence = Len(Slots(l)) + 1
  BY <1>1, <1>2, <1>3 DEF Records, IndexCandidates, Plan, NewPlan
<1>7. /\ writer' \in Writers /\ writer'.pc = "event_candidate" /\ writer'.lane = l
      /\ writer'.record = r /\ writer'.event = writer.event
  BY <1>1, <1>5, <1>6 DEF Writers, Pcs
<1>8. Slots(l)' = Slots(l) /\ Committed(l)' = Committed(l) /\ laneDisk' = laneDisk
  BY <1>5 DEF Slots, Committed
<1> HIDE DEF new
<1>9. SameIndex(index, new)
  BY <1>2, <1>4 DEF SameIndex, SameRecords
<1>10. ASSUME NEW m \in Lanes, NEW d \in laneDisk[m]
       PROVE  IndexOK(new) /\ Fits(m, d, new)
  <2>1. LaneOK(m, d) /\ Fits(m, d, index)
    BY <1>3 DEF IInv, FilesOK, LanesOK, DisksFit
  <2> QED BY <1>2, <1>3, <1>4, <1>9, <2>1, FitsFiles
<1>11. FilesOK'
  <2> DEFINE D == {new}
  <2>1. \A m \in Lanes : lane[m] \in laneDisk[m]
    BY DEF IInv, FilesOK, LanesOK
  <2>2. \A m \in Lanes : laneDisk[m] # {lane[m]} =>
           new.cand # None /\ new.cand.intent.lane = m
    BY <1>3, <1>4 DEF IInv, FilesOK, UncertainOK
  <2>3. /\ \A x \in D : IndexOK(x)
        /\ \A m \in Lanes : \A d \in laneDisk[m] : \A x \in D : Fits(m, d, x)
        /\ \A m \in Lanes : laneDisk[m] # {lane[m]} =>
              \A x \in D : x.cand # None /\ x.cand.intent.lane = m
        /\ new \in D
    BY <1>10, <2>1, <2>2
  <2>4. index' = new /\ indexDisk' = D
    BY <1>5
  <2> HIDE DEF D
  <2> QED BY <1>5, <2>3, <2>4, IndexWritten DEF IInv
<1>12. /\ Slots(writer.lane)' = Slots(l)' /\ Committed(writer.lane)' = Committed(l)'
       /\ laneDisk'[writer'.lane] = laneDisk[l]
  BY <1>7, <1>8 DEF Slots, Committed
<1>13. SoundOK(writer)' /\ Certain(writer)'
  BY <1>1, <1>7, <1>8, <1>12 DEF SoundOK, Certain, Between
<1>14. EventOK(writer)'
  <2>1. /\ indexDisk' = {index'} /\ writer'.record \in Records
        /\ writer'.record.event = writer'.event
        /\ writer'.event \notin Committed(writer.lane)'
    BY <1>2, <1>5, <1>6, <1>7, <1>8, <1>12
  <2>2. /\ index'.cand # None /\ index'.cand.file \in Written
        /\ index'.cand.intent = writer'.record.intent
        /\ writer'.record.intent.lane = writer'.lane
        /\ writer'.record.intent.sequence = Len(Slots(writer.lane)') + 1
    <3> HIDE DEF r
    <3> QED BY <1>4, <1>5, <1>6, <1>7, <1>8, <1>12
  <2> QED BY <2>1, <2>2 DEF EventOK
<1>15. WriterOK(writer)'
  BY <1>7, <1>13, <1>14 DEF WriterOK, Between, DecideOK, IntentOK, CandidateOK,
     PromotedOK, AwaitedOK, ThenOK
<1> QED BY <1>5, <1>11, <1>15, CallersKept DEF IInv

\* What a commit knows while it writes its event.
LEMMA EventFacts ==
  ASSUME IInv, Between(writer, {"event_candidate", "write_event", "promote_event"})
  PROVE  LET l == writer.lane
             r == writer.record
         IN /\ writer \in Writers /\ l \in Lanes /\ r \in Records
            /\ indexDisk = {index} /\ Ready(index, r.intent) /\ Pending(index, r.intent)
            /\ index.cand.file \in Written /\ index.cand # None
            /\ index.cand.intent = r.intent
            /\ r.intent.lane = l /\ r.intent.sequence = Len(Slots(l)) + 1
            /\ r.event = writer.event /\ writer.event \notin Committed(l)
            /\ lane \in [Lanes -> LaneValues]
            /\ laneDisk \in [Lanes -> SUBSET LaneValues]
            /\ \A j \in DOMAIN Slots(l) : Slots(l)[j].file # "torn"
            /\ \A d \in laneDisk[l] : /\ LaneOK(l, d) /\ Fits(l, d, index)
                                      /\ d.slots = Slots(l)
<1>1. writer \in Writers /\ writer # None /\ writer.lane \in Lanes
      /\ Between(writer, Pcs) /\ Between(writer, Pcs \ {"barrier_event"})
  BY DEF IInv, WriterOK, Between, Writers, Pcs
<1>2. EventOK(writer)
  BY DEF IInv, WriterOK
<1>3. /\ \A d \in laneDisk[writer.lane] : d.slots = Slots(writer.lane)
      /\ \A j \in DOMAIN Slots(writer.lane) : Slots(writer.lane)[j].file # "torn"
  BY <1>1 DEF IInv, WriterOK, Certain, SoundOK
<1>4. \A d \in laneDisk[writer.lane] : LaneOK(writer.lane, d)
                                       /\ Fits(writer.lane, d, index)
  BY <1>1 DEF IInv, FilesOK, LanesOK, IndexesOK, DisksFit
<1>5. /\ lane \in [Lanes -> LaneValues]
      /\ laneDisk \in [Lanes -> SUBSET LaneValues]
  BY DEF IInv, FilesOK, LanesOK
<1> QED BY <1>1, <1>2, <1>3, <1>4, <1>5 DEF EventOK, Pending, Ready, Written

\* A step of it that leaves new in the lane directory, and on disk one of D.
LEMMA EventWritten ==
  ASSUME IInv, Between(writer, {"event_candidate", "write_event", "promote_event"}),
         NEW new, NEW D,
         lane' = [lane EXCEPT ![writer.lane] = new],
         laneDisk' = [laneDisk EXCEPT ![writer.lane] = D],
         UNCHANGED <<index, indexDisk>>, new \in D,
         \A d \in D : /\ LaneOK(writer.lane, d) /\ Fits(writer.lane, d, index)
                      /\ d.slots = new.slots \/ OneShort(d.slots, new.slots)
  PROVE  /\ FilesOK' /\ lane'[writer.lane] = new /\ laneDisk'[writer.lane] = D
<1> DEFINE l == writer.lane
<1>1. /\ l \in Lanes /\ indexDisk = {index} /\ index.cand # None
      /\ index.cand.intent.lane = l
      /\ lane \in [Lanes -> LaneValues] /\ laneDisk \in [Lanes -> SUBSET LaneValues]
  BY EventFacts
<1>2. /\ \A d \in D : LaneOK(l, d) /\ \A x \in indexDisk : Fits(l, d, x)
      /\ \A d \in D : d.slots = new.slots \/ OneShort(d.slots, new.slots)
      /\ \A x \in indexDisk : x.cand # None /\ x.cand.intent.lane = l
  BY <1>1
<1>3. lane' = [lane EXCEPT ![l] = new] /\ laneDisk' = [laneDisk EXCEPT ![l] = D]
  OBVIOUS
<1>4. lane'[l] = new /\ laneDisk'[l] = D
  BY <1>1, <1>3
<1> HIDE DEF l
<1>5. FilesOK'
  BY <1>1, <1>2, <1>3, LaneWritten DEF IInv
<1> QED BY <1>4, <1>5 DEF l

\* The commit afterwards, when its event is still to be promoted.
LEMMA EventNext ==
  ASSUME IInv, Between(writer, {"event_candidate", "write_event", "promote_event"}),
         NEW pc \in {"write_event", "promote_event"}, Continue(pc),
         UNCHANGED <<index, indexDisk>>, FilesOK',
         lane'[writer.lane].cand \in EventCapsules,
         lane'[writer.lane].cand.record = writer.record,
         pc = "promote_event" => lane'[writer.lane].cand.file \in Written,
         lane'[writer.lane].slots = Slots(writer.lane),
         \A d \in laneDisk'[writer.lane] : d.slots = Slots(writer.lane)
  PROVE  IInv'
<1> PICK l \in Lanes : l = writer.lane
  BY EventFacts
<1>1. /\ writer \in Writers /\ writer.record \in Records
      /\ indexDisk = {index} /\ index.cand.file \in Written /\ index.cand # None
      /\ index.cand.intent = writer.record.intent
      /\ writer.record.intent.lane = l
      /\ writer.record.intent.sequence = Len(Slots(l)) + 1
      /\ writer.record.event = writer.event
      /\ writer.event \notin Committed(l)
      /\ \A j \in DOMAIN Slots(l) : Slots(l)[j].file # "torn"
  BY EventFacts
<1>2. /\ writer' \in Writers /\ writer'.pc = pc /\ writer'.lane = l
      /\ writer'.record = writer.record /\ writer'.event = writer.event
  BY <1>1, GoToFacts DEF Continue, Pcs
<1>3. Slots(writer.lane)' = Slots(l) /\ laneDisk'[writer'.lane] = laneDisk'[l]
  BY <1>2 DEF Slots
<1>4. Committed(writer.lane)' = Committed(l)
  BY <1>3 DEF Committed
<1>5. SoundOK(writer)' /\ Certain(writer)'
  BY <1>1, <1>2, <1>3 DEF SoundOK, Certain, Between
<1>6. EventOK(writer)'
  BY <1>1, <1>2, <1>3, <1>4 DEF EventOK, Between
<1>7. CandidateOK(writer)'
  BY <1>2 DEF CandidateOK, Between
<1>8. WriterOK(writer)'
  BY <1>2, <1>5, <1>6, <1>7 DEF WriterOK, Between, DecideOK, IntentOK, PromotedOK,
     AwaitedOK, ThenOK
<1> QED BY <1>8, CallersKept DEF IInv, Continue

LEMMA MakeEventCandidateIInv ==
  ASSUME IInv, MakeEventCandidate
  PROVE  IInv'
<1> PICK l \in Lanes : l = writer.lane
  BY AtFacts DEF MakeEventCandidate
<1> DEFINE cand == lane[l].cand
           fresh == FreshCandidate(l)
           none == [lane[l] EXCEPT !.cand = None]
<1>1. /\ writer # None /\ writer.pc = "event_candidate"
      /\ Between(writer, {"event_candidate", "write_event", "promote_event"})
  BY AtFacts DEF MakeEventCandidate, Between
<1>2. /\ writer.record \in Records /\ Pending(index, writer.record.intent)
      /\ writer.record.intent.lane = l
      /\ writer.record.intent.sequence = Len(Slots(l)) + 1
      /\ lane[l] \in LaneValues /\ lane[l] \in laneDisk[l] /\ lane[l].slots = Slots(l)
      /\ Slots(l) \in Seq(EventCapsules)
      /\ \A d \in laneDisk[l] : LaneOK(l, d) /\ Fits(l, d, index) /\ d.slots = Slots(l)
  BY <1>1, EventFacts, Seen
<1>3. /\ fresh \in LaneValues /\ fresh.slots = Slots(l)
      /\ fresh.cand \in EventCapsules /\ fresh.cand.record = writer.record
  BY <1>2 DEF LaneValues, EventCapsules, FreshCandidate, FileStates
<1>4. none \in LaneValues /\ none.slots = Slots(l) /\ none.cand = None
  BY <1>2 DEF LaneValues
<1>5. SameRecords(Slots(l), Slots(l))
  BY DEF SameRecords
<1>6. LaneOK(l, fresh) /\ Fits(l, fresh, index)
  <2> HIDE DEF fresh
  <2> QED BY <1>2, <1>3, <1>5, FitsCandidate
<1>7. LaneOK(l, none) /\ Fits(l, none, index)
  <2> HIDE DEF none
  <2> QED BY <1>2, <1>4, <1>5, FitsCandidate
<1>8. UNCHANGED <<index, indexDisk>>
  BY DEF MakeEventCandidate
<1>9. ASSUME NEW new, NEW D, NEW pc \in {"write_event", "promote_event"},
             lane' = [lane EXCEPT ![l] = new],
             laneDisk' = [laneDisk EXCEPT ![l] = D], Continue(pc),
             new \in D, new.cand \in EventCapsules, new.cand.record = writer.record,
             pc = "promote_event" => new.cand.file \in Written,
             \A d \in D : LaneOK(l, d) /\ Fits(l, d, index) /\ d.slots = Slots(l)
      PROVE  IInv'
  <2>1. /\ lane' = [lane EXCEPT ![writer.lane] = new]
        /\ laneDisk' = [laneDisk EXCEPT ![writer.lane] = D]
        /\ \A d \in D : /\ LaneOK(writer.lane, d) /\ Fits(writer.lane, d, index)
                        /\ d.slots = new.slots \/ OneShort(d.slots, new.slots)
    BY <1>9
  <2>2. FilesOK' /\ lane'[writer.lane] = new /\ laneDisk'[writer.lane] = D
    BY ONLY IInv, <1>1, <1>8, <1>9, <2>1, EventWritten
  <2> QED BY <1>1, <1>8, <1>9, <2>2, EventNext
<1>10. CASE cand = None
  <2> DEFINE D == laneDisk[l] \cup {fresh}
  <2>1. lane' = [lane EXCEPT ![l] = fresh] /\ Continue("write_event")
        /\ laneDisk' = [laneDisk EXCEPT ![l] = D]
    BY <1>10 DEF MakeEventCandidate, WriteLane
  <2>2. fresh \in D /\ \A d \in D : LaneOK(l, d) /\ Fits(l, d, index) /\ d.slots = Slots(l)
    BY <1>2, <1>3, <1>6
  <2> HIDE DEF fresh, D
  <2> QED BY <1>3, <1>9, <2>1, <2>2
<1>11. CASE cand # None /\ cand.record # writer.record
  <2>1. UNCHANGED files /\ writer' = None /\ UNCHANGED <<wanted, acked>>
    BY <1>8, <1>11 DEF MakeEventCandidate, Reply, files
  <2> QED BY <2>1, FilesUnchanged, CallersKept, WriterGone DEF IInv
<1>12. CASE cand # None /\ cand.record = writer.record /\ cand.file \in Written
  <2> DEFINE D == {d \in laneDisk[l] : d.cand = None} \cup {lane[l]}
  <2>1. lane' = [lane EXCEPT ![l] = lane[l]] /\ Continue("promote_event")
        /\ laneDisk' = [laneDisk EXCEPT ![l] = D]
    BY <1>12 DEF MakeEventCandidate, SyncLaneCandidate
  <2>2. /\ lane[l] \in D /\ cand \in EventCapsules
        /\ \A d \in D : LaneOK(l, d) /\ Fits(l, d, index) /\ d.slots = Slots(l)
    BY <1>2, <1>12 DEF LaneValues
  <2> HIDE DEF D
  <2> QED BY <1>9, <1>12, <2>1, <2>2
<1>13. CASE cand # None /\ cand.record = writer.record /\ cand.file \notin Written
  <2> DEFINE D == {none, fresh}
  <2>1. lane' = [lane EXCEPT ![l] = fresh] /\ Continue("write_event")
        /\ laneDisk' = [laneDisk EXCEPT ![l] = D]
    BY <1>13 DEF MakeEventCandidate
  <2>2. fresh \in D /\ \A d \in D : LaneOK(l, d) /\ Fits(l, d, index) /\ d.slots = Slots(l)
    BY <1>3, <1>4, <1>6, <1>7
  <2> HIDE DEF fresh, none, D
  <2> QED BY <1>3, <1>9, <2>1, <2>2
<1> QED BY <1>10, <1>11, <1>12, <1>13

\* The event candidate of the commit, once there is one, and what its file may
\* become.
LEMMA CandidateFacts ==
  ASSUME IInv, Between(writer, {"write_event", "promote_event"}),
         NEW file \in FileStates
  PROVE  LET l == writer.lane
             new == [lane[l] EXCEPT !.cand.file = file]
         IN /\ l \in Lanes /\ lane[l] \in LaneValues
            /\ lane[l].cand \in EventCapsules /\ lane[l].cand.record = writer.record
            /\ new \in LaneValues /\ new.slots = Slots(l)
            /\ new.cand \in EventCapsules /\ new.cand.record = writer.record
            /\ new.cand.file = file
            /\ LaneOK(l, new) /\ Fits(l, new, index)
<1> DEFINE l == writer.lane
           new == [lane[l] EXCEPT !.cand.file = file]
<1>1. Between(writer, {"event_candidate", "write_event", "promote_event"})
  BY DEF Between
<1>2. /\ l \in Lanes /\ Pending(index, writer.record.intent)
      /\ writer.record.intent.lane = l
      /\ writer.record.intent.sequence = Len(Slots(l)) + 1
      /\ lane[l] \in LaneValues /\ LaneOK(l, lane[l]) /\ Fits(l, lane[l], index)
      /\ lane[l].slots = Slots(l)
  BY <1>1, EventFacts, Seen
<1>3. lane[l].cand \in EventCapsules /\ lane[l].cand.record = writer.record
  BY DEF IInv, WriterOK, CandidateOK
<1>4. /\ new \in LaneValues /\ new.slots = Slots(l)
      /\ new.cand \in EventCapsules /\ new.cand.record = writer.record
      /\ new.cand.file = file
  BY <1>2, <1>3 DEF LaneValues, EventCapsules
<1>5. SameRecords(lane[l].slots, new.slots)
  BY <1>2, <1>4 DEF SameRecords
<1>6. LaneOK(l, new) /\ Fits(l, new, index)
  <2> HIDE DEF new
  <2> QED BY <1>2, <1>4, <1>5, FitsCandidate
<1> QED BY <1>2, <1>3, <1>4, <1>6

LEMMA WriteEventIInv ==
  ASSUME IInv, WriteEvent
  PROVE  IInv'
<1> DEFINE l == writer.lane
           new == [lane[l] EXCEPT !.cand.file = "whole"]
           D == {d \in laneDisk[l] : d.cand = None} \cup {new}
<1>1. /\ Between(writer, {"event_candidate", "write_event", "promote_event"})
      /\ Between(writer, {"write_event", "promote_event"})
  BY AtFacts DEF WriteEvent, Between
<1>2. /\ l \in Lanes /\ new.slots = Slots(l) /\ new.cand \in EventCapsules
      /\ new.cand.record = writer.record /\ LaneOK(l, new) /\ Fits(l, new, index)
      /\ new.cand.file \in Written
  BY <1>1, CandidateFacts DEF FileStates, Written
<1>3. \A d \in laneDisk[l] : LaneOK(l, d) /\ Fits(l, d, index) /\ d.slots = Slots(l)
  BY <1>1, EventFacts
<1>4. /\ lane' = [lane EXCEPT ![l] = new] /\ laneDisk' = [laneDisk EXCEPT ![l] = D]
      /\ UNCHANGED <<index, indexDisk>> /\ Continue("promote_event")
  BY DEF WriteEvent, SyncLaneCandidate
<1>5. /\ new \in D /\ \A d \in D : d.slots = Slots(l)
      /\ \A d \in D : /\ LaneOK(l, d) /\ Fits(l, d, index)
                      /\ d.slots = new.slots \/ OneShort(d.slots, new.slots)
  BY <1>2, <1>3
<1> HIDE DEF D, new
<1>6. FilesOK' /\ lane'[l] = new /\ laneDisk'[l] = D
  BY <1>1, <1>4, <1>5, EventWritten
<1> QED BY <1>1, <1>2, <1>4, <1>5, <1>6, EventNext

LEMMA PromoteEventIInv ==
  ASSUME IInv, PromoteEvent
  PROVE  IInv'
<1> PICK l \in Lanes : l = writer.lane
  BY AtFacts DEF PromoteEvent
<1> DEFINE c == lane[l].cand
           new == [slots |-> Append(Slots(l), c), cand |-> None]
           D == laneDisk[l] \cup {new}
<1>1. /\ Between(writer, {"event_candidate", "write_event", "promote_event"})
      /\ Between(writer, {"write_event", "promote_event"})
      /\ writer.pc = "promote_event"
  BY AtFacts DEF PromoteEvent, Between
<1>2. /\ writer \in Writers /\ writer.record \in Records
      /\ indexDisk = {index} /\ Ready(index, writer.record.intent)
      /\ writer.record.intent.lane = l
      /\ writer.record.intent.sequence = Len(Slots(l)) + 1
      /\ writer.record.event = writer.event /\ writer.event \notin Committed(l)
      /\ \A j \in DOMAIN Slots(l) : Slots(l)[j].file # "torn"
      /\ \A d \in laneDisk[l] : LaneOK(l, d) /\ Fits(l, d, index) /\ d.slots = Slots(l)
  BY <1>1, EventFacts
<1>3. c \in EventCapsules /\ c.record = writer.record /\ c.file \in Written
  BY <1>1 DEF IInv, WriterOK, CandidateOK, Between
<1>4. Slots(l) \in Seq(EventCapsules) /\ lane[l] \in laneDisk[l] /\ lane[l].slots = Slots(l)
      /\ DOMAIN Slots(l) = 1 .. Len(Slots(l)) /\ Len(Slots(l)) \in Nat
  BY Seen
<1> HIDE DEF c
<1>5. /\ new.slots \in Seq(EventCapsules) /\ new.slots # <<>>
      /\ DOMAIN new.slots = 1 .. Len(Slots(l)) + 1
      /\ Len(new.slots) = Len(Slots(l)) + 1
      /\ \A i \in 1 .. Len(Slots(l)) : new.slots[i] = Slots(l)[i]
      /\ new.slots[Len(new.slots)] = c /\ new.cand = None
      /\ new.slots = Append(Slots(l), c)
  BY <1>3, <1>4, AppendProperties, LenProperties
<1>6. LaneOK(l, new) /\ Fits(l, new, index)
  <2>1. \A i \in DOMAIN Slots(l) : Slots(l)[i].record.event # c.record.event
    BY <1>2, <1>3 DEF Committed
  <2>2. new \in LaneValues /\ new.slots = Append(lane[l].slots, c)
    BY <1>4, <1>5 DEF LaneValues
  <2> HIDE DEF new
  <2> DEFINE d == lane[l]
  <2>3. /\ Ready(index, c.record.intent) /\ c.record.intent.lane = l
        /\ c.record.intent.sequence = Len(d.slots) + 1
        /\ \A i \in DOMAIN d.slots : d.slots[i].record.event # c.record.event
        /\ LaneOK(l, d) /\ Fits(l, d, index)
        /\ new \in LaneValues /\ new.slots = Append(d.slots, c) /\ new.cand = None
    BY <1>2, <1>3, <1>4, <1>5, <2>1, <2>2
  <2> HIDE DEF d
  <2> QED BY ONLY l \in Lanes, <1>3, <2>3, FitsAppended
<1>7. /\ lane' = [lane EXCEPT ![l] = new] /\ laneDisk' = [laneDisk EXCEPT ![l] = D]
      /\ UNCHANGED <<index, indexDisk>> /\ Continue("barrier_event")
  BY DEF PromoteEvent, WriteLane, c
<1>8. /\ new \in D
      /\ \A d \in D : /\ LaneOK(l, d) /\ Fits(l, d, index)
                      /\ d.slots = new.slots \/ OneShort(d.slots, new.slots)
  BY <1>2, <1>5, <1>6 DEF OneShort
<1>9. /\ writer' \in Writers /\ writer'.pc = "barrier_event" /\ writer'.lane = l
      /\ writer'.record = writer.record /\ writer'.event = writer.event
  BY <1>2, <1>7, GoToFacts DEF Continue, Pcs
<1> HIDE DEF D, new
<1>10. FilesOK' /\ lane'[l] = new
  <2>1. /\ lane' = [lane EXCEPT ![writer.lane] = new]
        /\ laneDisk' = [laneDisk EXCEPT ![writer.lane] = D]
        /\ \A d \in D : /\ LaneOK(writer.lane, d) /\ Fits(writer.lane, d, index)
                        /\ d.slots = new.slots \/ OneShort(d.slots, new.slots)
    BY <1>7, <1>8
  <2>2. FilesOK' /\ lane'[writer.lane] = new
    BY ONLY IInv, <1>1, <1>7, <1>8, <2>1, EventWritten
  <2> QED BY <2>2
<1>11. Slots(writer.lane)' = new.slots
  BY <1>9, <1>10 DEF Slots
<1>12. SoundOK(writer)'
  <2>1. \A j \in DOMAIN new.slots : new.slots[j].file # "torn"
    BY <1>2, <1>3, <1>4, <1>5 DEF Written
  <2> QED BY <1>11, <2>1 DEF SoundOK
<1>13. PromotedOK(writer)' /\ AwaitedOK(writer)'
  <2>1. Slots(writer.lane)' # <<>> /\ LastRecord(writer.lane)' = writer.record
    BY <1>3, <1>5, <1>11 DEF LastRecord
  <2>2. Ready(index', writer'.record.intent)
    BY <1>2, <1>7, <1>9
  <2> QED BY <1>2, <1>9, <2>1, <2>2 DEF PromotedOK, AwaitedOK, Between
<1>14. WriterOK(writer)'
  BY <1>9, <1>12, <1>13 DEF WriterOK, Between, Certain, DecideOK, IntentOK, EventOK,
     CandidateOK, ThenOK
<1> QED BY <1>7, <1>10, <1>14, CallersKept DEF IInv, Continue

\* What a commit knows once its record is the last of its lane.
LEMMA PromotedFacts ==
  ASSUME IInv, Between(writer, {"barrier_event", "transition", "promote_transition",
                                "barrier_transition"})
  PROVE  LET l == writer.lane
             r == writer.record
         IN /\ writer \in Writers /\ l \in Lanes /\ r \in Records
            /\ Slots(l) # <<>> /\ Len(Slots(l)) \in DOMAIN Slots(l)
            /\ Slots(l)[Len(Slots(l))].record = r /\ r.intent.lane = l
            /\ \A j \in DOMAIN Slots(l) : Slots(l)[j].file # "torn"
            /\ writer.pc # "barrier_transition" =>
                  /\ Ready(index, r.intent) /\ r \notin Projected
                  /\ lane[l].cand = None
            /\ writer.pc # "barrier_event" =>
                  \A d \in laneDisk[l] : d.slots = Slots(l)
            /\ lane \in [Lanes -> LaneValues]
            /\ laneDisk \in [Lanes -> SUBSET LaneValues]
<1> DEFINE l == writer.lane
           r == writer.record
<1>1. writer \in Writers /\ writer # None /\ l \in Lanes /\ Between(writer, Pcs)
  BY DEF IInv, WriterOK, Between, Writers, Pcs
<1>2. r \in Records /\ Slots(l) # <<>> /\ Slots(l)[Len(Slots(l))].record = r
  BY <1>1 DEF IInv, WriterOK, PromotedOK, LastRecord
<1>3. /\ LaneOK(l, lane[l]) /\ IndexOK(index) /\ Fits(l, lane[l], index)
      /\ lane[l].slots = Slots(l)
      /\ Projected = ProjectedIn(index) /\ Len(Slots(l)) \in DOMAIN Slots(l)
  BY <1>1, <1>2, Seen
<1>4. r.intent.lane = l
  BY <1>2, <1>3 DEF LaneOK
<1>5. writer.pc # "barrier_transition" => Ready(index, r.intent)
  BY <1>1 DEF IInv, WriterOK, AwaitedOK, Between
<1>6. writer.pc # "barrier_transition" => r \notin Projected /\ lane[l].cand = None
  BY <1>1, <1>2, <1>3, <1>5, FitFacts DEF Ready
<1>7. \A j \in DOMAIN Slots(l) : Slots(l)[j].file # "torn"
  BY <1>1 DEF IInv, WriterOK, SoundOK
<1>8. writer.pc # "barrier_event" => \A d \in laneDisk[l] : d.slots = Slots(l)
  BY <1>1 DEF IInv, WriterOK, Certain, Between
<1>9. /\ lane \in [Lanes -> LaneValues]
      /\ laneDisk \in [Lanes -> SUBSET LaneValues]
  BY DEF IInv, FilesOK, LanesOK
<1> QED BY <1>1, <1>2, <1>3, <1>4, <1>5, <1>6, <1>7, <1>8, <1>9

LEMMA BarrierEventIInv ==
  ASSUME IInv, BarrierEvent
  PROVE  IInv'
<1> PICK l \in Lanes : l = writer.lane
  BY AtFacts DEF BarrierEvent
<1> PICK n \in DOMAIN Slots(l) : n = Len(Slots(l))
  BY PromotedFacts, AtFacts DEF BarrierEvent, Between
<1>1. /\ writer # None /\ writer.pc = "barrier_event"
      /\ Between(writer, {"barrier_event", "transition", "promote_transition",
                          "barrier_transition"})
  BY AtFacts DEF BarrierEvent, Between
<1>2. /\ Slots(l)[n].record = writer.record
      /\ \A j \in DOMAIN Slots(l) : Slots(l)[j].file # "torn"
  BY <1>1, PromotedFacts
<1>3. Slots(l)[n].record.event = writer.event
  BY <1>1, <1>2 DEF IInv, WriterOK, AwaitedOK, Between
<1>4. /\ SyncLane(l, [lane[l] EXCEPT !.slots = WithWhole(@, n)])
      /\ Finalize(l, Slots(l)[n].record, FALSE, "reply")
  BY <1>2 DEF BarrierEvent, Slots
<1>5. /\ LanesKept /\ SameRecords(Slots(l), Slots(l)')
      /\ \A d \in laneDisk'[l] : d.slots = Slots(l)'
      /\ \A j \in DOMAIN Slots(l)' : Slots(l)'[j].file # "torn"
      /\ Slots(l)'[n].file = "whole"
  BY <1>2, <1>4, SyncedSlots
<1> QED BY ONLY <1>1, <1>3, <1>4, <1>5, FinalizeIInv, l = writer.lane, IInv

\* The index candidate of a promoted record, whose files may become any others
\* as long as its intent is not gone.
LEMMA TransitionFacts ==
  ASSUME IInv, Between(writer, {"transition", "promote_transition"}),
         NEW new, new \in IndexValues, new.log = index.log, new.cand # None,
         new.cand.intent = index.cand.intent, new.cand.file # "none"
  PROVE  /\ IndexOK(new) /\ Ready(new, writer.record.intent)
         /\ \A l \in Lanes : \A d \in laneDisk[l] : Fits(l, d, new)
         /\ \A l \in Lanes : laneDisk[l] # {lane[l]} =>
               new.cand # None /\ new.cand.intent.lane = l
<1> DEFINE r == writer.record
<1>1. Between(writer, {"barrier_event", "transition", "promote_transition",
                       "barrier_transition"})
      /\ writer.pc # "barrier_event" /\ writer.pc # "barrier_transition"
  BY DEF Between
<1>2. /\ writer.lane \in Lanes /\ Ready(index, r.intent) /\ r.intent.lane = writer.lane
      /\ Slots(writer.lane) # <<>>
      /\ Slots(writer.lane)[Len(Slots(writer.lane))].record = r
      /\ \A d \in laneDisk[writer.lane] : d.slots = Slots(writer.lane)
  BY <1>1, PromotedFacts
<1>3. /\ index \in indexDisk /\ IndexOK(index) /\ index \in IndexValues
      /\ index.cand # None
  BY <1>2, Seen DEF Pending, Ready
<1>4. SameIndex(index, new)
  BY <1>3 DEF SameIndex, SameRecords
<1>5. Ready(new, r.intent)
  BY <1>2 DEF Pending, Ready
<1>6. ASSUME NEW m \in Lanes, NEW d \in laneDisk[m]
      PROVE  IndexOK(new) /\ Fits(m, d, new)
  <2>1. LaneOK(m, d) /\ Fits(m, d, index)
    BY <1>3 DEF IInv, FilesOK, LanesOK, DisksFit
  <2>2. index.cand.intent.lane = m =>
           d.slots # <<>> /\ Pending(index, d.slots[Len(d.slots)].record.intent)
    BY <1>2 DEF Ready, Pending
  <2> QED BY <1>3, <1>4, <2>1, <2>2, FitsFiles
<1>7. \A m \in Lanes : laneDisk[m] # {lane[m]} =>
         new.cand # None /\ new.cand.intent.lane = m
  BY <1>3 DEF IInv, FilesOK, UncertainOK
<1>8. \E d \in laneDisk[writer.lane] : TRUE
  BY <1>2 DEF IInv, FilesOK, LanesOK
<1> QED BY <1>2, <1>5, <1>6, <1>7, <1>8

\* Before its transition is promoted, the index candidate is of the lane's last
\* record.
LEMMA WriteTransitionIInv ==
  ASSUME IInv, WriteTransition
  PROVE  IInv'
<1> PICK l \in Lanes : l = writer.lane
  BY AtFacts DEF WriteTransition
<1> DEFINE r == writer.record
           new == [index EXCEPT !.cand.transition = Repaired(index.cand.transition)]
           D == {d \in indexDisk : d.cand = None} \cup {new}
<1>1. /\ writer # None /\ writer.pc = "transition" /\ Between(writer, {"transition"})
      /\ Between(writer, {"transition", "promote_transition"})
      /\ Between(writer, {"transition", "promote_transition", "barrier_transition"})
      /\ Between(writer, {"barrier_event", "transition", "promote_transition",
                          "barrier_transition"})
  BY AtFacts DEF WriteTransition, Between
<1>2. /\ writer \in Writers /\ r \in Records /\ Slots(l) # <<>>
      /\ Slots(l)[Len(Slots(l))].record = r /\ Ready(index, r.intent)
      /\ \A j \in DOMAIN Slots(l) : Slots(l)[j].file # "torn"
      /\ \A d \in laneDisk[l] : d.slots = Slots(l)
  BY <1>1, PromotedFacts
<1>3. /\ index \in indexDisk /\ index \in IndexValues /\ index.cand # None
      /\ index.cand \in IndexCandidates /\ index.cand.file # "none"
  BY <1>2, Seen DEF Ready, Pending
<1>4. /\ new \in IndexValues /\ new.log = index.log /\ new.cand # None
      /\ new.cand.intent = index.cand.intent /\ new.cand.file # "none"
  BY <1>3, EventsAssumption
     DEF IndexValues, IndexCandidates, FileStates, Repaired
<1>5. index' = new /\ indexDisk' = D /\ UNCHANGED <<lane, laneDisk>>
      /\ Continue("promote_transition")
  BY DEF WriteTransition, SyncIndexCandidate
<1> HIDE DEF new
<1>6. /\ IndexOK(new) /\ Ready(new, r.intent)
      /\ \A m \in Lanes : \A d \in laneDisk[m] : Fits(m, d, new)
      /\ \A m \in Lanes : laneDisk[m] # {lane[m]} =>
            new.cand # None /\ new.cand.intent.lane = m
  BY <1>1, <1>4, TransitionFacts
<1>7. /\ \A x \in D : IndexOK(x)
      /\ \A m \in Lanes : \A d \in laneDisk[m] : \A x \in D : Fits(m, d, x)
      /\ \A m \in Lanes : laneDisk[m] # {lane[m]} =>
            \A x \in D : x.cand # None /\ x.cand.intent.lane = m
      /\ new \in D
  BY <1>6 DEF IInv, FilesOK, IndexesOK, DisksFit, UncertainOK
<1>8. FilesOK'
  <2> HIDE DEF D
  <2> QED BY <1>5, <1>7, IndexWritten DEF IInv
<1>9. /\ writer.then \in {"decide", "reply"}
      /\ writer.then = "reply" => /\ r.event = writer.event
                                  /\ Slots(l)[Len(Slots(l))].file = "whole"
  BY <1>1 DEF IInv, WriterOK, ThenOK
<1>10. /\ writer' \in Writers /\ writer'.pc = "promote_transition" /\ writer'.lane = l
       /\ writer'.record = r /\ writer'.event = writer.event
       /\ writer'.then = writer.then
  BY <1>2, <1>5, GoToFacts DEF Continue, Pcs
<1>11. Slots(writer.lane)' = Slots(l) /\ laneDisk'[writer'.lane] = laneDisk[l]
       /\ LastRecord(writer.lane)' = r
  BY <1>2, <1>5, <1>10 DEF Slots, LastRecord
<1>12. SoundOK(writer)' /\ Certain(writer)' /\ PromotedOK(writer)'
  BY <1>2, <1>10, <1>11 DEF Between, SoundOK, Certain, PromotedOK
<1>13. AwaitedOK(writer)' /\ ThenOK(writer)'
  <2>1. Ready(index', writer'.record.intent)
    BY <1>5, <1>6, <1>10
  <2> QED BY <1>9, <1>10, <1>11, <2>1 DEF Between, AwaitedOK, ThenOK
<1>14. WriterOK(writer)'
  BY <1>10, <1>12, <1>13 DEF WriterOK, Between, DecideOK, IntentOK, EventOK, CandidateOK
<1> QED BY <1>5, <1>8, <1>14, CallersKept DEF IInv, Continue

LEMMA PromoteTransitionIInv ==
  ASSUME IInv, PromoteTransition
  PROVE  IInv'
<1> PICK l \in Lanes : l = writer.lane
  BY AtFacts DEF PromoteTransition
<1> DEFINE r == writer.record
           file == IF {index.cand.file, index.cand.transition} = {"whole"}
                   THEN "whole" ELSE "loose"
           entry == [intent |-> index.cand.intent, record |-> r, file |-> file]
           new == [log |-> Append(index.log, entry), cand |-> None]
           D == indexDisk \cup {new}
<1>1. /\ writer # None /\ writer.pc = "promote_transition"
      /\ Between(writer, {"transition", "promote_transition", "barrier_transition"})
      /\ Between(writer, {"barrier_event", "transition", "promote_transition",
                          "barrier_transition"})
  BY AtFacts DEF PromoteTransition, Between
<1>2. /\ writer \in Writers /\ r \in Records /\ Slots(l) # <<>>
      /\ Slots(l)[Len(Slots(l))].record = r /\ r.intent.lane = l
      /\ Ready(index, r.intent) /\ lane[l].cand = None
      /\ \A j \in DOMAIN Slots(l) : Slots(l)[j].file # "torn"
      /\ \A d \in laneDisk[l] : d.slots = Slots(l)
  BY <1>1, PromotedFacts
<1>3. /\ index \in indexDisk /\ IndexOK(index) /\ index \in IndexValues
      /\ index.cand # None /\ index.cand.intent = r.intent
      /\ index.cand \in IndexCandidates
  BY <1>2, Seen DEF Pending, Ready
\* What a power loss may leave of this lane has no event candidate either.
<1>4. \A d \in laneDisk[l] : d.cand = None
  <2> SUFFICES ASSUME NEW d \in laneDisk[l] PROVE d.cand = None
    OBVIOUS
  <2>1. LaneOK(l, d) /\ Fits(l, d, index) /\ d.slots = Slots(l)
    BY <1>2, <1>3 DEF IInv, FilesOK, LanesOK, DisksFit
  <2> QED BY <1>2, <1>3, <2>1, FitFacts DEF Ready
<1>5. /\ entry \in IndexCapsules /\ entry.intent = index.cand.intent
      /\ entry.record = r
  BY <1>2, <1>3 DEF IndexCapsules, IndexCandidates, FileStates
<1>6. index' = new /\ indexDisk' = D /\ UNCHANGED <<lane, laneDisk>>
      /\ Continue("barrier_transition")
  BY DEF PromoteTransition, WriteIndex
<1> HIDE DEF entry
<1>7. ASSUME NEW m \in Lanes, NEW d \in laneDisk[m]
      PROVE  IndexOK(new) /\ Fits(m, d, new)
  <2>1. LaneOK(m, d) /\ Fits(m, d, index)
    BY <1>3 DEF IInv, FilesOK, LanesOK, DisksFit
  <2>2. r.intent.lane = m =>
           d.slots # <<>> /\ d.slots[Len(d.slots)].record = r /\ d.cand = None
    BY <1>2, <1>4
  <2>3. r \in Records /\ IndexOK(index) /\ index.cand # None
        /\ r.intent = index.cand.intent
        /\ entry \in IndexCapsules /\ entry.intent = index.cand.intent
        /\ entry.record = r
    BY <1>2, <1>3, <1>5
  <2> PICK rr \in Records : rr = r
    BY <1>2
  <2> PICK ee \in IndexCapsules : ee = entry
    BY <1>5
  <2> DEFINE y == new
  <2>4. y = [log |-> Append(index.log, ee), cand |-> None]
    OBVIOUS
  <2> HIDE DEF y
  <2>5. IndexOK(y) /\ Fits(m, d, y)
    BY ONLY <2>1, <2>2, <2>3, <2>4, FitsPromoted, rr = r, ee = entry,
            m \in Lanes, rr \in Records, ee \in IndexCapsules
  <2> QED BY <2>5 DEF y
\* No other lane is uncertain, since its record would be the candidate's; nor is
\* this one, all its values being one with the same slots and no candidate.
<1>8. \A m \in Lanes : laneDisk[m] = {lane[m]}
  <2>1. ASSUME NEW m \in Lanes, m # l PROVE laneDisk[m] = {lane[m]}
    BY <1>2, <1>3, <2>1 DEF IInv, FilesOK, UncertainOK
  <2>2. laneDisk[l] = {lane[l]}
    <3>1. \A d \in laneDisk[l] : d \in LaneValues
      BY LaneSeen DEF IInv
    <3>2. \A d \in laneDisk[l] : d = [slots |-> Slots(l), cand |-> None]
      BY <1>2, <1>4, <3>1 DEF LaneValues
    <3> QED BY <3>2, Seen
  <2> QED BY <2>1, <2>2
<1>9. /\ \A x \in D : IndexOK(x)
      /\ \A m \in Lanes : \A d \in laneDisk[m] : \A x \in D : Fits(m, d, x)
      /\ new \in D
  <2>1. lane[l] \in laneDisk[l]
    BY Seen
  <2> HIDE DEF new
  <2> QED BY <1>7, <2>1 DEF IInv, FilesOK, IndexesOK, DisksFit
<1>10. FilesOK'
  <2> HIDE DEF D, new
  <2> QED BY <1>6, <1>8, <1>9, IndexWritten DEF IInv
<1>11. index'.log # <<>> /\ index'.log[Len(index'.log)].record = r
  <2>1. index.log \in Seq(IndexCapsules)
    BY <1>3 DEF IndexValues
  <2> QED BY <1>5, <1>6, <2>1, AppendProperties
<1>12. /\ writer.then \in {"decide", "reply"}
       /\ writer.then = "reply" => /\ r.event = writer.event
                                   /\ Slots(l)[Len(Slots(l))].file = "whole"
  BY <1>1 DEF IInv, WriterOK, ThenOK
<1>13. /\ writer' \in Writers /\ writer'.pc = "barrier_transition" /\ writer'.lane = l
       /\ writer'.record = r /\ writer'.event = writer.event
       /\ writer'.then = writer.then
  BY <1>2, <1>6, GoToFacts DEF Continue, Pcs
<1> HIDE DEF D, new
<1>14. Slots(writer.lane)' = Slots(l) /\ laneDisk'[writer'.lane] = laneDisk[l]
       /\ LastRecord(writer.lane)' = r
  BY <1>2, <1>6, <1>13 DEF Slots, LastRecord
<1>15. SoundOK(writer)' /\ Certain(writer)' /\ PromotedOK(writer)'
  BY <1>2, <1>13, <1>14 DEF Between, SoundOK, Certain, PromotedOK
<1>16. ThenOK(writer)'
  BY <1>11, <1>12, <1>13, <1>14 DEF Between, ThenOK
<1>17. WriterOK(writer)'
  BY <1>13, <1>15, <1>16 DEF WriterOK, Between, DecideOK, IntentOK, EventOK,
     CandidateOK, AwaitedOK
<1> QED BY <1>6, <1>10, <1>17, CallersKept DEF IInv, Continue

\* The capsule that was promoted last is synced, both its files.
LEMMA BarrierTransitionIInv ==
  ASSUME IInv, BarrierTransition
  PROVE  IInv'
<1> PICK l \in Lanes : l = writer.lane
  BY AtFacts DEF BarrierTransition
<1> DEFINE n == Len(index.log)
           new == [index EXCEPT !.log = WithWhole(index.log, n)]
           D == {new}
<1>1. /\ writer # None /\ writer.pc = "barrier_transition"
      /\ Between(writer, {"barrier_transition"})
      /\ Between(writer, {"transition", "promote_transition", "barrier_transition"})
      /\ Between(writer, {"barrier_event", "transition", "promote_transition",
                          "barrier_transition"})
  BY AtFacts DEF BarrierTransition, Between
<1>2. /\ writer \in Writers /\ Slots(l) # <<>>
      /\ Slots(l)[Len(Slots(l))].record = writer.record
      /\ \A j \in DOMAIN Slots(l) : Slots(l)[j].file # "torn"
      /\ \A d \in laneDisk[l] : d.slots = Slots(l)
  BY <1>1, PromotedFacts
<1>3. /\ writer.then \in {"decide", "reply"} /\ index.log # <<>>
      /\ index.log[n].record = writer.record
  BY <1>1 DEF IInv, WriterOK, ThenOK
<1>4. /\ index \in indexDisk /\ index \in IndexValues
      /\ index.log \in Seq(IndexCapsules)
  BY Seen DEF IndexValues
<1>5. n \in DOMAIN index.log
  BY <1>3, <1>4, EmptySeq, LenProperties
<1>6. /\ index' = new /\ indexDisk' = D /\ UNCHANGED <<lane, laneDisk>>
  BY DEF BarrierTransition, SyncIndex
<1>7. /\ WithWhole(index.log, n) \in Seq(IndexCapsules)
      /\ SameRecords(index.log, WithWhole(index.log, n))
      /\ \A j \in DOMAIN index.log : WithWhole(index.log, n)[j].intent = index.log[j].intent
  BY <1>4, <1>5, WholeLog
<1>8. /\ new \in IndexValues /\ new.log = WithWhole(index.log, n)
      /\ new.cand = index.cand
  BY <1>4, <1>7 DEF IndexValues
<1> HIDE DEF new, n
<1>9. SameIndex(index, new) /\ SameCandidate(index, new)
  BY <1>7, <1>8 DEF SameIndex, SameCandidate
<1>10. FilesOK'
  <2>1. IndexKept
    BY <1>4, <1>6, <1>9 DEF IndexKept
  <2> QED BY <1>6, <2>1, LanesUnchanged, SameFiles DEF IInv
<1>11. writer.record \in Projected'
  BY <1>3, <1>5, <1>6, <1>7, <1>8 DEF Projected, SameRecords
<1>12. CASE writer.then = "reply"
  BY <1>1, <1>10, <1>12, ReplyCallers, WriterGone DEF BarrierTransition, IInv
<1>13. CASE writer.then = "decide"
  <2>1. Continue("decide")
    BY <1>13 DEF BarrierTransition
  <2>2. writer' \in Writers /\ writer'.pc = "decide" /\ writer'.lane = l
    BY <1>2, <2>1, GoToFacts DEF Continue, Pcs
  <2>3. Slots(writer.lane)' = Slots(l) /\ laneDisk'[writer'.lane] = laneDisk[l]
        /\ LastRecord(writer.lane)' = writer.record
    BY <1>2, <1>6, <2>2 DEF Slots, LastRecord
  <2>4. SoundOK(writer)' /\ Certain(writer)' /\ DecideOK(writer)'
    BY <1>2, <1>11, <2>2, <2>3 DEF Between, SoundOK, Certain, DecideOK
  <2>5. WriterOK(writer)'
    BY <2>2, <2>4 DEF WriterOK, Between, IntentOK, EventOK, CandidateOK, PromotedOK,
       AwaitedOK, ThenOK
  <2> QED BY <1>10, <2>1, <2>5, CallersKept DEF IInv, Continue
<1> QED BY <1>3, <1>12, <1>13

----------------------------------------------------------------------------
(* Failures.                                                               *)

\* A file of the index candidate is left unsynced, in one of the values D.
LEMMA IndexLoose ==
  ASSUME IInv, NEW new, NEW D, new \in D, index' = new,
         indexDisk' = indexDisk \cup D, UNCHANGED <<lane, laneDisk>>,
         \A x \in D : /\ IndexOK(x)
                      /\ \A l \in Lanes : \A d \in laneDisk[l] : Fits(l, d, x)
                      /\ \A l \in Lanes : laneDisk[l] # {lane[l]} =>
                            x.cand # None /\ x.cand.intent.lane = l
  PROVE  FilesOK'
<1> DEFINE E == indexDisk \cup D
<1>1. index' = new /\ indexDisk' = E /\ new \in E
  OBVIOUS
<1>2. /\ \A x \in E : IndexOK(x)
      /\ \A l \in Lanes : \A d \in laneDisk[l] : \A x \in E : Fits(l, d, x)
      /\ \A l \in Lanes : laneDisk[l] # {lane[l]} =>
            \A x \in E : x.cand # None /\ x.cand.intent.lane = l
  BY DEF IInv, FilesOK, IndexesOK, DisksFit, UncertainOK
<1> HIDE DEF E
<1> QED BY <1>1, <1>2, IndexWritten DEF IInv

LEMMA CrashWritingIInv ==
  ASSUME IInv, CrashWriting
  PROVE  IInv'
<1>1. writer' = None /\ CallersOK'
  BY CallersKept DEF CrashWriting, IInv
<1> SUFFICES FilesOK'
  BY <1>1, WriterGone DEF IInv
<1>2. ASSUME At("intent"), NEW file \in FileStates,
             index' = [index EXCEPT !.cand.file = file],
             indexDisk' = indexDisk \cup
                {[index EXCEPT !.cand.file = "none"], [index EXCEPT !.cand.file = file]},
             UNCHANGED <<lane, laneDisk>>
      PROVE  FilesOK'
  <2> DEFINE new == [index EXCEPT !.cand.file = file]
             gone == [index EXCEPT !.cand.file = "none"]
             D == {gone, new}
  <2> PICK l \in Lanes : l = writer.lane
    BY <1>2, AtFacts
  <2>1. writer # None /\ writer.pc = "intent"
        /\ \A d \in laneDisk[l] : d.slots = Slots(l)
    BY <1>2, AtFacts
  <2>2. /\ index.cand # None /\ index.cand.transition = "none"
        /\ Plan(index.cand.intent) = NewPlan(l, writer.event)
    BY <2>1 DEF IInv, WriterOK, IntentOK, Between
  <2>3. /\ index \in indexDisk /\ IndexOK(index) /\ index \in IndexValues
        /\ index.cand \in IndexCandidates /\ Len(Slots(l)) \in Nat
        /\ DOMAIN Slots(l) = 1 .. Len(Slots(l))
    BY <2>2, Seen
  <2>4. \A x \in D : /\ x \in IndexValues /\ x.log = index.log /\ x.cand # None
                     /\ x.cand.intent = index.cand.intent
                     /\ x.cand.transition = index.cand.transition
    BY <1>2, <2>2, <2>3, EventsAssumption DEF IndexValues, IndexCandidates, FileStates
  <2>5. new \in D /\ index' = new /\ indexDisk' = indexDisk \cup D
    BY <1>2
  <2> HIDE DEF D, new
\* The intent that is being written is of no record yet.
  <2>6. ASSUME NEW m \in Lanes, NEW d \in laneDisk[m], NEW i \in DOMAIN d.slots
        PROVE  d.slots[i].record.intent # index.cand.intent
    <3>1. LaneOK(m, d)
      BY DEF IInv, FilesOK, LanesOK
    <3>2. index.cand.intent.lane = l
          /\ index.cand.intent.sequence = Len(Slots(l)) + 1
      BY <2>2 DEF Plan, NewPlan
    <3>3. CASE m = l
      BY <2>1, <2>3, <3>1, <3>2, <3>3 DEF LaneOK
    <3>4. CASE m # l
      BY <3>1, <3>2, <3>4 DEF LaneOK
    <3> QED BY <3>3, <3>4
  <2>7. ASSUME NEW x \in D, NEW m \in Lanes, NEW d \in laneDisk[m]
        PROVE  IndexOK(x) /\ Fits(m, d, x)
    <3>1. LaneOK(m, d) /\ Fits(m, d, index)
      BY <2>3 DEF IInv, FilesOK, LanesOK, DisksFit
    <3>2. SameIndex(index, x)
      BY <2>2, <2>4 DEF SameIndex, SameRecords
    <3>3. \A i \in DOMAIN d.slots : d.slots[i].record.intent # index.cand.intent
      BY <2>6
    <3>4. x.cand.transition = "none"
      BY <2>2, <2>4
    <3> QED BY <2>3, <3>1, <3>2, <3>3, <3>4, FitsFiles
  <2>8. \A x \in D : /\ IndexOK(x)
                     /\ \A m \in Lanes : \A d \in laneDisk[m] : Fits(m, d, x)
                     /\ \A m \in Lanes : laneDisk[m] # {lane[m]} =>
                           x.cand # None /\ x.cand.intent.lane = m
    <3>1. lane[l] \in laneDisk[l]
      BY Seen
    <3>2. \A m \in Lanes : laneDisk[m] # {lane[m]} => index.cand.intent.lane = m
      BY <2>3 DEF IInv, FilesOK, UncertainOK
    <3> QED BY <2>4, <2>7, <3>1, <3>2
  <2> QED BY <1>2, <2>5, <2>8, IndexLoose
<1>3. ASSUME At("transition"), NEW file \in FileStates,
             index' = [index EXCEPT !.cand.transition = file],
             indexDisk' = indexDisk \cup
                {[index EXCEPT !.cand.transition = "none"],
                 [index EXCEPT !.cand.transition = file]},
             UNCHANGED <<lane, laneDisk>>
      PROVE  FilesOK'
  <2> DEFINE new == [index EXCEPT !.cand.transition = file]
             gone == [index EXCEPT !.cand.transition = "none"]
             D == {gone, new}
  <2>1. /\ Between(writer, {"transition", "promote_transition"})
        /\ Between(writer, {"barrier_event", "transition", "promote_transition",
                            "barrier_transition"})
        /\ writer.pc = "transition"
    BY <1>3, AtFacts DEF Between
  <2>2. /\ writer.lane \in Lanes /\ Ready(index, writer.record.intent)
    BY <2>1, PromotedFacts
  <2>3. /\ index \in IndexValues /\ index.cand # None /\ index.cand.file # "none"
        /\ index.cand \in IndexCandidates
    BY <2>2, Seen DEF Ready, Pending
  <2>4. \A x \in D : /\ x \in IndexValues /\ x.log = index.log /\ x.cand # None
                     /\ x.cand.intent = index.cand.intent
                     /\ x.cand.file # "none"
    BY <1>3, <2>3, EventsAssumption DEF IndexValues, IndexCandidates, FileStates
  <2>5. new \in D /\ index' = new /\ indexDisk' = indexDisk \cup D
    BY <1>3
  <2> HIDE DEF D, new
  <2>6. \A x \in D : /\ IndexOK(x)
                     /\ \A m \in Lanes : \A d \in laneDisk[m] : Fits(m, d, x)
                     /\ \A m \in Lanes : laneDisk[m] # {lane[m]} =>
                           x.cand # None /\ x.cand.intent.lane = m
    BY <2>1, <2>4, TransitionFacts
  <2> QED BY <1>3, <2>5, <2>6, IndexLoose
<1>4. ASSUME At("write_event"), NEW file \in FileStates, UNCHANGED <<index, indexDisk>>,
             WriteLane(writer.lane,
                       [lane[writer.lane] EXCEPT !.cand.file = file])
      PROVE  FilesOK'
  <2> DEFINE l == writer.lane
             new == [lane[l] EXCEPT !.cand.file = file]
             D == laneDisk[l] \cup {new}
  <2>1. /\ Between(writer, {"event_candidate", "write_event", "promote_event"})
        /\ Between(writer, {"write_event", "promote_event"})
    BY <1>4, AtFacts DEF Between
  <2>2. new.slots = Slots(l) /\ LaneOK(l, new) /\ Fits(l, new, index)
    BY <2>1, CandidateFacts
  <2>3. \A d \in laneDisk[l] : LaneOK(l, d) /\ Fits(l, d, index) /\ d.slots = Slots(l)
    BY <2>1, EventFacts
  <2>4. /\ lane' = [lane EXCEPT ![l] = new]
        /\ laneDisk' = [laneDisk EXCEPT ![l] = D] /\ new \in D
        /\ \A d \in D : /\ LaneOK(l, d) /\ Fits(l, d, index)
                        /\ d.slots = new.slots \/ OneShort(d.slots, new.slots)
    BY <1>4, <2>2, <2>3 DEF WriteLane
  <2> HIDE DEF D, new
  <2> QED BY <1>4, <2>1, <2>4, EventWritten
<1>5. PICK file \in {"none", "torn", "loose"} :
       \/ /\ At("intent") /\ index.cand.file \notin Written
          /\ index' = [index EXCEPT !.cand.file = file]
          /\ indexDisk' = indexDisk \cup
                             {[index EXCEPT !.cand.file = "none"], index'}
          /\ UNCHANGED <<lane, laneDisk>>
       \/ /\ At("transition") /\ index.cand.transition \notin Written
          /\ index' = [index EXCEPT !.cand.transition = file]
          /\ indexDisk' = indexDisk \cup
                             {[index EXCEPT !.cand.transition = "none"], index'}
          /\ UNCHANGED <<lane, laneDisk>>
       \/ /\ At("write_event")
          /\ WriteLane(writer.lane,
                       [lane[writer.lane] EXCEPT !.cand.file = file])
          /\ UNCHANGED <<index, indexDisk>>
  BY DEF CrashWriting
<1>6. file \in FileStates
  BY DEF FileStates
<1> QED BY <1>2, <1>3, <1>4, <1>5, <1>6

LEMMA CrashIInv ==
  ASSUME IInv, Crash
  PROVE  IInv'
BY FilesUnchanged, CallersKept, WriterGone DEF Crash, IInv

\* What a loss of power leaves of a file, and of the files of capsules.
LEMMA FileLeftFacts ==
  ASSUME NEW f \in FileStates, NEW g \in FileLeft(f)
  PROVE  g \in FileStates /\ (g = "none" <=> f = "none") /\ (f = "whole" => g = "whole")
BY DEF FileLeft, FileStates

WithFile(c, f) == [c EXCEPT !.file = f]

LEMMA CapsulesLeftFacts ==
  ASSUME NEW S, NEW s \in Seq(S), NEW t \in CapsulesLeft(s),
         \A c \in S : c.file \in FileStates,
         \A c \in S : \A f \in FileStates :
            /\ WithFile(c, f) \in S /\ WithFile(c, f).record = c.record
            /\ WithFile(c, f).file = f
  PROVE  /\ t \in Seq(S) /\ SameRecords(s, t)
         /\ \A i \in DOMAIN s : s[i].file = "whole" => t[i].file = "whole"
         /\ \A i \in DOMAIN s : \E f \in FileStates : t[i] = WithFile(s[i], f)
<1>1. PICK file \in [DOMAIN s -> FileStates] :
         /\ \A i \in DOMAIN s : file[i] \in FileLeft(s[i].file)
         /\ t = [i \in DOMAIN s |-> WithFile(s[i], file[i])]
  BY DEF CapsulesLeft, WithFile
<1>2. /\ DOMAIN s = 1 .. Len(s) /\ Len(s) \in Nat /\ \A i \in DOMAIN s : s[i] \in S
  BY LenProperties, ElementOfSeq
<1>3. ASSUME NEW i \in DOMAIN s
      PROVE  /\ t[i] = WithFile(s[i], file[i]) /\ file[i] \in FileStates
             /\ t[i] \in S /\ t[i].record = s[i].record
             /\ s[i].file = "whole" => t[i].file = "whole"
  <2>1. file[i] \in FileStates /\ s[i] \in S /\ file[i] \in FileLeft(s[i].file)
    BY <1>1, <1>2
  <2>2. s[i].file = "whole" => file[i] = "whole"
    BY <2>1, FileLeftFacts
  <2> QED BY <1>1, <2>1, <2>2
<1>4. t \in [1 .. Len(s) -> S]
  BY <1>1, <1>2, <1>3
<1>5. t \in Seq(S) /\ Len(t) = Len(s) /\ DOMAIN t = DOMAIN s
  BY <1>1, <1>2, <1>4
<1> QED BY <1>3, <1>5 DEF SameRecords

LEMMA SlotsLeft ==
  ASSUME NEW s \in Seq(EventCapsules), NEW t \in CapsulesLeft(s)
  PROVE  /\ t \in Seq(EventCapsules) /\ SameRecords(s, t)
         /\ \A i \in DOMAIN s : s[i].file = "whole" => t[i].file = "whole"
<1>1. \A c \in EventCapsules : c.file \in FileStates
  BY DEF EventCapsules
<1>2. \A c \in EventCapsules : \A f \in FileStates :
         /\ WithFile(c, f) \in EventCapsules /\ WithFile(c, f).record = c.record
         /\ WithFile(c, f).file = f
  BY DEF EventCapsules, WithFile
<1> QED BY <1>1, <1>2, CapsulesLeftFacts

LEMMA LogLeft ==
  ASSUME NEW s \in Seq(IndexCapsules), NEW t \in CapsulesLeft(s)
  PROVE  /\ t \in Seq(IndexCapsules) /\ SameRecords(s, t)
         /\ \A i \in DOMAIN s : s[i].file = "whole" => t[i].file = "whole"
         /\ \A i \in DOMAIN s : t[i].intent = s[i].intent
<1>1. \A c \in IndexCapsules : c.file \in FileStates
  BY DEF IndexCapsules
<1>2. \A c \in IndexCapsules : \A f \in FileStates :
         /\ WithFile(c, f) \in IndexCapsules /\ WithFile(c, f).record = c.record
         /\ WithFile(c, f).file = f /\ WithFile(c, f).intent = c.intent
  BY DEF IndexCapsules, WithFile
<1>3. /\ t \in Seq(IndexCapsules) /\ SameRecords(s, t)
      /\ \A i \in DOMAIN s : s[i].file = "whole" => t[i].file = "whole"
      /\ \A i \in DOMAIN s : \E f \in FileStates : t[i] = WithFile(s[i], f)
  BY <1>1, <1>2, CapsulesLeftFacts
<1>4. \A i \in DOMAIN s : s[i] \in IndexCapsules
  BY ElementOfSeq, LenProperties
<1> QED BY <1>2, <1>3, <1>4

LEMMA LaneLeftFacts ==
  ASSUME NEW d \in LaneValues, NEW e \in LaneLeft(d)
  PROVE  /\ SameLane(d, e)
         /\ \A i \in DOMAIN d.slots :
               d.slots[i].file = "whole" => e.slots[i].file = "whole"
<1>1. PICK slots \in CapsulesLeft(d.slots),
           cand \in IF d.cand = None THEN {None}
                    ELSE {[d.cand EXCEPT !.file = f] : f \in FileLeft(d.cand.file)} :
         e = [slots |-> slots, cand |-> cand]
  BY DEF LaneLeft
<1>2. /\ slots \in Seq(EventCapsules) /\ SameRecords(d.slots, slots)
      /\ \A i \in DOMAIN d.slots :
            d.slots[i].file = "whole" => slots[i].file = "whole"
  BY SlotsLeft DEF LaneValues
<1>3. CASE d.cand = None
  BY <1>1, <1>2, <1>3 DEF LaneValues, SameLane
<1>4. CASE d.cand # None
  <2>1. PICK f \in FileLeft(d.cand.file) : cand = [d.cand EXCEPT !.file = f]
    BY <1>1, <1>4
  <2>2. d.cand \in EventCapsules
    BY <1>4 DEF LaneValues
  <2>3. f \in FileStates
    BY <2>2, FileLeftFacts DEF EventCapsules
  <2>4. cand \in EventCapsules /\ cand.record = d.cand.record
    BY <2>1, <2>2, <2>3 DEF EventCapsules
  <2> QED BY <1>1, <1>2, <1>4, <2>4 DEF LaneValues, SameLane
<1> QED BY <1>3, <1>4

LEMMA IndexLeftFacts ==
  ASSUME NEW x \in IndexValues, NEW y \in IndexLeft(x)
  PROVE  /\ SameIndex(x, y) /\ SameCandidate(x, y)
         /\ \A i \in DOMAIN x.log : x.log[i].file = "whole" => y.log[i].file = "whole"
<1>1. PICK log \in CapsulesLeft(x.log),
           cand \in IF x.cand = None THEN {None}
                    ELSE {[intent |-> x.cand.intent, file |-> f, transition |-> t] :
                             f \in FileLeft(x.cand.file),
                             t \in FileLeft(x.cand.transition)} :
         y = [log |-> log, cand |-> cand]
  BY DEF IndexLeft
<1>2. /\ log \in Seq(IndexCapsules) /\ SameRecords(x.log, log)
      /\ \A i \in DOMAIN x.log : x.log[i].file = "whole" => log[i].file = "whole"
      /\ \A i \in DOMAIN x.log : log[i].intent = x.log[i].intent
  BY LogLeft DEF IndexValues
<1>3. CASE x.cand = None
  BY <1>1, <1>2, <1>3 DEF IndexValues, SameIndex, SameCandidate
<1>4. CASE x.cand # None
  <2>1. PICK f \in FileLeft(x.cand.file), t \in FileLeft(x.cand.transition) :
           cand = [intent |-> x.cand.intent, file |-> f, transition |-> t]
    BY <1>1, <1>4
  <2>2. x.cand \in IndexCandidates
    BY <1>4 DEF IndexValues
  <2>3. x.cand.file \in FileStates /\ x.cand.transition \in FileStates
    BY <2>2 DEF IndexCandidates
  <2>4. /\ f \in FileStates /\ t \in FileStates
        /\ f = "none" => x.cand.file = "none"
        /\ t # "none" => x.cand.transition # "none"
    BY <2>3, FileLeftFacts
  <2>5. /\ cand \in IndexCandidates /\ cand.intent = x.cand.intent
        /\ cand.file = f /\ cand.transition = t
    BY <2>1, <2>2, <2>4 DEF IndexCandidates
  <2>6. cand # None
    BY <2>5, EventsAssumption DEF IndexCandidates
  <2> QED BY <1>1, <1>2, <1>4, <2>4, <2>5, <2>6 DEF IndexValues, SameIndex, SameCandidate
<1> QED BY <1>3, <1>4

\* What a power loss leaves of a lane and of the index is one of the values
\* that were on disk, in other files.
LEMMA PowerLossLeft ==
  ASSUME IInv, PowerLoss
  PROVE  /\ \A l \in Lanes : /\ laneDisk'[l] = {lane'[l]}
                             /\ \E d \in laneDisk[l] : lane'[l] \in LaneLeft(d)
         /\ indexDisk' = {index'} /\ \E x \in indexDisk : index' \in IndexLeft(x)
         /\ DOMAIN lane' = Lanes /\ DOMAIN laneDisk' = Lanes
         /\ lane' = [l \in Lanes |-> lane'[l]] /\ laneDisk' = [l \in Lanes |-> laneDisk'[l]]
BY DEF PowerLoss

LEMMA PowerLossIInv ==
  ASSUME IInv, PowerLoss
  PROVE  IInv'
<1>1. /\ \A l \in Lanes : /\ laneDisk'[l] = {lane'[l]}
                          /\ \E d \in laneDisk[l] : lane'[l] \in LaneLeft(d)
      /\ indexDisk' = {index'} /\ \E x \in indexDisk : index' \in IndexLeft(x)
      /\ lane' = [l \in Lanes |-> lane'[l]] /\ laneDisk' = [l \in Lanes |-> laneDisk'[l]]
  BY PowerLossLeft
<1>2. ASSUME NEW l \in Lanes
      PROVE  \E c \in laneDisk[l] : SameLane(c, lane'[l])
  <2>1. PICK d \in laneDisk[l] : lane'[l] \in LaneLeft(d)
    BY <1>1
  <2>2. d \in LaneValues
    BY LaneSeen DEF IInv
  <2> QED BY <2>1, <2>2, LaneLeftFacts
<1>3. LanesKept
  <2>1. \A l \in Lanes : lane'[l] \in LaneValues
    BY <1>2 DEF SameLane
  <2>2. \A l \in Lanes : laneDisk'[l] \in SUBSET LaneValues
    BY <1>1, <2>1
  <2>3. lane' \in [Lanes -> LaneValues] /\ laneDisk' \in [Lanes -> SUBSET LaneValues]
    BY <1>1, <2>1, <2>2
  <2> QED BY <1>1, <1>2, <2>3 DEF LanesKept
<1>4. IndexKept
  <2>1. PICK x \in indexDisk : index' \in IndexLeft(x)
    BY <1>1
  <2>2. x \in IndexValues
    BY DEF IInv, FilesOK, IndexesOK, IndexOK
  <2> QED BY <1>1, <2>1, <2>2, IndexLeftFacts DEF IndexKept
<1>5. FilesOK'
  BY <1>3, <1>4, SameFiles DEF IInv
<1>6. writer' = None /\ CallersOK'
  BY CallersKept DEF PowerLoss, IInv
<1> QED BY <1>5, <1>6, WriterGone DEF IInv

LEMMA NextIInv ==
  ASSUME IInv, [Next]_vars
  PROVE  IInv'
<1>1. CASE UNCHANGED vars
  BY <1>1, FilesUnchanged, WriterKept, CallersKept DEF vars, files, IInv
<1>2. CASE Step
  BY <1>2, FinalizePriorIInv, ReplayIInv, RefuseDispatchIInv, PrepareIndexIInv,
     WriteIntentIInv, MakeEventCandidateIInv, WriteEventIInv, PromoteEventIInv,
     BarrierEventIInv, WriteTransitionIInv, PromoteTransitionIInv,
     BarrierTransitionIInv DEF Step
<1>3. CASE Crash \/ CrashWriting \/ PowerLoss
  BY <1>3, CrashIInv, CrashWritingIInv, PowerLossIInv
<1>4. ASSUME NEW l \in Lanes,
             (\E e \in EventsOf[l] : Request(l, e)) \/ Abandon(l) \/ Begin(l)
      PROVE  IInv'
  BY <1>4, RequestIInv, BeginIInv
<1> QED BY <1>1, <1>2, <1>3, <1>4 DEF Next

\* Whatever the order of commits, crashes and power losses, any lane value and
\* any index value that may be read together fit, torn files and all.
THEOREM InductiveInvariant == Spec => []IInv
BY InitIInv, NextIInv, PTL DEF Spec

----------------------------------------------------------------------------
(* What follows from it.                                                   *)

LEMMA IInvIndexTrails == IInv => IndexTrailsJournals
<1> SUFFICES ASSUME IInv PROVE IndexTrailsJournals
  OBVIOUS
<1>1. ASSUME NEW p \in Positions
      PROVE  p[1] \in Lanes /\ p[2] \in DOMAIN Slots(p[1]) /\ p = <<p[1], p[2]>>
  BY DEF Positions
<1>2. Projected \subseteq {RecordAt(p) : p \in Positions}
  <2> SUFFICES ASSUME NEW r \in Projected
               PROVE  \E p \in Positions : RecordAt(p) = r
    OBVIOUS
  <2>1. PICK k \in DOMAIN index.log : index.log[k].record = r
    BY DEF Projected
  <2>2. IndexOK(index) /\ index \in indexDisk
    BY DEF IInv, FilesOK, IndexesOK
  <2>3. index.log[k].intent \in Intents
    <3>1. index.log \in Seq(IndexCapsules)
      BY <2>2 DEF IndexOK, IndexValues
    <3>2. index.log[k] \in IndexCapsules
      BY <3>1, ElementOfSeq, LenProperties
    <3> QED BY <3>2 DEF IndexCapsules
  <2> DEFINE l == index.log[k].intent.lane
  <2>4. l \in Lanes
    BY <2>3 DEF Intents
  <2>5. \E i \in DOMAIN Slots(l) : Slots(l)[i].record = r
    <3>1. lane[l].slots = Slots(l) /\ Fits(l, lane[l], index)
      BY <2>4, Seen
    <3> HIDE DEF l
    <3> QED BY <2>1, <3>1 DEF Fits, Backed, l
  <2>6. PICK i \in DOMAIN Slots(l) : Slots(l)[i].record = r
    BY <2>5
  <2> DEFINE p == <<l, i>>
  <2>7. p \in Positions /\ p[1] = l /\ p[2] = i
    BY <2>4, <2>6 DEF Positions
  <2> QED BY <2>6, <2>7 DEF RecordAt
<1>3. ASSUME NEW p \in Trailing
      PROVE  /\ p \in Positions /\ p[2] = Len(Slots(p[1]))
             /\ index.cand # None
             /\ index.cand.intent = RecordAt(p).intent
             /\ index.cand.file # "none"
             /\ index.cand.intent.lane = p[1]
  <2>1. p \in Positions /\ RecordAt(p) \notin Projected
    BY DEF Trailing
  <2>2. p[1] \in Lanes /\ p[2] \in DOMAIN Slots(p[1])
    BY <1>1, <2>1
  <2>3. p[2] = Len(Slots(p[1])) /\ Ready(index, RecordAt(p).intent)
    BY <2>1, <2>2, TrailingLost DEF RecordAt
  <2>4. LaneOK(p[1], lane[p[1]]) /\ lane[p[1]].slots = Slots(p[1])
    BY <2>2, Seen
  <2> QED BY <2>1, <2>2, <2>3, <2>4 DEF LaneOK, Ready, Pending, RecordAt
<1>4. \A p, q \in Trailing : p = q
  BY <1>1, <1>3
<1> QED BY <1>2, <1>3, <1>4 DEF IndexTrailsJournals

\* The index never runs ahead of the journals and is one record behind them at
\* most, whatever failed: in _commit_event_locked the intent is named before
\* the event has a file, and the event is durable before its transition.
THEOREM IndexTrails == Spec => []IndexTrailsJournals
BY InductiveInvariant, IInvIndexTrails, PTL

\* What an interrupted commit leaves in a lane is of the index candidate that is
\* pending, and no transition is beside that: PrepareIndex writes the intent
\* again if a power loss tore it, and the event is taken up with it.
THEOREM ResidueBacked == Spec => []ResidueIsBacked
<1>1. IInv => ResidueIsBacked
  <2> SUFFICES ASSUME IInv, NEW l \in Lanes, lane[l].cand # None
               PROVE  /\ index.cand # None
                      /\ index.cand.intent = lane[l].cand.record.intent
                      /\ index.cand.intent.previous = Len(index.log)
                      /\ ~ TransitionPresent
    BY DEF ResidueIsBacked
  <2>1. LaneOK(l, lane[l]) /\ IndexOK(index) /\ Fits(l, lane[l], index)
    BY Seen
  <2>2. index.cand.transition = "none"
    BY <2>1, FitFacts
  <2> QED BY <2>1, <2>2 DEF Fits, Pending, IndexOK, TransitionPresent
<1> QED BY <1>1, InductiveInvariant, PTL

\* A file that was lost under a committed record of another lane is lost still
\* when the commit has synced a capsule of its own.
LEMMA LostKept ==
  ASSUME IInv, CommittedFileLost, NEW l \in Lanes, UNCHANGED index,
         \A j \in DOMAIN Slots(l) : Slots(l)[j].file # "torn",
         SameRecords(Slots(l), Slots(l)'),
         \A m \in Lanes \ {l} : lane'[m] = lane[m]
  PROVE  CommittedFileLost'
<1>1. \A m \in Lanes \ {l} : Slots(m)' = Slots(m)
  BY DEF Slots
<1>2. /\ \A m \in Lanes : DOMAIN Slots(m)' = DOMAIN Slots(m)
      /\ \A m \in Lanes : \A i \in DOMAIN Slots(m) :
            Slots(m)'[i].record = Slots(m)[i].record
  BY <1>1 DEF SameRecords
<1>3. CASE \E p \in Positions : Slots(p[1])[p[2]].file = "torn"
  <2>1. PICK p \in Positions : Slots(p[1])[p[2]].file = "torn"
    BY <1>3
  <2>2. p[1] \in Lanes /\ p[2] \in DOMAIN Slots(p[1]) /\ p = <<p[1], p[2]>>
    BY DEF Positions
  <2>3. p[1] # l
    BY <2>1, <2>2
  <2>4. Slots(p[1])' = Slots(p[1])
    BY <1>1, <2>2, <2>3
  <2>5. Slots(p[1])'[p[2]].file = "torn" /\ p[2] \in DOMAIN Slots(p[1])'
    BY <2>1, <2>2, <2>4
  <2>6. p \in Positions'
    BY <2>2, <2>5 DEF Positions
  <2> QED BY <2>5, <2>6 DEF CommittedFileLost
<1>4. CASE \E i \in DOMAIN index.log : index.log[i].file = "torn"
  BY <1>4 DEF CommittedFileLost
<1>5. CASE Trailing # {} /\ index.cand.file = "torn"
  <2>1. PICK p \in Positions : RecordAt(p) \notin Projected
    BY <1>5 DEF Trailing
  <2>2. p[1] \in Lanes /\ p[2] \in DOMAIN Slots(p[1]) /\ p = <<p[1], p[2]>>
    BY DEF Positions
  <2>3. /\ p[2] \in DOMAIN Slots(p[1])'
        /\ Slots(p[1])'[p[2]].record = Slots(p[1])[p[2]].record
    BY <1>2, <2>2
  <2>4. p \in Positions' /\ RecordAt(p)' = RecordAt(p) /\ Projected' = Projected
    BY <2>2, <2>3 DEF Positions, RecordAt, Projected
  <2>5. Trailing' # {}
    BY <2>1, <2>4 DEF Trailing
  <2> QED BY <1>5, <2>5 DEF CommittedFileLost
<1> QED BY <1>3, <1>4, <1>5 DEF CommittedFileLost

\* With files as they were, what was lost is lost.
LEMMA LostSame ==
  ASSUME CommittedFileLost, UNCHANGED <<lane, index>>
  PROVE  CommittedFileLost'
BY DEF CommittedFileLost, Positions, Slots, Trailing, RecordAt, Projected

\* No answer is kept while a commit runs.
Silent == writer # None => reply = None

LEMMA FinalizeCalm ==
  ASSUME IInv, Silent, writer # None, NEW l \in Lanes, NEW i \in DOMAIN Slots(l),
         NEW allow \in BOOLEAN, allow => i = Len(Slots(l)),
         NEW then, Finalize(l, Slots(l)[i].record, allow, then),
         UNCHANGED index /\ CommittedFileLost => CommittedFileLost'
  PROVE  FailuresAreNotTampering' /\ Silent'
<1> DEFINE found == Finding(l, Slots(l)[i].record, allow)
<1>0. None # "integrity"
  BY EventsAssumption
<1>1. found = "integrity" => CommittedFileLost
  BY FindingFacts
<1>2. reply = None
  BY DEF Silent
<1> HIDE DEF found
<1>3. CASE found = "integrity"
  BY <1>1, <1>3 DEF Finalize, Reply, FailuresAreNotTampering, Silent, found
<1>4. CASE found # "integrity"
  BY <1>0, <1>2, <1>4
     DEF Finalize, Reply, ReplyCommitted, Continue, FailuresAreNotTampering, Silent, found
<1> QED BY <1>3, <1>4

LEMMA StepNoIntegrity ==
  ASSUME IInv, FailuresAreNotTampering, Silent, [Next]_vars
  PROVE  FailuresAreNotTampering' /\ Silent'
<1>0. None # "integrity"
  BY EventsAssumption
<1>1. ASSUME reply' = None
      PROVE  FailuresAreNotTampering' /\ Silent'
  BY <1>1 DEF FailuresAreNotTampering, Silent
<1>2. CASE FinalizePrior
  <2> PICK l \in Lanes : l = writer.lane
    BY <1>2, AtFacts DEF FinalizePrior
  <2>1. writer # None /\ reply = None /\ UNCHANGED lane
    BY <1>2, AtFacts DEF FinalizePrior, Silent
  <2>2. CASE Slots(l) = <<>>
    BY <1>1, <1>2, <2>1, <2>2 DEF FinalizePrior, Continue
  <2>3. CASE Slots(l) # <<>>
    <3> PICK n \in DOMAIN Slots(l) : n = Len(Slots(l))
      BY <2>3, Seen
    <3>1. Finalize(l, Slots(l)[n].record, TRUE, "decide")
      BY <1>2, <2>3 DEF FinalizePrior, LastRecord
    <3>2. UNCHANGED index /\ CommittedFileLost => CommittedFileLost'
      BY <2>1, LostSame
    <3> QED BY ONLY IInv, Silent, <2>1, <3>1, <3>2, FinalizeCalm, n = Len(Slots(l))
  <2> QED BY <2>2, <2>3
<1>3. ASSUME Replay \/ BarrierEvent, NEW l \in Lanes, l = writer.lane,
             NEW i \in DOMAIN Slots(l),
             SyncLane(l, [lane[l] EXCEPT !.slots = WithWhole(@, i)]),
             Finalize(l, Slots(l)[i].record, FALSE, "reply")
      PROVE  FailuresAreNotTampering' /\ Silent'
  <2>1. writer # None /\ \A j \in DOMAIN Slots(l) : Slots(l)[j].file # "torn"
    BY <1>3, AtFacts DEF Replay, BarrierEvent
  <2>2. /\ SameRecords(Slots(l), Slots(l)')
        /\ \A m \in Lanes \ {l} : lane'[m] = lane[m]
    BY <1>3, <2>1, SyncedSlots
  <2>3. UNCHANGED index /\ CommittedFileLost => CommittedFileLost'
    BY <2>1, <2>2, LostKept
  <2> QED BY ONLY IInv, Silent, <1>3, <2>1, <2>3, FinalizeCalm
<1>4. CASE Replay
  <2> PICK l \in Lanes : l = writer.lane
    BY <1>4, AtFacts DEF Replay
  <2> DEFINE i == CHOOSE i \in DOMAIN Slots(l) :
                     Slots(l)[i].record.event = writer.event
  <2> PICK k \in DOMAIN Slots(l) : k = i
    BY <1>4 DEF Replay, Committed
  <2>1. \/ Reply("reconciliation_required", "residue")
        \/ /\ SyncLane(l, [lane[l] EXCEPT !.slots = WithWhole(@, k)])
           /\ Finalize(l, Slots(l)[k].record, FALSE, "reply")
    BY <1>4 DEF Replay
  <2>2. CASE Reply("reconciliation_required", "residue")
    BY <2>2 DEF Reply, FailuresAreNotTampering, Silent
  <2> QED BY ONLY <1>3, <1>4, <2>1, <2>2, l = writer.lane
<1>5. CASE BarrierEvent
  <2> PICK l \in Lanes : l = writer.lane
    BY <1>5, AtFacts DEF BarrierEvent
  <2>1. Between(writer, {"barrier_event", "transition", "promote_transition",
                         "barrier_transition"})
    BY <1>5, AtFacts DEF BarrierEvent, Between
  <2> PICK n \in DOMAIN Slots(l) : n = Len(Slots(l))
    BY <2>1, PromotedFacts
  <2>2. Slots(l)[n].record = writer.record
    BY <2>1, PromotedFacts
  <2>3. /\ SyncLane(l, [lane[l] EXCEPT !.slots = WithWhole(@, n)])
        /\ Finalize(l, Slots(l)[n].record, FALSE, "reply")
    BY <1>5, <2>2 DEF BarrierEvent, Slots
  <2> QED BY ONLY <1>3, <1>5, <2>3, l = writer.lane
<1>6. CASE PrepareIndex
  <2>1. /\ ~ ScanPasses => CommittedFileLost
        /\ IndexAtHead(writer.lane)
        /\ index.cand # None
              /\ Plan(index.cand.intent) = NewPlan(writer.lane, writer.event) =>
           ~ TransitionPresent
    BY <1>6, PrepareFinds DEF PrepareIndex
  <2>2. \/ Continue("intent")
        \/ Reply("reconciliation_required", "contention")
        \/ /\ ~ ScanPasses /\ SyncIndexNames /\ UNCHANGED lane
           /\ Reply("quarantined", "integrity")
    BY <1>6, <2>1 DEF PrepareIndex
  <2>3. CASE Continue("intent")
    BY <1>1, <1>6, <2>3, AtFacts DEF PrepareIndex, Continue, Silent
  <2>4. CASE Reply("reconciliation_required", "contention")
    BY <2>4 DEF Reply, FailuresAreNotTampering, Silent
  <2>5. CASE /\ ~ ScanPasses /\ SyncIndexNames /\ UNCHANGED lane
             /\ Reply("quarantined", "integrity")
    <3>1. CommittedFileLost'
      BY <2>1, <2>5, LostSame DEF SyncIndexNames
    <3> QED BY <2>5, <3>1 DEF Reply, FailuresAreNotTampering, Silent
  <2> QED BY <2>2, <2>3, <2>4, <2>5
<1>7. CASE RefuseDispatch \/ MakeEventCandidate
  <2>1. writer # None
    BY <1>7, AtFacts DEF RefuseDispatch, MakeEventCandidate
  <2>2. reply' = None \/ Reply("reconciliation_required", "residue")
    BY <1>7, <2>1 DEF RefuseDispatch, MakeEventCandidate, Continue, Silent
  <2>3. CASE Reply("reconciliation_required", "residue")
    BY <2>3 DEF Reply, FailuresAreNotTampering, Silent
  <2> QED BY <1>1, <2>2, <2>3
<1>8. CASE WriteIntent \/ WriteEvent \/ PromoteEvent \/ WriteTransition
           \/ PromoteTransition \/ BarrierTransition
  <2>1. writer # None
    BY <1>8 DEF WriteIntent, WriteEvent, PromoteEvent, WriteTransition,
              PromoteTransition, BarrierTransition, At
  <2>2. reply' = None \/ ReplyCommitted
    BY <1>8, <2>1 DEF WriteIntent, WriteEvent, PromoteEvent, WriteTransition,
              PromoteTransition, BarrierTransition, Continue, Silent
  <2>3. CASE ReplyCommitted
    BY <1>0, <2>3 DEF ReplyCommitted, FailuresAreNotTampering, Silent
  <2> QED BY <1>1, <2>2, <2>3
<1>9. CASE Crash \/ CrashWriting \/ PowerLoss
  BY <1>1, <1>9 DEF Crash, CrashWriting, PowerLoss, Silent
<1>10. ASSUME NEW l \in Lanes,
             (\E e \in EventsOf[l] : Request(l, e)) \/ Abandon(l)
       PROVE  FailuresAreNotTampering' /\ Silent'
  <2>1. UNCHANGED <<lane, index, writer, reply>>
    BY <1>10 DEF Request, Abandon, files
  <2> QED BY <2>1, LostSame DEF FailuresAreNotTampering, Silent
<1>11. ASSUME NEW l \in Lanes, Begin(l)
       PROVE  FailuresAreNotTampering' /\ Silent'
  <2>1. CASE \E i \in DOMAIN Slots(l) : Slots(l)[i].file = "torn"
    <3>1. PICK i \in DOMAIN Slots(l) : Slots(l)[i].file = "torn"
      BY <2>1
    <3>2. <<l, i>> \in Positions
      BY DEF Positions
    <3>3. CommittedFileLost
      BY <3>1, <3>2 DEF CommittedFileLost
    <3>4. UNCHANGED <<lane, index, writer>>
      BY <1>11, <2>1 DEF Begin
    <3> QED BY <1>11, <3>3, <3>4, LostSame DEF Begin, FailuresAreNotTampering, Silent
  <2>2. CASE ~ \E i \in DOMAIN Slots(l) : Slots(l)[i].file = "torn"
    BY <1>1, <1>11, <2>2 DEF Begin
  <2> QED BY <2>1, <2>2
<1>12. CASE UNCHANGED vars
  BY <1>12, LostSame DEF vars, files, FailuresAreNotTampering, Silent
<1> QED BY <1>2, <1>4, <1>5, <1>6, <1>7, <1>8, <1>9, <1>10, <1>11, <1>12 DEF Next, Step

\* A commit is refused for a failed integrity check only where a file that was
\* taken up unsynced is lost under a committed record: every other state that
\* crashes and power losses leave passes the checks of the next commit.
THEOREM NeverTampering == Spec => []FailuresAreNotTampering
<1>1. Init => FailuresAreNotTampering /\ Silent
  BY DEF Init, FailuresAreNotTampering, Silent
<1> QED BY <1>1, StepNoIntegrity, InductiveInvariant, PTL DEF Spec

----------------------------------------------------------------------------
(* What a step does to what the disks may hold.                            *)

LEMMA ShortPrefix ==
  ASSUME NEW S, NEW s \in Seq(S), NEW t \in Seq(S), OneShort(s, t)
  PROVE  /\ Len(t) = Len(s) + 1 /\ DOMAIN s \subseteq DOMAIN t
         /\ \A i \in DOMAIN s : t[i] = s[i]
         /\ t[Len(t)] \in S
<1>1. Len(t) \in 1 .. Len(t) /\ Len(s) \in Nat /\ Len(t) \in Nat
      /\ DOMAIN s = 1 .. Len(s) /\ DOMAIN t = 1 .. Len(t)
  BY EmptySeq, LenProperties DEF OneShort
<1>2. t[Len(t)] \in S
  BY <1>1, ElementOfSeq
<1>3. t = Append(s, t[Len(t)])
  BY DEF OneShort
<1> DEFINE e == t[Len(t)]
<1>4. Len(t) = Len(s) + 1 /\ \A i \in 1 .. Len(s) : t[i] = s[i]
  <2>1. t = Append(s, e) /\ e \in S
    BY <1>2, <1>3
  <2> HIDE DEF e
  <2> QED BY <2>1, AppendProperties
<1> QED BY <1>1, <1>2, <1>4

\* The same capsules, none of whose whole files is lost.
KeptSlots(s, t) ==
    /\ SameRecords(s, t)
    /\ \A i \in DOMAIN s : s[i].file = "whole" => t[i].file = "whole"

\* A step keeps the capsules of a lane in whatever value is left, or adds to the
\* values of a lane, all with the same capsules, some with one capsule more.
LaneDiskMoves(l) ==
    \/ \A d \in laneDisk'[l] : \E c \in laneDisk[l] : KeptSlots(c.slots, d.slots)
    \/ /\ \A d \in laneDisk[l] : d.slots = Slots(l)
       /\ \A d \in laneDisk'[l] : d.slots = Slots(l) \/ OneShort(Slots(l), d.slots)
       /\ \E d \in laneDisk'[l] : d.slots = Slots(l)

LEMMA SubsetMoves ==
  ASSUME NEW m \in Lanes, laneDisk'[m] \subseteq laneDisk[m]
  PROVE  LaneDiskMoves(m)
BY DEF LaneDiskMoves, KeptSlots, SameRecords

LEMMA SyncMoves ==
  ASSUME IInv, NEW l \in Lanes, NEW i \in DOMAIN Slots(l),
         SyncLane(l, [lane[l] EXCEPT !.slots = WithWhole(@, i)]), NEW m \in Lanes
  PROVE  LaneDiskMoves(m)
<1>1. /\ laneDisk'[l] = {lane'[l]} /\ Slots(l)' = WithWhole(Slots(l), i)
      /\ SameRecords(Slots(l), Slots(l)')
      /\ \A k \in Lanes \ {l} : laneDisk'[k] = laneDisk[k]
  BY LaneSyncedKept DEF IInv
<1>2. /\ Slots(l) \in Seq(EventCapsules) /\ lane[l] \in laneDisk[l]
      /\ lane[l].slots = Slots(l) /\ lane'[l].slots = Slots(l)'
  BY Seen DEF Slots
<1>3. /\ WithWhole(Slots(l), i)[i].file = "whole"
      /\ \A j \in DOMAIN Slots(l) : j # i => WithWhole(Slots(l), i)[j] = Slots(l)[j]
  BY <1>2, WholeSlots
<1>4. \A j \in DOMAIN Slots(l) : Slots(l)[j].file = "whole" => Slots(l)'[j].file = "whole"
  BY ONLY <1>1, <1>3
<1>5. KeptSlots(lane[l].slots, lane'[l].slots)
  BY ONLY <1>1, <1>2, <1>4 DEF KeptSlots
<1>6. CASE m = l
  BY ONLY <1>1, <1>2, <1>5, <1>6 DEF LaneDiskMoves
<1>7. CASE m # l
  BY <1>1, <1>7, SubsetMoves
<1> QED BY <1>6, <1>7

LEMMA EventMoves ==
  ASSUME IInv, Between(writer, {"event_candidate", "write_event", "promote_event"}),
         NEW D, laneDisk' = [laneDisk EXCEPT ![writer.lane] = D],
         \A d \in D : d.slots = Slots(writer.lane) \/ OneShort(Slots(writer.lane), d.slots),
         \E d \in D : d.slots = Slots(writer.lane),
         NEW m \in Lanes
  PROVE  LaneDiskMoves(m)
<1>1. /\ laneDisk \in [Lanes -> SUBSET LaneValues] /\ writer.lane \in Lanes
      /\ \A d \in laneDisk[writer.lane] : d.slots = Slots(writer.lane)
  BY EventFacts
<1>2. CASE m = writer.lane
  BY <1>1, <1>2 DEF LaneDiskMoves
<1>3. CASE m # writer.lane
  <2>1. laneDisk'[m] = laneDisk[m]
    BY <1>1, <1>3
  <2> QED BY <2>1, SubsetMoves
<1> QED BY <1>2, <1>3

\* The steps that write the event candidate.
LEMMA CandidateMoves ==
  ASSUME IInv, NEW file \in FileStates, At("write_event"), NEW D,
         laneDisk' = [laneDisk EXCEPT ![writer.lane] = D],
         [lane[writer.lane] EXCEPT !.cand.file = file] \in D,
         D \subseteq laneDisk[writer.lane]
                       \cup {[lane[writer.lane] EXCEPT !.cand.file = file]},
         NEW m \in Lanes
  PROVE  LaneDiskMoves(m)
<1> DEFINE new == [lane[writer.lane] EXCEPT !.cand.file = file]
<1>1. /\ Between(writer, {"event_candidate", "write_event", "promote_event"})
      /\ Between(writer, {"write_event", "promote_event"})
  BY AtFacts DEF Between
<1>2. /\ new.slots = Slots(writer.lane)
      /\ \A d \in laneDisk[writer.lane] : d.slots = Slots(writer.lane)
  BY <1>1, EventFacts, CandidateFacts
<1>3. new \in D /\ D \subseteq laneDisk[writer.lane] \cup {new}
  OBVIOUS
<1> HIDE DEF new
<1>4. /\ \A d \in D : d.slots = Slots(writer.lane)
      /\ \E d \in D : d.slots = Slots(writer.lane)
  BY <1>2, <1>3
<1> QED BY <1>1, <1>4, EventMoves

LEMMA MakeMoves ==
  ASSUME IInv, MakeEventCandidate, NEW m \in Lanes
  PROVE  LaneDiskMoves(m)
<1> PICK l \in Lanes : l = writer.lane
  BY AtFacts DEF MakeEventCandidate
<1> DEFINE fresh == FreshCandidate(l)
           none == [lane[l] EXCEPT !.cand = None]
<1>1. Between(writer, {"event_candidate", "write_event", "promote_event"})
  BY AtFacts DEF MakeEventCandidate, Between
<1>2. /\ lane[l] \in LaneValues /\ lane[l] \in laneDisk[l]
      /\ laneDisk \in [Lanes -> SUBSET LaneValues]
      /\ \A d \in laneDisk[l] : d.slots = Slots(l)
  BY <1>1, EventFacts, Seen
<1>3. fresh.slots = Slots(l) /\ none.slots = Slots(l)
  BY <1>2 DEF LaneValues, Slots, FreshCandidate
<1>4. \/ UNCHANGED laneDisk
      \/ laneDisk' = [laneDisk EXCEPT ![l] = laneDisk[l] \cup {fresh}]
      \/ laneDisk' = [laneDisk EXCEPT ![l] =
                        {d \in laneDisk[l] : d.cand = None} \cup {lane[l]}]
      \/ laneDisk' = [laneDisk EXCEPT ![l] = {none, fresh}]
  BY DEF MakeEventCandidate, WriteLane, SyncLaneCandidate
<1> HIDE DEF fresh, none
<1>5. ASSUME NEW D, laneDisk' = [laneDisk EXCEPT ![l] = D], fresh \in D,
             D \subseteq laneDisk[l] \cup {none, fresh}
      PROVE  LaneDiskMoves(m)
  BY <1>1, <1>2, <1>3, <1>5, EventMoves
<1>6. CASE laneDisk' = [laneDisk EXCEPT ![l] = laneDisk[l] \cup {fresh}]
  BY <1>5, <1>6
<1>7. CASE laneDisk' = [laneDisk EXCEPT ![l] = {none, fresh}]
  BY <1>5, <1>7
<1>8. CASE laneDisk' = [laneDisk EXCEPT ![l] =
                         {d \in laneDisk[l] : d.cand = None} \cup {lane[l]}]
  BY <1>2, <1>8, SubsetMoves
<1> QED BY <1>4, <1>6, <1>7, <1>8, SubsetMoves

LEMMA LaneMoves ==
  ASSUME IInv, [Next]_vars, NEW m \in Lanes
  PROVE  LaneDiskMoves(m)
<1>1. CASE UNCHANGED laneDisk
  BY <1>1, SubsetMoves
<1>2. ASSUME NEW l \in Lanes, Begin(l)
      PROVE  LaneDiskMoves(m)
  <2>1. /\ laneDisk' = [laneDisk EXCEPT ![l] = LaneNamed(l)]
        /\ LaneNamed(l) \subseteq laneDisk[l]
        /\ laneDisk \in [Lanes -> SUBSET LaneValues]
    BY <1>2 DEF Begin, LaneNamed, IInv, FilesOK, LanesOK
  <2>2. laneDisk'[m] \subseteq laneDisk[m]
    BY <2>1
  <2> QED BY <2>2, SubsetMoves
<1>3. CASE Replay
  <2> PICK l \in Lanes : l = writer.lane
    BY <1>3, AtFacts DEF Replay
  <2> DEFINE i == CHOOSE i \in DOMAIN Slots(l) :
                     Slots(l)[i].record.event = writer.event
  <2> PICK k \in DOMAIN Slots(l) : k = i
    BY <1>3 DEF Replay, Committed
  <2>1. \/ UNCHANGED laneDisk
        \/ SyncLane(l, [lane[l] EXCEPT !.slots = WithWhole(@, k)])
    BY <1>3 DEF Replay, files
  <2> QED BY <1>1, <2>1, SyncMoves
<1>4. CASE BarrierEvent
  <2> PICK l \in Lanes : l = writer.lane
    BY <1>4, AtFacts DEF BarrierEvent
  <2>1. Between(writer, {"barrier_event", "transition", "promote_transition",
                         "barrier_transition"})
    BY <1>4, AtFacts DEF BarrierEvent, Between
  <2> PICK n \in DOMAIN Slots(l) : n = Len(Slots(l))
    BY <2>1, PromotedFacts
  <2>2. SyncLane(l, [lane[l] EXCEPT !.slots = WithWhole(@, n)])
    BY <1>4 DEF BarrierEvent, Slots
  <2> QED BY <2>2, SyncMoves
<1>5. CASE MakeEventCandidate
  BY <1>5, MakeMoves
<1>6. CASE WriteEvent
  <2> DEFINE new == [lane[writer.lane] EXCEPT !.cand.file = "whole"]
             D == {d \in laneDisk[writer.lane] : d.cand = None} \cup {new}
  <2>1. /\ At("write_event") /\ laneDisk' = [laneDisk EXCEPT ![writer.lane] = D]
        /\ new \in D /\ D \subseteq laneDisk[writer.lane] \cup {new}
    BY <1>6 DEF WriteEvent, SyncLaneCandidate
  <2>2. "whole" \in FileStates
    BY DEF FileStates
  <2> HIDE DEF D
  <2> QED BY <2>1, <2>2, CandidateMoves
<1>7. CASE PromoteEvent
  <2> DEFINE l == writer.lane
             e == lane[l].cand
             new == [slots |-> Append(Slots(l), e), cand |-> None]
             D == laneDisk[l] \cup {new}
  <2>1. /\ Between(writer, {"event_candidate", "write_event", "promote_event"})
        /\ Between(writer, {"write_event", "promote_event"})
    BY <1>7, AtFacts DEF PromoteEvent, Between
  <2>2. l \in Lanes /\ \A d \in laneDisk[l] : d.slots = Slots(l)
    BY <2>1, EventFacts
  <2>3. e \in EventCapsules
    BY <2>1 DEF IInv, WriterOK, CandidateOK
  <2>4. Slots(l) \in Seq(EventCapsules) /\ lane[l] \in laneDisk[l]
    BY <2>2, Seen
  <2>5. OneShort(Slots(l), new.slots)
    <3> HIDE DEF e
    <3> QED BY <2>3, <2>4, AppendProperties DEF OneShort
  <2>6. /\ laneDisk' = [laneDisk EXCEPT ![l] = D]
        /\ \A d \in D : d.slots = Slots(l) \/ OneShort(Slots(l), d.slots)
        /\ \E d \in D : d.slots = Slots(l)
    BY <1>7, <2>2, <2>4, <2>5 DEF PromoteEvent, WriteLane
  <2> HIDE DEF D, new, e
  <2> QED BY <2>1, <2>6, EventMoves
<1>8. CASE PowerLoss
  <2>1. laneDisk'[m] = {lane'[m]} /\ \E c \in laneDisk[m] : lane'[m] \in LaneLeft(c)
    BY <1>8, PowerLossLeft
  <2>2. PICK c \in laneDisk[m] : lane'[m] \in LaneLeft(c)
    BY <2>1
  <2>3. c \in LaneValues
    BY LaneSeen DEF IInv
  <2>4. KeptSlots(c.slots, lane'[m].slots)
    BY <2>2, <2>3, LaneLeftFacts DEF KeptSlots, SameLane
  <2> QED BY <2>1, <2>4 DEF LaneDiskMoves
<1>9. CASE CrashWriting
  <2>1. PICK file \in {"none", "torn", "loose"} :
           \/ UNCHANGED laneDisk
           \/ /\ At("write_event")
              /\ WriteLane(writer.lane,
                           [lane[writer.lane] EXCEPT !.cand.file = file])
    BY <1>9 DEF CrashWriting
  <2>2. CASE /\ At("write_event")
             /\ WriteLane(writer.lane,
                          [lane[writer.lane] EXCEPT !.cand.file = file])
    <3> DEFINE new == [lane[writer.lane] EXCEPT !.cand.file = file]
               D == laneDisk[writer.lane] \cup {new}
    <3>1. /\ laneDisk' = [laneDisk EXCEPT ![writer.lane] = D]
          /\ new \in D /\ D \subseteq laneDisk[writer.lane] \cup {new}
      <4>1. writer.lane \in Lanes /\ laneDisk \in [Lanes -> SUBSET LaneValues]
        BY <2>2, AtFacts DEF IInv, FilesOK, LanesOK
      <4> QED BY <2>2, <4>1 DEF WriteLane
    <3>2. file \in FileStates
      BY DEF FileStates
    <3> HIDE DEF D
    <3> QED BY <2>2, <3>1, <3>2, CandidateMoves
  <2> QED BY <1>1, <2>1, <2>2
<1>10. CASE \/ UNCHANGED vars \/ Crash \/ RefuseDispatch \/ FinalizePrior
            \/ PrepareIndex \/ WriteIntent \/ WriteTransition
            \/ PromoteTransition \/ BarrierTransition
            \/ \E l \in Lanes : (\E e \in EventsOf[l] : Request(l, e)) \/ Abandon(l)
  <2>1. UNCHANGED laneDisk
    BY <1>10 DEF vars, files, Crash, RefuseDispatch, FinalizePrior, PrepareIndex,
                 WriteIntent, WriteTransition, PromoteTransition, BarrierTransition,
                 Request, Abandon
  <2> QED BY <1>1, <2>1
<1> QED BY <1>2, <1>3, <1>4, <1>5, <1>6, <1>7, <1>8, <1>9, <1>10 DEF Next, Step

\* The index only grows, and none of its whole files is lost.
Grown(s, t) ==
    /\ DOMAIN s \subseteq DOMAIN t
    /\ \A k \in DOMAIN s : /\ t[k].intent = s[k].intent
                           /\ t[k].record = s[k].record
                           /\ s[k].file = "whole" => t[k].file = "whole"

LEMMA GrownSelf ==
  ASSUME NEW s
  PROVE  Grown(s, s)
BY DEF Grown

LEMMA WholeGrown ==
  ASSUME NEW s \in Seq(IndexCapsules), NEW k \in DOMAIN s
  PROVE  Grown(s, WithWhole(s, k))
<1>1. /\ SameRecords(s, WithWhole(s, k)) /\ WithWhole(s, k)[k].file = "whole"
      /\ \A j \in DOMAIN s : WithWhole(s, k)[j].intent = s[j].intent
      /\ \A j \in DOMAIN s : j # k => WithWhole(s, k)[j] = s[j]
  BY WholeLog
<1> QED BY ONLY <1>1 DEF Grown, SameRecords

LEMMA IndexMoves ==
  ASSUME IInv, [Next]_vars, NEW x \in indexDisk'
  PROVE  \E y \in indexDisk : Grown(y.log, x.log)
<1>1. /\ index \in indexDisk /\ index \in IndexValues
      /\ index.log \in Seq(IndexCapsules)
      /\ \A y \in indexDisk : y \in IndexValues
  BY DEF IInv, FilesOK, IndexesOK, IndexOK, IndexValues
<1>2. ASSUME NEW new, new.log = index.log, indexDisk' \subseteq indexDisk \cup {new}
      PROVE  \E y \in indexDisk : Grown(y.log, x.log)
  BY <1>1, <1>2, GrownSelf
<1>3. CASE indexDisk' \subseteq indexDisk
  BY <1>3, GrownSelf
<1>4. ASSUME NEW l \in Lanes, NEW i \in DOMAIN Slots(l), NEW allow \in BOOLEAN,
             allow => i = Len(Slots(l)),
             NEW then, Finalize(l, Slots(l)[i].record, allow, then)
      PROVE  \E y \in indexDisk : Grown(y.log, x.log)
  <2> DEFINE r == Slots(l)[i].record
             found == Finding(l, r, allow)
  <2>1. found = "replay" => r \in Projected
    BY <1>4, FindingFacts
  <2>2. UNCHANGED indexDisk \/ (found = "replay" /\ BarrierCapsule(r))
    BY <1>4 DEF Finalize
  <2> HIDE DEF r, found
  <2>3. CASE found = "replay" /\ BarrierCapsule(r)
    <3>1. PICK k \in DOMAIN index.log : x.log = WithWhole(index.log, k)
      BY <2>1, <2>3, BarrierCapsuleKept DEF IInv
    <3>2. Grown(index.log, x.log)
      BY <1>1, <3>1, WholeGrown
    <3> QED BY <1>1, <3>2
  <2> QED BY <1>3, <2>2, <2>3
<1>5. CASE FinalizePrior
  <2> PICK l \in Lanes : l = writer.lane
    BY <1>5, AtFacts DEF FinalizePrior
  <2>1. CASE Slots(l) = <<>>
    BY <1>3, <1>5, <2>1 DEF FinalizePrior
  <2>2. CASE Slots(l) # <<>>
    <3> PICK n \in DOMAIN Slots(l) : n = Len(Slots(l))
      BY <2>2, Seen
    <3>1. Finalize(l, Slots(l)[n].record, TRUE, "decide")
      BY <1>5, <2>2 DEF FinalizePrior, LastRecord
    <3> QED BY ONLY <1>4, <3>1, n = Len(Slots(l))
  <2> QED BY <2>1, <2>2
<1>6. CASE Replay
  <2> PICK l \in Lanes : l = writer.lane
    BY <1>6, AtFacts DEF Replay
  <2> DEFINE i == CHOOSE i \in DOMAIN Slots(l) :
                     Slots(l)[i].record.event = writer.event
  <2> PICK k \in DOMAIN Slots(l) : k = i
    BY <1>6 DEF Replay, Committed
  <2>1. UNCHANGED indexDisk \/ Finalize(l, Slots(l)[k].record, FALSE, "reply")
    BY <1>6 DEF Replay, files
  <2> QED BY ONLY <1>3, <1>4, <2>1
<1>7. CASE BarrierEvent
  <2> PICK l \in Lanes : l = writer.lane
    BY <1>7, AtFacts DEF BarrierEvent
  <2>1. Between(writer, {"barrier_event", "transition", "promote_transition",
                         "barrier_transition"})
    BY <1>7, AtFacts DEF BarrierEvent, Between
  <2> PICK n \in DOMAIN Slots(l) : n = Len(Slots(l))
    BY <2>1, PromotedFacts
  <2>2. Finalize(l, Slots(l)[n].record, FALSE, "reply")
    BY <1>7, <2>1, PromotedFacts DEF BarrierEvent
  <2> QED BY ONLY <1>4, <2>2
<1>8. CASE CrashWriting
  <2>1. PICK file \in {"none", "torn", "loose"} :
           \/ UNCHANGED indexDisk
           \/ indexDisk' = indexDisk \cup {[index EXCEPT !.cand.file = "none"],
                                           [index EXCEPT !.cand.file = file]}
           \/ indexDisk' = indexDisk \cup {[index EXCEPT !.cand.transition = "none"],
                                           [index EXCEPT !.cand.transition = file]}
    BY <1>8 DEF CrashWriting
  <2>2. \A f : /\ [index EXCEPT !.cand.file = f].log = index.log
               /\ [index EXCEPT !.cand.transition = f].log = index.log
    BY <1>1 DEF IndexValues
  <2> QED BY <1>1, <2>1, <2>2, GrownSelf
<1>9. CASE WriteIntent
  <2> DEFINE new == [index EXCEPT !.cand.file = Repaired(@)]
  <2>1. indexDisk' = {new}
    BY <1>9 DEF WriteIntent, SyncIndex
  <2>2. new.log = index.log
    BY <1>1 DEF IndexValues
  <2> HIDE DEF new
  <2> QED BY <1>2, <2>1, <2>2
<1>10. CASE WriteTransition
  <2> DEFINE new == [index EXCEPT !.cand.transition = Repaired(@)]
  <2>1. indexDisk' = {d \in indexDisk : d.cand = None} \cup {new}
    BY <1>10 DEF WriteTransition, SyncIndexCandidate
  <2>2. new.log = index.log
    BY <1>1 DEF IndexValues
  <2> HIDE DEF new
  <2> QED BY <1>2, <2>1, <2>2
<1>11. CASE PrepareIndex
  <2>1. \A c : [index EXCEPT !.cand = c].log = index.log
    BY <1>1 DEF IndexValues
  <2>2. SyncIndexNames \/ \E c : indexDisk' = {index, [index EXCEPT !.cand = c]}
    BY <1>11 DEF PrepareIndex
  <2>3. SyncIndexNames => indexDisk' \subseteq indexDisk
    BY DEF SyncIndexNames, IndexNamed
  <2> QED BY <1>1, <1>3, <2>1, <2>2, <2>3, GrownSelf
<1>12. CASE PromoteTransition
  <2>1. PICK entry : indexDisk' = indexDisk \cup
                        {[log |-> Append(index.log, entry), cand |-> None]}
                     /\ entry \in IndexCapsules
    <3>1. /\ Between(writer, {"barrier_event", "transition", "promote_transition",
                              "barrier_transition"})
          /\ writer.pc = "promote_transition" /\ writer.lane \in Lanes
      BY <1>12, AtFacts DEF PromoteTransition, Between
    <3>2. writer.record \in Records /\ index.cand # None /\ index.cand.intent \in Intents
      BY <3>1, PromotedFacts, Seen DEF Ready, Pending, IndexCandidates
    <3> DEFINE synced == {index.cand.file, index.cand.transition} = {"whole"}
               entry == [intent |-> index.cand.intent, record |-> writer.record,
                         file |-> IF synced THEN "whole" ELSE "loose"]
    <3>3. entry \in IndexCapsules
      BY <3>2 DEF IndexCapsules, FileStates
    <3>4. indexDisk' = indexDisk \cup
                          {[log |-> Append(index.log, entry), cand |-> None]}
      BY <1>12 DEF PromoteTransition, WriteIndex
    <3> HIDE DEF entry
    <3> QED BY <3>3, <3>4
  <2>2. Grown(index.log, Append(index.log, entry))
    <3>1. /\ DOMAIN index.log = 1 .. Len(index.log)
          /\ DOMAIN Append(index.log, entry) = 1 .. Len(index.log) + 1
          /\ \A k \in 1 .. Len(index.log) : Append(index.log, entry)[k] = index.log[k]
          /\ Len(index.log) \in Nat
      BY <1>1, <2>1, AppendProperties, LenProperties
    <3> QED BY <3>1 DEF Grown
  <2> DEFINE new == [log |-> Append(index.log, entry), cand |-> None]
  <2>3. new.log = Append(index.log, entry) /\ x \in indexDisk \cup {new}
    BY <2>1
  <2> HIDE DEF new
  <2> QED BY <1>1, <2>2, <2>3, GrownSelf
<1>13. CASE BarrierTransition
  <2>1. Between(writer, {"transition", "promote_transition", "barrier_transition"})
        /\ writer.pc = "barrier_transition"
    BY <1>13, AtFacts DEF BarrierTransition, Between
  <2>2. Len(index.log) \in DOMAIN index.log
    BY <1>1, <2>1, EmptySeq, LenProperties DEF IInv, WriterOK, ThenOK
  <2> DEFINE new == [index EXCEPT !.log = WithWhole(@, Len(@))]
  <2>3. indexDisk' = {new}
    BY <1>13 DEF BarrierTransition, SyncIndex
  <2>4. new.log = WithWhole(index.log, Len(index.log))
    BY <1>1 DEF IndexValues
  <2> HIDE DEF new
  <2> QED BY <1>1, <2>2, <2>3, <2>4, WholeGrown
<1>14. CASE PowerLoss
  <2>1. indexDisk' = {index'} /\ \E y \in indexDisk : index' \in IndexLeft(y)
    BY <1>14, PowerLossLeft
  <2>2. PICK y \in indexDisk : index' \in IndexLeft(y)
    BY <2>1
  <2>3. /\ SameIndex(y, index')
        /\ \A i \in DOMAIN y.log : y.log[i].file = "whole" => index'.log[i].file = "whole"
    BY <1>1, <2>2, IndexLeftFacts
  <2>4. Grown(y.log, index'.log)
    BY <2>3 DEF Grown, SameIndex, SameRecords
  <2> QED BY <2>1, <2>2, <2>4
<1>15. CASE \/ UNCHANGED vars \/ Crash \/ RefuseDispatch \/ MakeEventCandidate
            \/ WriteEvent \/ PromoteEvent
            \/ \E l \in Lanes : \/ \E e \in EventsOf[l] : Request(l, e)
                                \/ Abandon(l) \/ Begin(l)
  <2>1. UNCHANGED indexDisk
    BY <1>15 DEF vars, files, Crash, RefuseDispatch, MakeEventCandidate, WriteEvent,
                 PromoteEvent, Request, Abandon, Begin
  <2> QED BY <1>3, <2>1
<1> QED BY <1>5, <1>6, <1>7, <1>8, <1>9, <1>10, <1>11, <1>12, <1>13, <1>14, <1>15
        DEF Next, Step

----------------------------------------------------------------------------
(* Acknowledged events.                                                    *)

InLane(d, e) == \E i \in DOMAIN d.slots :
    d.slots[i].record.event = e /\ d.slots[i].file = "whole"
InIndex(x, l, e) == \E k \in DOMAIN x.log :
    /\ x.log[k].record.event = e /\ x.log[k].intent.lane = l
    /\ x.log[k].file = "whole"

\* An event is acknowledged only when its capsule is whole in its lane and in
\* the index, whatever the disks are left with.
AcksOf(l, e) ==
    /\ acked' = [acked EXCEPT ![l] = @ \cup {e}]
    /\ \A m \in Lanes \ {l} : laneDisk'[m] = laneDisk[m]
    /\ e \in Committed(l)
    /\ \A d \in laneDisk[l] : d.slots = Slots(l)
    /\ \A d \in laneDisk'[l] : InLane(d, e)
    /\ \A x \in indexDisk' : InIndex(x, l, e)

LEMMA ReplayAcks ==
  ASSUME IInv, Replay
  PROVE  UNCHANGED acked \/ \E l \in Lanes, e \in Events : AcksOf(l, e)
<1> PICK l \in Lanes : l = writer.lane
  BY AtFacts DEF Replay
<1> PICK e \in Events : e = writer.event
  BY AtFacts DEF Replay
<1> DEFINE i == CHOOSE i \in DOMAIN Slots(l) : Slots(l)[i].record.event = e
<1> PICK k \in DOMAIN Slots(l) : k = i
  BY DEF Replay, Committed
<1> DEFINE r == Slots(l)[k].record
<1>1. /\ writer # None /\ e \in Committed(l)
      /\ \A j \in DOMAIN Slots(l) : Slots(l)[j].file # "torn"
      /\ \A d \in laneDisk[l] : d.slots = Slots(l)
  BY AtFacts DEF Replay
<1>2. r.event = e
  BY DEF Replay, Committed
<1>3. \/ UNCHANGED acked
      \/ /\ SyncLane(l, [lane[l] EXCEPT !.slots = WithWhole(@, k)])
         /\ Finalize(l, r, FALSE, "reply")
  BY DEF Replay, Reply
<1>4. Finding(l, r, FALSE) = "replay" => r \in Projected
  BY FindingFacts
<1>5. r.intent.lane = l /\ IndexOK(index) /\ index.log \in Seq(IndexCapsules)
  BY Seen DEF LaneOK, IndexValues
<1>6. ASSUME SyncLane(l, [lane[l] EXCEPT !.slots = WithWhole(@, k)]),
             Finalize(l, r, FALSE, "reply")
      PROVE  UNCHANGED acked \/ AcksOf(l, e)
  <2> HIDE DEF r, i
  <2>1. \/ UNCHANGED acked
        \/ /\ Finding(l, r, FALSE) = "replay" /\ BarrierCapsule(r)
           /\ ReplyCommitted
    BY <1>6 DEF Finalize, Reply
  <2>2. /\ SameRecords(Slots(l), Slots(l)') /\ Slots(l)'[k].file = "whole"
        /\ \A d \in laneDisk'[l] : d.slots = Slots(l)'
        /\ \A m \in Lanes \ {l} : laneDisk'[m] = laneDisk[m]
    BY <1>1, <1>6, SyncedSlots
  <2>3. ASSUME NEW d \in laneDisk'[l] PROVE InLane(d, e)
    <3>1. d.slots = Slots(l)' /\ k \in DOMAIN Slots(l)' /\ Slots(l)'[k].record.event = e
      BY <1>2, <2>2 DEF SameRecords, r
    <3> QED BY ONLY <2>2, <3>1 DEF InLane
  <2>4. CASE /\ Finding(l, r, FALSE) = "replay" /\ BarrierCapsule(r)
             /\ ReplyCommitted
    <3>1. PICK n \in DOMAIN index.log :
             /\ index.log[n].record = r
             /\ \A x \in indexDisk' : x.log = WithWhole(index.log, n)
      BY <1>4, <2>4, BarrierCapsuleKept DEF IInv
    <3>2. /\ SameRecords(index.log, WithWhole(index.log, n))
          /\ WithWhole(index.log, n)[n].file = "whole"
          /\ WithWhole(index.log, n)[n].intent = index.log[n].intent
      BY <1>5, WholeLog
    <3>3. /\ n \in DOMAIN WithWhole(index.log, n)
          /\ WithWhole(index.log, n)[n].record = r
          /\ WithWhole(index.log, n)[n].intent.lane = l
      BY <1>5, <3>1, <3>2 DEF SameRecords, IndexOK
    <3>4. \A x \in indexDisk' : InIndex(x, l, e)
      BY <1>2, <3>1, <3>2, <3>3 DEF InIndex
    <3>5. acked' = [acked EXCEPT ![l] = @ \cup {e}]
      BY <2>4 DEF ReplyCommitted
    <3> QED BY <1>1, <2>2, <2>3, <3>4, <3>5 DEF AcksOf
  <2> QED BY <2>1, <2>4
<1> HIDE DEF r, i
<1> QED BY <1>3, <1>6

LEMMA TransitionAcks ==
  ASSUME IInv, BarrierTransition
  PROVE  UNCHANGED acked \/ \E l \in Lanes, e \in Events : AcksOf(l, e)
<1> PICK l \in Lanes : l = writer.lane
  BY AtFacts DEF BarrierTransition
<1> PICK e \in Events : e = writer.event
  BY AtFacts DEF BarrierTransition
<1> DEFINE n == Len(index.log)
           new == [index EXCEPT !.log = WithWhole(@, Len(@))]
<1>1. /\ Between(writer, {"barrier_event", "transition", "promote_transition",
                          "barrier_transition"})
      /\ Between(writer, {"transition", "promote_transition", "barrier_transition"})
      /\ writer.pc = "barrier_transition"
  BY AtFacts DEF BarrierTransition, Between
<1>2. /\ Len(Slots(l)) \in DOMAIN Slots(l)
      /\ Slots(l)[Len(Slots(l))].record = writer.record
      /\ writer.record.intent.lane = l
      /\ \A d \in laneDisk[l] : d.slots = Slots(l)
  BY <1>1, PromotedFacts
<1>3. /\ writer.then = "reply" => /\ writer.record.event = e
                                  /\ Slots(l)[Len(Slots(l))].file = "whole"
      /\ index.log # <<>> /\ index.log[n].record = writer.record
  BY <1>1 DEF IInv, WriterOK, ThenOK
<1>4. IndexOK(index) /\ index \in IndexValues /\ index.log \in Seq(IndexCapsules)
  BY Seen DEF IndexValues
<1>5. n \in DOMAIN index.log
  BY <1>3, <1>4, EmptySeq, LenProperties
<1>6. indexDisk' = {new} /\ new.log = WithWhole(index.log, n)
  BY <1>4 DEF BarrierTransition, SyncIndex, IndexValues
<1>7. /\ UNCHANGED laneDisk
      /\ writer.then = "reply" => ReplyCommitted
      /\ writer.then # "reply" => UNCHANGED acked
  BY DEF BarrierTransition, Continue
<1> HIDE DEF n, new
<1>8. /\ SameRecords(index.log, WithWhole(index.log, n))
      /\ WithWhole(index.log, n)[n].file = "whole"
      /\ WithWhole(index.log, n)[n].intent = index.log[n].intent
  BY <1>4, <1>5, WholeLog
<1>9. CASE writer.then = "reply"
  <2>1. writer.record.event = e /\ Slots(l)[Len(Slots(l))].file = "whole"
    BY <1>3, <1>9
  <2>2. \A d \in laneDisk'[l] : InLane(d, e)
    BY <1>2, <1>7, <2>1 DEF InLane
  <2>3. /\ n \in DOMAIN WithWhole(index.log, n)
        /\ WithWhole(index.log, n)[n].record.event = e
        /\ WithWhole(index.log, n)[n].intent.lane = l
    BY <1>2, <1>3, <1>4, <1>5, <1>8, <2>1 DEF SameRecords, IndexOK
  <2>4. InIndex(new, l, e)
    BY <1>6, <1>8, <2>3 DEF InIndex
  <2>5. e \in Committed(l)
    BY <1>2, <2>1 DEF Committed
  <2>6. acked' = [acked EXCEPT ![l] = @ \cup {e}]
    BY <1>7, <1>9 DEF ReplyCommitted
  <2>7. AcksOf(l, e)
    BY <1>2, <1>6, <1>7, <2>2, <2>4, <2>5, <2>6 DEF AcksOf
  <2> QED BY <2>7
<1> QED BY <1>7, <1>9

LEMMA AckMoves ==
  ASSUME IInv, [Next]_vars
  PROVE  UNCHANGED acked \/ \E l \in Lanes, e \in Events : AcksOf(l, e)
<1>1. CASE FinalizePrior
  BY <1>1 DEF FinalizePrior, Finalize, Continue, Reply
<1>2. CASE BarrierEvent
  <2> PICK l \in Lanes : l = writer.lane
    BY <1>2, AtFacts DEF BarrierEvent
  <2>1. Between(writer, {"barrier_event", "transition", "promote_transition",
                         "barrier_transition"}) /\ writer.pc = "barrier_event"
    BY <1>2, AtFacts DEF BarrierEvent, Between
  <2> PICK n \in DOMAIN Slots(l) : n = Len(Slots(l))
    BY <2>1, PromotedFacts
  <2>2. Slots(l)[n].record = writer.record /\ writer.record \notin Projected
    BY <2>1, PromotedFacts
  <2>3. Finding(l, writer.record, FALSE) # "replay"
    BY <2>2, FindingFacts
  <2> QED BY <1>2, <2>3 DEF BarrierEvent, Finalize, Reply
<1>3. CASE \/ RefuseDispatch \/ PrepareIndex \/ WriteIntent \/ MakeEventCandidate
           \/ WriteEvent \/ PromoteEvent \/ WriteTransition \/ PromoteTransition
  BY <1>3 DEF RefuseDispatch, PrepareIndex, WriteIntent, MakeEventCandidate,
              WriteEvent, PromoteEvent, WriteTransition, PromoteTransition,
              Continue, Reply
<1>4. CASE \/ UNCHANGED vars \/ Crash \/ CrashWriting \/ PowerLoss
           \/ \E l \in Lanes : \/ \E e \in EventsOf[l] : Request(l, e)
                               \/ Abandon(l) \/ Begin(l)
  BY <1>4 DEF vars, Crash, CrashWriting, PowerLoss, Request, Abandon, Begin
<1> QED BY <1>1, <1>2, <1>3, <1>4, ReplayAcks, TransitionAcks DEF Next, Step

LEMMA StepAcked ==
  ASSUME IInv, AckedSurvives, [Next]_vars
  PROVE  AckedSurvives'
<1> SUFFICES ASSUME NEW l \in Lanes, NEW e \in acked'[l]
             PROVE  /\ \A d \in laneDisk'[l] : InLane(d, e)
                    /\ \A x \in indexDisk' : InIndex(x, l, e)
  BY DEF AckedSurvives, InLane, InIndex
<1>1. /\ \A d \in laneDisk[l] : d.slots \in Seq(EventCapsules)
      /\ Slots(l) \in Seq(EventCapsules)
  BY LaneSeen, Seen DEF IInv, LaneValues
<1>2. /\ IInv'
      /\ \A d \in laneDisk'[l] : d.slots \in Seq(EventCapsules)
  BY NextIInv DEF IInv, FilesOK, LanesOK, LaneValues
<1>3. CASE e \in acked[l]
  <2>1. /\ \A d \in laneDisk[l] : InLane(d, e)
        /\ \A x \in indexDisk : InIndex(x, l, e)
    BY <1>3 DEF AckedSurvives, InLane, InIndex
  <2>2. ASSUME NEW d \in laneDisk'[l] PROVE InLane(d, e)
    <3>1. LaneDiskMoves(l)
      BY LaneMoves
    <3>2. CASE \E c \in laneDisk[l] : KeptSlots(c.slots, d.slots)
      BY <2>1, <3>2 DEF KeptSlots, SameRecords, InLane
    <3>3. CASE /\ \A c \in laneDisk[l] : c.slots = Slots(l)
               /\ d.slots = Slots(l) \/ OneShort(Slots(l), d.slots)
      <4>1. lane[l] \in laneDisk[l]
        BY Seen
      <4>2. PICK i \in DOMAIN Slots(l) :
               Slots(l)[i].record.event = e /\ Slots(l)[i].file = "whole"
        BY <2>1, <3>3, <4>1 DEF InLane
      <4>3. OneShort(Slots(l), d.slots) => i \in DOMAIN d.slots /\ d.slots[i] = Slots(l)[i]
        BY <1>1, <1>2, ShortPrefix
      <4> QED BY <3>3, <4>2, <4>3 DEF InLane
    <3> QED BY <3>1, <3>2, <3>3 DEF LaneDiskMoves
  <2>3. ASSUME NEW x \in indexDisk' PROVE InIndex(x, l, e)
    <3>1. PICK y \in indexDisk : Grown(y.log, x.log)
      BY IndexMoves
    <3> QED BY <2>1, <3>1 DEF Grown, InIndex
  <2> QED BY <2>2, <2>3
<1>4. CASE e \notin acked[l]
  <2>1. PICK m \in Lanes, e2 \in Events : AcksOf(m, e2)
    BY <1>4, AckMoves
  <2>2. m = l /\ e2 = e
    BY <1>4, <2>1 DEF AcksOf, IInv, CallersOK
  <2> QED BY <2>1, <2>2 DEF AcksOf
<1> QED BY <1>3, <1>4

\* An event that was acknowledged is in its lane and in the index for good, in
\* whole files, whatever the disks are left with: ReplyCommitted comes after the
\* capsules of both are synced, files and all.
THEOREM AckedSurvivesAll == Spec => []AckedSurvives
<1>1. Init => AckedSurvives
  BY DEF Init, AckedSurvives
<1> QED BY <1>1, StepAcked, InductiveInvariant, PTL DEF Spec

----------------------------------------------------------------------------
(* The ledger.                                                             *)

IsBase(D, s) ==
    /\ s \in Seq(EventCapsules)
    /\ \E d \in D : d.slots = s
    /\ \A d \in D : d.slots = s \/ OneShort(s, d.slots)

\* The durable capsules of a lane are the slots of its shortest value.
LEMMA Durable ==
  ASSUME IInv, NEW l \in Lanes
  PROVE  IsBase(laneDisk[l], DurableSlots(l))
<1>1. /\ \A d \in laneDisk[l] : d.slots \in Seq(EventCapsules)
      /\ \A d \in laneDisk[l] : d.slots = Slots(l) \/ OneShort(d.slots, Slots(l))
      /\ lane[l] \in laneDisk[l] /\ lane[l].slots = Slots(l)
      /\ Slots(l) \in Seq(EventCapsules)
  BY Seen DEF IInv, FilesOK, LanesOK, LaneOK, LaneValues, UncertainOK, Slots
<1>2. \A d \in laneDisk[l] : Len(d.slots) \in Nat
         /\ (Len(d.slots) = Len(Slots(l)) \/ Len(d.slots) + 1 = Len(Slots(l)))
         /\ (Len(d.slots) = Len(Slots(l)) => d.slots = Slots(l))
  BY <1>1, ShortPrefix, LenProperties
<1> DEFINE Shortest(d) == \A other \in laneDisk[l] : Len(d.slots) <= Len(other.slots)
<1>3. \E d \in laneDisk[l] : Shortest(d)
  <2>1. CASE \E d \in laneDisk[l] : Len(d.slots) + 1 = Len(Slots(l))
    BY <1>2, <2>1
  <2>2. CASE \A d \in laneDisk[l] : Len(d.slots) = Len(Slots(l))
    BY <1>1, <1>2, <2>2
  <2> QED BY <1>2, <2>1, <2>2
<1>4. PICK d \in laneDisk[l] : Shortest(d) /\ d.slots = DurableSlots(l)
  BY <1>3 DEF DurableSlots
<1>5. ASSUME NEW f \in laneDisk[l]
      PROVE  f.slots = d.slots \/ OneShort(d.slots, f.slots)
  <2>1. Len(d.slots) <= Len(f.slots)
    BY <1>4
  <2>2. CASE f.slots = Slots(l)
    BY <1>1, <2>2
  <2>3. CASE f.slots # Slots(l)
    <3>1. OneShort(f.slots, Slots(l)) /\ OneShort(d.slots, Slots(l))
      BY <1>1, <1>2, <2>1, <2>3
    <3> QED BY <1>1, <3>1, ShortPrefix, SeqEqual, LenProperties
  <2> QED BY <2>2, <2>3
<1> QED BY <1>1, <1>4, <1>5 DEF IsBase

LEMMA BaseUnique ==
  ASSUME NEW D, NEW s, NEW t, IsBase(D, s), IsBase(D, t)
  PROVE  s = t
<1>1. (s = t \/ OneShort(s, t)) /\ (s = t \/ OneShort(t, s))
  BY DEF IsBase
<1>2. OneShort(s, t) => Len(t) = Len(s) + 1
  BY ShortPrefix DEF IsBase
<1>3. OneShort(t, s) => Len(s) = Len(t) + 1
  BY ShortPrefix DEF IsBase
<1>4. Len(s) \in Nat /\ Len(t) \in Nat
  BY LenProperties DEF IsBase
<1> QED BY <1>1, <1>2, <1>3, <1>4

DurableOK == \A l \in Lanes : IsBase(laneDisk[l], DurableSlots(l))

LEMMA DurableBase == IInv => DurableOK
BY Durable DEF DurableOK

\* The same records, with one more at the end.
OneMore(s, t) ==
    /\ Len(t) = Len(s) + 1
    /\ \A i \in DOMAIN s : t[i].record = s[i].record

\* A step keeps the durable records of a lane, or adds one to those of a lane
\* that was uncertain.
LEMMA DurableMoves ==
  ASSUME IInv, [Next]_vars, NEW l \in Lanes
  PROVE  \/ SameRecords(DurableSlots(l), DurableSlots(l)')
         \/ /\ OneMore(DurableSlots(l), DurableSlots(l)')
            /\ \E d \in laneDisk[l] : d.slots # Slots(l)
<1> DEFINE s == DurableSlots(l)
           t == DurableSlots(l)'
<1>1. DurableOK /\ DurableOK'
  BY NextIInv, DurableBase, PTL
<1>2. IsBase(laneDisk[l], s) /\ IsBase(laneDisk'[l], t)
  BY <1>1 DEF DurableOK
<1>3. /\ lane[l] \in laneDisk[l] /\ lane[l].slots = Slots(l)
      /\ Slots(l) \in Seq(EventCapsules)
      /\ \A d \in laneDisk[l] : d.slots \in Seq(EventCapsules)
  BY Seen, LaneSeen DEF IInv, LaneValues
<1>4. LaneDiskMoves(l)
  BY LaneMoves
<1>5. /\ DOMAIN s = 1 .. Len(s) /\ Len(s) \in Nat /\ s \in Seq(EventCapsules)
      /\ DOMAIN t = 1 .. Len(t) /\ Len(t) \in Nat
  <2>1. \A q \in Seq(EventCapsules) : DOMAIN q = 1 .. Len(q) /\ Len(q) \in Nat
    BY LenProperties
  <2>2. s \in Seq(EventCapsules) /\ t \in Seq(EventCapsules)
    BY <1>2 DEF IsBase
  <2> HIDE DEF s, t
  <2> QED BY <2>1, <2>2
<1> HIDE DEF s, t
<1>6. CASE \A d \in laneDisk'[l] : \E c \in laneDisk[l] : KeptSlots(c.slots, d.slots)
  <2>1. PICK c \in laneDisk[l] : SameRecords(c.slots, t)
    BY <1>2, <1>6 DEF IsBase, KeptSlots
  <2>2. CASE c.slots = s
    BY <2>1, <2>2 DEF s, t
  <2>3. CASE c.slots # s /\ OneShort(s, c.slots)
    <3>1. /\ Len(c.slots) = Len(s) + 1 /\ DOMAIN s \subseteq DOMAIN c.slots
          /\ \A i \in DOMAIN s : c.slots[i] = s[i]
      BY <1>3, <1>5, <2>3, ShortPrefix
    <3>2. OneMore(s, t)
      BY <2>1, <3>1 DEF OneMore, SameRecords
    <3>3. \E d \in laneDisk[l] : d.slots # Slots(l)
      BY <1>2, <2>3 DEF IsBase
    <3> QED BY <3>2, <3>3 DEF s, t
  <2> QED BY <1>2, <2>2, <2>3 DEF IsBase
<1>7. CASE /\ \A d \in laneDisk[l] : d.slots = Slots(l)
           /\ \A d \in laneDisk'[l] : d.slots = Slots(l) \/ OneShort(Slots(l), d.slots)
           /\ \E d \in laneDisk'[l] : d.slots = Slots(l)
  <2>1. IsBase(laneDisk[l], Slots(l)) /\ IsBase(laneDisk'[l], Slots(l))
    BY <1>3, <1>7 DEF IsBase
  <2>2. t = s
    BY <1>2, <2>1, BaseUnique
  <2> QED BY <2>2 DEF SameRecords, s, t
<1> QED BY <1>4, <1>6, <1>7 DEF LaneDiskMoves

EventsIn(s) == [i \in DOMAIN s |-> s[i].record.event]

LEMMA EventsInSame ==
  ASSUME NEW s, NEW t, SameRecords(s, t)
  PROVE  EventsIn(t) = EventsIn(s)
BY DEF EventsIn, SameRecords

LEMMA EventsInAppend ==
  ASSUME NEW s \in Seq(EventCapsules), NEW t \in Seq(EventCapsules), OneMore(s, t)
  PROVE  EventsIn(t) = Append(EventsIn(s), t[Len(t)].record.event)
<1> DEFINE h == EventsIn(s)
           g == EventsIn(t)
           e == t[Len(t)].record.event
<1>1. /\ Len(t) = Len(s) + 1 /\ Len(s) \in Nat
      /\ DOMAIN s = 1 .. Len(s) /\ DOMAIN t = 1 .. Len(t)
      /\ \A i \in DOMAIN s : t[i].record = s[i].record
      /\ \A i \in DOMAIN s : s[i] \in EventCapsules
      /\ \A i \in DOMAIN t : t[i] \in EventCapsules
  BY LenProperties, ElementOfSeq DEF OneMore
<1>2. /\ h \in Seq(Events) /\ Len(h) = Len(s) /\ e \in Events
      /\ \A i \in 1 .. Len(s) : h[i] = s[i].record.event
  BY <1>1 DEF EventsIn, EventCapsules, Records
<1>3. /\ g \in Seq(Events) /\ Len(g) = Len(t)
      /\ \A i \in 1 .. Len(t) : g[i] = t[i].record.event
  BY <1>1 DEF EventsIn, EventCapsules, Records
<1>4. /\ Append(h, e) \in Seq(Events) /\ Len(Append(h, e)) = Len(h) + 1
      /\ \A i \in 1 .. Len(h) : Append(h, e)[i] = h[i]
      /\ Append(h, e)[Len(h) + 1] = e
  <2> HIDE DEF h, e
  <2> QED BY <1>2, AppendProperties
<1>5. \A i \in 1 .. Len(t) : g[i] = Append(h, e)[i]
  <2>1. e = t[Len(t)].record.event
    OBVIOUS
  <2> HIDE DEF h, g, e
  <2> QED BY <1>1, <1>2, <1>3, <1>4, <2>1
<1> HIDE DEF h, g, e
<1>6. g = Append(h, e)
  BY <1>1, <1>2, <1>3, <1>4, <1>5, SeqEqual
<1> QED BY <1>6 DEF h, g, e

LEMMA LedgerStep ==
  ASSUME IInv, [Next]_vars
  PROVE  [Ledger!Next]_<<DurableHistory, acked>>
<1>1. IInv' /\ DurableOK /\ DurableOK'
  BY NextIInv, DurableBase, PTL
<1>2. /\ DurableHistory = [l \in Lanes |-> EventsIn(DurableSlots(l))]
      /\ DurableHistory' = [l \in Lanes |-> EventsIn(DurableSlots(l)')]
  BY DEF DurableHistory, EventsIn
<1>3. CASE /\ UNCHANGED acked
           /\ \A l \in Lanes : SameRecords(DurableSlots(l), DurableSlots(l)')
  BY <1>2, <1>3, EventsInSame
<1>4. ASSUME UNCHANGED acked, NEW l \in Lanes,
             ~ SameRecords(DurableSlots(l), DurableSlots(l)')
      PROVE  Ledger!Next
  <2>1. /\ OneMore(DurableSlots(l), DurableSlots(l)')
        /\ \E d \in laneDisk[l] : d.slots # Slots(l)
    BY <1>4, DurableMoves
  <2>2. ASSUME NEW m \in Lanes, m # l
        PROVE  EventsIn(DurableSlots(m)') = EventsIn(DurableSlots(m))
    <3>1. index.cand.intent.lane = l /\ index \in indexDisk
      <4>1. laneDisk[l] # {lane[l]}
        BY <2>1 DEF Slots
      <4> QED BY <4>1 DEF IInv, FilesOK, IndexesOK, UncertainOK
    <3>2. laneDisk[m] = {lane[m]}
      BY <2>2, <3>1 DEF IInv, FilesOK, UncertainOK
    <3>3. \A d \in laneDisk[m] : d.slots = Slots(m)
      BY <3>2 DEF Slots
    <3>4. SameRecords(DurableSlots(m), DurableSlots(m)')
      BY <3>3, DurableMoves
    <3> QED BY <3>4, EventsInSame
  <2> DEFINE s == DurableSlots(l)
             t == DurableSlots(l)'
             e == t[Len(t)].record.event
  <2>3. s \in Seq(EventCapsules) /\ t \in Seq(EventCapsules)
    BY <1>1 DEF DurableOK, IsBase
  <2>4. \E d \in laneDisk'[l] : d.slots = t
    BY <1>1 DEF DurableOK, IsBase
  <2>5. \A i, j \in DOMAIN t : t[i].record.event = t[j].record.event => i = j
    BY <1>1, <2>4 DEF IInv, FilesOK, LanesOK, LaneOK
  <2>6. OneMore(s, t)
    BY <2>1
  <2>7. /\ DOMAIN s = 1 .. Len(s) /\ DOMAIN t = 1 .. Len(s) + 1 /\ Len(s) \in Nat
        /\ Len(t) = Len(s) + 1
        /\ \A i \in DOMAIN s : t[i].record = s[i].record
        /\ t[Len(t)] \in EventCapsules
    <3> HIDE DEF s, t
    <3> QED BY <2>3, <2>6, LenProperties, ElementOfSeq DEF OneMore
  <2>8. e \in Events
    BY <2>7 DEF EventCapsules, Records
  <2>9. \A i \in DOMAIN s : s[i].record.event # e
    <3>1. ASSUME NEW i \in DOMAIN s, s[i].record.event = e
          PROVE  FALSE
      <4>1. i \in DOMAIN t /\ Len(t) \in DOMAIN t /\ i # Len(t)
        <5> HIDE DEF s, t
        <5> QED BY <2>7
      <4>2. t[i].record.event = t[Len(t)].record.event
        BY <2>7, <3>1
      <4> QED BY <2>5, <4>1, <4>2
    <3> QED BY <3>1
  <2> HIDE DEF s, t, e
  <2>10. EventsIn(t) = Append(EventsIn(s), e)
    BY <2>3, <2>6, EventsInAppend DEF e
  <2>11. e \notin {EventsIn(s)[i] : i \in DOMAIN EventsIn(s)}
    BY <2>9 DEF EventsIn
  <2>12. DurableHistory[l] = EventsIn(s)
    BY <1>2 DEF s
  <2>13. DurableHistory' = [DurableHistory EXCEPT ![l] = Append(@, e)]
    BY <1>2, <2>2, <2>10, <2>12 DEF s, t
  <2>14. Ledger!Append1(l, e)
    BY <1>4, <2>11, <2>12, <2>13 DEF Ledger!Append1, Ledger!Range
  <2> QED BY <2>8, <2>14 DEF Ledger!Next
<1>5. ASSUME NEW l \in Lanes, NEW e \in Events, AcksOf(l, e)
      PROVE  Ledger!Next
  <2>1. ASSUME NEW m \in Lanes
        PROVE  EventsIn(DurableSlots(m)') = EventsIn(DurableSlots(m))
    <3>1. CASE m = l
      <4>1. SameRecords(DurableSlots(m), DurableSlots(m)')
        BY <1>5, <3>1, DurableMoves DEF AcksOf
      <4> QED BY <4>1, EventsInSame
    <3>2. CASE m # l
      <4>1. laneDisk'[m] = laneDisk[m]
        BY <1>5, <3>2 DEF AcksOf
      <4>2. IsBase(laneDisk[m], DurableSlots(m)) /\ IsBase(laneDisk[m], DurableSlots(m)')
        BY <1>1, <4>1 DEF DurableOK
      <4>3. DurableSlots(m)' = DurableSlots(m)
        BY <4>2, BaseUnique
      <4> QED BY <4>3
    <3> QED BY <3>1, <3>2
  <2>2. DurableHistory' = DurableHistory
    BY <1>2, <2>1
  <2>3. PICK i \in DOMAIN Slots(l) : Slots(l)[i].record.event = e
    BY <1>5 DEF AcksOf, Committed
  <2>4. DurableSlots(l) = Slots(l)
    BY <1>1, <1>5 DEF AcksOf, DurableOK, IsBase
  <2>5. e \in {DurableHistory[l][j] : j \in DOMAIN DurableHistory[l]}
    BY <1>2, <2>3, <2>4 DEF EventsIn
  <2>6. Ledger!Acknowledge(l, e)
    BY <1>5, <2>2, <2>5 DEF Ledger!Acknowledge, Ledger!Range, AcksOf
  <2> QED BY <2>6 DEF Ledger!Next
<1> QED BY <1>3, <1>4, <1>5, AckMoves

\* The durable journals with their acknowledgements are the ledger: through
\* crashes and power losses a lane has one history, which takes one event at a
\* time, each once, and acknowledges only what is in it.
THEOREM LedgerRefined == Spec => ImplementsLedger
<1>1. Init => Ledger!Init
  <2> SUFFICES ASSUME Init PROVE Ledger!Init
    OBVIOUS
  <2>1. ASSUME NEW l \in Lanes PROVE DurableSlots(l) = <<>>
    <3>1. laneDisk[l] = {[slots |-> <<>>, cand |-> None]}
      BY DEF Init
    <3>2. IsBase(laneDisk[l], DurableSlots(l))
      BY Durable, InitIInv
    <3> QED BY <3>1, <3>2 DEF IsBase
  <2>2. DurableHistory = [l \in Lanes |-> <<>>]
    BY <2>1 DEF DurableHistory
  <2> QED BY <2>2 DEF Init, Ledger!Init
<1> QED BY <1>1, LedgerStep, InductiveInvariant, PTL DEF Spec, ImplementsLedger, Ledger!Spec
=============================================================================
