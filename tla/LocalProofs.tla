----------------------------- MODULE LocalProofs -----------------------------
(***************************************************************************)
(* LocalChannel, for any number of Writes, of subscribers, of chunks and of *)
(* slots: its types, EveryWriteHasItsEntry and WholeEntry.                  *)
(*                                                                         *)
(* No Write is refused because every segment of the ring numbered from      *)
(* c.seq on is fresh (Fresh): only a Write that has its segment fills or    *)
(* closes it in the ring, and c.seq is past that segment then (Numbered).   *)
(* Writes do not share segments because their numbers differ (Apart), which *)
(* c.mu sees to: of the Writes that have a segment only the holder of c.mu  *)
(* has the number c.seq.                                                    *)
(*                                                                         *)
(* A segment that is closed in the ring was closed by its Write             *)
(* (ClosedByItsWrite), hence does not grow any more, and a subscriber that  *)
(* saw it closed and read what there was has all of it (AllOf).  Buffers    *)
(* only grow here, so what a subscriber holds stays a prefix (Holds).       *)
(***************************************************************************)
EXTENDS LocalChannel, StreamProofs

WriteType(n) ==
  [pc : {"idle", "located", "claimed", "streaming", "spinning", "done"}, seq : Nat,
   seg : 0 .. n, sent : 0 .. MaxChunks, resp : {"none", "ok"}]

ReadType ==
  [pc : {"idle", "located", "attached", "piping"}, seq : Nat \cup {-1}, data : Seq(Data),
   eof : BOOLEAN, got : Seq(Data), reads : 0 .. MaxReads,
   resp : {"none", "whole", "notfound", "EOS", "nonexistent", "abandoned"}]

(* No Write is refused: that is in the type of its resp.                    *)
Types ==
  /\ listed \in BOOLEAN
  /\ pubSeq \in Nat
  /\ mu \in Writers \cup {Nobody}
  /\ write \in [Writers -> WriteType(Len(heap))]
  /\ read \in [Subscribers -> ReadType]
  /\ closing \in {"idle", "closed", "done"}

ChunksOf(w) == [k \in 1 .. write[w].sent |-> <<w, k>>]

Numbered(w) ==
  /\ write[w].pc \in {"idle", "located"} <=> write[w].seg = Nil
  /\ write[w].pc \in {"idle", "located", "claimed"} => write[w].sent = 0
  /\ write[w].pc = "claimed" <=> mu = w
  /\ write[w].pc = "claimed" => write[w].seq = pubSeq
  /\ write[w].pc \in {"streaming", "spinning", "done"} => write[w].seq < pubSeq

Owns(w) ==
  write[w].seg # Nil =>
    heap[write[w].seg].idx = write[w].seq /\ heap[write[w].seg].buffer = ChunksOf(w)

Apart ==
  \A v, w \in Writers :
    v # w /\ write[v].seg # Nil /\ write[w].seg # Nil => write[v].seq # write[w].seq

Fresh == \A s \in InRing : heap[s].idx >= pubSeq => isFresh(s)

Done(s) == \E w \in Writers : write[w].seg = s /\ write[w].pc = "done"

ClosedByItsWrite == \A s \in InRing : heap[s].closed => Done(s)

WritersOK ==
  /\ \A w \in Writers : Numbered(w) /\ Owns(w)
  /\ Apart /\ Fresh /\ ClosedByItsWrite

Holds(r) ==
  /\ sub[r].seg # Nil
  /\ sub[r].readPos <= Len(SegmentOf(r).buffer)
  /\ read[r].got \o read[r].data = SubSeq(SegmentOf(r).buffer, 1, sub[r].readPos)

AllOf(r) ==
  \/ sub[r].seg \notin InRing
  \/ Done(sub[r].seg) /\ SegmentOf(r).closed /\ sub[r].readPos = Len(SegmentOf(r).buffer)

ReaderOK(r) ==
  /\ read[r].pc = "located" => read[r].got = << >>
  /\ read[r].pc # "piping" => read[r].data = << >>
  /\ read[r].resp = "whole" => read[r].pc = "idle"
  /\ read[r].pc \in {"attached", "piping"} \/ read[r].resp = "whole" => Holds(r)
  /\ read[r].resp = "whole" \/ (read[r].pc = "piping" /\ read[r].eof) => AllOf(r)

LocalInv == RingOK /\ Types /\ WritersOK /\ \A r \in Subscribers : ReaderOK(r)

-----------------------------------------------------------------------------
(* Facts that every step needs.                                             *)

LEMMA RingFacts ==
  ASSUME RingOK
  PROVE  /\ SegInv /\ StreamTypeOK /\ Len(heap) \in Nat /\ DOMAIN heap = 1 .. Len(heap)
         /\ \A s \in DOMAIN heap :
              /\ heap[s] \in SegmentType /\ heap[s].idx \in Nat /\ heap[s].buffer \in Seq(Data)
              /\ heap[s].closed \in BOOLEAN /\ Len(heap[s].buffer) \in Nat
         /\ \A s \in InRing : s \in DOMAIN heap
         /\ Nil \notin DOMAIN heap
  <1>1. SegInv /\ StreamTypeOK /\ Len(heap) \in Nat /\ DOMAIN heap = 1 .. Len(heap)
    BY HeapFacts DEF RingOK, StreamTypeOK, SegInv
  <1>2. \A s \in DOMAIN heap :
          /\ heap[s] \in SegmentType /\ heap[s].idx \in Nat /\ heap[s].buffer \in Seq(Data)
          /\ heap[s].closed \in BOOLEAN
    BY HeapFacts DEF RingOK, StreamTypeOK
  <1>3. \A s \in DOMAIN heap : Len(heap[s].buffer) \in Nat
    BY <1>2, LenProperties
  <1>4. \A s \in InRing : s \in DOMAIN heap
    BY <1>1 DEF InRing, StreamTypeOK, Nil
  <1> QED BY <1>1, <1>2, <1>3, <1>4 DEF Nil

LEMMA WriteFacts ==
  ASSUME LocalInv, NEW w \in Writers
  PROVE  /\ write \in [Writers -> WriteType(Len(heap))] /\ write[w] \in WriteType(Len(heap))
         /\ write[w].seg # Nil => write[w].seg \in DOMAIN heap
         /\ Numbered(w) /\ Owns(w) /\ pubSeq \in Nat
  <1>1. Len(heap) \in Nat /\ DOMAIN heap = 1 .. Len(heap)
    BY RingFacts DEF LocalInv
  <1> QED BY <1>1 DEF LocalInv, Types, WritersOK, WriteType, Nil

SubType(n) == [seg : 0 .. n, readPos : Nat, parked : BOOLEAN]

LEMMA ReadFacts ==
  ASSUME LocalInv, NEW r \in Subscribers
  PROVE  /\ read \in [Subscribers -> ReadType] /\ read[r] \in ReadType
         /\ sub \in [Subscribers -> SubType(Len(heap))] /\ sub[r] \in SubType(Len(heap))
         /\ sub[r].seg # Nil => sub[r].seg \in DOMAIN heap
         /\ ReaderOK(r)
  <1>1. Len(heap) \in Nat /\ DOMAIN heap = 1 .. Len(heap) /\ StreamTypeOK
    BY RingFacts DEF LocalInv
  <1>2. sub \in [Subscribers -> SubType(Len(heap))]
    BY <1>1 DEF StreamTypeOK, SegmentTypeOK, SubType
  <1> QED BY <1>1, <1>2 DEF LocalInv, Types, SubType, Nil

(* The invariant says what the properties do.                               *)
LEMMA Consequences == LocalInv => TypeOK /\ EveryWriteHasItsEntry /\ WholeEntry
  <1> SUFFICES ASSUME LocalInv PROVE TypeOK /\ EveryWriteHasItsEntry /\ WholeEntry
    OBVIOUS
  <1>1. TypeOK
    BY DEF LocalInv, RingOK, Types, WriteType, ReadType, TypeOK
  <1>2. NeverRefused
    BY WriteFacts DEF NeverRefused, WriteType
  <1>3. OneWritePerEntry
    BY WriteFacts DEF OneWritePerEntry, LocalInv, WritersOK, Owns, Apart, ChunksOf
  <1>4. WholeEntry
    <2> SUFFICES ASSUME NEW r \in Subscribers, read[r].resp = "whole", sub[r].seg \in InRing
                 PROVE  SegmentOf(r).closed /\ read[r].got = SegmentOf(r).buffer
      BY DEF WholeEntry
    <2>1. ReaderOK(r) /\ read[r] \in ReadType
      BY ReadFacts
    <2>2. /\ SegmentOf(r).closed /\ sub[r].readPos = Len(SegmentOf(r).buffer)
          /\ read[r].data = << >> /\ Holds(r)
      BY <2>1 DEF ReaderOK, AllOf
    <2>3. read[r].got \o << >> = SubSeq(SegmentOf(r).buffer, 1, Len(SegmentOf(r).buffer))
      BY <2>2 DEF Holds
    <2>4. SegmentOf(r).buffer \in Seq(Data) /\ read[r].got \in Seq(Data)
      <3>1. sub[r].seg \in DOMAIN heap
        BY RingFacts DEF LocalInv
      <3> QED BY <2>1, <3>1, RingFacts DEF LocalInv, SegmentOf, ReadType
    <2> QED BY <2>2, <2>3, <2>4, ConcatEmptySeq, SubSeqFull
  <1> QED BY <1>1, <1>2, <1>3, <1>4 DEF EveryWriteHasItsEntry

(* Nothing is there at first.                                               *)
LEMMA InitInv == Init => LocalInv
  <1> SUFFICES ASSUME Init PROVE LocalInv
    OBVIOUS
  <1> USE StreamAssumption, LocalAssumption
  <1> USE DEF Init, InitStream, InitSegments, Nil
  <1>1. heap = << >> /\ Len(heap) = 0 /\ DOMAIN heap = {} /\ << >> \in Seq(Data)
    OBVIOUS
  <1>2. RingOK
    <2>1. /\ << >> \in Seq([idx : Nat, buffer : Seq(Data), closed : BOOLEAN, closeCh : Nat])
          /\ sub \in [Subscribers -> [seg : 0 .. 0, readPos : Nat, parked : BOOLEAN]]
      OBVIOUS
    <2>2. SegmentTypeOK
      BY <1>1, <2>1 DEF SegmentTypeOK
    <2>3. segments \in [0 .. MaxSegmentsPerStream - 1 -> 0 .. 0]
      OBVIOUS
    <2>4. StreamTypeOK
      BY <1>1, <2>2, <2>3 DEF StreamTypeOK, NotHeld
    <2> QED BY <1>1, <2>4 DEF RingOK, ChannelAgree, RingAligned
  <1>3. InRing = {}
    BY DEF InRing
  <1>4. Types
    <2>1. NewWrite \in WriteType(0)
      BY DEF NewWrite, WriteType
    <2>2. NewLocalSubscriber \in ReadType
      BY <1>1 DEF NewLocalSubscriber, ReadType
    <2> QED BY <1>1, <2>1, <2>2 DEF Types
  <1>5. WritersOK
    <2>1. \A w \in Writers : write[w] = NewWrite
      OBVIOUS
    <2> QED BY <1>3, <2>1 DEF WritersOK, Numbered, Owns, Apart, Fresh, ClosedByItsWrite, NewWrite
  <1>6. \A r \in Subscribers : ReaderOK(r)
    <2>1. \A r \in Subscribers : read[r] = NewLocalSubscriber
      OBVIOUS
    <2> QED BY <2>1 DEF ReaderOK, NewLocalSubscriber
  <1> QED BY <1>2, <1>4, <1>5, <1>6 DEF LocalInv

-----------------------------------------------------------------------------
(* What a step does to the segments.                                        *)

(* The ring's operations: a segment that stays in the ring is left alone,   *)
(* one that enters it is new, and nobody writes.                            *)
RingSteps ==
  /\ Grows
  /\ \A s \in DOMAIN heap :
       /\ heap'[s].buffer = heap[s].buffer
       /\ s \in InRing' => s \in InRing /\ heap'[s] = heap[s]
  /\ \A s \in DOMAIN heap' \ DOMAIN heap : ~heap'[s].closed /\ heap'[s].buffer = << >>

StaysPut ==
  \A r \in Subscribers : sub'[r].seg = sub[r].seg /\ sub'[r].readPos = sub[r].readPos

LEMMA BroadcastStaysPut ==
  ASSUME NEW S, Broadcast(S), StreamTypeOK
  PROVE  StaysPut
  BY DEF Broadcast, StaysPut, StreamTypeOK, SegmentTypeOK

(* Nothing happens to the segments.                                         *)
LEMMA RingLeftAlone ==
  ASSUME RingOK, UNCHANGED <<heap, segments>>
  PROVE  RingSteps
  <1>1. InRing' = InRing
    BY DEF InRing
  <1> QED BY <1>1, RingFacts DEF RingSteps, Grows

(* getForWrite of a stream that is not reset.                               *)
LEMMA GetForWriteLocal ==
  ASSUME RingOK, NEW i \in Nat, getForWrite(i)
  PROVE  /\ RingOK' /\ RingSteps /\ StaysPut
         /\ WriteSegment(i) \in DOMAIN heap' /\ heap'[WriteSegment(i)].idx = i
         /\ \/ ~exists(Slot(i), i) /\ heap'[WriteSegment(i)].buffer = << >>
            \/ exists(Slot(i), i) /\ heap'[WriteSegment(i)].buffer = heap[Slot(i)].buffer
  <1>1. /\ RingOK' /\ Grows
        /\ WriteSegment(i) \in DOMAIN heap' /\ heap'[WriteSegment(i)].idx = i
    BY GetForWriteSafe
  <1>2. CASE Reuse(i)
    <2>1. UNCHANGED <<heap, segments, sub>> /\ exists(Slot(i), i)
      BY <1>2, LocalAssumption DEF Reuse, segmentVars
    <2>2. RingSteps /\ StaysPut
      BY <2>1, RingLeftAlone DEF StaysPut
    <2> QED BY <1>1, <2>1, <2>2 DEF WriteSegment
  <1>3. CASE Replace(i)
    <2> DEFINE S == {Slot(i)}
    <2>1. /\ heap' = Append(Closed(S), newSegment(i)) /\ Broadcast(Open(S)) /\ ~exists(Slot(i), i)
          /\ Store(i, Len(heap) + 1) /\ WriteSegment(i) = Len(heap) + 1
      BY <1>3 DEF Replace, WriteSegment
    <2>2. StaysPut
      BY <2>1, RingFacts, BroadcastStaysPut
    <2>3. /\ Closed(S) \in Seq(SegmentType) /\ Len(Closed(S)) = Len(heap)
          /\ Len(heap) \in Nat /\ DOMAIN heap = 1 .. Len(heap)
          /\ \A s \in DOMAIN heap : Closed(S)[s].buffer = heap[s].buffer
      BY RingFacts, ClosedShut
    <2>4. newSegment(i) \in SegmentType /\ newSegment(i).buffer = << >> /\ newSegment(i).closed = FALSE
      <3>1. << >> \in Seq(Data)
        OBVIOUS
      <3> QED BY <3>1 DEF newSegment, SegmentType
    <2>5. \A s \in DOMAIN heap : s # Slot(i) => Closed(S)[s] = heap[s]
      <3> SUFFICES ASSUME NEW s \in DOMAIN heap, s # Slot(i) PROVE Closed(S)[s] = heap[s]
        OBVIOUS
      <3>1. heap[s] \in SegmentType
        BY RingFacts
      <3> QED BY <3>1 DEF Closed, SegmentType
    <2> HIDE DEF S
    <2>6. /\ heap' \in Seq(SegmentType) /\ Len(heap') = Len(heap) + 1
          /\ \A s \in DOMAIN heap : heap'[s] = Closed(S)[s]
          /\ heap'[Len(heap) + 1] = newSegment(i)
      BY <2>1, <2>3, <2>4, AppendProperties
    <2>7. DOMAIN heap' = 1 .. Len(heap) + 1
      BY <2>6, SeqIsFunction
    <2>8. \A s \in DOMAIN heap' \ DOMAIN heap : s = Len(heap) + 1
      BY <2>3, <2>7
    <2>9. \A s \in DOMAIN heap : s \in InRing' => s \in InRing /\ s # Slot(i)
      BY <2>1, StoreLoses, StoreReplaces
    <2>10. RingSteps
      <3>1. ASSUME NEW s \in DOMAIN heap
            PROVE  /\ heap'[s].buffer = heap[s].buffer
                   /\ s \in InRing' => s \in InRing /\ heap'[s] = heap[s]
        BY <2>3, <2>5, <2>6, <2>9
      <3>2. \A s \in DOMAIN heap' \ DOMAIN heap : ~heap'[s].closed /\ heap'[s].buffer = << >>
        BY <2>4, <2>6, <2>8
      <3> QED BY <1>1, <3>1, <3>2 DEF RingSteps
    <2> QED BY <1>1, <2>1, <2>2, <2>4, <2>6, <2>10
  <1> QED BY <1>2, <1>3 DEF getForWrite

(* A subscriber ahead of the publisher.                                     *)
LEMMA PrecreateLocal ==
  ASSUME RingOK, NEW r \in Subscribers, Precreate(r)
  PROVE  /\ RingOK' /\ RingSteps
         /\ Len(heap) + 1 \in DOMAIN heap' /\ Len(heap) + 1 # Nil /\ heap'[Len(heap) + 1].buffer = << >>
  <1>1. /\ RingOK' /\ Grows /\ Len(heap) + 1 \in DOMAIN heap'
        /\ heap'[Len(heap) + 1] = newSegment(precreating[r])
        /\ \A s \in DOMAIN heap : heap'[s] = heap[s]
    BY PrecreateSafe
  <1>2. precreating[r] \in Nat /\ Store(precreating[r], Len(heap) + 1)
    BY DEF Precreate, RingOK, StreamTypeOK
  <1>3. \A s \in DOMAIN heap : s \in InRing' => s \in InRing
    BY <1>2, StoreLoses
  <1>4. \A s \in DOMAIN heap' \ DOMAIN heap : s = Len(heap) + 1
    <2>1. heap' = Append(heap, newSegment(precreating[r]))
      BY DEF Precreate
    <2>2. heap \in Seq(SegmentType) /\ newSegment(precreating[r]) \in SegmentType
      <3>1. << >> \in Seq(Data)
        OBVIOUS
      <3> QED BY <1>2, <3>1, HeapFacts DEF newSegment, SegmentType, RingOK, StreamTypeOK, SegmentTypeOK
    <2>3. Len(heap') = Len(heap) + 1 /\ heap' \in Seq(SegmentType)
      BY <2>1, <2>2, AppendProperties
    <2>4. DOMAIN heap' = 1 .. Len(heap) + 1
      BY <2>3, SeqIsFunction
    <2> QED BY <2>4, RingFacts
  <1>5. RingSteps
    BY <1>1, <1>3, <1>4 DEF RingSteps, newSegment
  <1>6. Len(heap) + 1 # Nil
    BY RingFacts DEF Nil
  <1> QED BY <1>1, <1>5, <1>6 DEF newSegment

(* Stream.close empties the ring.                                           *)
LEMMA CloseAllLocal ==
  ASSUME RingOK, closeAll
  PROVE  RingOK' /\ RingSteps /\ StaysPut
  <1>1. RingOK' /\ Grows /\ Len(heap') = Len(heap)
    BY CloseAllSafe
  <1>2. InRing' = {}
    BY DEF closeAll, InRing
  <1>3. heap' = Closed(InRing) /\ DOMAIN heap' = DOMAIN heap /\ StaysPut
    BY RingFacts, BroadcastStaysPut DEF closeAll, close, Closed
  <1>4. \A s \in DOMAIN heap : heap'[s].buffer = heap[s].buffer
    BY <1>3, RingFacts, ClosedShut
  <1> QED BY <1>1, <1>2, <1>3, <1>4 DEF RingSteps

-----------------------------------------------------------------------------
(* What that does to the subscribers' facts.                                *)

(* A segment is not taken away from what was read of it, and one that its   *)
(* Write has ended does not change while it is in the ring.                 *)
ReadersEnv ==
  \A s \in DOMAIN heap :
    /\ Len(heap'[s].buffer) \in Nat /\ Len(heap[s].buffer) <= Len(heap'[s].buffer)
    /\ \A n \in 0 .. Len(heap[s].buffer) :
         SubSeq(heap'[s].buffer, 1, n) = SubSeq(heap[s].buffer, 1, n)
    /\ s \in InRing' => s \in InRing /\ (heap[s].closed => heap'[s].closed)
    /\ Done(s) => Done(s)' /\ heap'[s].buffer = heap[s].buffer

(* So a subscriber that does nothing keeps what it has.                     *)
LEMMA ReaderKept ==
  ASSUME LocalInv, ReadersEnv, NEW r \in Subscribers, read'[r] = read[r],
         sub'[r].seg = sub[r].seg, sub'[r].readPos = sub[r].readPos
  PROVE  ReaderOK(r)'
  <1>1. ReaderOK(r) /\ sub[r] \in SubType(Len(heap))
    BY ReadFacts
  <1>2. CASE sub[r].seg = Nil
    <2>1. ~Holds(r)
      BY <1>2 DEF Holds
    <2>2. Nil \notin InRing'
      BY DEF InRing
    <2>3. sub'[r].seg \notin InRing'
      BY <1>2, <2>2
    <2> QED BY <1>1, <2>1, <2>3 DEF ReaderOK, AllOf
  <1>3. CASE sub[r].seg # Nil
    <2>1. PICK s \in DOMAIN heap : s = sub[r].seg
      BY <1>3, ReadFacts
    <2>2. SegmentOf(r) = heap[s] /\ SegmentOf(r)' = heap'[s]
      BY <2>1 DEF SegmentOf
    <2>3. Len(heap[s].buffer) \in Nat /\ sub[r].readPos \in Nat
      BY <1>1, <2>1, RingFacts DEF LocalInv, SubType
    <2>4. Len(heap'[s].buffer) \in Nat /\ Len(heap[s].buffer) <= Len(heap'[s].buffer)
      BY DEF ReadersEnv
    <2>5. Holds(r) => Holds(r)'
      <3> SUFFICES ASSUME Holds(r) PROVE Holds(r)'
        OBVIOUS
      <3>1. sub[r].readPos \in 0 .. Len(heap[s].buffer)
        BY <2>2, <2>3 DEF Holds
      <3>2. SubSeq(heap'[s].buffer, 1, sub[r].readPos) = SubSeq(heap[s].buffer, 1, sub[r].readPos)
        BY <3>1 DEF ReadersEnv
      <3>3. sub[r].readPos <= Len(heap'[s].buffer)
        BY <2>3, <2>4, <3>1
      <3> QED BY <2>2, <3>2, <3>3 DEF Holds
    <2>6. AllOf(r) => AllOf(r)'
      <3>1. CASE s \notin InRing
        <4>1. ~(s \in InRing')
          BY <3>1 DEF ReadersEnv
        <4> QED BY <2>1, <4>1 DEF AllOf
      <3>2. CASE Done(s) /\ heap[s].closed /\ sub[r].readPos = Len(heap[s].buffer)
        <4>1. Done(s)' /\ heap'[s].buffer = heap[s].buffer /\ (s \in InRing' => heap'[s].closed)
          BY <3>2 DEF ReadersEnv
        <4>2. Done(sub[r].seg)' <=> Done(s)'
          BY <2>1 DEF Done
        <4>3. sub'[r].readPos = Len(SegmentOf(r).buffer)'
          BY <2>2, <3>2, <4>1
        <4>4. sub'[r].seg \in InRing' => SegmentOf(r)'.closed
          BY <2>1, <2>2, <4>1
        <4> QED BY <4>1, <4>2, <4>3, <4>4 DEF AllOf
      <3> QED BY <2>1, <2>2, <3>1, <3>2 DEF AllOf
    <2> QED BY <1>1, <2>5, <2>6 DEF ReaderOK
  <1> QED BY <1>2, <1>3

-----------------------------------------------------------------------------
(* What that does to the Writes' facts.                                     *)

(* What a Write keeps for good once it has its segment.                     *)
WritesStay ==
  \A w \in Writers : write[w].seg # Nil =>
    /\ write'[w].seg = write[w].seg
    /\ write[w].pc = "done" => write'[w].pc = "done"

LEMMA DoneStays ==
  ASSUME WritesStay, NEW s \in DOMAIN heap, s # Nil
  PROVE  Done(s) => Done(s)'
  BY DEF WritesStay, Done

(* After an operation of the ring: what is left of the invariant is what it *)
(* says of the Writes' own records.                                         *)
LEMMA RingStepKeeps ==
  ASSUME LocalInv, RingSteps, RingOK', WritesStay, pubSeq' \in Nat, pubSeq' >= pubSeq
  PROVE  Fresh' /\ ClosedByItsWrite' /\ ReadersEnv
  <1>0. /\ \A s \in DOMAIN heap : s # Nil /\ heap[s].idx \in Nat /\ Len(heap[s].buffer) \in Nat
        /\ \A s \in InRing' : s \in DOMAIN heap'
        /\ \A s \in DOMAIN heap' : heap'[s].idx \in Nat
        /\ pubSeq \in Nat
    <2>1. heap' \in Seq(SegmentType)
      BY DEF RingOK, StreamTypeOK, SegmentTypeOK, SegmentType
    <2>2. /\ DOMAIN heap' = 1 .. Len(heap') /\ Len(heap') \in Nat
          /\ \A s \in DOMAIN heap' : heap'[s] \in SegmentType
      BY <2>1, SeqIsFunction
    <2>3. \A s \in InRing' : s \in DOMAIN heap'
      BY <2>2 DEF InRing, RingOK, StreamTypeOK, Nil
    <2>4. \A s \in DOMAIN heap' : heap'[s].idx \in Nat
      BY <2>2 DEF SegmentType
    <2>5. pubSeq \in Nat /\ RingOK
      BY DEF LocalInv, Types
    <2> QED BY <2>3, <2>4, <2>5, RingFacts
  <1>1. Fresh'
    <2> SUFFICES ASSUME NEW s \in InRing', heap'[s].idx >= pubSeq'
                 PROVE  ~heap'[s].closed /\ heap'[s].buffer = << >>
      BY DEF Fresh, isFresh
    <2>1. CASE s \in DOMAIN heap
      <3>1. s \in InRing /\ heap'[s] = heap[s]
        BY <2>1 DEF RingSteps
      <3>2. heap[s].idx >= pubSeq
        BY <1>0, <2>1, <3>1
      <3> QED BY <3>1, <3>2 DEF LocalInv, WritersOK, Fresh, isFresh
    <2>2. CASE s \notin DOMAIN heap
      BY <1>0, <2>2 DEF RingSteps
    <2> QED BY <2>1, <2>2
  <1>2. ClosedByItsWrite'
    <2> SUFFICES ASSUME NEW s \in InRing', heap'[s].closed
                 PROVE  Done(s)'
      BY DEF ClosedByItsWrite
    <2>1. s \in DOMAIN heap
      BY <1>0 DEF RingSteps
    <2>2. s \in InRing /\ heap[s].closed
      BY <2>1 DEF RingSteps
    <2>3. Done(s)
      BY <2>2 DEF LocalInv, WritersOK, ClosedByItsWrite
    <2> QED BY <1>0, <2>1, <2>3, DoneStays
  <1>3. ReadersEnv
    <2> SUFFICES ASSUME NEW s \in DOMAIN heap
                 PROVE  /\ heap'[s].buffer = heap[s].buffer
                        /\ s \in InRing' => s \in InRing /\ (heap[s].closed => heap'[s].closed)
                        /\ Done(s) => Done(s)'
      BY <1>0 DEF ReadersEnv
    <2> QED BY <1>0, DoneStays DEF RingSteps
  <1> QED BY <1>1, <1>2, <1>3

(* One Write moves, with an operation of the ring or none.                  *)
LEMMA WriterMoves ==
  ASSUME LocalInv, RingOK', RingSteps, StaysPut, UNCHANGED <<listed, read, closing>>,
         NEW w \in Writers, NEW q \in WriteType(Len(heap')), write' = [write EXCEPT ![w] = q],
         pubSeq' \in Nat, pubSeq' >= pubSeq, mu' \in Writers \cup {Nobody},
         \A v \in Writers \ {w} : (mu' = v <=> mu = v) /\ (mu = v => pubSeq' = pubSeq),
         Numbered(w)', Owns(w)',
         write[w].seg # Nil =>
           /\ q.seg = write[w].seg /\ q.seq = write[w].seq
           /\ write[w].pc = "done" => q.pc = "done",
         write[w].seg = Nil /\ q.seg # Nil => q.seq = pubSeq /\ mu = Nobody
  PROVE  LocalInv'
  <1>1. /\ write \in [Writers -> WriteType(Len(heap))] /\ pubSeq \in Nat
        /\ Len(heap) \in Nat /\ Len(heap') \in Nat /\ Len(heap) <= Len(heap')
    BY WriteFacts, RingFacts DEF RingSteps, Grows, LocalInv
  <1>2. write'[w] = q /\ \A v \in Writers \ {w} : write'[v] = write[v]
    BY <1>1
  <1>3. Types'
    <2>1. WriteType(Len(heap)) \subseteq WriteType(Len(heap'))
      BY <1>1 DEF WriteType
    <2>2. write' \in [Writers -> WriteType(Len(heap'))]
      BY <1>1, <2>1
    <2> QED BY <2>2 DEF LocalInv, Types
  <1>4. WritesStay
    BY <1>2 DEF WritesStay
  <1>5. Fresh' /\ ClosedByItsWrite' /\ ReadersEnv
    BY <1>4, RingStepKeeps
  <1>6. \A r \in Subscribers : ReaderOK(r)'
    BY <1>5, ReaderKept DEF StaysPut
  <1>7. ASSUME NEW v \in Writers \ {w}
        PROVE  Numbered(v)' /\ Owns(v)'
    <2>1. Numbered(v) /\ Owns(v) /\ write[v] \in WriteType(Len(heap))
      BY WriteFacts
    <2>2. Numbered(v)'
      BY <1>1, <1>2, <2>1 DEF Numbered, WriteType
    <2>3. Owns(v)'
      <3>1. write[v].seg # Nil => write[v].seg \in DOMAIN heap
        BY WriteFacts
      <3> QED BY <1>2, <2>1, <3>1 DEF Owns, ChunksOf, RingSteps, Grows
    <2> QED BY <2>2, <2>3
  <1>8. Apart'
    <2>1. ASSUME NEW v \in Writers \ {w}, write[v].seg # Nil, q.seg # Nil
          PROVE  write[v].seq # q.seq
      <3>1. CASE write[w].seg # Nil
        BY <3>1, <2>1 DEF LocalInv, WritersOK, Apart
      <3>2. CASE write[w].seg = Nil
        <4>1. q.seq = pubSeq /\ mu = Nobody /\ mu # v
          BY <3>2, <2>1, LocalAssumption
        <4>2. Numbered(v) /\ write[v] \in WriteType(Len(heap))
          BY WriteFacts
        <4>3. write[v].seq \in Nat /\ write[v].seq < pubSeq
          BY <2>1, <4>1, <4>2 DEF Numbered, WriteType
        <4> QED BY <1>1, <4>1, <4>3
      <3> QED BY <3>1, <3>2
    <2> QED BY <1>2, <2>1 DEF Apart, LocalInv, WritersOK
  <1> QED BY <1>2, <1>3, <1>5, <1>6, <1>7, <1>8 DEF LocalInv, WritersOK

(* What is numbered from c.seq on has not been written.                     *)
LEMMA NotWritten ==
  ASSUME LocalInv, NEW i \in Nat, i >= pubSeq
  PROVE  /\ ~AlreadyWritten(i)
         /\ exists(Slot(i), i) => heap[Slot(i)].buffer = << >>
  <1> SUFFICES ASSUME exists(Slot(i), i)
               PROVE  isFresh(Slot(i))
    BY LocalAssumption DEF AlreadyWritten, isFresh
  <1>1. Slot(i) \in DOMAIN heap /\ heap[Slot(i)].idx = i /\ Slot(i) # Nil
    BY ExistsIsSegment DEF LocalInv, exists
  <1>2. Slot(i) \in InRing
    <2>1. Position(i) \in DOMAIN segments
      BY PositionInRing DEF LocalInv, RingOK, StreamTypeOK
    <2> QED BY <1>1, <2>1 DEF InRing, Slot
  <1> QED BY <1>1, <1>2 DEF LocalInv, WritersOK, Fresh

(* A Write that finds the stream.                                           *)
LEMMA WriteLookupInv ==
  ASSUME LocalInv, NEW w \in Writers, WriteLookup(w)
  PROVE  LocalInv'
  <1> DEFINE q == [write[w] EXCEPT !.pc = "located"]
  <1>1. write[w] \in WriteType(Len(heap)) /\ Numbered(w) /\ Owns(w) /\ pubSeq \in Nat
        /\ write \in [Writers -> WriteType(Len(heap))]
    BY WriteFacts
  <1>2. /\ write[w].pc = "idle" /\ write' = [write EXCEPT ![w] = q]
        /\ UNCHANGED <<segmentVars, streamVars, listed, pubSeq, mu, read, closing>>
    BY DEF WriteLookup
  <1>3. RingOK' /\ RingSteps /\ StaysPut
    BY <1>2, RingLeftAlone
       DEF segmentVars, streamVars, LocalInv, RingOK, StreamTypeOK, SegmentTypeOK, ChannelAgree, RingAligned,
           StaysPut
  <1>4. q \in WriteType(Len(heap')) /\ q.pc = "located" /\ q.seg = Nil /\ q.sent = 0 /\ write[w].seg = Nil
    BY <1>1, <1>2 DEF WriteType, Numbered, segmentVars
  <1> HIDE DEF q
  <1>5. write'[w] = q
    BY <1>1, <1>2
  <1>6. Numbered(w)' /\ Owns(w)'
    BY <1>1, <1>2, <1>4, <1>5 DEF Numbered, Owns
  <1>7. /\ pubSeq' \in Nat /\ pubSeq' >= pubSeq /\ pubSeq' = pubSeq
        /\ mu' = mu /\ mu' \in Writers \cup {Nobody}
        /\ UNCHANGED <<listed, read, closing>>
    BY <1>1, <1>2 DEF LocalInv, Types
  <1> QED BY <1>2, <1>3, <1>4, <1>6, <1>7, WriterMoves

(* A Write that takes c.mu and its segment.                                 *)
LEMMA WriteClaimInv ==
  ASSUME LocalInv, NEW w \in Writers, WriteClaim(w)
  PROVE  LocalInv'
  <1> DEFINE q == [write[w] EXCEPT !.pc = "claimed", !.seq = pubSeq, !.seg = WriteSegment(pubSeq)]
  <1>1. /\ write[w] \in WriteType(Len(heap)) /\ Numbered(w) /\ Owns(w) /\ pubSeq \in Nat
        /\ write \in [Writers -> WriteType(Len(heap))]
    BY WriteFacts
  <1>2. /\ ~AlreadyWritten(pubSeq)
        /\ exists(Slot(pubSeq), pubSeq) => heap[Slot(pubSeq)].buffer = << >>
    <2>1. pubSeq >= pubSeq
      BY <1>1
    <2> QED BY <1>1, <2>1, NotWritten
  <1>3. /\ write[w].pc = "located" /\ mu = Nobody /\ getForWrite(pubSeq)
        /\ write' = [write EXCEPT ![w] = q] /\ mu' = w
        /\ UNCHANGED <<listed, pubSeq, read, closing>>
    BY <1>2 DEF WriteClaim, MuFree
  <1>4. /\ RingOK' /\ RingSteps /\ StaysPut
        /\ WriteSegment(pubSeq) \in DOMAIN heap' /\ heap'[WriteSegment(pubSeq)].idx = pubSeq
        /\ heap'[WriteSegment(pubSeq)].buffer = << >>
    BY <1>1, <1>2, <1>3, GetForWriteLocal DEF LocalInv
  <1>5. WriteSegment(pubSeq) \in 0 .. Len(heap') /\ WriteSegment(pubSeq) # Nil
    <2>1. heap' \in Seq(SegmentType)
      BY <1>4 DEF RingOK, StreamTypeOK, SegmentTypeOK, SegmentType
    <2>2. DOMAIN heap' = 1 .. Len(heap') /\ Len(heap') \in Nat
      BY <2>1, SeqIsFunction
    <2> QED BY <1>4, <2>2 DEF Nil
  <1>6. /\ q \in WriteType(Len(heap')) /\ q.pc = "claimed" /\ q.seq = pubSeq /\ q.seg = WriteSegment(pubSeq)
        /\ q.sent = 0 /\ write[w].seg = Nil
    BY <1>1, <1>3, <1>5 DEF WriteType, Numbered
  <1> HIDE DEF q
  <1>7. write'[w] = q
    BY <1>1, <1>3
  <1>8. Numbered(w)'
    BY <1>3, <1>5, <1>6, <1>7 DEF Numbered
  <1>9. Owns(w)'
    <2>1. [k \in 1 .. 0 |-> <<w, k>>] = << >>
      OBVIOUS
    <2>2. ChunksOf(w)' = << >>
      BY <1>6, <1>7, <2>1 DEF ChunksOf
    <2> QED BY <1>4, <1>6, <1>7, <2>2 DEF Owns
  <1>10. /\ \A v \in Writers \ {w} : mu' # v /\ mu # v
         /\ pubSeq' \in Nat /\ pubSeq' >= pubSeq /\ mu' \in Writers \cup {Nobody}
    BY <1>1, <1>3, LocalAssumption
  <1> QED BY <1>3, <1>4, <1>6, <1>8, <1>9, <1>10, WriterMoves

(* It makes the next segment ready and gives c.mu back.                     *)
LEMMA WritePrepareInv ==
  ASSUME LocalInv, NEW w \in Writers, WritePrepare(w)
  PROVE  LocalInv'
  <1> DEFINE q == [write[w] EXCEPT !.pc = "streaming"]
  <1>1. /\ write[w] \in WriteType(Len(heap)) /\ Numbered(w) /\ Owns(w) /\ pubSeq \in Nat
        /\ write \in [Writers -> WriteType(Len(heap))]
        /\ write[w].seg # Nil => write[w].seg \in DOMAIN heap
    BY WriteFacts
  <1>2. ~AlreadyWritten(pubSeq + 1)
    <2>1. pubSeq + 1 \in Nat /\ pubSeq + 1 >= pubSeq
      BY <1>1
    <2> QED BY <2>1, NotWritten
  <1>3. /\ write[w].pc = "claimed" /\ mu = w /\ mu' = Nobody /\ getForWrite(pubSeq + 1)
        /\ write' = [write EXCEPT ![w] = q] /\ pubSeq' = pubSeq + 1
        /\ UNCHANGED <<listed, read, closing>>
    BY <1>1, <1>2 DEF WritePrepare, NextSeq, Numbered
  <1>4. RingOK' /\ RingSteps /\ StaysPut
    <2>1. pubSeq + 1 \in Nat /\ RingOK
      BY <1>1 DEF LocalInv
    <2> QED BY <1>3, <2>1, GetForWriteLocal
  <1>5. Len(heap) \in Nat /\ Len(heap') \in Nat /\ Len(heap) <= Len(heap')
    BY <1>4, RingFacts DEF RingSteps, Grows, LocalInv
  <1>6. /\ q \in WriteType(Len(heap')) /\ q.pc = "streaming" /\ q.seq = write[w].seq
        /\ q.seg = write[w].seg /\ q.sent = write[w].sent
        /\ write[w].seg # Nil /\ write[w].seq = pubSeq
    BY <1>1, <1>3, <1>5 DEF WriteType, Numbered
  <1> HIDE DEF q
  <1>7. write'[w] = q
    BY <1>1, <1>3
  <1>8. Numbered(w)'
    BY <1>1, <1>3, <1>6, <1>7, LocalAssumption DEF Numbered
  <1>9. Owns(w)'
    BY <1>1, <1>4, <1>6, <1>7 DEF Owns, ChunksOf, RingSteps, Grows
  <1>10. /\ \A v \in Writers \ {w} : mu' # v /\ mu # v
         /\ pubSeq' \in Nat /\ pubSeq' >= pubSeq /\ mu' \in Writers \cup {Nobody}
    BY <1>1, <1>3, LocalAssumption
  <1> QED BY <1>3, <1>4, <1>6, <1>8, <1>9, <1>10, WriterMoves

(* A Write whose reader fails goes on as it was.                            *)
LEMMA WriteFailInv ==
  ASSUME LocalInv, NEW w \in Writers, WriteFail(w)
  PROVE  LocalInv'
  <1> DEFINE q == [write[w] EXCEPT !.pc = "spinning"]
  <1>1. write[w] \in WriteType(Len(heap)) /\ Numbered(w) /\ Owns(w) /\ pubSeq \in Nat
        /\ write \in [Writers -> WriteType(Len(heap))]
    BY WriteFacts
  <1>2. /\ write[w].pc = "streaming" /\ write' = [write EXCEPT ![w] = q]
        /\ UNCHANGED <<segmentVars, streamVars, listed, pubSeq, mu, read, closing>>
    BY DEF WriteFail
  <1>3. RingOK' /\ RingSteps /\ StaysPut
    BY <1>2, RingLeftAlone
       DEF segmentVars, streamVars, LocalInv, RingOK, StreamTypeOK, SegmentTypeOK, ChannelAgree, RingAligned,
           StaysPut
  <1>4. /\ q \in WriteType(Len(heap')) /\ q.pc = "spinning" /\ q.seg = write[w].seg /\ q.seq = write[w].seq
        /\ q.sent = write[w].sent /\ write[w].seg # Nil
    BY <1>1, <1>2 DEF WriteType, Numbered, segmentVars
  <1> HIDE DEF q
  <1>5. write'[w] = q
    BY <1>1, <1>2
  <1>6. Numbered(w)' /\ Owns(w)'
    BY <1>1, <1>2, <1>4, <1>5 DEF Numbered, Owns, ChunksOf, segmentVars
  <1>7. /\ pubSeq' \in Nat /\ pubSeq' >= pubSeq /\ pubSeq' = pubSeq
        /\ mu' = mu /\ mu' \in Writers \cup {Nobody}
        /\ UNCHANGED <<listed, read, closing>>
    BY <1>1, <1>2 DEF LocalInv, Types
  <1> QED BY <1>2, <1>3, <1>4, <1>6, <1>7, WriterMoves

-----------------------------------------------------------------------------
(* What a Write does to its segment.                                        *)

(* It shares its segment with no other Write.                               *)
LEMMA OwnSegment ==
  ASSUME LocalInv, NEW w \in Writers, write[w].seg # Nil
  PROVE  /\ write[w].seg \in DOMAIN heap
         /\ \A v \in Writers \ {w} : write[v].seg # write[w].seg
         /\ write[w].pc # "done" => ~Done(write[w].seg)
  <1>1. ASSUME NEW v \in Writers \ {w}, write[v].seg = write[w].seg PROVE FALSE
    <2>1. Owns(v) /\ Owns(w) /\ Apart
      BY WriteFacts DEF LocalInv, WritersOK
    <2> QED BY <1>1, <2>1 DEF Owns, Apart
  <1> QED BY <1>1, WriteFacts DEF Done

(* A Write fills or closes its segment.                                     *)
LEMMA WriterFills ==
  ASSUME LocalInv, RingOK', StaysPut, UNCHANGED <<segments, listed, pubSeq, mu, read, closing>>,
         Grows, Len(heap') = Len(heap),
         NEW w \in Writers, write[w].pc = "streaming",
         NEW s \in DOMAIN heap, s = write[w].seg,
         \A t \in DOMAIN heap : t # s => heap'[t] = heap[t],
         Len(heap'[s].buffer) \in Nat, Len(heap[s].buffer) <= Len(heap'[s].buffer),
         \A n \in 0 .. Len(heap[s].buffer) :
           SubSeq(heap'[s].buffer, 1, n) = SubSeq(heap[s].buffer, 1, n),
         heap[s].closed => heap'[s].closed,
         NEW q \in WriteType(Len(heap)), write' = [write EXCEPT ![w] = q],
         q.seg = s, q.seq = write[w].seq, q.pc \in {"streaming", "done"},
         heap'[s].closed => heap[s].closed \/ q.pc = "done",
         heap'[s].buffer = [k \in 1 .. q.sent |-> <<w, k>>]
  PROVE  LocalInv'
  <1>1. /\ write \in [Writers -> WriteType(Len(heap))] /\ pubSeq \in Nat
        /\ Numbered(w) /\ Owns(w) /\ s # Nil /\ write[w] \in WriteType(Len(heap))
    BY WriteFacts, RingFacts DEF LocalInv
  <1>2. write'[w] = q /\ \A v \in Writers \ {w} : write'[v] = write[v]
    BY <1>1
  <1>3. InRing' = InRing
    BY DEF InRing
  <1>4. Types'
    BY <1>1 DEF LocalInv, Types
  <1>5. ~Done(s) /\ \A v \in Writers \ {w} : write[v].seg # s
    BY <1>1, OwnSegment
  <1>6. \A t \in DOMAIN heap : Done(t) => Done(t)'
    BY <1>2, <1>5 DEF Done
  <1>7. ASSUME NEW v \in Writers \ {w}
        PROVE  Numbered(v)' /\ Owns(v)'
    <2>1. Numbered(v) /\ Owns(v) /\ (write[v].seg # Nil => write[v].seg \in DOMAIN heap)
      BY WriteFacts
    <2> QED BY <1>2, <1>5, <2>1 DEF Numbered, Owns, ChunksOf
  <1>8. Numbered(w)'
    BY <1>1, <1>2 DEF Numbered
  <1>9. Owns(w)'
    <2>1. heap'[s].idx = q.seq
      BY <1>1 DEF Owns, Grows
    <2> QED BY <1>2, <2>1 DEF Owns, ChunksOf
  <1>10. Apart'
    <2>1. \A v \in Writers : write'[v].seg = write[v].seg /\ write'[v].seq = write[v].seq
      BY <1>2
    <2> QED BY <2>1 DEF LocalInv, WritersOK, Apart
  <1>11. Fresh'
    <2>1. heap[s].idx < pubSeq
      BY <1>1 DEF Numbered, Owns
    <2>2. heap[s].idx \in Nat /\ \A t \in InRing : t \in DOMAIN heap
      BY RingFacts DEF LocalInv
    <2>3. ASSUME NEW t \in InRing, heap'[t].idx >= pubSeq PROVE isFresh(t)'
      <3>1. t # s
        BY <1>1, <2>1, <2>2, <2>3 DEF Grows
      <3>2. heap'[t] = heap[t]
        BY <2>2, <3>1
      <3>3. isFresh(t)
        BY <2>3, <3>2 DEF LocalInv, WritersOK, Fresh
      <3> QED BY <3>2, <3>3 DEF isFresh
    <2> QED BY <1>3, <2>3 DEF Fresh
  <1>12. ClosedByItsWrite'
    <2> SUFFICES ASSUME NEW t \in InRing, heap'[t].closed PROVE Done(t)'
      BY <1>3 DEF ClosedByItsWrite
    <2>1. t \in DOMAIN heap /\ (heap[t].closed => Done(t))
      BY RingFacts DEF LocalInv, WritersOK, ClosedByItsWrite
    <2>2. CASE t = s
      BY <1>2, <1>5, <2>1, <2>2 DEF Done
    <2>3. CASE t # s
      BY <1>6, <2>1, <2>3
    <2> QED BY <2>2, <2>3
  <1>13. ReadersEnv
    <2> SUFFICES ASSUME NEW t \in DOMAIN heap
                 PROVE  /\ Len(heap'[t].buffer) \in Nat /\ Len(heap[t].buffer) <= Len(heap'[t].buffer)
                        /\ \A n \in 0 .. Len(heap[t].buffer) :
                             SubSeq(heap'[t].buffer, 1, n) = SubSeq(heap[t].buffer, 1, n)
                        /\ t \in InRing' => t \in InRing /\ (heap[t].closed => heap'[t].closed)
                        /\ Done(t) => Done(t)' /\ heap'[t].buffer = heap[t].buffer
      BY DEF ReadersEnv
    <2>1. CASE t = s
      BY <1>3, <1>5, <2>1
    <2>2. CASE t # s
      <3>1. Len(heap[t].buffer) \in Nat /\ heap'[t] = heap[t]
        BY <2>2, RingFacts DEF LocalInv
      <3> QED BY <1>3, <1>6, <3>1
    <2> QED BY <2>1, <2>2
  <1>14. \A r \in Subscribers : ReaderOK(r)'
    BY <1>13, ReaderKept DEF StaysPut
  <1> QED BY <1>4, <1>7, <1>8, <1>9, <1>10, <1>11, <1>12, <1>14 DEF LocalInv, WritersOK

(* A chunk.                                                                 *)
LEMMA WriteChunkInv ==
  ASSUME LocalInv, NEW w \in Writers, WriteChunk(w)
  PROVE  LocalInv'
  <1> DEFINE q == [write[w] EXCEPT !.sent = @ + 1]
             d == <<w, write[w].sent + 1>>
  <1>1. /\ write[w] \in WriteType(Len(heap)) /\ Numbered(w) /\ Owns(w)
        /\ write \in [Writers -> WriteType(Len(heap))]
    BY WriteFacts
  <1>2. /\ write[w].pc = "streaming" /\ write[w].sent < MaxChunks
        /\ writeData(write[w].seg, d) /\ write' = [write EXCEPT ![w] = q]
        /\ UNCHANGED <<streamVars, listed, pubSeq, mu, read, closing>>
    BY DEF WriteChunk
  <1>3. PICK s \in DOMAIN heap : s = write[w].seg
    BY <1>1, <1>2, OwnSegment DEF Numbered
  <1>4. d \in Data
    BY <1>1, <1>2, LocalAssumption DEF WriteType
  <1>5. SegInv /\ RingOK /\ heap[s].buffer \in Seq(Data) /\ StreamTypeOK
    BY RingFacts DEF LocalInv
  <1>6. /\ q \in WriteType(Len(heap)) /\ q.pc = "streaming" /\ q.seg = s /\ q.seq = write[w].seq
        /\ q.sent = write[w].sent + 1 /\ write[w].sent \in Nat
    <2>1. write[w].sent \in 0 .. MaxChunks
      BY <1>1 DEF WriteType
    <2>2. write[w].sent \in Nat /\ write[w].sent + 1 \in 0 .. MaxChunks
      BY <1>2, <2>1, LocalAssumption
    <2> QED BY <1>1, <1>2, <1>3, <2>2 DEF WriteType
  <1> HIDE DEF q, d
  <1>7. SegInv' /\ Grows /\ Len(heap') = Len(heap)
    BY <1>2, <1>3, <1>4, <1>5, WriteDataSafe
  <1>8. RingOK'
    <2>1. UNCHANGED <<segments, nextWrite, closed, precreating>>
      BY <1>2 DEF streamVars
    <2>2. segments' \in [0 .. MaxSegmentsPerStream - 1 -> 0 .. Len(heap')] /\ RingAligned'
      BY <1>5, <1>7, <2>1, RingKept
    <2> QED BY <1>5, <1>7, <2>1, <2>2 DEF RingOK, StreamTypeOK, SegInv
  <1>9. StaysPut
    BY <1>2, <1>5, BroadcastStaysPut DEF writeData
  <1>10. /\ \A t \in DOMAIN heap : t # s => heap'[t] = heap[t]
         /\ heap'[s].buffer = Append(heap[s].buffer, d) /\ heap'[s].closed = heap[s].closed
    <2>1. heap' = [heap EXCEPT ![s].buffer = Append(@, d)] /\ heap \in [1 .. Len(heap) -> SegmentType]
      BY <1>2, <1>3, <1>5, HeapFacts DEF writeData, Written, StreamTypeOK
    <2>2. heap[s] \in SegmentType
      BY <1>5, RingFacts
    <2> QED BY <2>1, <2>2 DEF SegmentType
  <1>11. /\ Len(heap'[s].buffer) \in Nat /\ Len(heap[s].buffer) <= Len(heap'[s].buffer)
         /\ \A n \in 0 .. Len(heap[s].buffer) :
              SubSeq(heap'[s].buffer, 1, n) = SubSeq(heap[s].buffer, 1, n)
    <2>1. Len(heap[s].buffer) \in Nat /\ Len(Append(heap[s].buffer, d)) = Len(heap[s].buffer) + 1
      BY <1>4, <1>5, AppendProperties, LenProperties
    <2> QED BY <1>4, <1>5, <1>10, <2>1, AppendPrefix
  <1>12. heap'[s].buffer = [k \in 1 .. q.sent |-> <<w, k>>]
    <2>1. heap[s].buffer = [k \in 1 .. write[w].sent |-> <<w, k>>]
      BY <1>1, <1>3, RingFacts DEF Owns, ChunksOf, LocalInv
    <2>2. Append([k \in 1 .. write[w].sent |-> <<w, k>>], d) = [k \in 1 .. write[w].sent + 1 |-> <<w, k>>]
      BY <1>6 DEF d
    <2> QED BY <1>6, <1>10, <2>1, <2>2
  <1>13. UNCHANGED <<segments, listed, pubSeq, mu, read, closing>>
    BY <1>2 DEF streamVars
  <1> QED BY <1>2, <1>3, <1>6, <1>7, <1>8, <1>9, <1>10, <1>11, <1>12, <1>13, WriterFills

(* The end of a Write.                                                      *)
LEMMA WriteEndInv ==
  ASSUME LocalInv, NEW w \in Writers, WriteEnd(w)
  PROVE  LocalInv'
  <1> DEFINE q == [write[w] EXCEPT !.pc = "done", !.resp = "ok"]
  <1>1. /\ write[w] \in WriteType(Len(heap)) /\ Numbered(w) /\ Owns(w)
        /\ write \in [Writers -> WriteType(Len(heap))]
    BY WriteFacts
  <1>2. /\ write[w].pc = "streaming" /\ close({write[w].seg}) /\ write' = [write EXCEPT ![w] = q]
        /\ UNCHANGED <<streamVars, listed, pubSeq, mu, read, closing>>
    BY DEF WriteEnd
  <1>3. PICK s \in DOMAIN heap : s = write[w].seg
    BY <1>1, <1>2, OwnSegment DEF Numbered
  <1>4. SegInv /\ RingOK /\ heap[s].buffer \in Seq(Data) /\ StreamTypeOK
    BY RingFacts DEF LocalInv
  <1>5. /\ q \in WriteType(Len(heap)) /\ q.pc = "done" /\ q.seg = s /\ q.seq = write[w].seq
        /\ q.sent = write[w].sent
    BY <1>1, <1>2, <1>3 DEF WriteType
  <1> HIDE DEF q
  <1>6. SegInv' /\ Grows /\ Len(heap') = Len(heap)
    BY <1>2, <1>4, CloseSafe
  <1>7. RingOK'
    <2>1. UNCHANGED <<segments, nextWrite, closed, precreating>>
      BY <1>2 DEF streamVars
    <2>2. segments' \in [0 .. MaxSegmentsPerStream - 1 -> 0 .. Len(heap')] /\ RingAligned'
      BY <1>4, <1>6, <2>1, RingKept
    <2> QED BY <1>4, <1>6, <2>1, <2>2 DEF RingOK, StreamTypeOK, SegInv
  <1>8. StaysPut
    BY <1>2, <1>4, BroadcastStaysPut DEF close
  <1>9. /\ \A t \in DOMAIN heap : t # s => heap'[t] = heap[t]
        /\ heap'[s].buffer = heap[s].buffer /\ heap'[s].closed
    <2>1. heap' = Closed({s})
      BY <1>2, <1>3 DEF close
    <2>2. /\ Closed({s})[s].buffer = heap[s].buffer
          /\ Closed({s})[s].closed
      BY <1>4, ClosedShut
    <2>3. ASSUME NEW t \in DOMAIN heap, t # s PROVE Closed({s})[t] = heap[t]
      <3>1. heap[t] \in SegmentType
        BY <1>4, RingFacts
      <3> QED BY <2>3, <3>1 DEF Closed, SegmentType
    <2> QED BY <2>1, <2>2, <2>3
  <1>10. /\ Len(heap'[s].buffer) \in Nat /\ Len(heap[s].buffer) <= Len(heap'[s].buffer)
         /\ \A n \in 0 .. Len(heap[s].buffer) :
              SubSeq(heap'[s].buffer, 1, n) = SubSeq(heap[s].buffer, 1, n)
    BY <1>4, <1>9, LenProperties
  <1>11. heap'[s].buffer = [k \in 1 .. q.sent |-> <<w, k>>]
    BY <1>1, <1>3, <1>5, <1>9, RingFacts DEF Owns, ChunksOf, LocalInv
  <1>12. UNCHANGED <<segments, listed, pubSeq, mu, read, closing>>
    BY <1>2 DEF streamVars
  <1> QED BY <1>2, <1>3, <1>5, <1>6, <1>7, <1>8, <1>9, <1>10, <1>11, <1>12, WriterFills

-----------------------------------------------------------------------------
(* What the steps that leave the Writes alone keep.                         *)

LEMMA WritesKept ==
  ASSUME LocalInv, RingOK', RingSteps, UNCHANGED <<pubSeq, mu, write>>,
         listed' \in BOOLEAN, closing' \in {"idle", "closed", "done"},
         read' \in [Subscribers -> ReadType]
  PROVE  RingOK' /\ Types' /\ WritersOK' /\ ReadersEnv
  <1>1. /\ pubSeq \in Nat /\ write \in [Writers -> WriteType(Len(heap))]
        /\ Len(heap) \in Nat /\ Len(heap') \in Nat /\ Len(heap) <= Len(heap')
    BY RingFacts DEF LocalInv, Types, RingSteps, Grows
  <1>2. WritesStay /\ pubSeq' \in Nat /\ pubSeq' >= pubSeq
    BY <1>1 DEF WritesStay
  <1>3. Fresh' /\ ClosedByItsWrite' /\ ReadersEnv
    BY <1>2, RingStepKeeps
  <1>4. Types'
    <2>1. WriteType(Len(heap)) \subseteq WriteType(Len(heap'))
      BY <1>1 DEF WriteType
    <2>2. write' \in [Writers -> WriteType(Len(heap'))]
      BY <1>1, <2>1
    <2> QED BY <2>2 DEF LocalInv, Types
  <1>5. ASSUME NEW w \in Writers PROVE Numbered(w)' /\ Owns(w)'
    <2>1. Numbered(w) /\ Owns(w) /\ (write[w].seg # Nil => write[w].seg \in DOMAIN heap)
      BY WriteFacts
    <2> QED BY <2>1 DEF Numbered, Owns, ChunksOf, RingSteps, Grows
  <1>6. Apart'
    BY DEF LocalInv, WritersOK, Apart
  <1> QED BY <1>3, <1>4, <1>5, <1>6 DEF WritersOK

(* One subscriber moves, with an operation of the ring or none.             *)
LEMMA ReaderMoves ==
  ASSUME LocalInv, RingOK', RingSteps, UNCHANGED <<listed, pubSeq, mu, write, closing>>,
         NEW r \in Subscribers, NEW q \in ReadType, read' = [read EXCEPT ![r] = q],
         \A g \in Subscribers \ {r} : sub'[g].seg = sub[g].seg /\ sub'[g].readPos = sub[g].readPos,
         ReaderOK(r)'
  PROVE  LocalInv'
  <1>1. read \in [Subscribers -> ReadType]
    BY ReadFacts
  <1>2. RingOK' /\ Types' /\ WritersOK' /\ ReadersEnv
    <2>1. read' \in [Subscribers -> ReadType] /\ listed' \in BOOLEAN /\ closing' \in {"idle", "closed", "done"}
      BY <1>1 DEF LocalInv, Types
    <2> QED BY <2>1, WritesKept
  <1>3. ASSUME NEW g \in Subscribers \ {r} PROVE ReaderOK(g)'
    BY <1>1, <1>2, ReaderKept
  <1> QED BY <1>2, <1>3 DEF LocalInv

(* Nothing happens to the stream but that subscribers move.                 *)
LEMMA StreamStays ==
  ASSUME LocalInv, UNCHANGED <<heap, shut, segments, nextWrite, closed>>,
         precreating' \in [Subscribers -> Nat \cup {NotHeld}],
         sub' \in [Subscribers -> SubType(Len(heap))]
  PROVE  RingOK' /\ RingSteps /\ InRing' = InRing
  <1>1. RingSteps /\ InRing' = InRing
    BY RingLeftAlone DEF LocalInv, InRing
  <1> QED BY <1>1 DEF LocalInv, RingOK, StreamTypeOK, SegmentTypeOK, SubType, ChannelAgree, RingAligned

(* A subscriber's own steps, that leave what it reads alone.                *)
LEMMA ReaderAlone ==
  ASSUME LocalInv, UNCHANGED <<segmentVars, streamVars, listed, pubSeq, mu, write, closing>>,
         NEW r \in Subscribers, NEW q \in ReadType, read' = [read EXCEPT ![r] = q],
         q.pc = "located" => q.got = << >>,
         q.pc # "piping" => q.data = << >>,
         q.resp = "whole" => q.pc = "idle",
         q.pc \in {"attached", "piping"} \/ q.resp = "whole" =>
           Holds(r) /\ q.got \o q.data = read[r].got \o read[r].data,
         q.resp = "whole" \/ (q.pc = "piping" /\ q.eof) => AllOf(r)
  PROVE  LocalInv'
  <1>1. RingOK' /\ RingSteps /\ InRing' = InRing
    <2>1. /\ UNCHANGED <<heap, shut, segments, nextWrite, closed>> /\ sub' = sub
          /\ precreating' \in [Subscribers -> Nat \cup {NotHeld}]
          /\ sub' \in [Subscribers -> SubType(Len(heap))]
      BY ReadFacts, RingFacts DEF segmentVars, streamVars, LocalInv, StreamTypeOK
    <2> QED BY <2>1, StreamStays
  <1>2. read'[r] = q
    BY ReadFacts
  <1>3. ReaderOK(r)'
    BY <1>1, <1>2 DEF ReaderOK, Holds, AllOf, Done, SegmentOf, segmentVars
  <1> QED BY <1>1, <1>3, ReaderMoves DEF segmentVars

(* Stream.close, and the map entry that goes after it.                      *)
LEMMA CloseInv ==
  ASSUME LocalInv, CloseStream \/ CloseUnlist
  PROVE  LocalInv'
  <1>1. /\ UNCHANGED <<pubSeq, mu, write, read>> /\ listed' \in BOOLEAN
        /\ closing' \in {"idle", "closed", "done"} /\ read' \in [Subscribers -> ReadType]
    BY DEF CloseStream, CloseUnlist, LocalInv, Types
  <1>2. RingOK' /\ RingSteps /\ StaysPut
    <2>1. CASE CloseStream
      BY <2>1, CloseAllLocal DEF CloseStream, LocalInv
    <2>2. CASE CloseUnlist
      <3>1. UNCHANGED <<segmentVars, streamVars>>
        BY <2>2 DEF CloseUnlist
      <3> QED BY <3>1, RingLeftAlone
              DEF segmentVars, streamVars, LocalInv, RingOK, StreamTypeOK, SegmentTypeOK, ChannelAgree,
                  RingAligned, StaysPut
    <2> QED BY <2>1, <2>2
  <1>3. RingOK' /\ Types' /\ WritersOK' /\ ReadersEnv
    BY <1>1, <1>2, WritesKept
  <1>4. \A r \in Subscribers : ReaderOK(r)'
    BY <1>1, <1>2, <1>3, ReaderKept DEF StaysPut
  <1> QED BY <1>3, <1>4 DEF LocalInv

-----------------------------------------------------------------------------
(* A subscriber's steps.                                                    *)

LEMMA ReadNotFoundInv ==
  ASSUME LocalInv, NEW r \in Subscribers, ReadNotFound(r)
  PROVE  LocalInv'
  <1> DEFINE q == [read[r] EXCEPT !.resp = "notfound"]
  <1>1. read[r] \in ReadType /\ ReaderOK(r)
    BY ReadFacts
  <1>2. /\ q \in ReadType /\ q.pc = "idle" /\ q.resp = "notfound" /\ q.data = read[r].data
        /\ read[r].pc = "idle" /\ read' = [read EXCEPT ![r] = q]
    BY <1>1 DEF ReadNotFound, ReadType
  <1> HIDE DEF q
  <1> QED BY <1>1, <1>2, ReaderAlone DEF ReadNotFound, ReaderOK

LEMMA ReadLookupInv ==
  ASSUME LocalInv, NEW r \in Subscribers, ReadLookup(r)
  PROVE  LocalInv'
  <1> DEFINE q == [read[r] EXCEPT !.pc = "located", !.reads = @ + 1, !.resp = "none", !.got = << >>]
  <1>1. read[r] \in ReadType /\ ReaderOK(r)
    BY ReadFacts
  <1>2. /\ q.pc = "located" /\ q.resp = "none" /\ q.data = read[r].data /\ q.got = << >>
        /\ read[r].pc = "idle" /\ read' = [read EXCEPT ![r] = q]
    BY <1>1 DEF ReadLookup, ReadType
  <1>3. q \in ReadType
    <2>1. read[r].reads \in 0 .. MaxReads /\ read[r].reads < MaxReads
      BY <1>1 DEF ReadLookup, ReadType
    <2>2. read[r].reads + 1 \in 0 .. MaxReads
      BY <2>1, LocalAssumption
    <2>3. << >> \in Seq(Data)
      OBVIOUS
    <2> QED BY <1>1, <2>2, <2>3 DEF ReadType
  <1> HIDE DEF q
  <1> QED BY <1>1, <1>2, <1>3, ReaderAlone DEF ReadLookup, ReaderOK

LEMMA ReadAbsentInv ==
  ASSUME LocalInv, NEW r \in Subscribers, ReadAbsent(r)
  PROVE  LocalInv'
  <1>1. read[r] \in ReadType /\ ReaderOK(r)
    BY ReadFacts
  <1>2. PICK why \in {"EOS", "nonexistent"} : why = IF closed THEN "EOS" ELSE "nonexistent"
    OBVIOUS
  <1> DEFINE q == [read[r] EXCEPT !.pc = "idle", !.resp = why]
  <1>3. /\ q \in ReadType /\ q.pc = "idle" /\ q.resp = why /\ q.data = read[r].data
        /\ read[r].pc = "located" /\ read' = [read EXCEPT ![r] = q]
    BY <1>1, <1>2 DEF ReadAbsent, Locating, ReadType
  <1> HIDE DEF q
  <1> QED BY <1>1, <1>3, ReaderAlone DEF ReadAbsent, ReaderOK

LEMMA SetSeqInv ==
  ASSUME LocalInv, NEW r \in Subscribers, SetSeq(r)
  PROVE  LocalInv'
  <1>1. read[r] \in ReadType /\ ReaderOK(r)
    BY ReadFacts
  <1>2. PICK seq \in SetSeqs : read' = [read EXCEPT ![r].seq = seq]
    BY DEF SetSeq
  <1> DEFINE q == [read[r] EXCEPT !.seq = seq]
  <1>3. /\ q \in ReadType /\ q.pc = "idle" /\ q.resp = read[r].resp /\ q.data = read[r].data
        /\ q.got = read[r].got /\ read[r].pc = "idle" /\ read' = [read EXCEPT ![r] = q]
    BY <1>1, <1>2, LocalAssumption DEF SetSeq, ReadType
  <1> HIDE DEF q
  <1> QED BY <1>1, <1>3, ReaderAlone DEF SetSeq, ReaderOK

LEMMA PipeAbandonedInv ==
  ASSUME LocalInv, NEW r \in Subscribers, PipeAbandoned(r)
  PROVE  LocalInv'
  <1> DEFINE q == [read[r] EXCEPT !.pc = "idle", !.data = << >>, !.resp = "abandoned"]
  <1>1. read[r] \in ReadType /\ << >> \in Seq(Data)
    BY ReadFacts
  <1>2. /\ q \in ReadType /\ q.pc = "idle" /\ q.resp = "abandoned" /\ q.data = << >>
        /\ read' = [read EXCEPT ![r] = q]
    BY <1>1 DEF PipeAbandoned, ReadType
  <1> HIDE DEF q
  <1> QED BY <1>1, <1>2, ReaderAlone DEF PipeAbandoned

(* The consumer takes what was copied.                                      *)
LEMMA PipeWriteInv ==
  ASSUME LocalInv, NEW r \in Subscribers, PipeWrite(r)
  PROVE  LocalInv'
  <1>1. /\ read[r] \in ReadType /\ ReaderOK(r) /\ << >> \in Seq(Data)
        /\ read[r].pc = "piping"
    BY ReadFacts DEF PipeWrite
  <1>2. PICK all \in Seq(Data) : all = read[r].got \o read[r].data
    BY <1>1, ConcatProperties DEF ReadType
  <1>3. PICK pc \in {"idle", "attached"}, resp \in {"whole", "none"} :
          /\ pc = IF read[r].eof THEN "idle" ELSE "attached"
          /\ resp = IF read[r].eof THEN "whole" ELSE "none"
    OBVIOUS
  <1> DEFINE q == [read[r] EXCEPT !.got = all, !.data = << >>, !.pc = pc, !.resp = resp]
  <1>4. /\ q \in ReadType /\ q.pc = pc /\ q.resp = resp /\ q.data = << >> /\ q.got = all
    BY <1>1, <1>3 DEF ReadType
  <1>5. read' = [read EXCEPT ![r] = q]
    BY <1>1, <1>2, <1>3 DEF PipeWrite, ReadType
  <1>6. q.got \o q.data = read[r].got \o read[r].data
    BY <1>2, <1>4, ConcatEmptySeq
  <1>7. Holds(r) /\ (q.resp = "whole" => AllOf(r) /\ q.pc = "idle")
    BY <1>1, <1>3, <1>4 DEF ReaderOK
  <1> HIDE DEF q
  <1> QED BY <1>1, <1>3, <1>4, <1>5, <1>6, <1>7, ReaderAlone DEF PipeWrite

(* The segment asked for has a number.                                      *)
LEMMA ForReadNumber ==
  ASSUME LocalInv, NEW r \in Subscribers
  PROVE  ForRead(read[r].seq) \in Nat
  <1>1. read[r].seq \in Nat \cup {-1} /\ nextWrite \in Nat
    BY ReadFacts, RingFacts DEF LocalInv, StreamTypeOK, ReadType
  <1> QED BY <1>1 DEF ForRead

(* A subscriber that starts on a segment has read nothing of it.            *)
LEMMA Starts ==
  ASSUME LocalInv, RingOK', NEW r \in Subscribers, read[r].pc = "located",
         NEW s \in DOMAIN heap', s # Nil,
         sub'[r].seg = s, sub'[r].readPos = 0, read' = Attached(r)
  PROVE  /\ ReaderOK(r)'
         /\ \E q \in ReadType : read' = [read EXCEPT ![r] = q]
  <1> DEFINE q == [read[r] EXCEPT !.pc = "attached", !.seq = @ + 1]
  <1>1. /\ read[r] \in ReadType /\ ReaderOK(r) /\ read \in [Subscribers -> ReadType]
        /\ read' = [read EXCEPT ![r] = q]
    BY ReadFacts DEF Attached
  <1>2. q \in ReadType
    <2>1. read[r].seq + 1 \in Nat
      BY <1>1 DEF ReadType
    <2> QED BY <1>1, <2>1 DEF ReadType
  <1>3. /\ read'[r] = q /\ q.pc = "attached" /\ q.data = << >> /\ q.got = << >> /\ q.resp # "whole"
    BY <1>1 DEF ReadType, ReaderOK
  <1> HIDE DEF q
  <1>4. Len(heap'[s].buffer) \in Nat /\ heap'[s].buffer \in Seq(Data)
    <2>1. heap' \in Seq(SegmentType)
      BY DEF RingOK, StreamTypeOK, SegmentTypeOK, SegmentType
    <2>2. heap'[s] \in SegmentType
      BY <2>1, SeqIsFunction
    <2> QED BY <2>2, LenProperties DEF SegmentType
  <1>5. << >> \o << >> = SubSeq(heap'[s].buffer, 1, 0)
    BY <1>4
  <1>6. Holds(r)'
    BY <1>3, <1>4, <1>5 DEF Holds, SegmentOf
  <1>7. ReaderOK(r)'
    BY <1>3, <1>6 DEF ReaderOK
  <1> QED BY <1>1, <1>2, <1>7

LEMMA ReadFoundInv ==
  ASSUME LocalInv, NEW r \in Subscribers, ReadFound(r)
  PROVE  LocalInv'
  <1>1. PICK i \in Nat : i = ForRead(read[r].seq)
    BY ForReadNumber
  <1>2. /\ read[r].pc = "located" /\ exists(Slot(i), i) /\ Subscribe(r, Slot(i)) /\ read' = Attached(r)
        /\ UNCHANGED <<heap, shut, streamVars, listed, pubSeq, mu, write, closing>>
    BY <1>1 DEF ReadFound, Locating, Found
  <1>3. Slot(i) \in DOMAIN heap /\ Slot(i) # Nil
    BY <1>2, ExistsIsSegment DEF LocalInv, exists
  <1>4. PICK s \in DOMAIN heap : s = Slot(i)
    BY <1>3
  <1>5. /\ sub' = [sub EXCEPT ![r] = [seg |-> s, readPos |-> 0, parked |-> FALSE]]
        /\ s \in 0 .. Len(heap) /\ sub \in [Subscribers -> SubType(Len(heap))]
    BY <1>2, <1>4, ReadFacts, RingFacts DEF Subscribe, LocalInv
  <1>6. sub' \in [Subscribers -> SubType(Len(heap))]
    <2>1. [seg |-> s, readPos |-> 0, parked |-> FALSE] \in SubType(Len(heap))
      BY <1>5 DEF SubType
    <2> QED BY <1>5, <2>1
  <1>7. RingOK' /\ RingSteps
    <2>1. /\ UNCHANGED <<heap, shut, segments, nextWrite, closed>>
          /\ precreating' \in [Subscribers -> Nat \cup {NotHeld}]
      BY <1>2, RingFacts DEF streamVars, LocalInv, StreamTypeOK
    <2> QED BY <1>6, <2>1, StreamStays
  <1>8. sub'[r].seg = s /\ sub'[r].readPos = 0 /\ s \in DOMAIN heap' /\ s # Nil
    BY <1>2, <1>3, <1>4, <1>5
  <1>9. \A g \in Subscribers \ {r} : sub'[g].seg = sub[g].seg /\ sub'[g].readPos = sub[g].readPos
    BY <1>5
  <1>10. /\ ReaderOK(r)'
         /\ \E q \in ReadType : read' = [read EXCEPT ![r] = q]
    BY <1>2, <1>7, <1>8, Starts
  <1> QED BY <1>2, <1>7, <1>9, <1>10, ReaderMoves

LEMMA ReadPrecreateInv ==
  ASSUME LocalInv, NEW r \in Subscribers, ReadPrecreate(r)
  PROVE  LocalInv'
  <1>1. /\ read[r].pc = "located" /\ Precreate(r) /\ read' = Attached(r)
        /\ UNCHANGED <<listed, pubSeq, mu, write, closing>>
    BY DEF ReadPrecreate
  <1>2. RingOK' /\ RingSteps /\ Len(heap) + 1 \in DOMAIN heap' /\ Len(heap) + 1 # Nil
    BY <1>1, PrecreateLocal DEF LocalInv
  <1>3. /\ sub' = [sub EXCEPT ![r] = [seg |-> Len(heap) + 1, readPos |-> 0, parked |-> FALSE]]
        /\ sub \in [Subscribers -> SubType(Len(heap))]
    BY <1>1, ReadFacts DEF Precreate, Subscribe
  <1>4. /\ sub'[r].seg = Len(heap) + 1 /\ sub'[r].readPos = 0
        /\ \A g \in Subscribers \ {r} : sub'[g].seg = sub[g].seg /\ sub'[g].readPos = sub[g].readPos
    BY <1>3
  <1>5. /\ ReaderOK(r)'
        /\ \E q \in ReadType : read' = [read EXCEPT ![r] = q]
    <2>1. PICK s \in DOMAIN heap' : s = Len(heap) + 1
      BY <1>2
    <2> QED BY <1>1, <1>2, <1>4, <2>1, Starts
  <1> QED BY <1>1, <1>2, <1>4, <1>5, ReaderMoves

(* It does not move, but for precreating or falling asleep.                 *)
LEMMA ReaderWaits ==
  ASSUME LocalInv, NEW r \in Subscribers, ReadAhead(r) \/ CopyWait(r)
  PROVE  LocalInv'
  <1>1. /\ read[r] \in ReadType /\ ReaderOK(r) /\ read \in [Subscribers -> ReadType]
        /\ sub \in [Subscribers -> SubType(Len(heap))] /\ sub[r] \in SubType(Len(heap))
        /\ precreating \in [Subscribers -> Nat \cup {NotHeld}]
    BY ReadFacts, RingFacts DEF LocalInv, StreamTypeOK
  <1>2. /\ UNCHANGED <<heap, shut, segments, nextWrite, closed, listed, pubSeq, mu, write, read, closing>>
        /\ precreating' \in [Subscribers -> Nat \cup {NotHeld}]
        /\ sub' \in [Subscribers -> SubType(Len(heap))]
        /\ StaysPut
    <2>1. CASE ReadAhead(r)
      <3>1. PICK i \in Nat : i = ForRead(read[r].seq)
        BY ForReadNumber
      <3>2. /\ precreating' = [precreating EXCEPT ![r] = i] /\ sub' = sub
            /\ UNCHANGED <<heap, shut, segments, nextWrite, closed, listed, pubSeq, mu, write, read, closing>>
        BY <2>1, <3>1 DEF ReadAhead, StartPrecreate, localVars, segmentVars
      <3> QED BY <1>1, <3>2 DEF StaysPut
    <2>2. CASE CopyWait(r)
      <3>1. /\ sub' = [sub EXCEPT ![r].parked = TRUE] /\ precreating' = precreating
            /\ UNCHANGED <<heap, shut, segments, nextWrite, closed, listed, pubSeq, mu, write, read, closing>>
        BY <2>2 DEF CopyWait, Park, localVars, streamVars
      <3>2. sub' \in [Subscribers -> SubType(Len(heap))]
        BY <1>1, <3>1 DEF SubType
      <3>3. StaysPut
        BY <1>1, <3>1 DEF SubType, StaysPut
      <3> QED BY <1>1, <3>1, <3>2, <3>3
    <2> QED BY <2>1, <2>2
  <1>3. RingOK' /\ RingSteps /\ InRing' = InRing
    BY <1>2, StreamStays
  <1>4. RingOK' /\ Types' /\ WritersOK' /\ ReadersEnv
    <2>1. listed' \in BOOLEAN /\ closing' \in {"idle", "closed", "done"} /\ read' \in [Subscribers -> ReadType]
      BY <1>1, <1>2 DEF LocalInv, Types
    <2> QED BY <1>2, <1>3, <2>1, WritesKept
  <1>5. \A g \in Subscribers : ReaderOK(g)'
    BY <1>2, <1>4, ReaderKept DEF StaysPut
  <1> QED BY <1>4, <1>5 DEF LocalInv

(* What has not been read, from a position up to the end.                   *)
LEMMA UnreadLength ==
  ASSUME NEW S, NEW b \in Seq(S), NEW n \in 0 .. Len(b)
  PROVE  Unread(b, n) \in Seq(S) /\ n + Len(Unread(b, n)) = Len(b)
  <1>1. Len(b) \in Nat /\ n \in Nat /\ n <= Len(b)
    BY LenProperties
  <1>2. CASE n < Len(b)
    <2>1. Unread(b, n) \in Seq(S) /\ Len(Unread(b, n)) = Len(b) - n
      BY <1>1, <1>2, WaitingIsUnread
    <2> QED BY <1>1, <2>1
  <1>3. CASE n = Len(b)
    <2>1. Unread(b, n) = << >>
      BY <1>1, <1>3 DEF Unread
    <2>2. << >> \in Seq(S) /\ Len(<< >>) = 0
      OBVIOUS
    <2> QED BY <1>1, <1>3, <2>1, <2>2
  <1> QED BY <1>1, <1>2, <1>3

(* It copies what there is: all there will be, if the segment is closed.    *)
LEMMA CopyDataInv ==
  ASSUME LocalInv, NEW r \in Subscribers, CopyData(r)
  PROVE  LocalInv'
  <1>1. /\ read[r] \in ReadType /\ ReaderOK(r) /\ read \in [Subscribers -> ReadType]
        /\ sub \in [Subscribers -> SubType(Len(heap))] /\ sub[r] \in SubType(Len(heap))
        /\ read[r].pc = "attached" /\ Holds(r)
    BY ReadFacts DEF CopyData, Copying, ReaderOK
  <1>2. PICK s \in DOMAIN heap : s = sub[r].seg
    BY <1>1, ReadFacts DEF Holds
  <1>3. PICK b \in Seq(Data) : b = heap[s].buffer
    BY RingFacts DEF LocalInv
  <1>4. PICK n \in 0 .. Len(b) : n = sub[r].readPos
    BY <1>1, <1>2, <1>3, LenProperties DEF Holds, SegmentOf, SubType
  <1>5. PICK rest \in Seq(Data) : rest = Unread(b, n)
    BY UnreadLength
  <1>6. PICK last \in BOOLEAN : last = LastData(r)
    <2>1. heap[s].closed \in BOOLEAN
      BY RingFacts DEF LocalInv
    <2> QED BY <1>2, <2>1 DEF LastData, AtEnd, SegmentOf
  <1> DEFINE q == [read[r] EXCEPT !.pc = "piping", !.data = rest, !.eof = last]
             p == [sub[r] EXCEPT !.readPos = @ + Len(rest)]
  <1>7. /\ q \in ReadType /\ q.pc = "piping" /\ q.data = rest /\ q.eof = last /\ q.got = read[r].got
        /\ q.resp = read[r].resp
    BY <1>1 DEF ReadType
  <1>8. read' = [read EXCEPT ![r] = q]
    BY <1>1, <1>2, <1>3, <1>4, <1>5, <1>6 DEF CopyData, Waiting, SegmentOf, ReadType
  <1>9. sub' = [sub EXCEPT ![r] = p]
    BY <1>1, <1>2, <1>3, <1>4, <1>5 DEF CopyData, Advance, Waiting, SegmentOf, SubType
  <1>10. n + Len(rest) = Len(b) /\ Len(rest) \in Nat /\ Len(b) \in Nat
    BY <1>5, UnreadLength, LenProperties
  <1>11. p \in SubType(Len(heap)) /\ p.seg = s /\ p.readPos = Len(b)
    BY <1>1, <1>2, <1>4, <1>10 DEF SubType
  <1> HIDE DEF p, q
  <1>12. read'[r] = q /\ sub'[r] = p /\ sub' \in [Subscribers -> SubType(Len(heap))]
    BY <1>1, <1>8, <1>9, <1>11
  <1>13. /\ UNCHANGED <<heap, shut, segments, nextWrite, closed>>
         /\ precreating' \in [Subscribers -> Nat \cup {NotHeld}]
         /\ UNCHANGED <<listed, pubSeq, mu, write, closing>>
    BY RingFacts DEF CopyData, streamVars, LocalInv, StreamTypeOK
  <1>14. RingOK' /\ RingSteps /\ InRing' = InRing
    BY <1>12, <1>13, StreamStays
  <1>15. q.got \o q.data = SubSeq(b, 1, Len(b))
    <2>1. read[r].got \o << >> = SubSeq(b, 1, n)
      BY <1>1, <1>2, <1>3, <1>4 DEF ReaderOK, Holds, SegmentOf
    <2>2. read[r].got = SubSeq(b, 1, n)
      BY <1>1, <2>1, ConcatEmptySeq DEF ReadType
    <2> QED BY <1>5, <1>7, <2>2, UnreadFollows
  <1>16. Holds(r)'
    BY <1>1, <1>2, <1>3, <1>10, <1>11, <1>12, <1>13, <1>15 DEF Holds, SegmentOf
  <1>17. q.eof => AllOf(r)'
    <2> SUFFICES ASSUME last, s \in InRing
                 PROVE  Done(s) /\ heap[s].closed
      BY <1>2, <1>3, <1>7, <1>11, <1>12, <1>13, <1>14 DEF AllOf, Done, SegmentOf
    <2>0. LastData(r)
      BY <1>6
    <2>1. heap[s].closed
      BY <1>2, <1>3, <1>4, <1>10, <2>0 DEF LastData, AtEnd, SegmentOf
    <2> QED BY <2>1 DEF LocalInv, WritersOK, ClosedByItsWrite
  <1>18. ReaderOK(r)'
    BY <1>1, <1>7, <1>12, <1>16, <1>17 DEF ReaderOK
  <1>19. \A g \in Subscribers \ {r} : sub'[g].seg = sub[g].seg /\ sub'[g].readPos = sub[g].readPos
    BY <1>1, <1>9
  <1> QED BY <1>7, <1>8, <1>13, <1>14, <1>18, <1>19, ReaderMoves

-----------------------------------------------------------------------------
(* Every step.                                                              *)

LEMMA StutterInv ==
  ASSUME LocalInv, UNCHANGED vars
  PROVE  LocalInv'
  <1>1. /\ UNCHANGED <<heap, shut, sub, segments, nextWrite, closed, precreating>>
        /\ UNCHANGED <<listed, pubSeq, mu, write, read, closing>>
    BY DEF vars
  <1>2. /\ precreating' \in [Subscribers -> Nat \cup {NotHeld}]
        /\ sub' \in [Subscribers -> SubType(Len(heap))]
    BY <1>1, RingFacts DEF LocalInv, StreamTypeOK, SegmentTypeOK, SubType
  <1>3. RingOK' /\ RingSteps
    BY <1>1, <1>2, StreamStays
  <1>4. /\ listed' \in BOOLEAN /\ closing' \in {"idle", "closed", "done"}
        /\ read' \in [Subscribers -> ReadType]
    BY <1>1 DEF LocalInv, Types
  <1>5. RingOK' /\ Types' /\ WritersOK' /\ ReadersEnv
    BY <1>1, <1>3, <1>4, WritesKept
  <1>6. \A r \in Subscribers : ReaderOK(r)'
    BY <1>1, <1>5, ReaderKept
  <1> QED BY <1>5, <1>6 DEF LocalInv

LEMMA NextInv == LocalInv /\ [Next]_vars => LocalInv'
  <1> SUFFICES ASSUME LocalInv, [Next]_vars PROVE LocalInv'
    OBVIOUS
  <1>1. ASSUME NEW w \in Writers, WriteLookup(w) \/ Write(w) \/ WriteFail(w)
        PROVE  LocalInv'
    BY <1>1, WriteLookupInv, WriteClaimInv, WritePrepareInv, WriteChunkInv, WriteEndInv, WriteFailInv DEF Write
  <1>2. ASSUME NEW r \in Subscribers,
               ReadLookup(r) \/ ReadNotFound(r) \/ Read(r) \/ PipeAbandoned(r) \/ SetSeq(r)
        PROVE  LocalInv'
    BY <1>2, ReadLookupInv, ReadNotFoundInv, ReadFoundInv, ReadPrecreateInv, ReadAbsentInv, ReaderWaits,
       CopyDataInv, PipeWriteInv, PipeAbandonedInv, SetSeqInv DEF Read
  <1> QED BY <1>1, <1>2, CloseInv, StutterInv DEF Next

LEMMA LocalInvariance == Spec => []LocalInv
  BY InitInv, NextInv, PTL DEF Spec

-----------------------------------------------------------------------------
(* What becomes of an entry.                                                *)

(* A step puts a new segment in the ring, closes segments, or writes one    *)
(* chunk of a Write to its segment: nothing is reset.                       *)
HeapSteps ==
  \/ UNCHANGED heap
  \/ \E S \in {InRing} \cup {{s} : s \in 0 .. Len(heap)} :
       heap' = Closed(S) \/ \E i \in Nat : heap' = Append(Closed(S), newSegment(i))
  \/ \E i \in Nat : heap' = Append(heap, newSegment(i))
  \/ \E w \in Writers :
       write[w].pc = "streaming" /\ heap' = Written(write[w].seg, <<w, write[w].sent + 1>>)

LEMMA ForWriteHeap ==
  ASSUME RingOK, NEW i \in Nat, getForWrite(i)
  PROVE  HeapSteps
  <1>1. CASE Reuse(i)
    BY <1>1, LocalAssumption DEF Reuse, segmentVars, HeapSteps
  <1>2. CASE Replace(i)
    <2>1. Slot(i) \in 0 .. Len(heap)
      BY PositionInRing DEF RingOK, StreamTypeOK, Slot
    <2> QED BY <1>2, <2>1 DEF Replace, HeapSteps
  <1> QED BY <1>1, <1>2 DEF getForWrite

LEMMA StepHeap ==
  ASSUME LocalInv, [Next]_vars
  PROVE  HeapSteps
  <1>0. RingOK /\ pubSeq \in Nat /\ pubSeq + 1 \in Nat
    BY DEF LocalInv, Types
  <1>1. ASSUME NEW w \in Writers, WriteLookup(w) \/ Write(w) \/ WriteFail(w)
        PROVE  HeapSteps
    <2>1. CASE WriteClaim(w) \/ WritePrepare(w)
      BY <1>0, <2>1, ForWriteHeap DEF WriteClaim, WritePrepare, NextSeq
    <2>2. CASE WriteChunk(w)
      BY <2>2 DEF WriteChunk, writeData, HeapSteps
    <2>3. CASE WriteEnd(w)
      <3>1. write[w].seg \in 0 .. Len(heap)
        BY WriteFacts DEF WriteType
      <3> QED BY <2>3, <3>1 DEF WriteEnd, close, HeapSteps
    <2>4. CASE WriteLookup(w) \/ WriteFail(w)
      BY <2>4 DEF WriteLookup, WriteFail, segmentVars, HeapSteps
    <2> QED BY <1>1, <2>1, <2>2, <2>3, <2>4 DEF Write
  <1>2. ASSUME NEW r \in Subscribers,
               ReadLookup(r) \/ ReadNotFound(r) \/ Read(r) \/ PipeAbandoned(r) \/ SetSeq(r)
        PROVE  HeapSteps
    <2>1. CASE ReadPrecreate(r)
      BY <1>0, <2>1 DEF ReadPrecreate, Precreate, RingOK, StreamTypeOK, HeapSteps
    <2>2. CASE ~ReadPrecreate(r)
      <3>1. UNCHANGED heap
        BY <1>2, <2>2
           DEF Read, ReadLookup, ReadNotFound, PipeAbandoned, SetSeq, ReadFound, ReadAhead, StartPrecreate,
               ReadAbsent, CopyData, CopyWait, PipeWrite, segmentVars
      <3> QED BY <3>1 DEF HeapSteps
    <2> QED BY <2>1, <2>2
  <1>3. CASE CloseStream
    BY <1>3 DEF CloseStream, closeAll, close, HeapSteps
  <1>4. CASE CloseUnlist \/ UNCHANGED vars
    BY <1>4 DEF CloseUnlist, segmentVars, vars, HeapSteps
  <1> QED BY <1>1, <1>2, <1>3, <1>4 DEF Next

(* A Write that is done stays done.                                         *)
LEMMA DoneForGood ==
  ASSUME LocalInv, [Next]_vars, NEW w \in Writers, write[w].pc = "done"
  PROVE  write'[w].pc = "done" /\ write'[w].seg = write[w].seg
  <1>1. write \in [Writers -> WriteType(Len(heap))]
    BY DEF LocalInv, Types
  <1>2. ASSUME NEW v \in Writers, WriteLookup(v) \/ Write(v) \/ WriteFail(v)
        PROVE  write'[w] = write[w]
    <2>1. write[v].pc \in {"idle", "located", "claimed", "streaming"}
      BY <1>2, WriteFacts
         DEF Write, WriteLookup, WriteClaim, WritePrepare, WriteChunk, WriteEnd, WriteFail
    <2>2. v # w
      BY <2>1
    <2>3. \E q : write' = [write EXCEPT ![v] = q]
      <3>1. CASE WriteClaim(v)
        BY <3>1 DEF WriteClaim, Refuse
      <3>2. CASE WritePrepare(v)
        BY <3>2 DEF WritePrepare, Refuse
      <3>3. CASE WriteLookup(v) \/ WriteChunk(v) \/ WriteEnd(v) \/ WriteFail(v)
        BY <3>3 DEF WriteLookup, WriteChunk, WriteEnd, WriteFail
      <3> QED BY <1>2, <3>1, <3>2, <3>3 DEF Write
    <2> QED BY <1>1, <2>2, <2>3
  <1>3. ASSUME NEW r \in Subscribers,
               ReadLookup(r) \/ ReadNotFound(r) \/ Read(r) \/ PipeAbandoned(r) \/ SetSeq(r)
        PROVE  write' = write
    BY <1>3
       DEF Read, ReadLookup, ReadNotFound, PipeAbandoned, SetSeq, ReadFound, ReadAhead, ReadPrecreate,
           ReadAbsent, CopyData, CopyWait, PipeWrite, localVars
  <1>4. CASE CloseStream \/ CloseUnlist \/ UNCHANGED vars
    BY <1>4 DEF CloseStream, CloseUnlist, vars
  <1> QED BY <1>2, <1>3, <1>4 DEF Next

(* An entry keeps its number, is not opened again, and does not change once *)
(* its Write has returned.                                                  *)
EntriesStay ==
  \A s \in DOMAIN heap :
    /\ heap'[s].idx = heap[s].idx
    /\ heap[s].closed => heap'[s].closed
    /\ Done(s) => Done(s)' /\ heap'[s].buffer = heap[s].buffer

LEMMA StepKeepsEntries ==
  ASSUME LocalInv, [Next]_vars
  PROVE  EntriesStay
  <1> SUFFICES ASSUME NEW s \in DOMAIN heap
               PROVE  /\ heap'[s].idx = heap[s].idx
                      /\ heap[s].closed => heap'[s].closed
                      /\ Done(s) => Done(s)' /\ heap'[s].buffer = heap[s].buffer
    BY DEF EntriesStay
  <1>1. Done(s) => Done(s)'
    BY DoneForGood DEF Done
  <1>2. /\ heap \in Seq(SegmentType) /\ heap[s] \in SegmentType /\ DOMAIN heap = 1 .. Len(heap)
        /\ Len(heap) \in Nat
    BY RingFacts, HeapFacts DEF LocalInv, RingOK, StreamTypeOK
  <1>3. ASSUME NEW S
        PROVE  /\ Closed(S)[s].idx = heap[s].idx /\ Closed(S)[s].buffer = heap[s].buffer
               /\ heap[s].closed => Closed(S)[s].closed
               /\ \A i : Append(Closed(S), newSegment(i))[s] = Closed(S)[s]
               /\ \A i : Append(heap, newSegment(i))[s] = heap[s]
    <2>1. Closed(S)[s] = [heap[s] EXCEPT !.closed = @ \/ s \in S]
      BY DEF Closed
    <2>2. Len(Closed(S)) = Len(heap)
      BY <1>2 DEF Closed
    <2>3. \A i : /\ Append(Closed(S), newSegment(i))[s] = Closed(S)[s]
                 /\ Append(heap, newSegment(i))[s] = heap[s]
      BY <1>2, <2>2
    <2> QED BY <1>2, <2>1, <2>3 DEF SegmentType
  <1>4. ASSUME NEW w \in Writers, write[w].pc = "streaming",
               heap' = Written(write[w].seg, <<w, write[w].sent + 1>>)
        PROVE  /\ heap'[s].idx = heap[s].idx /\ heap'[s].closed = heap[s].closed
               /\ Done(s) => heap'[s] = heap[s]
    <2>1. write[w].seg # Nil
      BY <1>4, WriteFacts DEF Numbered
    <2>2. Done(s) => s # write[w].seg
      BY <1>4, <2>1, OwnSegment
    <2> QED BY <1>2, <1>4, <2>2 DEF Written, SegmentType
  <1>5. CASE UNCHANGED heap
    BY <1>1, <1>5
  <1>6. CASE \E S \in {InRing} \cup {{t} : t \in 0 .. Len(heap)} :
               heap' = Closed(S) \/ \E i \in Nat : heap' = Append(Closed(S), newSegment(i))
    <2>1. PICK S : heap' = Closed(S) \/ \E i \in Nat : heap' = Append(Closed(S), newSegment(i))
      BY <1>6
    <2>2. heap'[s] = Closed(S)[s]
      BY <1>3, <2>1
    <2> QED BY <1>1, <1>3, <2>2
  <1>7. CASE \E i \in Nat : heap' = Append(heap, newSegment(i))
    BY <1>1, <1>3, <1>7
  <1> QED BY <1>1, <1>4, <1>5, <1>6, <1>7, StepHeap DEF HeapSteps

-----------------------------------------------------------------------------
(* The types, whatever the Writes, the subscribers and a Close do to the    *)
(* channel.                                                                 *)
THEOREM TypeCorrect == Spec => []TypeOK
  BY LocalInvariance, Consequences, PTL

(* No Write of TrickleLocalPublisher is ever refused, and each one has a    *)
(* segment to itself that holds what it wrote, whatever subscribers         *)
(* precreate ahead of c.seq and whenever the stream is closed.              *)
THEOREM EveryWriteGetsItsEntry == Spec => []EveryWriteHasItsEntry
  BY LocalInvariance, Consequences, PTL

(* A Read of TrickleLocalSubscriber that ended normally gave its consumer   *)
(* the whole entry, if that is still in the ring: the copy loop takes an    *)
(* entry for ended only once its Write has closed it.                       *)
THEOREM EntriesAreWhole == Spec => []WholeEntry
  BY LocalInvariance, Consequences, PTL

(* No step opens an entry again or gives it another number, and an entry    *)
(* whose Write has returned is final: nobody adds to it, be it in the ring  *)
(* or evicted under a subscriber that still reads it (getForWrite, Close,   *)
(* and the writeData of the other Writes).                                  *)
THEOREM EntriesAreFinal == Spec => [][EntriesStay]_vars
  <1>1. LocalInv /\ [Next]_vars => [EntriesStay]_vars
    BY StepKeepsEntries
  <1> QED BY <1>1, LocalInvariance, PTL DEF Spec
=============================================================================
