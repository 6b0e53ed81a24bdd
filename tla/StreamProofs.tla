---------------------------- MODULE StreamProofs ----------------------------
(***************************************************************************)
(* Lemmas about the operators of Segment and Stream, for any ring size and  *)
(* any data: each keeps RingOK, that is the types, ChannelAgree and         *)
(* RingAligned, and takes no segment off the heap (Grows).  HandlerProofs   *)
(* and LocalProofs build on them.                                           *)
(***************************************************************************)
EXTENDS Stream, SequenceTheorems, TLAPS

SegmentType == [idx : Nat, buffer : Seq(Data), closed : BOOLEAN, closeCh : Nat]

(* A function on 1 .. n is a sequence of length n.                          *)
LEMMA FunctionIsSeq ==
  ASSUME NEW S, NEW n \in Nat, NEW f \in [1 .. n -> S]
  PROVE  f \in Seq(S) /\ Len(f) = n
  OBVIOUS

(* A sequence is a function on 1 .. Len.                                    *)
LEMMA SeqIsFunction ==
  ASSUME NEW S, NEW f \in Seq(S)
  PROVE  Len(f) \in Nat /\ f \in [1 .. Len(f) -> S] /\ DOMAIN f = 1 .. Len(f)
  OBVIOUS

SegInv == SegmentTypeOK /\ ChannelAgree

(* No step takes a segment off the heap or renumbers it.                    *)
Grows ==
  /\ Len(heap') \in Nat /\ Len(heap) <= Len(heap')
  /\ \A s \in DOMAIN heap : s \in DOMAIN heap' /\ heap'[s].idx = heap[s].idx

(* The heap as a function from the segments that were made.                 *)
LEMMA HeapFacts ==
  ASSUME SegmentTypeOK
  PROVE  /\ Len(heap) \in Nat /\ DOMAIN heap = 1 .. Len(heap)
         /\ heap \in [1 .. Len(heap) -> SegmentType]
         /\ \A s \in DOMAIN heap :
              /\ heap[s] \in SegmentType /\ heap[s].idx \in Nat /\ heap[s].buffer \in Seq(Data)
              /\ heap[s].closed \in BOOLEAN /\ heap[s].closeCh \in Nat
  <1>1. heap \in Seq(SegmentType)
    BY DEF SegmentTypeOK, SegmentType
  <1>2. Len(heap) \in Nat /\ DOMAIN heap = 1 .. Len(heap) /\ heap \in [1 .. Len(heap) -> SegmentType]
    BY <1>1, SeqIsFunction
  <1> QED BY <1>2 DEF SegmentType

(* Waking subscribers changes nothing else of them.                         *)
LEMMA BroadcastType ==
  ASSUME NEW n \in Nat, NEW S, Broadcast(S),
         sub \in [Subscribers -> [seg : 0 .. n, readPos : Nat, parked : BOOLEAN]]
  PROVE  sub' \in [Subscribers -> [seg : 0 .. n, readPos : Nat, parked : BOOLEAN]]
  BY DEF Broadcast

(* writeData keeps the heap well-formed.                                    *)
LEMMA WriteDataSafe ==
  ASSUME SegInv, NEW s \in DOMAIN heap, NEW d \in Data, writeData(s, d)
  PROVE  SegInv' /\ Grows /\ Len(heap') = Len(heap)
  <1> USE HeapFacts DEF SegInv
  <1>1. Append(heap[s].buffer, d) \in Seq(Data)
    BY AppendProperties
  <1>2. heap' \in [1 .. Len(heap) -> SegmentType]
    BY <1>1 DEF writeData, Written, SegmentType
  <1>3. heap' \in Seq(SegmentType) /\ Len(heap') = Len(heap) /\ DOMAIN heap' = DOMAIN heap
    BY <1>2, FunctionIsSeq
  <1>4. \A t \in DOMAIN heap : /\ heap'[t].idx = heap[t].idx /\ heap'[t].closed = heap[t].closed
                               /\ heap'[t].closeCh = heap[t].closeCh
    BY DEF writeData, Written, SegmentType
  <1>5. shut' = shut
    BY DEF writeData
  <1>6. SegmentTypeOK'
    BY <1>3, <1>5 DEF writeData, Broadcast, SegmentTypeOK, SegmentType
  <1>7. ChannelAgree'
    BY <1>3, <1>4, <1>5 DEF ChannelAgree, SegmentTypeOK
  <1> QED BY <1>3, <1>4, <1>6, <1>7 DEF Grows

(* Channels are pairs of a segment and a number.                            *)
LEMMA ChannelFacts ==
  ASSUME SegInv, NEW c \in shut
  PROVE  /\ c = <<c[1], c[2]>> /\ c[1] \in DOMAIN heap /\ c[2] \in Nat
         /\ c[2] <= heap[c[1]].closeCh
  BY HeapFacts DEF SegInv, ChannelAgree, SegmentTypeOK

(* The segments a close shuts are the ones it closes: the channel of each   *)
(* was open.                                                                *)
LEMMA ClosedShut ==
  ASSUME SegInv, NEW S
  PROVE  /\ Closed(S) \in Seq(SegmentType) /\ Len(Closed(S)) = Len(heap)
         /\ \A s \in DOMAIN heap :
              /\ Closed(S)[s].idx = heap[s].idx /\ Closed(S)[s].buffer = heap[s].buffer
              /\ Closed(S)[s].closeCh = heap[s].closeCh
              /\ Closed(S)[s].closed <=> heap[s].closed \/ s \in S
         /\ Shut(S) \in SUBSET ((1 .. Len(heap)) \X Nat)
         /\ \A s \in DOMAIN heap, n \in Nat :
              <<s, n>> \in Shut(S) <=>
                <<s, n>> \in shut \/ (s \in S /\ ~heap[s].closed /\ n = heap[s].closeCh)
  <1> USE HeapFacts DEF SegInv
  <1>1. \A s \in DOMAIN heap :
          /\ Closed(S)[s] \in SegmentType
          /\ Closed(S)[s].idx = heap[s].idx /\ Closed(S)[s].buffer = heap[s].buffer
          /\ Closed(S)[s].closeCh = heap[s].closeCh
          /\ Closed(S)[s].closed <=> heap[s].closed \/ s \in S
    BY DEF Closed, SegmentType
  <1>2. Closed(S) \in [1 .. Len(heap) -> SegmentType]
    BY <1>1 DEF Closed
  <1>3. Closed(S) \in Seq(SegmentType) /\ Len(Closed(S)) = Len(heap)
    BY <1>2, FunctionIsSeq
  <1>4. Shut(S) \in SUBSET ((1 .. Len(heap)) \X Nat)
    BY DEF Shut, Open, Channel, SegmentTypeOK
  <1>5. \A s \in DOMAIN heap, n \in Nat :
          <<s, n>> \in Shut(S) <=>
            <<s, n>> \in shut \/ (s \in S /\ ~heap[s].closed /\ n = heap[s].closeCh)
    BY DEF Shut, Open, Channel
  <1> QED BY <1>1, <1>3, <1>4, <1>5

(* After closing the segments of S and shutting their channels, closed      *)
(* segments and shut channels still agree.                                  *)
LEMMA CloseAgrees ==
  ASSUME SegInv, NEW S
  PROVE  /\ \A c \in Shut(S) : c[2] <= Closed(S)[c[1]].closeCh
         /\ \A s \in DOMAIN heap : \A n \in 0 .. heap[s].closeCh :
              <<s, n>> \in Shut(S) <=> n < heap[s].closeCh \/ Closed(S)[s].closed
  <1> USE HeapFacts DEF SegInv
  <1>1. ASSUME NEW c \in Shut(S)
        PROVE  c[2] <= Closed(S)[c[1]].closeCh
    <2>1. CASE c \in shut
      BY <2>1, ChannelFacts, ClosedShut
    <2>2. CASE c \in {Channel(s) : s \in Open(S)}
      <3>1. PICK s \in Open(S) : c = Channel(s)
        BY <2>2
      <3>2. s \in DOMAIN heap /\ c[1] = s /\ c[2] = heap[s].closeCh
        BY <3>1 DEF Open, Channel
      <3> QED BY <3>2, ClosedShut
    <2> QED BY <2>1, <2>2 DEF Shut
  <1>2. ASSUME NEW s \in DOMAIN heap, NEW n \in 0 .. heap[s].closeCh
        PROVE  <<s, n>> \in Shut(S) <=> n < heap[s].closeCh \/ Closed(S)[s].closed
    <2>1. <<s, n>> \in shut <=> n < heap[s].closeCh \/ heap[s].closed
      BY DEF ChannelAgree
    <2>2. n \in Nat /\ heap[s].closeCh \in Nat
      OBVIOUS
    <2>3. <<s, n>> \in Shut(S) <=>
            <<s, n>> \in shut \/ (s \in S /\ ~heap[s].closed /\ n = heap[s].closeCh)
      BY <2>2, ClosedShut
    <2>4. Closed(S)[s].closed <=> heap[s].closed \/ s \in S
      BY ClosedShut
    <2> QED BY <2>1, <2>2, <2>3, <2>4
  <1> QED BY <1>1, <1>2

(* So does close, for any set of segments.                                  *)
LEMMA CloseSafe ==
  ASSUME SegInv, NEW S, close(S)
  PROVE  SegInv' /\ Grows /\ Len(heap') = Len(heap)
  <1> USE HeapFacts DEF SegInv
  <1>1. heap' = Closed(S) /\ shut' = Shut(S)
    BY DEF close
  <1>2. heap' \in Seq(SegmentType) /\ Len(heap') = Len(heap) /\ DOMAIN heap' = DOMAIN heap
    BY <1>1, ClosedShut, SeqIsFunction
  <1>3. sub' \in [Subscribers -> [seg : 0 .. Len(heap'), readPos : Nat, parked : BOOLEAN]]
    BY <1>2, BroadcastType DEF close, SegmentTypeOK
  <1>a. shut' \in SUBSET ((1 .. Len(heap')) \X Nat)
    BY <1>1, <1>2, ClosedShut
  <1>b. SegmentTypeOK'
    BY <1>2, <1>3, <1>a DEF SegmentTypeOK, SegmentType
  <1>4. ChannelAgree'
    BY <1>1, <1>2, ClosedShut, CloseAgrees DEF ChannelAgree
  <1> QED BY <1>1, <1>2, <1>b, <1>4, ClosedShut DEF Grows

(* So does reset.                                                           *)
LEMMA ResetSafe ==
  ASSUME SegInv, NEW s \in DOMAIN heap, reset(s)
  PROVE  SegInv' /\ Grows /\ Len(heap') = Len(heap)
  <1> USE HeapFacts DEF SegInv
  <1>1. CASE UNCHANGED <<heap, shut>>
    BY <1>1 DEF reset, SegmentTypeOK, ChannelAgree, Grows
  <1>2. CASE /\ heap' = [heap EXCEPT ![s] = Emptied(s)]
             /\ shut' = Released(s)
    <2>0. /\ Emptied(s) \in SegmentType /\ Emptied(s).idx = heap[s].idx
          /\ Emptied(s).closeCh = heap[s].closeCh + 1 /\ Emptied(s).closed = FALSE
      <3>1. << >> \in Seq(Data)
        OBVIOUS
      <3> QED BY <3>1 DEF Emptied, SegmentType
    <2>1. heap' \in [1 .. Len(heap) -> SegmentType]
      BY <1>2, <2>0
    <2>2. heap' \in Seq(SegmentType) /\ Len(heap') = Len(heap) /\ DOMAIN heap' = DOMAIN heap
      BY <2>1, FunctionIsSeq
    <2>3. /\ \A t \in DOMAIN heap : heap'[t].idx = heap[t].idx
          /\ \A t \in DOMAIN heap \ {s} : heap'[t] = heap[t]
          /\ heap'[s].closeCh = heap[s].closeCh + 1 /\ heap'[s].closed = FALSE
      BY <1>2, <2>0
    <2>4. shut' = Shut({s})
      BY <1>2 DEF Released
    <2>5. SegmentTypeOK'
      BY <2>2, <2>4, ClosedShut DEF reset, SegmentTypeOK, SegmentType
    <2>6. ASSUME NEW c \in shut'
          PROVE  c[2] <= heap'[c[1]].closeCh
      <3>1. c[2] <= Closed({s})[c[1]].closeCh /\ c[1] \in DOMAIN heap /\ c[2] \in Nat
        BY <2>4, ClosedShut, CloseAgrees
      <3>2. c[2] <= heap[c[1]].closeCh
        BY <3>1, ClosedShut
      <3> QED BY <3>1, <3>2, <2>3
    <2>7. ASSUME NEW t \in DOMAIN heap', NEW n \in 0 .. heap'[t].closeCh
          PROVE  <<t, n>> \in shut' <=> n < heap'[t].closeCh \/ heap'[t].closed
      <3>1. CASE t = s
        <4>1. CASE n = heap[s].closeCh + 1
          <5>1. <<s, n>> \notin shut'
            BY <4>1, <2>4, CloseAgrees, ClosedShut
          <5> QED BY <5>1, <4>1, <3>1, <2>3
        <4>2. CASE n \in 0 .. heap[s].closeCh
          <5>1. Closed({s})[s].closed
            BY ClosedShut
          <5>2. <<s, n>> \in shut'
            BY <5>1, <4>2, <2>4, CloseAgrees
          <5> QED BY <5>2, <4>2, <3>1, <2>3
        <4> QED BY <4>1, <4>2, <3>1, <2>3
      <3>2. CASE t # s
        <4>1. t \in DOMAIN heap /\ n \in 0 .. heap[t].closeCh /\ heap'[t] = heap[t]
          BY <3>2, <2>2, <2>3
        <4>2. Closed({s})[t].closed <=> heap[t].closed
          BY <4>1, <3>2, ClosedShut
        <4> QED BY <4>1, <4>2, <2>4, CloseAgrees
      <3> QED BY <3>1, <3>2
    <2>8. ChannelAgree'
      BY <2>6, <2>7 DEF ChannelAgree
    <2> QED BY <2>2, <2>3, <2>5, <2>8 DEF Grows
  <1> QED BY <1>1, <1>2 DEF reset

(* Closing nothing changes nothing: a nil slot in getForWrite.              *)
LEMMA CloseNothing ==
  ASSUME SegInv
  PROVE  Closed({}) = heap /\ Shut({}) = shut
  <1> USE HeapFacts DEF SegInv
  <1>1. \A s \in DOMAIN heap : Closed({})[s] = heap[s]
    BY DEF Closed, SegmentType
  <1>2. Closed({}) = heap
    BY <1>1 DEF Closed
  <1> QED BY <1>2 DEF Shut, Open

(* A new segment comes with a channel of its own that nobody has closed;    *)
(* the segments it displaces are closed with theirs.                        *)
LEMMA NewSegmentSafe ==
  ASSUME SegInv, NEW S, NEW i \in Nat,
         heap' = Append(Closed(S), newSegment(i)), shut' = Shut(S),
         sub' \in [Subscribers -> [seg : 0 .. Len(heap) + 1, readPos : Nat, parked : BOOLEAN]]
  PROVE  /\ SegInv' /\ Grows /\ Len(heap') = Len(heap) + 1 /\ heap'[Len(heap) + 1] = newSegment(i)
         /\ \A s \in DOMAIN heap : heap'[s] = Closed(S)[s]
  <1> USE HeapFacts DEF SegInv
  <1>1. newSegment(i) \in SegmentType /\ newSegment(i).closeCh = 0 /\ newSegment(i).closed = FALSE
    <2>1. << >> \in Seq(Data)
      OBVIOUS
    <2> QED BY <2>1 DEF newSegment, SegmentType
  <1>2. /\ heap' \in Seq(SegmentType) /\ Len(heap') = Len(heap) + 1
        /\ \A s \in DOMAIN heap : heap'[s] = Closed(S)[s]
        /\ heap'[Len(heap) + 1] = newSegment(i)
    BY <1>1, ClosedShut, AppendProperties
  <1>3. DOMAIN heap' = 1 .. Len(heap) + 1
    BY <1>2, SeqIsFunction
  <1>4. shut' \in SUBSET ((1 .. Len(heap)) \X Nat)
    BY ClosedShut
  <1>5. SegmentTypeOK'
    BY <1>2, <1>4 DEF SegmentTypeOK, SegmentType
  <1>6. ASSUME NEW c \in shut'
        PROVE  c[2] <= heap'[c[1]].closeCh
    BY <1>2, <1>4, CloseAgrees
  <1>7. ASSUME NEW s \in DOMAIN heap', NEW n \in 0 .. heap'[s].closeCh
        PROVE  <<s, n>> \in shut' <=> n < heap'[s].closeCh \/ heap'[s].closed
    <2>1. CASE s \in DOMAIN heap
      BY <2>1, <1>2, ClosedShut, CloseAgrees
    <2>2. CASE s = Len(heap) + 1
      <3>1. <<s, n>> \notin shut'
        BY <2>2, <1>4
      <3> QED BY <3>1, <2>2, <1>1, <1>2
    <2> QED BY <2>1, <2>2, <1>3
  <1>8. ChannelAgree'
    BY <1>6, <1>7 DEF ChannelAgree
  <1> QED BY <1>2, <1>3, <1>5, <1>8, ClosedShut DEF Grows

-----------------------------------------------------------------------------
(* The ring.                                                                *)

LEMMA PositionInRing ==
  ASSUME NEW i \in Nat
  PROVE  Position(i) \in 0 .. MaxSegmentsPerStream - 1
  BY StreamAssumption DEF Position

RingOK == StreamTypeOK /\ ChannelAgree /\ RingAligned

(* Storing a segment numbered i, made just now, in i's slot.                *)
LEMMA StoreAligned ==
  ASSUME RingOK, Grows, NEW i \in Nat, NEW s \in DOMAIN heap', heap'[s].idx = i, Store(i, s)
  PROVE  /\ segments' \in [0 .. MaxSegmentsPerStream - 1 -> 0 .. Len(heap')]
         /\ RingAligned'
  <1> USE DEF RingOK, StreamTypeOK
  <1>1. Len(heap) \in Nat /\ Len(heap') \in Nat /\ Len(heap) <= Len(heap') /\ s \in 0 .. Len(heap')
    BY HeapFacts DEF Grows
  <1>2. Position(i) \in DOMAIN segments
    BY PositionInRing
  <1>3. segments' = [segments EXCEPT ![Position(i)] = s]
    BY DEF Store
  <1>4. \A p \in DOMAIN segments : segments[p] # Nil =>
          segments[p] \in DOMAIN heap /\ heap'[segments[p]].idx = heap[segments[p]].idx
    BY HeapFacts DEF Grows, Nil
  <1> QED BY <1>1, <1>2, <1>3, <1>4 DEF RingAligned

(* Segments do not move: a ring left alone stays aligned as the heap grows. *)
LEMMA RingKept ==
  ASSUME RingOK, Grows, UNCHANGED segments
  PROVE  /\ segments' \in [0 .. MaxSegmentsPerStream - 1 -> 0 .. Len(heap')]
         /\ RingAligned'
  <1> USE DEF RingOK, StreamTypeOK
  <1>1. Len(heap) \in Nat /\ Len(heap') \in Nat /\ Len(heap) <= Len(heap')
    BY HeapFacts DEF Grows
  <1>2. \A p \in DOMAIN segments : segments[p] # Nil =>
          segments[p] \in DOMAIN heap /\ heap'[segments[p]].idx = heap[segments[p]].idx
    BY HeapFacts DEF Grows, Nil
  <1> QED BY <1>1, <1>2 DEF RingAligned

(* A slot where exists says yes points at segment i.                        *)
LEMMA ExistsIsSegment ==
  ASSUME RingOK, NEW i \in Nat, exists(Slot(i), i)
  PROVE  Slot(i) \in DOMAIN heap /\ heap[Slot(i)].idx = i
  <1>1. Position(i) \in 0 .. MaxSegmentsPerStream - 1
    BY PositionInRing
  <1>2. Slot(i) \in 0 .. Len(heap)
    BY <1>1 DEF RingOK, StreamTypeOK, Slot
  <1>3. Slot(i) # 0 /\ heap[Slot(i)].idx = i
    BY DEF exists, Nil
  <1>4. Len(heap) \in Nat /\ DOMAIN heap = 1 .. Len(heap)
    BY HeapFacts DEF RingOK, StreamTypeOK
  <1> QED BY <1>2, <1>3, <1>4

(* getForWrite returns segment i, old or new.                               *)
LEMMA GetForWriteSafe ==
  ASSUME RingOK, NEW i \in Nat, getForWrite(i)
  PROVE  /\ RingOK' /\ Grows
         /\ WriteSegment(i) \in DOMAIN heap' /\ heap'[WriteSegment(i)].idx = i
  <1> USE DEF RingOK
  <1>0. SegInv
    BY DEF SegInv, StreamTypeOK
  <1>1. UNCHANGED <<nextWrite, closed, precreating>>
    BY DEF getForWrite
  <1>2. CASE Reuse(i)
    <2>1. Slot(i) \in DOMAIN heap /\ heap[Slot(i)].idx = i /\ WriteSegment(i) = Slot(i)
      BY <1>2, ExistsIsSegment DEF Reuse, WriteSegment
    <2>2. SegInv' /\ Grows
      <3>1. CASE reset(Slot(i))
        BY <3>1, <2>1, <1>0, ResetSafe
      <3>2. CASE UNCHANGED segmentVars
        BY <3>2, <1>0, HeapFacts DEF SegInv, SegmentTypeOK, ChannelAgree, Grows, segmentVars
      <3> QED BY <3>1, <3>2, <1>2 DEF Reuse
    <2>3. UNCHANGED segments
      BY <1>2 DEF Reuse
    <2>4. RingOK'
      BY <1>1, <2>2, <2>3, RingKept DEF SegInv, StreamTypeOK
    <2> QED BY <2>1, <2>2, <2>4 DEF Grows
  <1>3. CASE Replace(i)
    <2> DEFINE S == {Slot(i)}
    <2>1. /\ heap' = Append(Closed(S), newSegment(i)) /\ shut' = Shut(S)
          /\ Store(i, Len(heap) + 1) /\ WriteSegment(i) = Len(heap) + 1
      BY <1>3 DEF Replace, WriteSegment
    <2>2. sub' \in [Subscribers -> [seg : 0 .. Len(heap) + 1, readPos : Nat, parked : BOOLEAN]]
      <3>1. Len(heap) \in Nat
        BY HeapFacts DEF StreamTypeOK
      <3>2. Len(heap) + 1 \in Nat /\ 0 .. Len(heap) \subseteq 0 .. Len(heap) + 1
        BY <3>1
      <3>3. sub \in [Subscribers -> [seg : 0 .. Len(heap) + 1, readPos : Nat, parked : BOOLEAN]]
        BY <3>2 DEF StreamTypeOK, SegmentTypeOK
      <3> QED BY <1>3, <3>2, <3>3, BroadcastType DEF Replace
    <2>3. /\ SegInv' /\ Grows /\ Len(heap') = Len(heap) + 1
          /\ heap'[Len(heap) + 1] = newSegment(i)
      BY <1>0, <2>1, <2>2, NewSegmentSafe
    <2>4. Len(heap) + 1 \in DOMAIN heap' /\ heap'[Len(heap) + 1].idx = i
      <3>1. Len(heap) \in Nat /\ DOMAIN heap' = 1 .. Len(heap')
        BY <2>3, <1>0, HeapFacts, SeqIsFunction DEF SegInv, SegmentTypeOK
      <3> QED BY <3>1, <2>3 DEF newSegment
    <2>5. RingOK'
      BY <1>1, <2>1, <2>3, <2>4, StoreAligned DEF SegInv, StreamTypeOK
    <2> QED BY <2>1, <2>3, <2>4, <2>5
  <1> QED BY <1>2, <1>3 DEF getForWrite

(* A GET ahead of the publisher is attached to a new segment, the one it    *)
(* asked for.                                                               *)
LEMMA PrecreateSafe ==
  ASSUME RingOK, NEW g \in Subscribers, Precreate(g)
  PROVE  /\ RingOK' /\ Grows /\ Len(heap) + 1 \in DOMAIN heap'
         /\ heap'[Len(heap) + 1] = newSegment(precreating[g])
         /\ \A s \in DOMAIN heap : heap'[s] = heap[s]
  <1> USE DEF RingOK
  <1>0. SegInv /\ Len(heap) \in Nat
    BY HeapFacts DEF SegInv, StreamTypeOK
  <1>1. precreating[g] \in Nat
    BY DEF Precreate, StreamTypeOK
  <1> DEFINE i == precreating[g]
  <1>2. heap' = Append(Closed({}), newSegment(i)) /\ shut' = Shut({})
    BY <1>0, CloseNothing DEF Precreate
  <1>3. sub' \in [Subscribers -> [seg : 0 .. Len(heap) + 1, readPos : Nat, parked : BOOLEAN]]
    <2>1. 0 .. Len(heap) \subseteq 0 .. Len(heap) + 1 /\ Len(heap) + 1 \in 0 .. Len(heap) + 1
      BY <1>0
    <2> QED BY <2>1 DEF Precreate, Subscribe, StreamTypeOK, SegmentTypeOK
  <1>4. /\ SegInv' /\ Grows /\ Len(heap') = Len(heap) + 1 /\ heap'[Len(heap) + 1] = newSegment(i)
        /\ \A s \in DOMAIN heap : heap'[s] = Closed({})[s]
    BY <1>0, <1>1, <1>2, <1>3, NewSegmentSafe
  <1>5. \A s \in DOMAIN heap : heap'[s] = heap[s]
    BY <1>0, <1>4, CloseNothing
  <1>6. Len(heap) + 1 \in DOMAIN heap' /\ heap'[Len(heap) + 1].idx = i
    <2>1. DOMAIN heap' = 1 .. Len(heap')
      BY <1>4, SeqIsFunction DEF SegInv, SegmentTypeOK
    <2> QED BY <2>1, <1>0, <1>4 DEF newSegment
  <1>7. /\ segments' \in [0 .. MaxSegmentsPerStream - 1 -> 0 .. Len(heap')] /\ RingAligned'
    BY <1>1, <1>4, <1>6, StoreAligned DEF Precreate
  <1>8. RingOK'
    BY <1>4, <1>7 DEF Precreate, SegInv, StreamTypeOK
  <1> QED BY <1>4, <1>5, <1>6, <1>8

(* Stream.close keeps the ring well-formed.                                 *)
LEMMA CloseAllSafe ==
  ASSUME RingOK, closeAll
  PROVE  RingOK' /\ Grows /\ Len(heap') = Len(heap)
  <1> USE DEF RingOK
  <1>1. SegInv /\ close(InRing)
    BY DEF SegInv, StreamTypeOK, closeAll
  <1>2. SegInv' /\ Grows /\ Len(heap') = Len(heap)
    BY <1>1, CloseSafe
  <1>3. segments' = [p \in 0 .. MaxSegmentsPerStream - 1 |-> Nil]
    BY DEF closeAll, StreamTypeOK
  <1>4. segments' \in [0 .. MaxSegmentsPerStream - 1 -> 0 .. Len(heap')] /\ RingAligned'
    BY <1>2, <1>3, <1>1, HeapFacts DEF RingAligned, Nil, Grows
  <1> QED BY <1>2, <1>4 DEF closeAll, SegInv, StreamTypeOK

(* The ring gains new segments only.                                        *)
LEMMA StoreLoses ==
  ASSUME RingOK, NEW i \in Nat, Store(i, Len(heap) + 1)
  PROVE  \A s \in DOMAIN heap : s \in InRing' => s \in InRing
  <1>1. Len(heap) \in Nat /\ DOMAIN heap = 1 .. Len(heap) /\ DOMAIN segments = 0 .. MaxSegmentsPerStream - 1
    BY HeapFacts DEF RingOK, StreamTypeOK
  <1>2. /\ DOMAIN segments' = DOMAIN segments
        /\ \A p \in DOMAIN segments' : segments'[p] = Len(heap) + 1 \/ segments'[p] = segments[p]
    BY DEF Store
  <1> QED BY <1>1, <1>2 DEF InRing

(* A segment that is replaced is nowhere else in the ring.                  *)
LEMMA StoreReplaces ==
  ASSUME RingOK, NEW i \in Nat, Store(i, Len(heap) + 1), Slot(i) \in DOMAIN heap
  PROVE  ~(Slot(i) \in InRing')
  <1>1. Len(heap) \in Nat /\ DOMAIN heap = 1 .. Len(heap) /\ DOMAIN segments = 0 .. MaxSegmentsPerStream - 1
    BY HeapFacts DEF RingOK, StreamTypeOK
  <1>2. Position(i) \in DOMAIN segments /\ Slot(i) # Nil /\ Slot(i) # Len(heap) + 1
    <2>1. Position(i) \in DOMAIN segments
      BY <1>1, PositionInRing
    <2>2. Slot(i) \in 1 .. Len(heap)
      BY <1>1
    <2> QED BY <1>1, <2>1, <2>2 DEF Nil
  <1>3. /\ DOMAIN segments' = DOMAIN segments /\ segments'[Position(i)] = Len(heap) + 1
        /\ \A p \in DOMAIN segments : p # Position(i) => segments'[p] = segments[p]
    BY <1>2 DEF Store
  <1>4. \A p \in DOMAIN segments : segments[p] = Slot(i) => p = Position(i)
    BY <1>2 DEF RingOK, RingAligned, Slot
  <1> QED BY <1>2, <1>3, <1>4 DEF InRing

-----------------------------------------------------------------------------
(* Buffers.                                                                 *)

(* What readData returns.                                                   *)
LEMMA WaitingIsUnread ==
  ASSUME NEW S, NEW b \in Seq(S), NEW n \in Nat, n < Len(b)
  PROVE  Unread(b, n) \in Seq(S) /\ Len(Unread(b, n)) = Len(b) - n
  BY SubSeqProperties DEF Unread

(* Appending leaves what was read as it was.                                *)
LEMMA AppendPrefix ==
  ASSUME NEW S, NEW b \in Seq(S), NEW d \in S, NEW n \in 0 .. Len(b)
  PROVE  SubSeq(Append(b, d), 1, n) = SubSeq(b, 1, n)
  <1>1. /\ Append(b, d) \in Seq(S) /\ Len(Append(b, d)) = Len(b) + 1 /\ Len(b) \in Nat
        /\ \A i \in 1 .. n : Append(b, d)[i] = b[i] /\ b[i] \in S
    BY AppendProperties
  <1>2. /\ SubSeq(Append(b, d), 1, n) \in Seq(S) /\ SubSeq(b, 1, n) \in Seq(S)
        /\ Len(SubSeq(Append(b, d), 1, n)) = n /\ Len(SubSeq(b, 1, n)) = n
        /\ \A i \in 1 .. n : SubSeq(Append(b, d), 1, n)[i] = Append(b, d)[i]
        /\ \A i \in 1 .. n : SubSeq(b, 1, n)[i] = b[i]
    <2>1. n \in Int /\ n \in Nat /\ \A i \in 1 .. n : Append(b, d)[i] \in S /\ b[i] \in S
      BY <1>1
    <2>2. /\ SubSeq(Append(b, d), 1, n) \in Seq(S)
          /\ Len(SubSeq(Append(b, d), 1, n)) = IF 1 <= n THEN n - 1 + 1 ELSE 0
          /\ \A i \in 1 .. n - 1 + 1 : SubSeq(Append(b, d), 1, n)[i] = Append(b, d)[1 + i - 1]
      BY <2>1, SubSeqProperties
    <2>3. /\ SubSeq(b, 1, n) \in Seq(S)
          /\ Len(SubSeq(b, 1, n)) = IF 1 <= n THEN n - 1 + 1 ELSE 0
          /\ \A i \in 1 .. n - 1 + 1 : SubSeq(b, 1, n)[i] = b[1 + i - 1]
      BY <2>1, SubSeqProperties
    <2> QED BY <2>1, <2>2, <2>3
  <1> QED BY <1>1, <1>2, SeqEqual

(* The part of a buffer that was not read yet follows the part that was.    *)
LEMMA UnreadFollows ==
  ASSUME NEW S, NEW b \in Seq(S), NEW n \in 0 .. Len(b)
  PROVE  /\ SubSeq(b, 1, n) \o Unread(b, n) = SubSeq(b, 1, Len(b))
         /\ \A i \in 1 .. Len(b) - n : Unread(b, n)[i] = b[n + i]
  <1>1. Len(b) \in Nat /\ n \in Nat /\ n <= Len(b)
    BY LenProperties
  <1>2. SubSeq(b, 1, n) \o SubSeq(b, n + 1, Len(b)) = SubSeq(b, 1, Len(b))
    <2>1. 1 \in 1 .. Len(b) + 1 /\ n \in 1 - 1 .. Len(b) /\ Len(b) \in n .. Len(b)
      BY <1>1
    <2> QED BY <2>1, ConcatAdjacentSubSeq
  <1>3. \A i \in 1 .. Len(b) - n : Unread(b, n)[i] = b[n + i]
    <2>1. \A i \in n + 1 .. Len(b) : b[i] \in S
      <3>1. \A i \in n + 1 .. Len(b) : i \in 1 .. Len(b)
        BY <1>1
      <3> QED BY <3>1, ElementOfSeq
    <2>2. \A i \in 1 .. Len(b) - (n + 1) + 1 : SubSeq(b, n + 1, Len(b))[i] = b[n + 1 + i - 1]
      BY <1>1, <2>1, SubSeqProperties
    <2> QED BY <1>1, <2>2 DEF Unread
  <1> QED BY <1>2, <1>3 DEF Unread
==============================================================================
