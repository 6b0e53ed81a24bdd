------------------------------- MODULE Stream -------------------------------
(***************************************************************************)
(* trickle_server.go: the Stream, a ring of the segments around the live    *)
(* edge of a channel.  Segment i belongs in slot i % MaxSegmentsPerStream;  *)
(* publishing i drops whatever older segment is there.                      *)
(*                                                                         *)
(* getForWrite and Stream.close hold s.mutex: one step each.  getForRead    *)
(* only read-locks it, yet may store a segment it has just made: its check  *)
(* and its store are two steps, between which other subscribers may be in   *)
(* getForRead too, while writers wait (Unlocked).                           *)
(***************************************************************************)
EXTENDS Segment, FiniteSets

CONSTANTS
  MaxSegmentsPerStream,
  CanReset              \* Stream.canReset: not a local channel

ASSUME StreamAssumption ==
  /\ MaxSegmentsPerStream \in Nat \ {0}
  /\ CanReset \in BOOLEAN

VARIABLES
  segments,     \* the ring
  nextWrite,    \* one past the latest segment that received data
  closed,       \* the stream was closed
  precreating   \* subscribers in getForRead about to store a new segment, and its number

streamVars == <<segments, nextWrite, closed, precreating>>

NotHeld == -1

InitStream ==
  /\ InitSegments
  /\ segments = [p \in 0 .. MaxSegmentsPerStream - 1 |-> Nil]
  /\ nextWrite = 0
  /\ closed = FALSE
  /\ precreating = [g \in Subscribers |-> NotHeld]

(* Nobody read-locks s.mutex across a step: it can be locked.               *)
Unlocked == \A g \in Subscribers : precreating[g] = NotHeld

-----------------------------------------------------------------------------
Position(i) == i % MaxSegmentsPerStream
Slot(i) == segments[Position(i)]

(* Plausible bug: the number of the segment found is not compared.           *)
AnySegment(s, i) == s # Nil

exists(s, i) == s # Nil /\ heap[s].idx = i

Store(i, s) == segments' = [segments EXCEPT ![Position(i)] = s]

ForWrite(seq) == IF seq = -1 THEN nextWrite ELSE seq

(* What getForWrite(i) returns, and does: reuse the segment that is there,  *)
(* or close the one that is in the way and put a new one.                   *)
WriteSegment(i) == IF exists(Slot(i), i) THEN Slot(i) ELSE Len(heap) + 1

Reuse(i) ==
  /\ exists(Slot(i), i)
  /\ IF CanReset THEN reset(Slot(i)) ELSE UNCHANGED segmentVars
  /\ UNCHANGED segments

Replace(i) ==
  /\ ~exists(Slot(i), i)
  /\ heap' = Append(Closed({Slot(i)}), newSegment(i))
  /\ shut' = Shut({Slot(i)})
  /\ Broadcast(Open({Slot(i)}))
  /\ Store(i, Len(heap) + 1)

getForWrite(i) ==
  /\ Unlocked
  /\ Reuse(i) \/ Replace(i)
  /\ UNCHANGED <<nextWrite, closed, precreating>>

(* The second result of getForWrite.                                        *)
AlreadyWritten(i) ==
  /\ exists(Slot(i), i)
  /\ IF CanReset THEN heap[Slot(i)].buffer # << >> ELSE ~isFresh(Slot(i))

-----------------------------------------------------------------------------
(* -1 is the next segment to be written, -2 the one being written.          *)
ForRead(seq) ==
  CASE seq = -1 -> nextWrite
    [] seq = -2 -> IF nextWrite > 0 THEN nextWrite - 1 ELSE 0
    [] OTHER    -> seq

(* Plausible bug: only segment 1 of a stream not written yet is made ahead.  *)
OnlyFirstAhead(i) == nextWrite = 0 /\ i = 1 /\ ~closed

(* A GET just ahead of the publisher makes the segment it asks for.         *)
Ahead(i) == (i = nextWrite \/ (nextWrite = 0 /\ i = 1)) /\ ~closed

(* getForRead finds i; or decides to make it; or has nothing to return.     *)
Found(i) == exists(Slot(i), i)
Absent(i) == ~Found(i) /\ ~Ahead(i)

StartPrecreate(g, i) ==
  /\ ~Found(i)
  /\ Ahead(i)
  /\ precreating' = [precreating EXCEPT ![g] = i]
  /\ UNCHANGED <<segments, nextWrite, closed>>

(* The segment is made, stored over whatever is in its slot, and returned.  *)
Precreate(g) ==
  /\ precreating[g] # NotHeld
  /\ heap' = Append(heap, newSegment(precreating[g]))
  /\ Store(precreating[g], Len(heap) + 1)
  /\ Subscribe(g, Len(heap) + 1)
  /\ precreating' = [precreating EXCEPT ![g] = NotHeld]
  /\ UNCHANGED <<shut, nextWrite, closed>>

-----------------------------------------------------------------------------
InRing == {segments[p] : p \in DOMAIN segments} \ {Nil}

(* Stream.close *)
closeAll ==
  /\ Unlocked
  /\ close(InRing)
  /\ segments' = [p \in DOMAIN segments |-> Nil]
  /\ closed' = TRUE
  /\ UNCHANGED <<nextWrite, precreating>>

-----------------------------------------------------------------------------
(* The types of this state.                                                 *)
StreamTypeOK ==
  /\ SegmentTypeOK
  /\ segments \in [0 .. MaxSegmentsPerStream - 1 -> 0 .. Len(heap)]
  /\ nextWrite \in Nat
  /\ closed \in BOOLEAN
  /\ precreating \in [Subscribers -> Nat \cup {NotHeld}]

(* A channel is closed exactly when its segment was closed, or reset past   *)
(* it: so close(closeCh) in close and in reset never runs on a channel that *)
(* is already closed, which would panic, whatever mix of POST, repeated     *)
(* POST, eviction, DELETE and stream close meets on a segment.              *)
ChannelAgree ==
  /\ \A c \in shut : c[2] <= heap[c[1]].closeCh
  /\ \A s \in DOMAIN heap : \A n \in 0 .. heap[s].closeCh :
       <<s, n>> \in shut <=> n < heap[s].closeCh \/ heap[s].closed

(* The ring never holds a segment in another one's slot, so that asking for *)
(* slot i % MaxSegmentsPerStream finds segment i or an older or newer one.  *)
RingAligned ==
  \A p \in DOMAIN segments : segments[p] # Nil => Position(heap[segments[p]].idx) = p
==============================================================================
