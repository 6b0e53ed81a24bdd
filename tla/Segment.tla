------------------------------- MODULE Segment -------------------------------
(***************************************************************************)
(* trickle_server.go: the Segment, an append-only buffer that subscribers   *)
(* read at their own pace while a publisher is still filling it.            *)
(*                                                                         *)
(* Segments live on the heap: handlers keep pointers to segments the stream *)
(* has long dropped.  A pointer is an index into heap, 0 is nil.  A         *)
(* segment's mutex makes each of its methods one step.  Its closeCh is      *)
(* numbered: reset replaces the channel, so <<s, n>> is the n-th channel of *)
(* segment s, and shut holds the channels that close() was called on.       *)
(***************************************************************************)
EXTENDS Integers, Sequences

CONSTANTS
  Subscribers,  \* who may read segments
  Data          \* what publishers write, one chunk at a time

VARIABLES
  heap,         \* every Segment ever made
  shut,         \* the closeCh channels that were closed
  sub           \* SegmentSubscriber of each subscriber, and whether it sleeps in cond.Wait

segmentVars == <<heap, shut, sub>>

Nil == 0
NoChannel == -1

(* Plausible bug: closeCh is left nil.                                       *)
WithoutChannel(i) == [idx |-> i, buffer |-> << >>, closed |-> FALSE, closeCh |-> NoChannel]

newSegment(i) == [idx |-> i, buffer |-> << >>, closed |-> FALSE, closeCh |-> 0]

InitSegments ==
  /\ heap = << >>
  /\ shut = {}
  /\ sub = [g \in Subscribers |-> [seg |-> Nil, readPos |-> 0, parked |-> FALSE]]

Channel(s) == <<s, heap[s].closeCh>>

-----------------------------------------------------------------------------
(* cond.Broadcast on the segments of S.                                     *)

(* Plausible bug: the broadcast is missing.                                  *)
Silence(S) == sub' = sub

Broadcast(S) ==
  sub' = [g \in Subscribers |->
            [sub[g] EXCEPT !.parked = @ /\ sub[g].seg \notin S]]

(* writeData *)
Written(s, d) == [heap EXCEPT ![s].buffer = Append(@, d)]

writeData(s, d) ==
  /\ heap' = Written(s, d)
  /\ Broadcast({s})
  /\ UNCHANGED shut

(* close, for every segment of S that is not closed yet; nil is skipped.     *)
Open(S) == {s \in S \cap DOMAIN heap : ~heap[s].closed}
Closed(S) == [s \in DOMAIN heap |-> [heap[s] EXCEPT !.closed = @ \/ s \in S]]
Shut(S) == shut \cup {Channel(s) : s \in Open(S)}

close(S) ==
  /\ heap' = Closed(S)
  /\ shut' = Shut(S)
  /\ Broadcast(Open(S))

(* Plausible bug: the old channel is dropped without closing it.             *)
Forgotten(s) == shut

(* reset closes the channel it is about to replace, unless close did.       *)
Released(s) == Shut({s})

Emptied(s) ==
  [idx |-> heap[s].idx, buffer |-> << >>, closed |-> FALSE, closeCh |-> heap[s].closeCh + 1]

(* reset empties a segment that has data, without waking its readers.       *)
reset(s) ==
  /\ \/ /\ heap[s].buffer = << >>
        /\ UNCHANGED <<heap, shut>>
     \/ /\ heap[s].buffer # << >>
        /\ heap' = [heap EXCEPT ![s] = Emptied(s)]
        /\ shut' = Released(s)
  /\ UNCHANGED sub

isFresh(s) == ~heap[s].closed /\ heap[s].buffer = << >>

-----------------------------------------------------------------------------
(* Subscribers.                                                             *)

(* &SegmentSubscriber{segment: s}                                           *)
Subscribe(g, s) ==
  sub' = [sub EXCEPT ![g] = [seg |-> s, readPos |-> 0, parked |-> FALSE]]

(* Plausible bug: the first unread chunk is skipped.                         *)
SkippingOne(buffer, startPos) == SubSeq(buffer, startPos + 2, Len(buffer))

Unread(buffer, startPos) == SubSeq(buffer, startPos + 1, Len(buffer))

(* readData returns: what is past the subscriber's position, if anything.   *)
SegmentOf(g) == heap[sub[g].seg]
Waiting(g) == Unread(SegmentOf(g).buffer, sub[g].readPos)

HasData(g) == sub[g].readPos < Len(SegmentOf(g).buffer)

(* Plausible bug: having read everything is taken for the end.               *)
ReadItAll(g) == ~HasData(g)

(* The end is a closed segment without more data, or a buffer that was      *)
(* reset to something shorter than what was read already.                   *)
AtEnd(g) ==
  \/ sub[g].readPos > Len(SegmentOf(g).buffer)
  \/ sub[g].readPos = Len(SegmentOf(g).buffer) /\ SegmentOf(g).closed

Advance(g) ==
  sub' = [sub EXCEPT ![g].readPos = @ + Len(Waiting(g))]

Park(g) ==
  /\ ~HasData(g)
  /\ ~AtEnd(g)
  /\ sub' = [sub EXCEPT ![g].parked = TRUE]

-----------------------------------------------------------------------------
(* The types of this state.                                                 *)
SegmentTypeOK ==
  /\ heap \in Seq([idx : Nat, buffer : Seq(Data), closed : BOOLEAN, closeCh : Nat])
  /\ shut \in SUBSET ((1 .. Len(heap)) \X Nat)
  /\ sub \in [Subscribers -> [seg : 0 .. Len(heap), readPos : Nat, parked : BOOLEAN]]
==============================================================================
