---------------------------- MODULE HandlerProofs ----------------------------
(***************************************************************************)
(* What holds of StreamHandlers for any number of requests, any ring size   *)
(* and any data.                                                           *)
(*                                                                         *)
(* First types, the close of channels and the slots of segments.  The       *)
(* invariant HandlerInv joins RingOK of StreamProofs with what each handler *)
(* remembers of the heap: PostOK, GetOK and OthersOK.                       *)
(*                                                                         *)
(* Then what GETs are given: chunks of the right segment (NoCrossTalk), all *)
(* of them in order unless the segment was reset (PrefixDelivery), no lost  *)
(* wake-up (ParkedIsCaughtUp), and a segment to wait on at the live edge    *)
(* (LiveEdgeServed).  The invariant is Delivered, on top of HandlerInv.  A  *)
(* step does one of four things to a segment (SegmentSteps), and the steps  *)
(* that are not the GET's own touch its position and its data in no way, so *)
(* one lemma serves them all (OthersDeliver).                               *)
(*                                                                         *)
(* Last that a segment is whole before its end (WholeSegment), from Whole   *)
(* on top of both: who may end a segment, and what a GET that saw the end   *)
(* has read.                                                                *)
(***************************************************************************)
EXTENDS StreamHandlers, StreamProofs

-----------------------------------------------------------------------------
(* The handlers.                                                            *)

PostType(n) ==
  [pc : {"idle", "located", "arming", "waiting", "numbered", "streaming", "finishing", "done"},
   seq : PostSeqs \cup {0}, seg : 0 .. n, closeCh : Nat \cup {NoChannel},
   sent : 0 .. MaxChunks, resp : {"none", "200", "500", "terminated"}]

GetType ==
  [pc : {"idle", "located", "attached", "sending", "empty", "done"},
   seq : GetSeqs \cup {0}, data : Seq(Data), eof : BOOLEAN, got : Seq(Data),
   resp : {"none", "200", "470", "terminated", "gone"}]

(* A POST has a segment from getForWrite on, and it is the one it asked for. *)
PostOK ==
  /\ post \in [Writers -> PostType(Len(heap))]
  /\ \A w \in Writers :
       /\ post[w].pc \in {"idle", "located"} <=> post[w].seg = Nil
       /\ post[w].pc = "numbered" => 1 <= MaxChunks
       /\ post[w].seg # Nil => post[w].seq \in {-1, heap[post[w].seg].idx}

(* Likewise a GET, or it was answered without one.                          *)
GetOK ==
  /\ get \in [Readers -> GetType]
  /\ \A g \in Readers :
       /\ get[g].pc \in {"idle", "located"} => sub[g].seg = Nil
       /\ sub[g].seg = Nil =>
            get[g].pc \in {"idle", "located", "done"} /\ get[g].got = << >> /\ get[g].data = << >>
       /\ sub[g].seg # Nil /\ get[g].seq \in Nat => heap[sub[g].seg].idx = get[g].seq
       /\ Len(get[g].data) <= sub[g].readPos
       /\ precreating[g] # NotHeld =>
            get[g].pc = "located" /\ (get[g].seq \in Nat => precreating[g] = get[g].seq)

OthersOK ==
  /\ listed \in BOOLEAN
  /\ deleting \in [Deleters -> [pc : {"idle", "holding", "done"}, seg : 0 .. Len(heap)]]
  /\ \A x \in Deleters : deleting[x].pc = "holding" => deleting[x].seg # Nil
  /\ closing \in [Closers -> {"idle", "located", "closed", "done"}]

HandlerInv == RingOK /\ PostOK /\ GetOK /\ OthersOK

(* The POSTs are not disturbed by a step that leaves post alone.            *)
LEMMA PostKept ==
  ASSUME HandlerInv, Grows, UNCHANGED post
  PROVE  PostOK'
  <1>1. Len(heap) \in Nat /\ Len(heap') \in Nat /\ Len(heap) <= Len(heap')
    BY HeapFacts DEF HandlerInv, RingOK, StreamTypeOK, Grows
  <1>2. 0 .. Len(heap) \subseteq 0 .. Len(heap')
    BY <1>1
  <1>3. post' \in [Writers -> PostType(Len(heap'))]
    BY <1>2 DEF HandlerInv, PostOK, PostType
  <1>4. \A w \in Writers : post[w].seg # Nil =>
          post[w].seg \in DOMAIN heap /\ heap'[post[w].seg].idx = heap[post[w].seg].idx
    BY HeapFacts DEF HandlerInv, RingOK, StreamTypeOK, PostOK, PostType, Grows, Nil
  <1> QED BY <1>3, <1>4 DEF HandlerInv, PostOK

(* What a step that serves no GET may do to the subscribers: wake them.     *)
Undisturbed ==
  \A g \in Readers : sub'[g].seg = sub[g].seg /\ sub'[g].readPos = sub[g].readPos

(* A broadcast wakes subscribers, it does not move them.                    *)
LEMMA BroadcastUndisturbed ==
  ASSUME NEW S, Broadcast(S), StreamTypeOK
  PROVE  Undisturbed
  BY HandlersAssumption DEF Broadcast, Undisturbed, StreamTypeOK, SegmentTypeOK

(* Nor are the GETs by a step that leaves get and positions alone.          *)
LEMMA GetKept ==
  ASSUME HandlerInv, Grows, Undisturbed, UNCHANGED <<get, precreating>>
  PROVE  GetOK'
  <1>1. \A g \in Readers : sub[g].seg # Nil =>
          sub[g].seg \in DOMAIN heap /\ heap'[sub[g].seg].idx = heap[sub[g].seg].idx
    BY HeapFacts, HandlersAssumption DEF HandlerInv, RingOK, StreamTypeOK, SegmentTypeOK, Grows, Nil
  <1> QED BY <1>1 DEF HandlerInv, GetOK, Undisturbed

(* Nor are DELETEs and closes.                                              *)
LEMMA OthersKept ==
  ASSUME HandlerInv, Grows, UNCHANGED <<listed, deleting, closing>>
  PROVE  OthersOK'
  <1>1. Len(heap) \in Nat /\ Len(heap') \in Nat /\ Len(heap) <= Len(heap')
    BY HeapFacts DEF HandlerInv, RingOK, StreamTypeOK, Grows
  <1>2. 0 .. Len(heap) \subseteq 0 .. Len(heap')
    BY <1>1
  <1> QED BY <1>2 DEF HandlerInv, OthersOK

(* A step that leaves the heap alone.                                       *)
LEMMA HeapUnchanged ==
  ASSUME HandlerInv, UNCHANGED <<heap, shut>>
  PROVE  /\ Grows /\ Len(heap') = Len(heap)
         /\ UNCHANGED <<sub, streamVars>> => RingOK'
  <1>1. Grows /\ Len(heap') = Len(heap)
    BY HeapFacts DEF HandlerInv, RingOK, StreamTypeOK, Grows
  <1> QED BY <1>1 DEF streamVars, HandlerInv, RingOK, StreamTypeOK, SegmentTypeOK, ChannelAgree, RingAligned

(* A step of POST w that changes its record only, in a way that keeps its   *)
(* type and its segment.                                                    *)
LEMMA PostMoves ==
  ASSUME HandlerInv, Grows, NEW w \in Writers, NEW r,
         post' = [post EXCEPT ![w] = r], r \in PostType(Len(heap)),
         r.seg = post[w].seg, r.seq = post[w].seq,
         r.pc \in {"idle", "located"} <=> post[w].pc \in {"idle", "located"},
         r.pc = "numbered" => 1 <= MaxChunks
  PROVE  PostOK'
  <1>1. Len(heap) \in Nat /\ Len(heap') \in Nat /\ Len(heap) <= Len(heap')
    BY HeapFacts DEF HandlerInv, RingOK, StreamTypeOK, Grows
  <1>2. PostType(Len(heap)) \subseteq PostType(Len(heap'))
    BY <1>1 DEF PostType
  <1>3. post' \in [Writers -> PostType(Len(heap'))]
    BY <1>2 DEF HandlerInv, PostOK
  <1>4. \A v \in Writers : post'[v].seg = post[v].seg /\ post'[v].seq = post[v].seq
    BY DEF HandlerInv, PostOK
  <1>5. \A v \in Writers : post'[v].pc \in {"idle", "located"} <=> post[v].pc \in {"idle", "located"}
    BY DEF HandlerInv, PostOK
  <1>a. \A v \in Writers : post'[v].pc = "numbered" => 1 <= MaxChunks
    BY DEF HandlerInv, PostOK
  <1>6. \A v \in Writers : post[v].seg # Nil =>
          post[v].seg \in DOMAIN heap /\ heap'[post[v].seg].idx = heap[post[v].seg].idx
    BY HeapFacts DEF HandlerInv, RingOK, StreamTypeOK, PostOK, PostType, Grows, Nil
  <1> QED BY <1>3, <1>4, <1>5, <1>6, <1>a DEF HandlerInv, PostOK

(* The segment number a POST or a GET resolves to is a natural number.      *)
LEMMA SeqNumbers ==
  ASSUME HandlerInv
  PROVE  /\ \A w \in Writers : post[w].seq \in Nat \cup {-1} /\ ForWrite(post[w].seq) \in Nat
         /\ \A g \in Readers : get[g].seq \in Nat \cup {-1, -2} /\ ForRead(get[g].seq) \in Nat
         /\ \A g \in Readers : get[g].seq \in Nat => ForRead(get[g].seq) = get[g].seq
  <1>1. \A w \in Writers : post[w].seq \in Nat \cup {-1}
    <2>1. \A w \in Writers : post[w].seq \in PostSeqs \cup {0}
      BY DEF HandlerInv, PostOK, PostType
    <2>2. PostSeqs \subseteq Nat \cup {-1}
      BY HandlersAssumption
    <2>3. 0 \in Nat \cup {-1}
      OBVIOUS
    <2> QED BY <2>1, <2>2, <2>3, Zenon
  <1>2. \A g \in Readers : get[g].seq \in Nat \cup {-1, -2}
    <2>1. \A g \in Readers : get[g].seq \in GetSeqs \cup {0}
      BY DEF HandlerInv, GetOK, GetType
    <2>2. GetSeqs \subseteq Nat \cup {-1, -2}
      BY HandlersAssumption
    <2>3. 0 \in Nat \cup {-1, -2}
      OBVIOUS
    <2> QED BY <2>1, <2>2, <2>3, Zenon
  <1>3. nextWrite \in Nat
    BY DEF HandlerInv, RingOK, StreamTypeOK
  <1> QED BY <1>1, <1>2, <1>3 DEF ForWrite, ForRead

(* The segment of a POST past getForWrite.                                  *)
LEMMA PostSegment ==
  ASSUME HandlerInv, NEW w \in Writers, post[w].pc \notin {"idle", "located"}
  PROVE  post[w].seg \in DOMAIN heap /\ post[w] \in PostType(Len(heap))
  <1>1. Len(heap) \in Nat /\ DOMAIN heap = 1 .. Len(heap)
    BY HeapFacts DEF HandlerInv, RingOK, StreamTypeOK
  <1>2. post[w].seg \in 0 .. Len(heap) /\ post[w].seg # 0 /\ post[w] \in PostType(Len(heap))
    BY DEF HandlerInv, PostOK, PostType, Nil
  <1> QED BY <1>1, <1>2

(* Every step of a POST keeps the invariant.                                *)
LEMMA PostStepInv ==
  ASSUME HandlerInv, NEW w \in Writers, PostClient(w) \/ PostServer(w)
  PROVE  HandlerInv' /\ Grows
  <1>0. post[w] \in PostType(Len(heap)) /\ Len(heap) \in Nat
    BY HeapFacts DEF HandlerInv, RingOK, StreamTypeOK, PostOK
  <1>a. ASSUME UNCHANGED <<segmentVars, streamVars, listed, get, deleting, closing>>, PostOK'
        PROVE  HandlerInv' /\ Grows
    <2>1. RingOK' /\ Grows
      BY <1>a, HeapUnchanged DEF segmentVars
    <2>2. Undisturbed
      BY <1>a DEF segmentVars, Undisturbed
    <2>3. GetOK' /\ OthersOK'
      BY <1>a, <2>1, <2>2, GetKept, OthersKept DEF streamVars
    <2> QED BY <1>a, <2>1, <2>3 DEF HandlerInv
  <1>b. ASSUME NEW r, post' = [post EXCEPT ![w] = r], r \in PostType(Len(heap)),
               r.seg = post[w].seg, r.seq = post[w].seq,
               r.pc \in {"idle", "located"} <=> post[w].pc \in {"idle", "located"}, r.pc # "numbered",
               UNCHANGED <<segmentVars, streamVars, listed, get, deleting, closing>>
        PROVE  HandlerInv' /\ Grows
    BY <1>a, <1>b, PostMoves, HeapUnchanged DEF segmentVars
  <1>1. CASE PostLookup(w)
    <2>1. PICK seq \in PostSeqs : post' = [post EXCEPT ![w].pc = "located", ![w].seq = seq]
      BY <1>1 DEF PostLookup
    <2>2. post[w].pc = "idle" /\ post[w].seg = Nil /\ UNCHANGED heap
      BY <1>1 DEF PostLookup, HandlerInv, PostOK, segmentVars
    <2>3. post' \in [Writers -> PostType(Len(heap))]
      <3>1. [post[w] EXCEPT !.pc = "located", !.seq = seq] \in PostType(Len(heap))
        BY <1>0 DEF PostType
      <3>2. post' = [post EXCEPT ![w] = [post[w] EXCEPT !.pc = "located", !.seq = seq]]
        BY <2>1 DEF HandlerInv, PostOK
      <3> QED BY <3>1, <3>2 DEF HandlerInv, PostOK
    <2>4. \A v \in Writers \ {w} : post'[v] = post[v]
      BY <2>1 DEF HandlerInv, PostOK
    <2>5. post'[w].pc = "located" /\ post'[w].seg = Nil
      BY <2>1, <2>2, <1>0 DEF HandlerInv, PostOK, PostType
    <2>6. PostOK'
      BY <2>2, <2>3, <2>4, <2>5 DEF HandlerInv, PostOK
    <2> QED BY <1>1, <1>a, <2>6 DEF PostLookup
  <1>2. CASE PostGetForWrite(w)
    <2> DEFINE i == ForWrite(post[w].seq)
               s == WriteSegment(i)
    <2>1. i \in Nat /\ post[w].seq \in Nat \cup {-1} /\ (post[w].seq # -1 => i = post[w].seq)
      BY SeqNumbers DEF ForWrite
    <2>2. getForWrite(i) /\ post' = [post EXCEPT ![w].pc = "arming", ![w].seg = s]
      BY <1>2 DEF PostGetForWrite
    <2>3. RingOK' /\ Grows /\ s \in DOMAIN heap' /\ heap'[s].idx = i
      BY <2>1, <2>2, GetForWriteSafe DEF HandlerInv
    <2> HIDE DEF i, s
    <2>4. Len(heap') \in Nat /\ Len(heap) <= Len(heap') /\ s \in 1 .. Len(heap')
      BY <2>3, HeapFacts DEF Grows, RingOK, StreamTypeOK, SegmentTypeOK
    <2>5. PostType(Len(heap)) \subseteq PostType(Len(heap'))
      BY <2>4, <1>0 DEF PostType
    <2>6. [post[w] EXCEPT !.pc = "arming", !.seg = s] \in PostType(Len(heap'))
      <3>1. post[w] \in PostType(Len(heap'))
        BY <2>5, <1>0
      <3>2. s \in 0 .. Len(heap')
        BY <2>4
      <3> QED BY <3>1, <3>2 DEF PostType
    <2>7. post' = [post EXCEPT ![w] = [post[w] EXCEPT !.pc = "arming", !.seg = s]]
      BY <2>2 DEF HandlerInv, PostOK
    <2>8. post' \in [Writers -> PostType(Len(heap'))]
      BY <2>5, <2>6, <2>7 DEF HandlerInv, PostOK
    <2>9. \A v \in Writers \ {w} : post'[v] = post[v]
      BY <2>7 DEF HandlerInv, PostOK
    <2>10. /\ post'[w].pc = "arming" /\ post'[w].seg = s /\ post'[w].seq = post[w].seq
      BY <2>7, <1>0 DEF HandlerInv, PostOK, PostType
    <2>11. \A v \in Writers : post[v].seg # Nil =>
             post[v].seg \in DOMAIN heap /\ heap'[post[v].seg].idx = heap[post[v].seg].idx
      BY <2>3, HeapFacts DEF HandlerInv, RingOK, StreamTypeOK, PostOK, PostType, Grows, Nil
    <2>12. PostOK'
      BY <2>1, <2>3, <2>4, <2>8, <2>9, <2>10, <2>11 DEF HandlerInv, PostOK, Nil
    <2>13. Undisturbed
      <3>1. CASE UNCHANGED sub
        BY <3>1 DEF Undisturbed
      <3>2. CASE \E S : Broadcast(S)
        BY <3>2, BroadcastUndisturbed DEF HandlerInv, RingOK
      <3> QED BY <2>2, <3>1, <3>2 DEF getForWrite, Reuse, Replace, reset, segmentVars
    <2>14. GetOK' /\ OthersOK'
      BY <1>2, <2>2, <2>3, <2>13, GetKept, OthersKept DEF PostGetForWrite, getForWrite
    <2> QED BY <2>3, <2>12, <2>14 DEF HandlerInv
  <1>3. CASE PostArm(w)
    <2>1. post[w].seg \in DOMAIN heap
      BY <1>3, PostSegment DEF PostArm
    <2>2. heap[post[w].seg].closeCh \in Nat
      BY <2>1, HeapFacts DEF HandlerInv, RingOK, StreamTypeOK
    <2> DEFINE r == [post[w] EXCEPT !.pc = "waiting", !.closeCh = heap[post[w].seg].closeCh]
    <2>3. r \in PostType(Len(heap)) /\ r.seg = post[w].seg /\ r.seq = post[w].seq /\ r.pc = "waiting"
      BY <1>0, <2>2 DEF PostType
    <2>4. post' = [post EXCEPT ![w] = r] /\ post[w].pc = "arming"
      BY <1>3 DEF PostArm
    <2> HIDE DEF r
    <2> QED BY <1>3, <1>b, <2>3, <2>4 DEF PostArm
  <1>4. CASE PostFirstByte(w)
    <2> DEFINE r == [post[w] EXCEPT !.pc = "numbered", !.sent = 1]
    <2>1. r \in PostType(Len(heap)) /\ r.seg = post[w].seg /\ r.seq = post[w].seq /\ r.pc = "numbered"
      <3>1. 1 \in 0 .. MaxChunks
        BY <1>4, HandlersAssumption DEF PostFirstByte
      <3> QED BY <3>1, <1>0 DEF PostType
    <2>2. post' = [post EXCEPT ![w] = r] /\ post[w].pc = "waiting"
      BY <1>4 DEF PostFirstByte
    <2> HIDE DEF r
    <2>9. 1 <= MaxChunks
      BY <1>4, HandlersAssumption DEF PostFirstByte
    <2>3. Grows
      BY <1>4, HeapUnchanged DEF PostFirstByte, segmentVars
    <2>4. PostOK'
      BY <2>1, <2>2, <2>3, <2>9, PostMoves
    <2>5. nextWrite' \in Nat
      BY <1>4, SeqNumbers DEF PostFirstByte
    <2>6. RingOK'
      BY <1>4, <2>5 DEF PostFirstByte, segmentVars, HandlerInv, RingOK, StreamTypeOK, SegmentTypeOK,
                        ChannelAgree, RingAligned
    <2>7. Undisturbed
      BY <1>4 DEF PostFirstByte, segmentVars, Undisturbed
    <2>8. GetOK' /\ OthersOK'
      BY <1>4, <2>3, <2>7, GetKept, OthersKept DEF PostFirstByte
    <2> QED BY <2>3, <2>4, <2>6, <2>8 DEF HandlerInv
  <1>c. ASSUME NEW d \in Data, writeData(post[w].seg, d), post[w].pc \notin {"idle", "located"},
               NEW r, post' = [post EXCEPT ![w] = r], r \in PostType(Len(heap)),
               r.seg = post[w].seg, r.seq = post[w].seq, r.pc = "streaming",
               UNCHANGED <<streamVars, listed, get, deleting, closing>>
        PROVE  HandlerInv' /\ Grows
    <2>1. post[w].seg \in DOMAIN heap
      BY <1>c, PostSegment
    <2>2. SegInv' /\ Grows
      BY <1>c, <2>1, WriteDataSafe DEF HandlerInv, RingOK, StreamTypeOK, SegInv
    <2>3. RingOK'
      BY <1>c, <2>2, RingKept DEF HandlerInv, RingOK, StreamTypeOK, SegInv, streamVars
    <2>4. PostOK'
      BY <1>c, <2>2, PostMoves
    <2>5. Undisturbed
      BY <1>c, BroadcastUndisturbed DEF writeData, HandlerInv, RingOK
    <2>6. GetOK' /\ OthersOK'
      BY <1>c, <2>2, <2>5, GetKept, OthersKept DEF streamVars
    <2> QED BY <2>2, <2>3, <2>4, <2>6 DEF HandlerInv
  <1>5. CASE PostWriteFirst(w)
    <2> DEFINE r == [post[w] EXCEPT !.pc = "streaming"]
    <2>1. r \in PostType(Len(heap)) /\ r.seg = post[w].seg /\ r.seq = post[w].seq /\ r.pc = "streaming"
      BY <1>0 DEF PostType
    <2>2. post' = [post EXCEPT ![w] = r] /\ post[w].pc = "numbered"
      BY <1>5 DEF PostWriteFirst
    <2> HIDE DEF r
    <2>3. <<w, 1>> \in Data
      BY <1>5, HandlersAssumption DEF PostWriteFirst, HandlerInv, PostOK
    <2> QED BY <1>5, <1>c, <2>1, <2>2, <2>3 DEF PostWriteFirst
  <1>6. CASE PostMore(w)
    <2> DEFINE r == [post[w] EXCEPT !.sent = @ + 1]
    <2>1. /\ r \in PostType(Len(heap)) /\ r.seg = post[w].seg /\ r.seq = post[w].seq
          /\ r.pc = "streaming" /\ post[w].sent + 1 \in 1 .. MaxChunks
      BY <1>6, <1>0, HandlersAssumption DEF PostMore, PostType
    <2>2. post' = [post EXCEPT ![w] = r] /\ post[w].pc = "streaming"
      BY <1>6 DEF PostMore
    <2>3. <<w, post[w].sent + 1>> \in Data
      BY <2>1, HandlersAssumption
    <2> HIDE DEF r
    <2> QED BY <1>6, <1>c, <2>1, <2>2, <2>3 DEF PostMore
  <1>7. CASE PostBodyEnd(w)
    <2> DEFINE r == [post[w] EXCEPT !.pc = "finishing", !.resp = "200"]
    <2>1. r \in PostType(Len(heap)) /\ r.seg = post[w].seg /\ r.seq = post[w].seq /\ r.pc = "finishing"
      BY <1>0 DEF PostType
    <2>2. post' = [post EXCEPT ![w] = r] /\ post[w].pc = "streaming"
      BY <1>7 DEF PostBodyEnd
    <2> HIDE DEF r
    <2> QED BY <1>7, <1>b, <2>1, <2>2 DEF PostBodyEnd
  <1>8. CASE EmptyPost(w)
    <2> DEFINE r == [post[w] EXCEPT !.pc = "finishing", !.resp = IF closed THEN "terminated" ELSE "200"]
    <2>1. r \in PostType(Len(heap)) /\ r.seg = post[w].seg /\ r.seq = post[w].seq /\ r.pc = "finishing"
      BY <1>0 DEF PostType
    <2>2. post' = [post EXCEPT ![w] = r] /\ post[w].pc = "waiting"
      BY <1>8 DEF EmptyPost
    <2> HIDE DEF r
    <2> QED BY <1>8, <1>b, <2>1, <2>2 DEF EmptyPost
  <1>9. CASE PostError(w)
    <2> DEFINE r == [post[w] EXCEPT !.pc = "done", !.resp = "500"]
    <2>1. r \in PostType(Len(heap)) /\ r.seg = post[w].seg /\ r.seq = post[w].seq /\ r.pc = "done"
      BY <1>0 DEF PostType
    <2>2. post' = [post EXCEPT ![w] = r] /\ post[w].pc \in {"waiting", "streaming"}
      BY <1>9 DEF PostError
    <2> HIDE DEF r
    <2> QED BY <1>9, <1>b, <2>1, <2>2 DEF PostError
  <1>10. CASE PostClose(w)
    <2> DEFINE r == [post[w] EXCEPT !.pc = "done"]
    <2>1. r \in PostType(Len(heap)) /\ r.seg = post[w].seg /\ r.seq = post[w].seq /\ r.pc = "done"
      BY <1>0 DEF PostType
    <2>2. /\ post' = [post EXCEPT ![w] = r] /\ post[w].pc = "finishing" /\ close({post[w].seg})
          /\ UNCHANGED <<streamVars, listed, get, deleting, closing>>
      BY <1>10 DEF PostClose
    <2> HIDE DEF r
    <2>3. SegInv' /\ Grows
      BY <2>2, CloseSafe DEF HandlerInv, RingOK, StreamTypeOK, SegInv
    <2>4. RingOK'
      BY <2>2, <2>3, RingKept DEF HandlerInv, RingOK, StreamTypeOK, SegInv, streamVars
    <2>5. PostOK'
      BY <2>1, <2>2, <2>3, PostMoves
    <2>6. Undisturbed
      BY <2>2, BroadcastUndisturbed DEF close, HandlerInv, RingOK
    <2>7. GetOK' /\ OthersOK'
      BY <2>2, <2>3, <2>6, GetKept, OthersKept DEF streamVars
    <2> QED BY <2>3, <2>4, <2>5, <2>7 DEF HandlerInv
  <1> QED BY <1>1, <1>2, <1>3, <1>4, <1>5, <1>6, <1>7, <1>8, <1>9, <1>10
          DEF PostClient, PostServer, PostEmptyBody, PostKicked

(* A GET serves itself: it leaves the segments, the ring and the other      *)
(* handlers alone.                                                          *)
SubType(n) == [seg : 0 .. n, readPos : Nat, parked : BOOLEAN]

(* A GET's own step: only GetOK is left to show.                            *)
LEMMA GetAlone ==
  ASSUME HandlerInv, UNCHANGED <<heap, shut, segments, nextWrite, closed, listed, post, deleting, closing>>,
         sub' \in [Readers -> SubType(Len(heap))], precreating' \in [Readers -> Nat \cup {NotHeld}],
         GetOK'
  PROVE  HandlerInv' /\ Grows
  <1>1. Grows /\ Len(heap') = Len(heap)
    BY HeapUnchanged
  <1>2. RingOK'
    BY HandlersAssumption
       DEF HandlerInv, RingOK, StreamTypeOK, SegmentTypeOK, ChannelAgree, RingAligned, SubType
  <1>3. PostOK' /\ OthersOK'
    BY <1>1, PostKept, OthersKept
  <1> QED BY <1>1, <1>2, <1>3 DEF HandlerInv

(* A step of GET g between attaching and its end.                           *)
LEMMA GetMoves ==
  ASSUME HandlerInv, NEW g \in Readers, NEW r \in GetType, NEW q \in SubType(Len(heap)),
         UNCHANGED <<heap, shut, streamVars, listed, post, deleting, closing>>,
         get' = [get EXCEPT ![g] = r], sub' = [sub EXCEPT ![g] = q],
         q.seg = sub[g].seg, r.seq = get[g].seq, r.pc \notin {"idle", "located"},
         sub[g].seg = Nil => r.pc = "done" /\ r.got = << >> /\ r.data = << >>,
         Len(r.data) <= q.readPos, precreating[g] = NotHeld
  PROVE  HandlerInv' /\ Grows
  <1>1. sub \in [Readers -> SubType(Len(heap))] /\ precreating \in [Readers -> Nat \cup {NotHeld}]
    BY HandlersAssumption DEF HandlerInv, RingOK, StreamTypeOK, SegmentTypeOK, SubType
  <1>2. sub' \in [Readers -> SubType(Len(heap))] /\ precreating' = precreating
    BY <1>1 DEF streamVars
  <1>3. get \in [Readers -> GetType] /\ get' \in [Readers -> GetType]
    BY DEF HandlerInv, GetOK
  <1>4. \A h \in Readers \ {g} : get'[h] = get[h] /\ sub'[h] = sub[h]
    BY <1>1, <1>3
  <1>5. get'[g] = r /\ sub'[g] = q
    BY <1>1, <1>3
  <1>6. GetOK'
    BY <1>2, <1>3, <1>4, <1>5 DEF HandlerInv, GetOK
  <1> QED BY <1>1, <1>2, <1>6, GetAlone DEF streamVars

(* The segment a GET is attached to.                                        *)
LEMMA GetSegment ==
  ASSUME HandlerInv, NEW g \in Readers
  PROVE  /\ get[g] \in GetType /\ sub[g] \in SubType(Len(heap)) /\ Len(heap) \in Nat
         /\ get[g].pc \notin {"idle", "located", "done"} => sub[g].seg \in DOMAIN heap /\ sub[g].seg # Nil
         /\ get[g].pc # "located" => precreating[g] = NotHeld
  <1>1. Len(heap) \in Nat /\ DOMAIN heap = 1 .. Len(heap)
    BY HeapFacts DEF HandlerInv, RingOK, StreamTypeOK
  <1>2. get[g] \in GetType /\ sub[g] \in SubType(Len(heap))
    BY HandlersAssumption DEF HandlerInv, GetOK, RingOK, StreamTypeOK, SegmentTypeOK, SubType
  <1>3. get[g].pc \notin {"idle", "located", "done"} => sub[g].seg # Nil
    BY DEF HandlerInv, GetOK
  <1>4. sub[g].seg \in 0 .. Len(heap)
    BY <1>2 DEF SubType
  <1>5. get[g].pc # "located" => precreating[g] = NotHeld
    BY DEF HandlerInv, GetOK
  <1> QED BY <1>1, <1>2, <1>3, <1>4, <1>5 DEF Nil

(* What is sent, read just now or overwritten since, was written by POSTs.  *)
LEMMA SentIsData ==
  ASSUME HandlerInv, NEW g \in Readers, get[g].pc = "sending", NEW torn \in SUBSET Overwritten(g)
  PROVE  get[g].got \o [p \in 1 .. Len(get[g].data) |->
                          IF p \in torn THEN SegmentOf(g).buffer[SentFrom(g) + p]
                                        ELSE get[g].data[p]] \in Seq(Data)
  <1>1. sub[g].seg \in DOMAIN heap /\ get[g] \in GetType /\ sub[g] \in SubType(Len(heap))
    BY GetSegment
  <1>2. get[g].data \in Seq(Data) /\ get[g].got \in Seq(Data) /\ sub[g].readPos \in Nat
    BY <1>1 DEF GetType, SubType
  <1>3. SegmentOf(g).buffer \in Seq(Data)
    BY <1>1, HeapFacts DEF SegmentOf, HandlerInv, RingOK, StreamTypeOK
  <1>4. Len(get[g].data) \in Nat /\ Len(get[g].data) <= sub[g].readPos
    BY <1>2 DEF HandlerInv, GetOK
  <1>5. SentFrom(g) \in Nat
    BY <1>2, <1>4 DEF SentFrom
  <1>6. \A p \in torn : SegmentOf(g).buffer[SentFrom(g) + p] \in Data
    <2> SUFFICES ASSUME NEW p \in torn
                 PROVE  SegmentOf(g).buffer[SentFrom(g) + p] \in Data
      OBVIOUS
    <2>1. p \in 1 .. Len(get[g].data) /\ SentFrom(g) + p <= Len(SegmentOf(g).buffer)
      BY DEF Overwritten
    <2>2. SentFrom(g) + p \in 1 .. Len(SegmentOf(g).buffer)
      BY <2>1, <1>4, <1>5, <1>3
    <2> HIDE DEF SentFrom, SegmentOf
    <2> QED BY <2>2, <1>3
  <1> DEFINE f == [p \in 1 .. Len(get[g].data) |->
                     IF p \in torn THEN SegmentOf(g).buffer[SentFrom(g) + p] ELSE get[g].data[p]]
  <1>7. f \in [1 .. Len(get[g].data) -> Data]
    BY <1>2, <1>6
  <1>8. f \in Seq(Data)
    BY <1>4, <1>7, FunctionIsSeq
  <1> HIDE DEF f
  <1>9. get[g].got \o f \in Seq(Data)
    BY <1>2, <1>8, ConcatProperties
  <1> QED BY <1>9 DEF f

(* Every step of a GET keeps the invariant.                                 *)
LEMMA GetStepInv ==
  ASSUME HandlerInv, NEW g \in Readers, GetClient(g) \/ GetServer(g)
  PROVE  HandlerInv' /\ Grows
  <1>0. /\ get[g] \in GetType /\ sub[g] \in SubType(Len(heap)) /\ Len(heap) \in Nat
        /\ get \in [Readers -> GetType] /\ sub \in [Readers -> SubType(Len(heap))]
        /\ precreating \in [Readers -> Nat \cup {NotHeld}]
    BY GetSegment, HandlersAssumption DEF HandlerInv, GetOK, RingOK, StreamTypeOK, SegmentTypeOK, SubType
  <1>m. UNCHANGED sub => sub' = [sub EXCEPT ![g] = sub[g]]
    BY <1>0
  <1>1. CASE GetLookup(g)
    <2>1. PICK seq \in GetSeqs : get' = [get EXCEPT ![g].pc = "located", ![g].seq = seq]
      BY <1>1 DEF GetLookup
    <2> DEFINE r == [get[g] EXCEPT !.pc = "located", !.seq = seq]
    <2>2. r \in GetType /\ r.pc = "located" /\ r.got = get[g].got /\ r.data = get[g].data
      BY <1>0 DEF GetType
    <2>3. get' = [get EXCEPT ![g] = r] /\ get[g].pc = "idle"
      BY <1>1, <2>1 DEF GetLookup
    <2> HIDE DEF r
    <2>4. sub[g].seg = Nil /\ precreating[g] = NotHeld
      BY <2>3 DEF HandlerInv, GetOK
    <2>5. get' \in [Readers -> GetType] /\ get'[g] = r /\ \A h \in Readers \ {g} : get'[h] = get[h]
      BY <2>2, <2>3, <1>0
    <2>6. UNCHANGED <<heap, sub, precreating>>
      BY <1>1 DEF GetLookup, segmentVars, streamVars
    <2>7. GetOK'
      BY <2>2, <2>4, <2>5, <2>6 DEF HandlerInv, GetOK
    <2> QED BY <1>0, <1>1, <2>6, <2>7, GetAlone DEF GetLookup, segmentVars, streamVars
  <1>2. CASE GetFound(g)
    <2> DEFINE i == ForRead(get[g].seq)
               r == [get[g] EXCEPT !.pc = "attached"]
               q == [seg |-> Slot(i), readPos |-> 0, parked |-> FALSE]
    <2>1. /\ r \in GetType /\ r.pc = "attached" /\ r.seq = get[g].seq
          /\ r.got = get[g].got /\ r.data = get[g].data
      BY <1>0 DEF GetType
    <2>2. /\ get' = [get EXCEPT ![g] = r] /\ get[g].pc = "located" /\ precreating[g] = NotHeld
          /\ exists(Slot(i), i) /\ sub' = [sub EXCEPT ![g] = q]
      BY <1>2 DEF GetFound, Found, Subscribe
    <2>3. i \in Nat /\ (get[g].seq \in Nat => i = get[g].seq)
      BY SeqNumbers
    <2>4. Slot(i) \in DOMAIN heap /\ heap[Slot(i)].idx = i /\ Slot(i) # Nil
      BY <2>2, <2>3, ExistsIsSegment DEF HandlerInv, exists
    <2>5. Slot(i) \in 0 .. Len(heap)
      BY <2>4, HeapFacts, <1>0 DEF HandlerInv, RingOK, StreamTypeOK
    <2>6. q \in SubType(Len(heap)) /\ q.seg = Slot(i) /\ q.readPos = 0
      BY <2>5 DEF SubType
    <2>7. sub[g].seg = Nil
      BY <2>2 DEF HandlerInv, GetOK
    <2>8. Len(get[g].data) <= 0
      BY <2>7 DEF HandlerInv, GetOK
    <2> HIDE DEF i, r, q
    <2>9. /\ get' \in [Readers -> GetType] /\ get'[g] = r /\ \A h \in Readers \ {g} : get'[h] = get[h]
          /\ sub' \in [Readers -> SubType(Len(heap))]
          /\ sub'[g] = q /\ \A h \in Readers \ {g} : sub'[h] = sub[h]
      BY <2>1, <2>2, <2>6, <1>0
    <2>10. UNCHANGED <<heap, precreating>>
      BY <1>2 DEF GetFound, streamVars
    <2>11. GetOK'
      BY <2>1, <2>2, <2>3, <2>4, <2>6, <2>8, <2>9, <2>10 DEF HandlerInv, GetOK
    <2> QED BY <1>0, <1>2, <2>9, <2>10, <2>11, GetAlone DEF GetFound, streamVars
  <1>3. CASE GetAhead(g)
    <2> DEFINE i == ForRead(get[g].seq)
    <2>1. i \in Nat /\ (get[g].seq \in Nat => i = get[g].seq)
      BY SeqNumbers
    <2>2. /\ get[g].pc = "located" /\ precreating' = [precreating EXCEPT ![g] = i]
          /\ UNCHANGED <<heap, shut, sub, segments, nextWrite, closed, listed, post, get, deleting, closing>>
      BY <1>3 DEF GetAhead, StartPrecreate, segmentVars, handlerVars
    <2> HIDE DEF i
    <2>3. precreating' \in [Readers -> Nat \cup {NotHeld}]
      BY <1>0, <2>1, <2>2
    <2>4. precreating'[g] = i /\ \A h \in Readers \ {g} : precreating'[h] = precreating[h]
      BY <1>0, <2>2
    <2>5. GetOK'
      BY <2>1, <2>2, <2>3, <2>4 DEF HandlerInv, GetOK
    <2> QED BY <1>0, <2>2, <2>3, <2>5, GetAlone
  <1>4. CASE GetPrecreate(g)
    <2> DEFINE r == [get[g] EXCEPT !.pc = "attached"]
               q == [seg |-> Len(heap) + 1, readPos |-> 0, parked |-> FALSE]
    <2>1. /\ r \in GetType /\ r.pc = "attached" /\ r.seq = get[g].seq
          /\ r.got = get[g].got /\ r.data = get[g].data
      BY <1>0 DEF GetType
    <2>2. /\ get' = [get EXCEPT ![g] = r] /\ get[g].pc = "located"
          /\ Precreate(g) /\ precreating[g] # NotHeld
          /\ sub' = [sub EXCEPT ![g] = q] /\ precreating' = [precreating EXCEPT ![g] = NotHeld]
          /\ UNCHANGED <<listed, post, deleting, closing>>
      BY <1>4 DEF GetPrecreate, Precreate, Subscribe
    <2>3. /\ RingOK' /\ Grows /\ Len(heap) + 1 \in DOMAIN heap'
          /\ heap'[Len(heap) + 1] = newSegment(precreating[g])
      BY <2>2, PrecreateSafe, HandlersAssumption DEF HandlerInv
    <2>4. heap'[Len(heap) + 1].idx = precreating[g]
      BY <2>3 DEF newSegment
    <2>5. q.seg = Len(heap) + 1 /\ q.readPos = 0 /\ Len(heap) + 1 # Nil
      BY <1>0 DEF Nil
    <2>6. Len(get[g].data) <= 0
      BY <2>2 DEF HandlerInv, GetOK
    <2> HIDE DEF r, q
    <2>7. /\ get' \in [Readers -> GetType] /\ get'[g] = r /\ \A h \in Readers \ {g} : get'[h] = get[h]
          /\ sub'[g] = q /\ \A h \in Readers \ {g} : sub'[h] = sub[h]
          /\ precreating'[g] = NotHeld /\ \A h \in Readers \ {g} : precreating'[h] = precreating[h]
      BY <2>1, <2>2, <1>0
    <2>8. \A h \in Readers : sub[h].seg # Nil =>
            sub[h].seg \in DOMAIN heap /\ heap'[sub[h].seg].idx = heap[sub[h].seg].idx
      <3>1. DOMAIN heap = 1 .. Len(heap)
        BY HeapFacts DEF HandlerInv, RingOK, StreamTypeOK
      <3>2. \A h \in Readers : sub[h].seg \in 0 .. Len(heap)
        BY <1>0 DEF SubType
      <3>3. \A h \in Readers : sub[h].seg # Nil => sub[h].seg \in DOMAIN heap
        BY <3>1, <3>2, <1>0 DEF Nil
      <3> QED BY <2>3, <3>3 DEF Grows
    <2>9. get[g].seq \in Nat => precreating[g] = get[g].seq
      BY <2>2 DEF HandlerInv, GetOK
    <2>10. GetOK'
      BY <2>1, <2>4, <2>5, <2>6, <2>7, <2>8, <2>9 DEF HandlerInv, GetOK
    <2>11. PostOK' /\ OthersOK'
      BY <2>2, <2>3, PostKept, OthersKept
    <2> QED BY <2>3, <2>10, <2>11 DEF HandlerInv
  <1>5. CASE GetAbsent(g)
    <2> DEFINE r == [get[g] EXCEPT !.pc = "done", !.resp = IF closed THEN "terminated" ELSE "470"]
    <2>1. /\ r \in GetType /\ r.pc = "done" /\ r.seq = get[g].seq
          /\ r.got = get[g].got /\ r.data = get[g].data
      BY <1>0 DEF GetType
    <2>2. /\ get' = [get EXCEPT ![g] = r] /\ get[g].pc = "located" /\ precreating[g] = NotHeld
          /\ UNCHANGED <<heap, shut, sub, streamVars, listed, post, deleting, closing>>
      BY <1>5 DEF GetAbsent, segmentVars
    <2> HIDE DEF r
    <2>3. sub[g].seg = Nil /\ get[g].got = << >> /\ get[g].data = << >> /\ Len(get[g].data) <= sub[g].readPos
      BY <2>2 DEF HandlerInv, GetOK
    <2> QED BY <1>0, <1>m, <2>1, <2>2, <2>3, GetMoves
  <1>6. CASE GetReadData(g)
    <2> DEFINE r == [get[g] EXCEPT !.pc = "sending", !.data = Waiting(g), !.eof = SegmentOf(g).closed]
               q == [sub[g] EXCEPT !.readPos = @ + Len(Waiting(g))]
    <2>1. /\ get' = [get EXCEPT ![g] = r] /\ get[g].pc = "attached" /\ HasData(g)
          /\ sub' = [sub EXCEPT ![g] = q]
          /\ UNCHANGED <<heap, shut, streamVars, listed, post, deleting, closing>>
      BY <1>6 DEF GetReadData, Reads, Advance
    <2>2. sub[g].seg \in DOMAIN heap /\ sub[g].seg # Nil /\ precreating[g] = NotHeld
      BY <2>1, GetSegment
    <2>3. SegmentOf(g).buffer \in Seq(Data) /\ SegmentOf(g).closed \in BOOLEAN
      BY <2>2, HeapFacts DEF SegmentOf, HandlerInv, RingOK, StreamTypeOK
    <2>4. sub[g].readPos \in Nat /\ sub[g].readPos < Len(SegmentOf(g).buffer)
      BY <1>0, <2>1 DEF SubType, HasData
    <2>5. Waiting(g) \in Seq(Data) /\ Len(Waiting(g)) \in Nat
      BY <2>3, <2>4, WaitingIsUnread DEF Waiting
    <2> HIDE DEF Waiting, SegmentOf
    <2>6. r \in GetType /\ r.pc = "sending" /\ r.seq = get[g].seq /\ r.data = Waiting(g)
      BY <1>0, <2>3, <2>5 DEF GetType
    <2>7. sub[g].readPos + Len(Waiting(g)) \in Nat /\ Len(Waiting(g)) <= sub[g].readPos + Len(Waiting(g))
      BY <2>4, <2>5
    <2>8. /\ q \in SubType(Len(heap)) /\ q.seg = sub[g].seg
          /\ q.readPos = sub[g].readPos + Len(Waiting(g))
      BY <1>0, <2>7 DEF SubType
    <2> HIDE DEF r, q
    <2> QED BY <2>1, <2>2, <2>6, <2>7, <2>8, GetMoves
  <1>7. CASE GetReadEnd(g)
    <2> DEFINE r == [get[g] EXCEPT !.pc = IF get[g].got = << >> THEN "empty" ELSE "done",
                                   !.resp = IF get[g].got = << >> THEN "none" ELSE "200"]
    <2>1. /\ r \in GetType /\ r.pc \in {"empty", "done"} /\ r.seq = get[g].seq /\ r.data = get[g].data
      BY <1>0 DEF GetType
    <2>2. /\ get' = [get EXCEPT ![g] = r] /\ get[g].pc = "attached"
          /\ UNCHANGED <<heap, shut, sub, streamVars, listed, post, deleting, closing>>
      BY <1>7 DEF GetReadEnd, Reads, segmentVars
    <2> HIDE DEF r
    <2>3. sub[g].seg # Nil /\ precreating[g] = NotHeld
      BY <2>2, GetSegment
    <2>4. Len(get[g].data) <= sub[g].readPos
      BY DEF HandlerInv, GetOK
    <2> QED BY <1>0, <1>m, <2>1, <2>2, <2>3, <2>4, GetMoves
  <1>8. CASE GetWait(g)
    <2> DEFINE q == [sub[g] EXCEPT !.parked = TRUE]
    <2>1. q \in SubType(Len(heap)) /\ q.seg = sub[g].seg /\ q.readPos = sub[g].readPos
      BY <1>0 DEF SubType
    <2>2. /\ get' = get /\ get[g].pc = "attached" /\ sub' = [sub EXCEPT ![g] = q]
          /\ UNCHANGED <<heap, shut, streamVars, listed, post, deleting, closing>>
      BY <1>8 DEF GetWait, Reads, Park, handlerVars
    <2>3. get' = [get EXCEPT ![g] = get[g]]
      BY <1>0, <2>2
    <2> HIDE DEF q
    <2>4. sub[g].seg # Nil /\ precreating[g] = NotHeld
      BY <2>2, GetSegment
    <2>5. Len(get[g].data) <= sub[g].readPos
      BY DEF HandlerInv, GetOK
    <2> QED BY <1>0, <2>1, <2>2, <2>3, <2>4, <2>5, GetMoves
  <1>9. CASE GetSend(g)
    <2>1. PICK torn \in SUBSET Overwritten(g) :
            get' = [get EXCEPT
                      ![g].got = @ \o [p \in 1 .. Len(get[g].data) |->
                                         IF p \in torn THEN SegmentOf(g).buffer[SentFrom(g) + p]
                                                       ELSE get[g].data[p]],
                      ![g].data = << >>,
                      ![g].pc = IF get[g].eof THEN "done" ELSE "attached",
                      ![g].resp = IF get[g].eof THEN "200" ELSE "none"]
      BY <1>9 DEF GetSend
    <2> DEFINE sent == get[g].got \o [p \in 1 .. Len(get[g].data) |->
                                        IF p \in torn THEN SegmentOf(g).buffer[SentFrom(g) + p]
                                                      ELSE get[g].data[p]]
               r == [get[g] EXCEPT !.got = sent, !.data = << >>,
                                   !.pc = IF get[g].eof THEN "done" ELSE "attached",
                                   !.resp = IF get[g].eof THEN "200" ELSE "none"]
    <2>2. /\ get[g].pc = "sending"
          /\ UNCHANGED <<heap, shut, sub, streamVars, listed, post, deleting, closing>>
      BY <1>9 DEF GetSend, segmentVars
    <2>3. get' = [get EXCEPT ![g] = r]
      BY <2>1, <1>0
    <2>4. sent \in Seq(Data) /\ << >> \in Seq(Data)
      BY <2>2, SentIsData
    <2> HIDE DEF sent
    <2>5. r \in GetType /\ r.pc \in {"done", "attached"} /\ r.seq = get[g].seq /\ r.data = << >>
      BY <1>0, <2>4 DEF GetType
    <2>6. sub[g].seg # Nil /\ precreating[g] = NotHeld
      BY <2>2, GetSegment
    <2>7. Len(<< >>) <= sub[g].readPos
      BY <1>0 DEF SubType
    <2> HIDE DEF r
    <2> QED BY <1>0, <1>m, <2>2, <2>3, <2>5, <2>6, <2>7, GetMoves
  <1>10. CASE GetEmpty(g)
    <2> DEFINE r == [get[g] EXCEPT !.pc = "done", !.resp = IF closed THEN "terminated" ELSE "470"]
    <2>1. /\ r \in GetType /\ r.pc = "done" /\ r.seq = get[g].seq /\ r.data = get[g].data
      BY <1>0 DEF GetType
    <2>2. /\ get' = [get EXCEPT ![g] = r] /\ get[g].pc = "empty"
          /\ UNCHANGED <<heap, shut, sub, streamVars, listed, post, deleting, closing>>
      BY <1>10 DEF GetEmpty, segmentVars
    <2> HIDE DEF r
    <2>3. sub[g].seg # Nil /\ precreating[g] = NotHeld
      BY <2>2, GetSegment
    <2>4. Len(get[g].data) <= sub[g].readPos
      BY DEF HandlerInv, GetOK
    <2> QED BY <1>0, <1>m, <2>1, <2>2, <2>3, <2>4, GetMoves
  <1>11. CASE GetGone(g)
    <2> DEFINE r == [get[g] EXCEPT !.pc = "done", !.data = << >>, !.resp = "gone"]
    <2>1. r \in GetType /\ r.pc = "done" /\ r.seq = get[g].seq /\ r.data = << >>
      <3>1. << >> \in Seq(Data)
        OBVIOUS
      <3> QED BY <1>0, <3>1 DEF GetType
    <2>2. /\ get' = [get EXCEPT ![g] = r] /\ get[g].pc \in {"attached", "sending"}
          /\ UNCHANGED <<heap, shut, sub, streamVars, listed, post, deleting, closing>>
      BY <1>11 DEF GetGone, Reads, segmentVars
    <2> HIDE DEF r
    <2>3. sub[g].seg # Nil /\ precreating[g] = NotHeld
      BY <2>2, GetSegment
    <2>4. Len(<< >>) <= sub[g].readPos
      BY <1>0 DEF SubType
    <2> QED BY <1>0, <1>m, <2>1, <2>2, <2>3, <2>4, GetMoves
  <1> QED BY <1>1, <1>2, <1>3, <1>4, <1>5, <1>6, <1>7, <1>8, <1>9, <1>10, <1>11 DEF GetClient, GetServer

(* A step that closes segments for a DELETE.                                *)
LEMMA CloseKeeps ==
  ASSUME HandlerInv, NEW S, close(S), UNCHANGED <<streamVars, post, get>>
  PROVE  RingOK' /\ PostOK' /\ GetOK' /\ Grows
  <1>1. SegInv' /\ Grows
    BY CloseSafe DEF HandlerInv, RingOK, StreamTypeOK, SegInv
  <1>2. RingOK'
    BY <1>1, RingKept DEF HandlerInv, RingOK, StreamTypeOK, SegInv, streamVars
  <1>3. Undisturbed
    BY BroadcastUndisturbed DEF close, HandlerInv, RingOK
  <1> QED BY <1>1, <1>2, <1>3, PostKept, GetKept DEF streamVars

(* Every step of a DELETE of a seq keeps the invariant.                     *)
LEMMA DeletionInv ==
  ASSUME HandlerInv, NEW x \in Deleters, Deletion(x)
  PROVE  HandlerInv' /\ Grows
  <1>1. CASE DeleteFind(x)
    <2>1. PICK i \in PostSeqs \cap Nat :
            deleting' = [deleting EXCEPT ![x] =
                           IF exists(Slot(i), i) THEN [pc |-> "holding", seg |-> Slot(i)]
                                                 ELSE [pc |-> "done", seg |-> Nil]]
      BY <1>1 DEF DeleteFind
    <2>2. Len(heap) \in Nat /\ DOMAIN heap = 1 .. Len(heap)
      BY HeapFacts DEF HandlerInv, RingOK, StreamTypeOK
    <2>3. exists(Slot(i), i) => Slot(i) \in DOMAIN heap
      BY ExistsIsSegment DEF HandlerInv
    <2>4. UNCHANGED <<heap, shut, sub, streamVars, listed, post, get, closing>>
      BY <1>1 DEF DeleteFind, segmentVars
    <2> DEFINE d == IF exists(Slot(i), i) THEN [pc |-> "holding", seg |-> Slot(i)]
                                           ELSE [pc |-> "done", seg |-> Nil]
    <2>8. /\ d \in [pc : {"idle", "holding", "done"}, seg : 0 .. Len(heap)]
          /\ d.pc = "holding" => d.seg # Nil
      <3>1. 0 \in 0 .. Len(heap)
        BY <2>2
      <3>2. CASE exists(Slot(i), i)
        <4>1. Slot(i) \in 0 .. Len(heap) /\ Slot(i) # 0
          BY <3>2, <2>2, <2>3
        <4> QED BY <4>1, <3>2 DEF Nil
      <3>3. CASE ~exists(Slot(i), i)
        BY <3>1, <3>3 DEF Nil
      <3> QED BY <3>2, <3>3
    <2>9. deleting' = [deleting EXCEPT ![x] = d]
      BY <2>1
    <2> HIDE DEF d
    <2>5. OthersOK'
      BY <2>4, <2>8, <2>9 DEF HandlerInv, OthersOK
    <2>6. RingOK' /\ Grows
      BY <2>4, HeapUnchanged
    <2>7. PostOK' /\ GetOK'
      BY <2>4, <2>6, PostKept, GetKept DEF Undisturbed, streamVars
    <2> QED BY <2>5, <2>6, <2>7 DEF HandlerInv
  <1>2. CASE DeleteClose(x)
    <2>1. /\ close({deleting[x].seg}) /\ deleting' = [deleting EXCEPT ![x].pc = "done"]
          /\ UNCHANGED <<streamVars, listed, post, get, closing>>
      BY <1>2 DEF DeleteClose
    <2>2. RingOK' /\ PostOK' /\ GetOK' /\ Grows
      BY <2>1, CloseKeeps
    <2>3. Len(heap') = Len(heap)
      BY <2>1, CloseSafe DEF HandlerInv, RingOK, StreamTypeOK, SegInv
    <2>4. OthersOK'
      BY <2>1, <2>3 DEF HandlerInv, OthersOK
    <2> QED BY <2>2, <2>4 DEF HandlerInv
  <1> QED BY <1>1, <1>2 DEF Deletion

(* Every step of a DELETE of the channel keeps the invariant.               *)
LEMMA ClosingInv ==
  ASSUME HandlerInv, NEW x \in Closers, Closing(x)
  PROVE  HandlerInv' /\ Grows
  <1>1. CASE CloserClose(x)
    <2>1. closeAll /\ closing' = [closing EXCEPT ![x] = "closed"] /\ UNCHANGED <<listed, post, get, deleting>>
      BY <1>1 DEF CloserClose
    <2>2. RingOK' /\ Grows /\ Len(heap') = Len(heap)
      BY <2>1, CloseAllSafe DEF HandlerInv
    <2>3. Undisturbed /\ UNCHANGED precreating
      BY <2>1, BroadcastUndisturbed DEF closeAll, close, HandlerInv, RingOK
    <2>4. PostOK' /\ GetOK'
      BY <2>1, <2>2, <2>3, PostKept, GetKept
    <2>5. OthersOK'
      BY <2>1, <2>2 DEF HandlerInv, OthersOK
    <2> QED BY <2>2, <2>4, <2>5 DEF HandlerInv
  <1>2. CASE CloserLookup(x) \/ CloserUnlist(x)
    <2>1. UNCHANGED <<heap, shut, sub, streamVars, post, get, deleting>>
      BY <1>2 DEF CloserLookup, CloserUnlist, segmentVars
    <2>2. RingOK' /\ Grows
      BY <2>1, HeapUnchanged
    <2>3. PostOK' /\ GetOK'
      BY <2>1, <2>2, PostKept, GetKept DEF Undisturbed, streamVars
    <2>4. OthersOK'
      BY <1>2, <2>1 DEF CloserLookup, CloserUnlist, HandlerInv, OthersOK
    <2> QED BY <2>2, <2>3, <2>4 DEF HandlerInv
  <1> QED BY <1>1, <1>2 DEF Closing

(* A step that changes nothing keeps the invariant.                         *)
LEMMA StutterInv ==
  ASSUME HandlerInv, UNCHANGED vars
  PROVE  HandlerInv' /\ Grows
  <1>1. RingOK' /\ Grows
    BY HeapUnchanged DEF vars, streamVars
  <1>2. PostOK' /\ GetOK' /\ OthersOK'
    BY <1>1, PostKept, GetKept, OthersKept DEF vars, Undisturbed
  <1> QED BY <1>1, <1>2 DEF HandlerInv

(* It holds initially.                                                      *)
LEMMA InitInv ==
  ASSUME Init
  PROVE  HandlerInv
  <1> USE DEF Init, InitStream, InitSegments, Nil, NotHeld
  <1>1. heap \in Seq(SegmentType) /\ Len(heap) = 0 /\ DOMAIN heap = {}
    OBVIOUS
  <1>2. SegmentTypeOK
    BY <1>1 DEF SegmentTypeOK, SegmentType
  <1>3. RingOK
    <2>1. segments \in [0 .. MaxSegmentsPerStream - 1 -> 0 .. Len(heap)]
      BY <1>1
    <2>2. ChannelAgree
      BY <1>1 DEF ChannelAgree
    <2>3. RingAligned
      BY DEF RingAligned
    <2>4. nextWrite \in Nat /\ closed \in BOOLEAN /\ precreating \in [Subscribers -> Nat \cup {NotHeld}]
      OBVIOUS
    <2> QED BY <1>2, <2>1, <2>2, <2>3, <2>4 DEF RingOK, StreamTypeOK
  <1>4. PostOK
    BY <1>1, HandlersAssumption DEF PostOK, PostType, NewPost, NoChannel
  <1>5. GetOK
    <2>1. NewGet \in GetType /\ NewGet.pc = "idle" /\ NewGet.got = << >> /\ NewGet.data = << >>
      BY DEF NewGet, GetType
    <2>2. Len(<< >>) <= 0
      OBVIOUS
    <2> HIDE DEF NewGet
    <2> QED BY <2>1, <2>2, HandlersAssumption DEF GetOK
  <1>6. OthersOK
    BY <1>1 DEF OthersOK
  <1> QED BY <1>3, <1>4, <1>5, <1>6 DEF HandlerInv

(* Every step keeps it.                                                     *)
LEMMA StepInv ==
  ASSUME HandlerInv, [Next]_vars
  PROVE  HandlerInv' /\ Grows
  BY PostStepInv, GetStepInv, DeletionInv, ClosingInv, StutterInv DEF Next

(* HandlerInv is an invariant of the handlers.                              *)
THEOREM Invariance == Spec => []HandlerInv
  <1>1. Init => HandlerInv
    BY InitInv
  <1>2. HandlerInv /\ [Next]_vars => HandlerInv'
    BY StepInv
  <1> QED BY <1>1, <1>2, PTL DEF Spec

(* Every variable keeps its type, in particular every slot, subscriber and  *)
(* handler points at a segment that was made: newSegment, getForWrite.      *)
THEOREM TypeCorrect == Spec => []TypeOK
  <1>1. HandlerInv => TypeOK
    BY DEF HandlerInv, RingOK, PostOK, GetOK, OthersOK, TypeOK, PostType, GetType
  <1> QED BY <1>1, Invariance, PTL

(* However POSTs, evictions, resets, DELETEs and stream closes meet on a    *)
(* segment, close and reset never close a channel twice (a panic in Go),    *)
(* and a closed segment has let go of its publisher.                        *)
THEOREM ChannelsClosedOnce == Spec => []ChannelAgree
  <1>1. HandlerInv => ChannelAgree
    BY DEF HandlerInv, RingOK
  <1> QED BY <1>1, Invariance, PTL

(* Segment i is only ever stored in slot i % MaxSegmentsPerStream, by       *)
(* getForWrite and by getForRead alike.                                     *)
THEOREM SegmentsInTheirSlots == Spec => []RingAligned
  <1>1. HandlerInv => RingAligned
    BY DEF HandlerInv, RingOK
  <1> QED BY <1>1, Invariance, PTL

-----------------------------------------------------------------------------
(* What a step does to a segment.                                           *)

Woken(s) == \A g \in Readers : sub[g].seg = s => ~sub'[g].parked

Kept(s) == heap'[s] = heap[s]

Grown(s) ==
  /\ Woken(s)
  /\ \E w \in Writers, k \in 1 .. MaxChunks :
       /\ post[w].seg = s
       /\ heap'[s] = [heap[s] EXCEPT !.buffer = Append(@, <<w, k>>)]

Ended(s) == Woken(s) /\ heap'[s] = [heap[s] EXCEPT !.closed = TRUE]

Restarted(s) == heap'[s] = Emptied(s)

SegmentSteps ==
  /\ \A s \in DOMAIN heap : Kept(s) \/ Grown(s) \/ Ended(s) \/ Restarted(s)
  /\ \A s \in DOMAIN heap' \ DOMAIN heap : \E i \in Nat : heap'[s] = newSegment(i)

(* Nobody but g itself puts a GET to sleep or moves it.                     *)
StaysOrWakes ==
  Undisturbed /\ \A g \in Readers : sub'[g].parked => sub[g].parked

(* A broadcast on S wakes every subscriber of a segment of S.               *)
LEMMA BroadcastWakes ==
  ASSUME NEW S, Broadcast(S), StreamTypeOK
  PROVE  StaysOrWakes /\ \A s \in S : Woken(s)
  BY HandlersAssumption
     DEF Broadcast, StaysOrWakes, Undisturbed, Woken, StreamTypeOK, SegmentTypeOK

(* Closing keeps or ends each segment.                                      *)
LEMMA ClosedSteps ==
  ASSUME SegInv, NEW S, NEW s \in DOMAIN heap, \A t \in Open(S) : Woken(t), heap'[s] = Closed(S)[s]
  PROVE  Kept(s) \/ Ended(s)
  <1>1. heap[s] \in SegmentType
    BY HeapFacts DEF SegInv
  <1>2. Closed(S)[s] = [heap[s] EXCEPT !.closed = heap[s].closed \/ s \in S]
    BY DEF Closed
  <1>3. CASE heap[s].closed \/ s \notin S
    BY <1>1, <1>2, <1>3 DEF Kept, SegmentType
  <1>4. CASE ~heap[s].closed /\ s \in S
    BY <1>1, <1>2, <1>4 DEF Ended, Open, SegmentType
  <1> QED BY <1>3, <1>4

(* close only keeps or ends segments.                                       *)
LEMMA CloseSteps ==
  ASSUME HandlerInv, NEW S, close(S)
  PROVE  SegmentSteps /\ StaysOrWakes
  <1>1. SegInv /\ StreamTypeOK
    BY DEF HandlerInv, RingOK, StreamTypeOK, SegInv
  <1>2. StaysOrWakes /\ \A t \in Open(S) : Woken(t)
    BY <1>1, BroadcastWakes DEF close
  <1>3. heap' = Closed(S) /\ DOMAIN heap' = DOMAIN heap
    BY DEF close, Closed
  <1>4. \A s \in DOMAIN heap : Kept(s) \/ Ended(s)
    BY <1>1, <1>2, <1>3, ClosedSteps
  <1> QED BY <1>2, <1>3, <1>4 DEF SegmentSteps

(* writeData only makes one segment grow.                                   *)
LEMMA WriteSteps ==
  ASSUME HandlerInv, NEW w \in Writers, NEW k \in 1 .. MaxChunks, post[w].seg \in DOMAIN heap,
         writeData(post[w].seg, <<w, k>>)
  PROVE  SegmentSteps /\ StaysOrWakes
  <1> DEFINE s == post[w].seg
  <1>1. StreamTypeOK
    BY DEF HandlerInv, RingOK
  <1>2. StaysOrWakes /\ Woken(s)
    BY <1>1, BroadcastWakes DEF writeData
  <1>3. heap' = [heap EXCEPT ![s].buffer = Append(@, <<w, k>>)]
    BY DEF writeData, Written
  <1>4. Grown(s) /\ \A t \in DOMAIN heap \ {s} : Kept(t)
    BY <1>2, <1>3 DEF Grown, Kept
  <1>5. DOMAIN heap' = DOMAIN heap
    BY <1>3
  <1> QED BY <1>2, <1>4, <1>5 DEF SegmentSteps

(* getForWrite keeps, ends, restarts or makes segments.                     *)
LEMMA GetForWriteSteps ==
  ASSUME HandlerInv, NEW i \in Nat, getForWrite(i)
  PROVE  SegmentSteps /\ StaysOrWakes
  <1>1. SegInv /\ StreamTypeOK
    BY DEF HandlerInv, RingOK, StreamTypeOK, SegInv
  <1>2. CASE Reuse(i)
    <2>1. UNCHANGED sub
      BY <1>2 DEF Reuse, reset, segmentVars
    <2>2. heap' = heap \/ heap' = [heap EXCEPT ![Slot(i)] = Emptied(Slot(i))]
      BY <1>2 DEF Reuse, reset, segmentVars
    <2>3. \A s \in DOMAIN heap : Kept(s) \/ Restarted(s)
      BY <2>2 DEF Kept, Restarted
    <2> QED BY <2>1, <2>2, <2>3 DEF SegmentSteps, StaysOrWakes, Undisturbed
  <1>3. CASE Replace(i)
    <2> DEFINE S == {Slot(i)}
    <2>1. heap' = Append(Closed(S), newSegment(i)) /\ Broadcast(Open(S))
      BY <1>3 DEF Replace
    <2>2. StaysOrWakes /\ \A t \in Open(S) : Woken(t)
      BY <1>1, <2>1, BroadcastWakes
    <2>3. /\ Closed(S) \in Seq(SegmentType) /\ Len(Closed(S)) = Len(heap)
          /\ Len(heap) \in Nat /\ DOMAIN heap = 1 .. Len(heap)
      BY <1>1, ClosedShut, HeapFacts DEF SegInv
    <2> HIDE DEF S
    <2>a. newSegment(i) \in SegmentType
      <3>1. << >> \in Seq(Data)
        OBVIOUS
      <3> QED BY <3>1 DEF newSegment, SegmentType
    <2>4. /\ heap' \in Seq(SegmentType) /\ Len(heap') = Len(heap) + 1
          /\ \A s \in DOMAIN heap : heap'[s] = Closed(S)[s]
          /\ heap'[Len(heap) + 1] = newSegment(i)
      BY <2>1, <2>3, <2>a, AppendProperties
    <2>5. \A s \in DOMAIN heap : Kept(s) \/ Ended(s)
      BY <1>1, <2>2, <2>4, ClosedSteps
    <2>6. DOMAIN heap' = 1 .. Len(heap) + 1
      BY <2>4, SeqIsFunction
    <2>7. \A s \in DOMAIN heap' \ DOMAIN heap : s = Len(heap) + 1
      BY <2>3, <2>6
    <2> QED BY <2>2, <2>4, <2>5, <2>7 DEF SegmentSteps
  <1> QED BY <1>2, <1>3 DEF getForWrite

-----------------------------------------------------------------------------
(* What that does to what was read of the segment.                          *)

(* A segment with its first channel still holds all that was ever read.     *)
OnlyGrew(s) ==
  heap'[s].closeCh = 0 =>
    /\ heap[s].closeCh = 0
    /\ Len(heap[s].buffer) <= Len(heap'[s].buffer)
    /\ \A n \in 0 .. Len(heap[s].buffer) :
         SubSeq(heap'[s].buffer, 1, n) = SubSeq(heap[s].buffer, 1, n)

(* Those who are not woken have missed nothing.                             *)
NothingMissed(s) ==
  Woken(s) \/ (/\ heap'[s].closed => heap[s].closed
               /\ Len(heap'[s].buffer) <= Len(heap[s].buffer))

FromItsPosts(s) ==
  \A c \in ToSet(heap'[s].buffer) : c \in ToSet(heap[s].buffer) \/ post[c[1]].seg = s

(* The three facts about a segment's buffer that every kind of step gives.  *)
LEMMA StepFields ==
  ASSUME HandlerInv, SegmentSteps, NEW s \in DOMAIN heap
  PROVE  OnlyGrew(s) /\ NothingMissed(s) /\ FromItsPosts(s)
  <1>1. /\ heap[s] \in SegmentType /\ heap[s].buffer \in Seq(Data) /\ heap[s].closeCh \in Nat
        /\ Len(heap[s].buffer) \in Nat
    BY HeapFacts DEF HandlerInv, RingOK, StreamTypeOK
  <1>2. CASE Kept(s) \/ Ended(s)
    <2>1. heap'[s].buffer = heap[s].buffer /\ heap'[s].closeCh = heap[s].closeCh
      BY <1>1, <1>2 DEF Kept, Ended, SegmentType
    <2>2. Woken(s) \/ heap'[s].closed = heap[s].closed
      BY <1>2 DEF Kept, Ended
    <2> QED BY <1>1, <2>1, <2>2 DEF OnlyGrew, NothingMissed, FromItsPosts
  <1>3. CASE Grown(s)
    <2>1. PICK w \in Writers, k \in 1 .. MaxChunks :
            /\ post[w].seg = s
            /\ heap'[s] = [heap[s] EXCEPT !.buffer = Append(@, <<w, k>>)]
      BY <1>3 DEF Grown
    <2>2. heap'[s].buffer = Append(heap[s].buffer, <<w, k>>) /\ heap'[s].closeCh = heap[s].closeCh
      BY <1>1, <2>1 DEF SegmentType
    <2>3. <<w, k>> \in Data
      BY HandlersAssumption
    <2>4. /\ Append(heap[s].buffer, <<w, k>>) \in Seq(Data)
          /\ Len(Append(heap[s].buffer, <<w, k>>)) = Len(heap[s].buffer) + 1
          /\ \A i \in 1 .. Len(heap[s].buffer) : Append(heap[s].buffer, <<w, k>>)[i] = heap[s].buffer[i]
          /\ Append(heap[s].buffer, <<w, k>>)[Len(heap[s].buffer) + 1] = <<w, k>>
      BY <1>1, <2>3, AppendProperties
    <2>5. OnlyGrew(s)
      BY <1>1, <2>2, <2>3, <2>4, AppendPrefix DEF OnlyGrew
    <2>6. FromItsPosts(s)
      <3>1. ASSUME NEW c \in ToSet(heap'[s].buffer)
            PROVE  c \in ToSet(heap[s].buffer) \/ post[c[1]].seg = s
        <4>1. PICK i \in 1 .. Len(heap[s].buffer) + 1 : c = Append(heap[s].buffer, <<w, k>>)[i]
          BY <2>2, <2>4 DEF ToSet
        <4>2. CASE i = Len(heap[s].buffer) + 1
          BY <4>1, <4>2, <2>1, <2>4
        <4>3. CASE i \in 1 .. Len(heap[s].buffer)
          BY <4>1, <4>3, <2>4, <1>1 DEF ToSet
        <4> QED BY <4>2, <4>3, <1>1
      <3> QED BY <3>1 DEF FromItsPosts
    <2> QED BY <1>3, <2>5, <2>6 DEF Grown, NothingMissed
  <1>4. CASE Restarted(s)
    <2>1. heap'[s].buffer = << >> /\ heap'[s].closed = FALSE /\ heap'[s].closeCh = heap[s].closeCh + 1
      BY <1>4 DEF Restarted, Emptied
    <2>2. ToSet(<< >>) = {} /\ Len(<< >>) = 0
      BY DEF ToSet
    <2> QED BY <1>1, <2>1, <2>2 DEF OnlyGrew, NothingMissed, FromItsPosts
  <1> QED BY <1>2, <1>3, <1>4 DEF SegmentSteps

-----------------------------------------------------------------------------
(* Every chunk is in the segment its POST was given.                        *)
Provenance ==
  \A s \in DOMAIN heap : \A c \in ToSet(heap[s].buffer) : post[c[1]].seg = s

(* What GET g has read, is being sent and was sent.                         *)
DeliveredTo(g) ==
  /\ sub[g].parked => get[g].pc = "attached"
  /\ get[g].pc # "sending" => get[g].data = << >>
  /\ get[g].resp # "none" => get[g].pc = "done"
  /\ get[g].seq = -1 /\ sub[g].seg = Nil => get[g].resp # "470"
  /\ sub[g].seg # Nil =>
       /\ \A c \in ToSet(get[g].got) \cup ToSet(get[g].data) : post[c[1]].seg = sub[g].seg
       /\ sub[g].parked => ~SegmentOf(g).closed /\ Len(SegmentOf(g).buffer) <= sub[g].readPos
       /\ SegmentOf(g).closeCh = 0 =>
            /\ sub[g].readPos <= Len(SegmentOf(g).buffer)
            /\ get[g].resp # "gone" =>
                 get[g].got \o get[g].data = SubSeq(SegmentOf(g).buffer, 1, sub[g].readPos)

Delivered == Provenance /\ \A g \in Readers : DeliveredTo(g)

(* A POST keeps the segment it was given.                                   *)
PostsKeepTheirs == \A w \in Writers : post[w].seg # Nil => post'[w].seg = post[w].seg

(* The first component of a chunk is the POST that sent it.                 *)
LEMMA ChunkWriter ==
  ASSUME NEW b \in Seq(Data), NEW c \in ToSet(b)
  PROVE  c[1] \in Writers
  BY HandlersAssumption DEF ToSet

(* After a step the buffers are still sequences of chunks.                  *)
LEMMA StepIsSeq ==
  ASSUME HandlerInv', Grows, NEW s \in DOMAIN heap
  PROVE  heap'[s].buffer \in Seq(Data)
  <1>1. heap' \in Seq(SegmentType)
    BY DEF HandlerInv, RingOK, StreamTypeOK, SegmentTypeOK, SegmentType
  <1>2. s \in DOMAIN heap'
    BY DEF Grows
  <1>3. heap'[s] \in SegmentType
    BY <1>1, <1>2
  <1> QED BY <1>3 DEF SegmentType

(* Every chunk of a segment stays a chunk of a POST to that segment.        *)
LEMMA ProvenanceKept ==
  ASSUME HandlerInv, HandlerInv', Grows, Provenance, SegmentSteps, PostsKeepTheirs
  PROVE  Provenance'
  <1> SUFFICES ASSUME NEW s \in DOMAIN heap', NEW c \in ToSet(heap'[s].buffer)
               PROVE  post'[c[1]].seg = s
    BY DEF Provenance
  <1>1. CASE s \in DOMAIN heap
    <2>1. post[c[1]].seg = s
      BY <1>1, StepFields DEF FromItsPosts, Provenance
    <2>2. s # Nil
      BY <1>1, HeapFacts DEF HandlerInv, RingOK, StreamTypeOK, Nil
    <2>3. c[1] \in Writers
      <3>1. heap'[s].buffer \in Seq(Data)
        BY <1>1, StepIsSeq
      <3> QED BY <3>1, ChunkWriter
    <2> QED BY <2>1, <2>2, <2>3 DEF PostsKeepTheirs
  <1>2. CASE s \notin DOMAIN heap
    BY <1>2 DEF SegmentSteps, newSegment, ToSet
  <1> QED BY <1>1, <1>2

(* A GET g that a step neither moves, puts to sleep nor gives anything.     *)
LEMMA LeftAlone ==
  ASSUME HandlerInv, HandlerInv', Grows, NEW g \in Readers, DeliveredTo(g), SegmentSteps, PostsKeepTheirs,
         get'[g] = get[g], sub'[g].seg = sub[g].seg, sub'[g].readPos = sub[g].readPos,
         sub'[g].parked => sub[g].parked
  PROVE  DeliveredTo(g)'
  <1>0. /\ get[g] \in GetType /\ sub[g] \in SubType(Len(heap)) /\ Len(heap) \in Nat
        /\ DOMAIN heap = 1 .. Len(heap)
    BY GetSegment, HeapFacts DEF HandlerInv, RingOK, StreamTypeOK
  <1>1. CASE sub[g].seg = Nil
    BY <1>1 DEF DeliveredTo
  <1>2. CASE sub[g].seg # Nil
    <2> DEFINE s == sub[g].seg
    <2>1. s \in DOMAIN heap /\ sub[g].readPos \in Nat
      BY <1>0, <1>2 DEF SubType, Nil
    <2>2. OnlyGrew(s) /\ NothingMissed(s)
      BY <2>1, StepFields
    <2>3. SegmentOf(g)' = heap'[s] /\ SegmentOf(g) = heap[s]
      BY DEF SegmentOf
    <2>4. /\ heap[s].buffer \in Seq(Data) /\ Len(heap[s].buffer) \in Nat
          /\ Len(heap'[s].buffer) \in Nat
      <3>1. heap'[s].buffer \in Seq(Data)
        BY <2>1, StepIsSeq
      <3>2. heap[s].buffer \in Seq(Data)
        BY <2>1, HeapFacts DEF HandlerInv, RingOK, StreamTypeOK
      <3> HIDE DEF s
      <3> QED BY <3>1, <3>2, LenProperties
    <2> HIDE DEF s
    <2>5. sub'[g].parked => ~heap'[s].closed /\ Len(heap'[s].buffer) <= sub[g].readPos
      <3>1. SUFFICES ASSUME sub'[g].parked
                     PROVE  ~heap'[s].closed /\ Len(heap'[s].buffer) <= sub[g].readPos
        OBVIOUS
      <3>2. ~heap[s].closed /\ Len(heap[s].buffer) <= sub[g].readPos
        BY <3>1, <1>2, <2>3 DEF DeliveredTo
      <3>3. /\ heap'[s].closed => heap[s].closed
            /\ Len(heap'[s].buffer) <= Len(heap[s].buffer)
        BY <3>1, <2>2 DEF NothingMissed, Woken, s
      <3> QED BY <3>2, <3>3, <2>1, <2>4
    <2>6. ASSUME heap'[s].closeCh = 0
          PROVE  /\ sub[g].readPos <= Len(heap'[s].buffer)
                 /\ get[g].resp # "gone" =>
                      get[g].got \o get[g].data = SubSeq(heap'[s].buffer, 1, sub[g].readPos)
      <3>1. heap[s].closeCh = 0 /\ Len(heap[s].buffer) <= Len(heap'[s].buffer)
        BY <2>2, <2>6 DEF OnlyGrew
      <3>2. /\ sub[g].readPos <= Len(heap[s].buffer)
            /\ get[g].resp # "gone" =>
                 get[g].got \o get[g].data = SubSeq(heap[s].buffer, 1, sub[g].readPos)
        BY <3>1, <1>2, <2>3 DEF DeliveredTo
      <3>3. SubSeq(heap'[s].buffer, 1, sub[g].readPos) = SubSeq(heap[s].buffer, 1, sub[g].readPos)
        BY <2>1, <2>2, <2>4, <2>6, <3>2 DEF OnlyGrew
      <3>4. sub[g].readPos <= Len(heap'[s].buffer)
        BY <3>1, <3>2, <2>1, <2>4
      <3> QED BY <3>2, <3>3, <3>4, Zenon
    <2>7. \A c \in ToSet(get[g].got) \cup ToSet(get[g].data) : post'[c[1]].seg = s
      <3> SUFFICES ASSUME NEW c \in ToSet(get[g].got) \cup ToSet(get[g].data)
                   PROVE  post'[c[1]].seg = s
        OBVIOUS
      <3>1. post[c[1]].seg = s /\ s # Nil
        BY <1>2 DEF DeliveredTo, s
      <3>2. get[g].got \in Seq(Data) /\ get[g].data \in Seq(Data)
        BY <1>0 DEF GetType
      <3>3. c[1] \in Writers
        BY <3>2, ChunkWriter
      <3> QED BY <3>1, <3>3 DEF PostsKeepTheirs
    <2> QED BY <1>2, <2>3, <2>5, <2>6, <2>7 DEF DeliveredTo, s
  <1> QED BY <1>1, <1>2

(* The steps of POST, DELETE and stream close.                              *)
LEMMA OthersDeliver ==
  ASSUME HandlerInv, HandlerInv', Grows, Delivered, SegmentSteps, StaysOrWakes, PostsKeepTheirs, UNCHANGED get
  PROVE  Delivered'
  BY ProvenanceKept, LeftAlone DEF Delivered, StaysOrWakes, Undisturbed

(* The steps of a GET g.                                                    *)
LEMMA GetDelivers ==
  ASSUME HandlerInv, HandlerInv', Grows, Delivered, NEW g \in Readers, SegmentSteps, UNCHANGED post,
         \A h \in Readers \ {g} : get'[h] = get[h] /\ sub'[h] = sub[h],
         DeliveredTo(g)'
  PROVE  Delivered'
  <1>1. PostsKeepTheirs
    BY DEF PostsKeepTheirs
  <1>2. Provenance'
    BY <1>1, ProvenanceKept DEF Delivered
  <1>3. \A h \in Readers \ {g} : DeliveredTo(h)'
    BY <1>1, LeftAlone DEF Delivered
  <1> QED BY <1>2, <1>3 DEF Delivered

(* A step that leaves the heap alone keeps every segment.                   *)
LEMMA NothingHappens ==
  ASSUME HandlerInv, UNCHANGED heap
  PROVE  SegmentSteps
  BY DEF SegmentSteps, Kept

-----------------------------------------------------------------------------
(* Every request keeps Delivered.                                           *)

LEMMA PostKeepsSegment ==
  ASSUME HandlerInv, NEW w \in Writers, PostClient(w) \/ PostServer(w)
  PROVE  PostsKeepTheirs
  <1>1. post \in [Writers -> PostType(Len(heap))] /\ post[w] \in PostType(Len(heap))
    BY DEF HandlerInv, PostOK
  <1>2. CASE PostGetForWrite(w)
    <2>1. post[w].seg = Nil
      BY <1>2 DEF PostGetForWrite, HandlerInv, PostOK
    <2>2. \A v \in Writers \ {w} : post'[v] = post[v]
      BY <1>1, <1>2 DEF PostGetForWrite
    <2> QED BY <2>1, <2>2 DEF PostsKeepTheirs
  <1>3. ASSUME post'[w].seg = post[w].seg, \A v \in Writers \ {w} : post'[v] = post[v]
        PROVE  PostsKeepTheirs
    BY <1>3 DEF PostsKeepTheirs
  <1>4. CASE PostLookup(w)
    BY <1>1, <1>3, <1>4 DEF PostLookup, PostType
  <1>5. CASE PostArm(w)
    BY <1>1, <1>3, <1>5 DEF PostArm, PostType
  <1>6. CASE PostFirstByte(w)
    BY <1>1, <1>3, <1>6 DEF PostFirstByte, PostType
  <1>7. CASE PostWriteFirst(w)
    BY <1>1, <1>3, <1>7 DEF PostWriteFirst, PostType
  <1>8. CASE PostMore(w)
    BY <1>1, <1>3, <1>8 DEF PostMore, PostType
  <1>9. CASE PostBodyEnd(w)
    BY <1>1, <1>3, <1>9 DEF PostBodyEnd, PostType
  <1>10. CASE EmptyPost(w)
    BY <1>1, <1>3, <1>10 DEF EmptyPost, PostType
  <1>11. CASE PostError(w)
    BY <1>1, <1>3, <1>11 DEF PostError, PostType
  <1>12. CASE PostClose(w)
    BY <1>1, <1>3, <1>12 DEF PostClose, PostType
  <1> QED BY <1>2, <1>4, <1>5, <1>6, <1>7, <1>8, <1>9, <1>10, <1>11, <1>12
          DEF PostClient, PostServer, PostEmptyBody, PostKicked

(* A POST makes, grows, ends or restarts its segment.                       *)
LEMMA PostSteps ==
  ASSUME HandlerInv, NEW w \in Writers, PostClient(w) \/ PostServer(w)
  PROVE  SegmentSteps /\ StaysOrWakes
  <1>1. CASE PostGetForWrite(w)
    BY <1>1, SeqNumbers, GetForWriteSteps DEF PostGetForWrite
  <1>2. CASE PostWriteFirst(w)
    <2>1. 1 \in 1 .. MaxChunks
      BY <1>2, HandlersAssumption DEF PostWriteFirst, HandlerInv, PostOK
    <2>2. post[w].seg \in DOMAIN heap
      BY <1>2, PostSegment DEF PostWriteFirst
    <2> QED BY <1>2, <2>1, <2>2, WriteSteps DEF PostWriteFirst
  <1>3. CASE PostMore(w)
    <2>1. post[w].sent \in 0 .. MaxChunks /\ post[w].seg \in DOMAIN heap
      BY <1>3, PostSegment DEF PostMore, PostType
    <2>2. post[w].sent + 1 \in 1 .. MaxChunks
      BY <1>3, <2>1, HandlersAssumption DEF PostMore
    <2> QED BY <1>3, <2>1, <2>2, WriteSteps DEF PostMore
  <1>4. CASE PostClose(w)
    BY <1>4, CloseSteps DEF PostClose
  <1>5. CASE UNCHANGED segmentVars
    BY <1>5, NothingHappens DEF segmentVars, StaysOrWakes, Undisturbed
  <1> QED BY <1>1, <1>2, <1>3, <1>4, <1>5
          DEF PostClient, PostServer, PostLookup, PostArm, PostFirstByte, PostBodyEnd, PostEmptyBody,
              EmptyPost, PostKicked, PostError

(* Every step of a POST keeps Delivered.                                    *)
LEMMA PostDelivers ==
  ASSUME HandlerInv, Delivered, NEW w \in Writers, PostClient(w) \/ PostServer(w)
  PROVE  Delivered'
  <1>1. HandlerInv' /\ Grows
    BY PostStepInv
  <1>2. UNCHANGED get
    BY DEF PostClient, PostServer, PostLookup, PostGetForWrite, PostArm, PostFirstByte, PostWriteFirst,
           PostMore, PostBodyEnd, PostEmptyBody, EmptyPost, PostKicked, PostError, PostClose
  <1>3. SegmentSteps /\ StaysOrWakes
    BY PostSteps
  <1> QED BY <1>1, <1>2, <1>3, PostKeepsSegment, OthersDeliver

(* A DELETE of a seq ends its segment.                                      *)
LEMMA DeletionSteps ==
  ASSUME HandlerInv, NEW x \in Deleters, Deletion(x)
  PROVE  SegmentSteps /\ StaysOrWakes
  <1>1. CASE DeleteFind(x)
    BY <1>1, NothingHappens DEF DeleteFind, segmentVars, StaysOrWakes, Undisturbed
  <1>2. CASE DeleteClose(x)
    BY <1>2, CloseSteps DEF DeleteClose
  <1> QED BY <1>1, <1>2 DEF Deletion

(* Every step of a DELETE of a seq keeps Delivered.                         *)
LEMMA DeletionDelivers ==
  ASSUME HandlerInv, Delivered, NEW x \in Deleters, Deletion(x)
  PROVE  Delivered'
  <1>1. HandlerInv' /\ Grows
    BY DeletionInv
  <1>2. UNCHANGED <<get, post>>
    BY DEF Deletion, DeleteFind, DeleteClose
  <1>3. SegmentSteps /\ StaysOrWakes
    BY DeletionSteps
  <1> QED BY <1>1, <1>2, <1>3, OthersDeliver DEF PostsKeepTheirs

(* A DELETE of the channel ends the segments of the ring.                   *)
LEMMA ClosingSteps ==
  ASSUME HandlerInv, NEW x \in Closers, Closing(x)
  PROVE  SegmentSteps /\ StaysOrWakes
  <1>1. CASE CloserClose(x)
    BY <1>1, CloseSteps DEF CloserClose, closeAll
  <1>2. CASE CloserLookup(x) \/ CloserUnlist(x)
    BY <1>2, NothingHappens DEF CloserLookup, CloserUnlist, segmentVars, StaysOrWakes, Undisturbed
  <1> QED BY <1>1, <1>2 DEF Closing

(* Every step of a DELETE of the channel keeps Delivered.                   *)
LEMMA ClosingDelivers ==
  ASSUME HandlerInv, Delivered, NEW x \in Closers, Closing(x)
  PROVE  Delivered'
  <1>1. HandlerInv' /\ Grows
    BY ClosingInv
  <1>2. UNCHANGED <<get, post>>
    BY DEF Closing, CloserLookup, CloserClose, CloserUnlist
  <1>3. SegmentSteps /\ StaysOrWakes
    BY ClosingSteps
  <1> QED BY <1>1, <1>2, <1>3, OthersDeliver DEF PostsKeepTheirs

(* A step that changes nothing keeps Delivered.                             *)
LEMMA StutterDelivers ==
  ASSUME HandlerInv, Delivered, UNCHANGED vars
  PROVE  Delivered'
  <1>1. HandlerInv' /\ Grows
    BY StutterInv
  <1>2. SegmentSteps /\ StaysOrWakes /\ PostsKeepTheirs /\ UNCHANGED get
    BY NothingHappens DEF vars, StaysOrWakes, Undisturbed, PostsKeepTheirs
  <1> QED BY <1>1, <1>2, OthersDeliver

-----------------------------------------------------------------------------
(* What GET g reads is what follows what it has read.                       *)
LEMMA ReadFollows ==
  ASSUME NEW S, NEW b \in Seq(S), NEW n \in Nat, n < Len(b)
  PROVE  /\ SubSeq(b, 1, n) \o Unread(b, n) = SubSeq(b, 1, n + Len(Unread(b, n)))
         /\ n + Len(Unread(b, n)) = Len(b)
         /\ ToSet(Unread(b, n)) \subseteq ToSet(b)
  <1>1. /\ Unread(b, n) \in Seq(S) /\ Len(Unread(b, n)) = Len(b) - n /\ Len(b) \in Nat
        /\ SubSeq(b, 1, n) \o Unread(b, n) = SubSeq(b, 1, Len(b))
        /\ \A i \in 1 .. Len(b) - n : Unread(b, n)[i] = b[n + i]
    <2>1. n \in 0 .. Len(b) /\ Len(b) \in Nat
      BY LenProperties
    <2>2. Unread(b, n) \in Seq(S) /\ Len(Unread(b, n)) = Len(b) - n
      BY WaitingIsUnread
    <2>3. /\ SubSeq(b, 1, n) \o Unread(b, n) = SubSeq(b, 1, Len(b))
          /\ \A i \in 1 .. Len(b) - n : Unread(b, n)[i] = b[n + i]
      BY <2>1, UnreadFollows
    <2> QED BY <2>1, <2>2, <2>3
  <1>2. ToSet(Unread(b, n)) \subseteq ToSet(b)
    <2> SUFFICES ASSUME NEW i \in 1 .. Len(b) - n
                 PROVE  b[n + i] \in ToSet(b)
      BY <1>1 DEF ToSet
    <2>1. n + i \in 1 .. Len(b)
      BY <1>1
    <2> QED BY <2>1 DEF ToSet
  <1>3. n + Len(Unread(b, n)) = Len(b)
    BY <1>1
  <1> QED BY <1>1, <1>2, <1>3

(* A segment that was never reset is not overwritten under a GET: it is     *)
(* sent what it read.                                                       *)
LEMMA SentAsRead ==
  ASSUME NEW b \in Seq(Data), NEW got \in Seq(Data), NEW data \in Seq(Data), NEW n \in 0 .. Len(b),
         got \o data = SubSeq(b, 1, n)
  PROVE  \A p \in 1 .. Len(data) : n - Len(data) + p <= Len(b) /\ b[n - Len(data) + p] = data[p]
  <1>1. Len(b) \in Nat /\ Len(got) \in Nat /\ Len(data) \in Nat
    BY LenProperties
  <1>2. /\ Len(SubSeq(b, 1, n)) = n
        /\ \A i \in 1 .. n : SubSeq(b, 1, n)[i] = b[i]
    <2>1. \A i \in 1 .. n : b[i] \in Data
      BY <1>1
    <2>2. /\ Len(SubSeq(b, 1, n)) = IF 1 <= n THEN n - 1 + 1 ELSE 0
          /\ \A i \in 1 .. n - 1 + 1 : SubSeq(b, 1, n)[i] = b[1 + i - 1]
      BY <1>1, <2>1, SubSeqProperties
    <2> QED BY <1>1, <2>2
  <1>3. Len(got) + Len(data) = n
    BY <1>2, ConcatProperties
  <1> SUFFICES ASSUME NEW p \in 1 .. Len(data)
               PROVE  n - Len(data) + p <= Len(b) /\ b[n - Len(data) + p] = data[p]
    OBVIOUS
  <1> DEFINE k == Len(got) + p
  <1>4. /\ k \in 1 .. Len(got) + Len(data) /\ ~(k <= Len(got)) /\ k - Len(got) = p
        /\ k = n - Len(data) + p /\ k \in 1 .. n /\ k <= Len(b)
    <2>1. p \in Nat /\ p >= 1 /\ p <= Len(data) /\ n \in Nat /\ n <= Len(b)
      BY <1>1
    <2> DEFINE a == Len(got)
               d == Len(data)
               m == Len(b)
    <2>2. a \in Nat /\ d \in Nat /\ m \in Nat /\ a + d = n /\ p <= d /\ n <= m
      BY <1>1, <1>3, <2>1
    <2> HIDE DEF a, d, m
    <2>3. /\ a + p \in 1 .. a + d /\ ~(a + p <= a) /\ a + p - a = p
          /\ a + p = n - d + p /\ a + p \in 1 .. n /\ a + p <= m
      BY <2>1, <2>2
    <2> QED BY <2>3 DEF a, d, m
  <1> HIDE DEF k
  <1>5. (got \o data)[k] = data[k - Len(got)]
    BY <1>4, ConcatProperties
  <1> QED BY <1>2, <1>4, <1>5

(* Chunks a GET is sent are chunks it read, or chunks of its segment.       *)
LEMMA SentFromSegment ==
  ASSUME NEW got \in Seq(Data), NEW n \in Nat, NEW f \in [1 .. n -> Data], NEW A,
         \A i \in 1 .. n : f[i] \in A
  PROVE  got \o f \in Seq(Data) /\ ToSet(got \o f) \subseteq ToSet(got) \cup A
  <1>1. f \in Seq(Data) /\ Len(f) = n
    BY FunctionIsSeq
  <1>2. /\ got \o f \in Seq(Data) /\ Len(got) \in Nat
        /\ Len(got \o f) = Len(got) + n
        /\ \A i \in 1 .. Len(got) + n : (got \o f)[i] = IF i <= Len(got) THEN got[i] ELSE f[i - Len(got)]
    BY <1>1, ConcatProperties, LenProperties
  <1> SUFFICES ASSUME NEW i \in 1 .. Len(got) + n
               PROVE  (got \o f)[i] \in ToSet(got) \cup A
    <2>1. DOMAIN (got \o f) = 1 .. Len(got) + n
      BY <1>2, LenProperties
    <2> QED BY <1>2, <2>1 DEF ToSet
  <1>3. CASE i <= Len(got)
    BY <1>2, <1>3 DEF ToSet
  <1>4. CASE ~(i <= Len(got))
    <2>1. i - Len(got) \in 1 .. n
      BY <1>2, <1>4
    <2> QED BY <1>2, <1>4, <2>1
  <1> QED BY <1>3, <1>4

(* Attaching to a segment makes at most a new one.                          *)
LEMMA AttachSteps ==
  ASSUME HandlerInv, NEW g \in Readers, GetFound(g) \/ GetPrecreate(g)
  PROVE  SegmentSteps
  <1>1. CASE GetFound(g)
    BY <1>1, NothingHappens DEF GetFound
  <1>2. CASE GetPrecreate(g)
    <2>1. heap' = Append(heap, newSegment(precreating[g])) /\ precreating[g] \in Nat
      BY <1>2, HandlersAssumption DEF GetPrecreate, Precreate, HandlerInv, RingOK, StreamTypeOK
    <2>2. /\ heap'[Len(heap) + 1] = newSegment(precreating[g])
          /\ \A t \in DOMAIN heap : heap'[t] = heap[t]
      BY <1>2, PrecreateSafe, HandlersAssumption DEF GetPrecreate, HandlerInv
    <2>3. DOMAIN heap' = 1 .. Len(heap) + 1 /\ DOMAIN heap = 1 .. Len(heap)
      BY <2>1, HeapFacts DEF HandlerInv, RingOK, StreamTypeOK
    <2>4. \A t \in DOMAIN heap' \ DOMAIN heap : t = Len(heap) + 1
      BY <2>3, HeapFacts DEF HandlerInv, RingOK, StreamTypeOK
    <2> QED BY <2>1, <2>2, <2>4 DEF SegmentSteps, Kept
  <1> QED BY <1>1, <1>2

(* A GET that is given a segment starts at its beginning.                   *)
LEMMA GetDeliversOnAttach ==
  ASSUME HandlerInv, Delivered, NEW g \in Readers, GetFound(g) \/ GetPrecreate(g)
  PROVE  Delivered'
  <1>0. HandlerInv' /\ Grows
    BY GetStepInv DEF GetServer
  <1>1. get[g].pc = "located" /\ UNCHANGED post /\ get' = [get EXCEPT ![g].pc = "attached"]
    BY DEF GetFound, GetPrecreate
  <1>2. /\ get \in [Readers -> GetType] /\ sub \in [Readers -> SubType(Len(heap))]
        /\ get[g] \in GetType /\ Len(heap) \in Nat
    BY GetSegment, HandlersAssumption DEF HandlerInv, GetOK, RingOK, StreamTypeOK, SegmentTypeOK, SubType
  <1>3. get[g].resp = "none" /\ get[g].got = << >> /\ get[g].data = << >>
    BY <1>1, <1>2 DEF Delivered, DeliveredTo, HandlerInv, GetOK, GetType
  <1>4. PICK s \in DOMAIN heap' : sub' = [sub EXCEPT ![g] = [seg |-> s, readPos |-> 0, parked |-> FALSE]]
    <2>1. CASE GetFound(g)
      BY <2>1, SeqNumbers, ExistsIsSegment DEF GetFound, Found, Subscribe, HandlerInv
    <2>2. CASE GetPrecreate(g)
      BY <2>2, PrecreateSafe, HandlersAssumption DEF GetPrecreate, Precreate, Subscribe, HandlerInv
    <2> QED BY <2>1, <2>2
  <1>5. SegmentSteps
    BY AttachSteps
  <1>6. /\ get'[g].pc = "attached" /\ get'[g].resp = "none"
        /\ get'[g].got = << >> /\ get'[g].data = << >>
        /\ \A h \in Readers \ {g} : get'[h] = get[h] /\ sub'[h] = sub[h]
    BY <1>1, <1>2, <1>3, <1>4 DEF GetType
  <1>7. sub'[g].seg = s /\ sub'[g].readPos = 0 /\ sub'[g].parked = FALSE
    BY <1>2, <1>4
  <1>8. /\ << >> \o << >> = << >> /\ ToSet(<< >>) = {} /\ \A b : SubSeq(b, 1, 0) = << >>
    BY SubSeqEmpty, ConcatEmptySeq, EmptySeq DEF ToSet
  <1>9. Len(heap'[s].buffer) \in Nat
    <2>1. heap' \in Seq(SegmentType)
      BY <1>0 DEF HandlerInv, RingOK, StreamTypeOK, SegmentTypeOK, SegmentType
    <2>2. heap'[s] \in SegmentType
      BY <2>1
    <2>3. heap'[s].buffer \in Seq(Data)
      BY <2>2 DEF SegmentType
    <2> QED BY <2>3, LenProperties
  <1>a. s # Nil
    <2>1. DOMAIN heap' = 1 .. Len(heap')
      BY <1>0 DEF HandlerInv, RingOK, StreamTypeOK, SegmentTypeOK
    <2> QED BY <2>1, <1>0 DEF Nil, Grows
  <1>10. DeliveredTo(g)'
    BY <1>6, <1>7, <1>8, <1>9, <1>a DEF DeliveredTo, SegmentOf
  <1> QED BY <1>0, <1>1, <1>5, <1>6, <1>10, GetDelivers

(* A GET that was not attached yet, or no longer reads.                     *)
LEMMA GetDeliversNothing ==
  ASSUME HandlerInv, Delivered, NEW g \in Readers,
         GetLookup(g) \/ GetAhead(g) \/ GetAbsent(g) \/ GetReadEnd(g) \/ GetEmpty(g) \/ GetGone(g)
  PROVE  Delivered'
  <1>0. /\ HandlerInv' /\ Grows
    BY GetStepInv DEF GetClient, GetServer
  <1>1. UNCHANGED <<heap, sub, post>>
    BY DEF GetLookup, GetAhead, StartPrecreate, GetAbsent, GetReadEnd, GetEmpty, GetGone, segmentVars, handlerVars
  <1>2. get \in [Readers -> GetType] /\ get[g] \in GetType
    BY DEF HandlerInv, GetOK
  <1>3. SegmentSteps
    BY <1>1, NothingHappens
  <1>4. \A h \in Readers \ {g} : get'[h] = get[h]
    BY <1>2 DEF GetLookup, GetAhead, handlerVars, GetAbsent, GetReadEnd, GetEmpty, GetGone
  <1>5. DeliveredTo(g)
    BY DEF Delivered
  <1>6. DeliveredTo(g)'
    <2>1. CASE GetLookup(g)
      <3>0. PICK seq \in GetSeqs : get' = [get EXCEPT ![g].pc = "located", ![g].seq = seq]
        BY <2>1 DEF GetLookup
      <3>1. /\ get[g].pc = "idle" /\ get'[g].pc = "located" /\ get'[g].resp = get[g].resp
            /\ get'[g].got = get[g].got /\ get'[g].data = get[g].data
        BY <2>1, <3>0, <1>2 DEF GetLookup, GetType
      <3>2. sub[g].seg = Nil
        BY <3>1 DEF HandlerInv, GetOK
      <3> QED BY <1>1, <1>5, <3>1, <3>2 DEF DeliveredTo
    <2>2. CASE GetAhead(g)
      BY <2>2, <1>1, <1>5 DEF GetAhead, handlerVars, DeliveredTo, SegmentOf
    <2>3. CASE GetAbsent(g)
      <3>1. /\ get[g].pc = "located" /\ get'[g].pc = "done" /\ get'[g].seq = get[g].seq
            /\ get'[g].resp = IF closed THEN "terminated" ELSE "470"
            /\ get'[g].got = get[g].got /\ get'[g].data = get[g].data
        BY <2>3, <1>2 DEF GetAbsent, GetType
      <3>2. sub[g].seg = Nil
        BY <3>1 DEF HandlerInv, GetOK
      <3>3. get[g].seq = -1 => closed
        BY <2>3 DEF GetAbsent, Absent, Ahead, ForRead
      <3> QED BY <1>1, <1>5, <3>1, <3>2, <3>3 DEF DeliveredTo
    <2>4. CASE GetReadEnd(g)
      <3>1. /\ get[g].pc = "attached" /\ get'[g].pc \in {"empty", "done"} /\ get'[g].seq = get[g].seq
            /\ get'[g].resp # "none" => get'[g].pc = "done"
            /\ get'[g].resp \in {"none", "200"}
            /\ get'[g].got = get[g].got /\ get'[g].data = get[g].data /\ ~sub[g].parked
        BY <2>4, <1>2 DEF GetReadEnd, Reads, GetType
      <3>2. get[g].resp = "none" /\ sub[g].seg # Nil
        BY <3>1, <1>5, GetSegment DEF DeliveredTo
      <3> QED BY <1>1, <1>5, <3>1, <3>2 DEF DeliveredTo, SegmentOf
    <2>5. CASE GetEmpty(g)
      <3>1. /\ get[g].pc = "empty" /\ get'[g].pc = "done" /\ get'[g].seq = get[g].seq
            /\ get'[g].resp # "gone"
            /\ get'[g].got = get[g].got /\ get'[g].data = get[g].data
        BY <2>5, <1>2 DEF GetEmpty, GetType
      <3>2. get[g].resp = "none" /\ sub[g].seg # Nil /\ ~sub[g].parked
        BY <3>1, <1>5, GetSegment DEF DeliveredTo
      <3> QED BY <1>1, <1>5, <3>1, <3>2 DEF DeliveredTo, SegmentOf
    <2>6. CASE GetGone(g)
      <3>1. /\ get[g].pc \in {"attached", "sending"} /\ get'[g].pc = "done" /\ get'[g].seq = get[g].seq
            /\ get'[g].resp = "gone" /\ get'[g].got = get[g].got /\ get'[g].data = << >>
            /\ get[g].pc = "attached" => ~sub[g].parked
        BY <2>6, <1>2 DEF GetGone, Reads, GetType
      <3>2. sub[g].seg # Nil /\ ~sub[g].parked /\ ToSet(<< >>) = {}
        BY <3>1, <1>5, GetSegment DEF DeliveredTo, ToSet
      <3> QED BY <1>1, <1>5, <3>1, <3>2 DEF DeliveredTo, SegmentOf
    <2> QED BY <2>1, <2>2, <2>3, <2>4, <2>5, <2>6
  <1> QED BY <1>0, <1>1, <1>3, <1>4, <1>6, GetDelivers

(* A GET goes to sleep only when caught up.                                 *)
LEMMA GetDeliversAsleep ==
  ASSUME HandlerInv, Delivered, NEW g \in Readers, GetWait(g)
  PROVE  Delivered'
  <1>0. HandlerInv' /\ Grows
    BY GetStepInv DEF GetServer
  <1>1. /\ UNCHANGED <<heap, post, get>> /\ get[g].pc = "attached" /\ ~HasData(g) /\ ~AtEnd(g)
        /\ sub' = [sub EXCEPT ![g].parked = TRUE]
    BY DEF GetWait, Reads, Park, handlerVars
  <1>2. /\ sub \in [Readers -> SubType(Len(heap))] /\ get[g] \in GetType
        /\ sub[g].seg \in DOMAIN heap
    BY <1>1, GetSegment, HandlersAssumption DEF HandlerInv, RingOK, StreamTypeOK, SegmentTypeOK, SubType
  <1>3. /\ sub'[g].seg = sub[g].seg /\ sub'[g].readPos = sub[g].readPos
        /\ \A h \in Readers \ {g} : sub'[h] = sub[h]
    BY <1>1, <1>2 DEF SubType
  <1>4. SegmentOf(g).buffer \in Seq(Data)
    BY <1>2, HeapFacts DEF SegmentOf, HandlerInv, RingOK, StreamTypeOK
  <1>5. Len(SegmentOf(g).buffer) \in Nat /\ sub[g].readPos \in Nat
    BY <1>2, <1>4, LenProperties DEF SubType
  <1>6. ~SegmentOf(g).closed /\ Len(SegmentOf(g).buffer) <= sub[g].readPos
    BY <1>1, <1>5 DEF HasData, AtEnd
  <1>7. DeliveredTo(g)'
    <2>1. DeliveredTo(g)
      BY DEF Delivered
    <2> QED BY <1>1, <1>3, <1>6, <2>1 DEF DeliveredTo, SegmentOf
  <1> QED BY <1>0, <1>1, <1>3, <1>7, NothingHappens, GetDelivers

(* A GET takes exactly what it has not read yet.                            *)
LEMMA GetDeliversRead ==
  ASSUME HandlerInv, Delivered, NEW g \in Readers, GetReadData(g)
  PROVE  Delivered'
  <1> DEFINE b == SegmentOf(g).buffer
             n == sub[g].readPos
  <1>0. HandlerInv' /\ Grows
    BY GetStepInv DEF GetServer
  <1>1. /\ UNCHANGED <<heap, post>> /\ get[g].pc = "attached" /\ ~sub[g].parked /\ n < Len(b)
        /\ sub' = [sub EXCEPT ![g].readPos = @ + Len(Unread(b, n))]
        /\ get' = [get EXCEPT ![g].pc = "sending", ![g].data = Unread(b, n), ![g].eof = SegmentOf(g).closed]
    BY DEF GetReadData, Reads, HasData, Advance, Waiting
  <1>2. /\ sub \in [Readers -> SubType(Len(heap))] /\ get \in [Readers -> GetType]
        /\ sub[g].seg \in DOMAIN heap /\ sub[g].seg # Nil /\ get[g] \in GetType
    BY <1>1, GetSegment, HandlersAssumption
       DEF HandlerInv, GetOK, RingOK, StreamTypeOK, SegmentTypeOK, SubType
  <1>3. b \in Seq(Data) /\ n \in Nat
    <2>1. b \in Seq(Data)
      BY <1>2, HeapFacts DEF SegmentOf, HandlerInv, RingOK, StreamTypeOK
    <2> QED BY <1>2, <2>1 DEF SubType
  <1>a. SegmentOf(g)' = SegmentOf(g)
    BY <1>1, <1>2 DEF SegmentOf, SubType
  <1>d. DeliveredTo(g) /\ Provenance
    BY DEF Delivered
  <1>e. /\ get[g].data = << >> /\ get[g].resp = "none"
        /\ \A c \in ToSet(get[g].got) : post[c[1]].seg = sub[g].seg
        /\ SegmentOf(g).closeCh = 0 => get[g].got \o << >> = SubSeq(b, 1, n)
    BY <1>1, <1>2, <1>d DEF DeliveredTo
  <1>f. \A c \in ToSet(b) : post[c[1]].seg = sub[g].seg
    BY <1>2, <1>d DEF Provenance, SegmentOf
  <1>h. get[g].got \in Seq(Data) /\ get[g].got \o << >> = get[g].got
    BY <1>2, ConcatEmptySeq DEF GetType
  <1> HIDE DEF b, n
  <1>4. /\ SubSeq(b, 1, n) \o Unread(b, n) = SubSeq(b, 1, n + Len(Unread(b, n)))
        /\ n + Len(Unread(b, n)) = Len(b) /\ ToSet(Unread(b, n)) \subseteq ToSet(b)
    BY <1>1, <1>3, ReadFollows
  <1>5. /\ sub'[g].seg = sub[g].seg /\ sub'[g].readPos = n + Len(Unread(b, n)) /\ ~sub'[g].parked
        /\ \A h \in Readers \ {g} : sub'[h] = sub[h]
    BY <1>1, <1>2 DEF SubType, n
  <1>6. /\ get'[g].pc = "sending" /\ get'[g].data = Unread(b, n) /\ get'[g].got = get[g].got
        /\ get'[g].seq = get[g].seq /\ get'[g].resp = get[g].resp
        /\ \A h \in Readers \ {g} : get'[h] = get[h]
    BY <1>1, <1>2 DEF GetType
  <1>b. Len(b) \in Nat
    BY <1>3, LenProperties
  <1>c. SegmentOf(g).closeCh = 0 =>
          /\ n + Len(Unread(b, n)) <= Len(b)
          /\ get[g].got \o Unread(b, n) = SubSeq(b, 1, n + Len(Unread(b, n)))
    <2>1. n + Len(Unread(b, n)) <= Len(b)
      BY <1>4, <1>b
    <2> QED BY <2>1, <1>4, <1>e, <1>h
  <1>7. DeliveredTo(g)'
    <2>1. \A c \in ToSet(get[g].got) \cup ToSet(Unread(b, n)) : post[c[1]].seg = sub[g].seg
      BY <1>4, <1>e, <1>f
    <2> QED BY <1>1, <1>2, <1>5, <1>6, <1>a, <1>c, <1>e, <2>1 DEF DeliveredTo, b
  <1> QED BY <1>0, <1>1, <1>5, <1>6, <1>7, NothingHappens, GetDelivers

(* A GET sends what it took, or what a repeated POST put in its place.      *)
LEMMA GetDeliversSent ==
  ASSUME HandlerInv, Delivered, NEW g \in Readers, GetSend(g)
  PROVE  Delivered'
  <1> DEFINE b == SegmentOf(g).buffer
             data == get[g].data
             got == get[g].got
             m == Len(data)
             f(torn) == [p \in 1 .. m |-> IF p \in torn THEN b[SentFrom(g) + p] ELSE data[p]]
  <1>0. HandlerInv' /\ Grows
    BY GetStepInv DEF GetServer
  <1>1. PICK torn \in SUBSET Overwritten(g) :
          get' = [get EXCEPT ![g].got = @ \o f(torn),
                             ![g].data = << >>,
                             ![g].pc = IF get[g].eof THEN "done" ELSE "attached",
                             ![g].resp = IF get[g].eof THEN "200" ELSE "none"]
    BY DEF GetSend
  <1>2. get[g].pc = "sending" /\ UNCHANGED <<heap, sub, post>>
    BY DEF GetSend, segmentVars
  <1>3. /\ sub[g] \in SubType(Len(heap)) /\ get \in [Readers -> GetType]
        /\ sub[g].seg \in DOMAIN heap /\ sub[g].seg # Nil /\ get[g] \in GetType
    BY <1>2, GetSegment DEF HandlerInv, GetOK
  <1>4. b \in Seq(Data) /\ got \in Seq(Data) /\ data \in Seq(Data) /\ sub[g].readPos \in Nat
    <2>1. b \in Seq(Data)
      BY <1>3, HeapFacts DEF SegmentOf, HandlerInv, RingOK, StreamTypeOK
    <2> QED BY <1>3, <2>1 DEF GetType, SubType
  <1>5. m \in Nat /\ m <= sub[g].readPos /\ Len(b) \in Nat
    BY <1>4, LenProperties DEF HandlerInv, GetOK
  <1>6. DeliveredTo(g) /\ Provenance
    BY DEF Delivered
  <1> DEFINE A == ToSet(data) \cup ToSet(b)
  <1>7. f(torn) \in [1 .. m -> Data] /\ \A p \in 1 .. m : f(torn)[p] \in A
    <2> SUFFICES ASSUME NEW p \in 1 .. m
                 PROVE  f(torn)[p] \in Data /\ f(torn)[p] \in A
      OBVIOUS
    <2>1. CASE p \in torn
      <3>1. SentFrom(g) + p <= Len(b)
        BY <2>1 DEF Overwritten
      <3>2. SentFrom(g) \in Nat /\ p \in Nat /\ p >= 1
        BY <1>4, <1>5 DEF SentFrom
      <3> HIDE DEF b, m
      <3>3. SentFrom(g) + p \in 1 .. Len(b)
        BY <3>1, <3>2, <1>5
      <3>4. f(torn)[p] = b[SentFrom(g) + p]
        BY <2>1
      <3> QED BY <3>3, <3>4, <1>4 DEF ToSet
    <2>2. CASE p \notin torn
      <3>1. f(torn)[p] = data[p]
        BY <2>2
      <3> QED BY <3>1, <1>4 DEF ToSet
    <2> QED BY <2>1, <2>2
  <1> HIDE DEF A
  <1>8. got \o f(torn) \in Seq(Data) /\ ToSet(got \o f(torn)) \subseteq ToSet(got) \cup A
    BY <1>4, <1>5, <1>7, SentFromSegment
  <1>9. \A c \in ToSet(got \o f(torn)) : post[c[1]].seg = sub[g].seg
    <2>1. \A c \in ToSet(got) \cup ToSet(data) : post[c[1]].seg = sub[g].seg
      BY <1>3, <1>6 DEF DeliveredTo
    <2>2. \A c \in ToSet(b) : post[c[1]].seg = sub[g].seg
      BY <1>3, <1>6 DEF Provenance, SegmentOf
    <2> QED BY <1>8, <2>1, <2>2 DEF A
  <1>a. SegmentOf(g).closeCh = 0 =>
          /\ sub[g].readPos <= Len(b)
          /\ got \o f(torn) = SubSeq(b, 1, sub[g].readPos)
    <2> SUFFICES ASSUME SegmentOf(g).closeCh = 0
                 PROVE  /\ sub[g].readPos <= Len(b)
                        /\ got \o f(torn) = SubSeq(b, 1, sub[g].readPos)
      OBVIOUS
    <2>1. sub[g].readPos <= Len(b) /\ got \o data = SubSeq(b, 1, sub[g].readPos)
      BY <1>2, <1>3, <1>6 DEF DeliveredTo
    <2>2. sub[g].readPos \in 0 .. Len(b)
      BY <2>1, <1>4, <1>5
    <2>3. torn = {}
      <3> SUFFICES ASSUME NEW p \in torn
                   PROVE  FALSE
        OBVIOUS
      <3>1. p \in 1 .. Len(data) /\ b[sub[g].readPos - Len(data) + p] # data[p]
        BY DEF Overwritten, SentFrom
      <3> DEFINE n == sub[g].readPos
      <3> HIDE DEF b, got, data, n
      <3>3. n \in 0 .. Len(b) /\ got \o data = SubSeq(b, 1, n)
        BY <2>1, <2>2 DEF n
      <3>4. b[n - Len(data) + p] = data[p]
        BY <3>1, <3>3, <1>4, SentAsRead
      <3>2. b[sub[g].readPos - Len(data) + p] = data[p]
        BY <3>4 DEF n
      <3> QED BY <3>1, <3>2
    <2>4. f(torn) = data
      <3>1. \A q \in Seq(Data) : q = [p \in 1 .. Len(q) |-> q[p]]
        OBVIOUS
      <3>2. data = [p \in 1 .. m |-> data[p]]
        BY <1>4, <3>1, Zenon
      <3> QED BY <2>3, <3>2
    <2> QED BY <2>1, <2>4
  <1> DEFINE sent == got \o f(torn)
  <1> HIDE DEF sent
  <1>b. /\ get'[g].pc \in {"done", "attached"} /\ get'[g].data = << >> /\ get'[g].got = sent
        /\ get'[g].seq = get[g].seq /\ get'[g].resp \in {"none", "200"}
        /\ get'[g].resp = "200" => get'[g].pc = "done"
        /\ \A h \in Readers \ {g} : get'[h] = get[h]
    <2>1. get' = [get EXCEPT ![g].got = sent,
                             ![g].data = << >>,
                             ![g].pc = IF get[g].eof THEN "done" ELSE "attached",
                             ![g].resp = IF get[g].eof THEN "200" ELSE "none"]
      BY <1>1 DEF sent
    <2> HIDE DEF f, got, data, b
    <2> QED BY <2>1, <1>3 DEF GetType
  <1>c. ToSet(<< >>) = {} /\ sent \o << >> = sent
    BY <1>8, ConcatEmptySeq DEF ToSet, sent
  <1>d. DeliveredTo(g)'
    <2>1. ~sub[g].parked
      BY <1>2, <1>6 DEF DeliveredTo
    <2>2. /\ \A c \in ToSet(sent) : post[c[1]].seg = sub[g].seg
          /\ SegmentOf(g).closeCh = 0 =>
               sub[g].readPos <= Len(SegmentOf(g).buffer) /\ sent = SubSeq(SegmentOf(g).buffer, 1, sub[g].readPos)
      BY <1>9, <1>a DEF sent
    <2>3. SegmentOf(g)' = SegmentOf(g)
      BY <1>2 DEF SegmentOf
    <2> HIDE DEF f, got, data, b
    <2> QED BY <1>2, <1>3, <1>b, <1>c, <2>1, <2>2, <2>3 DEF DeliveredTo
  <1> QED BY <1>0, <1>2, <1>b, <1>d, NothingHappens, GetDelivers

(* Every step keeps Delivered.                                              *)
LEMMA StepDelivers ==
  ASSUME HandlerInv, Delivered, [Next]_vars
  PROVE  Delivered'
  <1>1. ASSUME NEW g \in Readers, GetClient(g) \/ GetServer(g)
        PROVE  Delivered'
    BY <1>1, GetDeliversNothing, GetDeliversOnAttach, GetDeliversAsleep, GetDeliversRead, GetDeliversSent
       DEF GetClient, GetServer
  <1> QED BY <1>1, PostDelivers, DeletionDelivers, ClosingDelivers, StutterDelivers DEF Next

(* Delivered holds initially.                                               *)
LEMMA InitDelivers ==
  ASSUME Init
  PROVE  Delivered
  BY HandlersAssumption
     DEF Init, InitStream, InitSegments, NewGet, Delivered, DeliveredTo, Provenance, Nil

(* Every GET has been given the right chunks of the right segment in the    *)
(* right order, and sleeps only when caught up (getForRead, readData).      *)
THEOREM DeliveryInvariance == Spec => [](HandlerInv /\ Delivered)
  <1>1. Init => HandlerInv /\ Delivered
    BY InitInv, InitDelivers
  <1>2. HandlerInv /\ Delivered /\ [Next]_vars => HandlerInv' /\ Delivered'
    BY StepInv, StepDelivers
  <1> QED BY <1>1, <1>2, PTL DEF Spec

(* A segment is only ever added to by a POST that was given it, closed, or  *)
(* emptied by a reset; whoever sleeps on it is woken with the first two     *)
(* (writeData, close, reset).                                               *)
THEOREM SegmentsChangeInThreeWays == Spec => [][SegmentSteps]_vars
  <1>1. HandlerInv /\ [Next]_vars => [SegmentSteps]_vars
    <2> SUFFICES ASSUME HandlerInv, Next PROVE SegmentSteps
      OBVIOUS
    <2>1. ASSUME NEW g \in Readers, GetClient(g) \/ GetServer(g)
          PROVE  SegmentSteps
      <3>1. CASE GetFound(g) \/ GetPrecreate(g)
        BY <3>1, AttachSteps
      <3>2. CASE UNCHANGED heap
        BY <3>2, NothingHappens
      <3> QED BY <2>1, <3>1, <3>2
              DEF GetClient, GetServer, GetLookup, GetGone, GetAhead, StartPrecreate, GetAbsent, GetReadData,
                  GetReadEnd, GetWait, GetSend, GetEmpty, segmentVars
    <2> QED BY <2>1, PostSteps, DeletionSteps, ClosingSteps DEF Next
  <1> QED BY <1>1, Invariance, PTL DEF Spec

(* GETs of segment n, by its number or by way of the live edge, are only    *)
(* ever sent what was POSTed to n, however the ring wrapped and whatever    *)
(* was reset under them (getForRead, getForWrite, reset).                   *)
THEOREM NoForeignData == Spec => []NoCrossTalk
  <1>1. HandlerInv /\ Delivered => NoCrossTalk
    <2> SUFFICES ASSUME HandlerInv, Delivered, NEW g \in Readers, sub[g].seg # Nil
                 PROVE  /\ get[g].seq \in Nat => SegmentOf(g).idx = get[g].seq
                        /\ \A c \in ToSet(get[g].got \o get[g].data) : post[c[1]].seq \in {-1, SegmentOf(g).idx}
      BY DEF NoCrossTalk
    <2>1. get[g].seq \in Nat => SegmentOf(g).idx = get[g].seq
      BY DEF HandlerInv, GetOK, SegmentOf
    <2>2. get[g].got \in Seq(Data) /\ get[g].data \in Seq(Data)
      BY DEF HandlerInv, GetOK, GetType
    <2>3. ASSUME NEW c \in ToSet(get[g].got \o get[g].data)
          PROVE  post[c[1]].seq \in {-1, SegmentOf(g).idx}
      <3>1. get[g].data \in [1 .. Len(get[g].data) -> Data] /\ Len(get[g].data) \in Nat
        BY <2>2, LenProperties
      <3>2. \A i \in 1 .. Len(get[g].data) : get[g].data[i] \in ToSet(get[g].data)
        BY <3>1 DEF ToSet
      <3>3. ToSet(get[g].got \o get[g].data) \subseteq ToSet(get[g].got) \cup ToSet(get[g].data)
        BY <2>2, <3>1, <3>2, SentFromSegment
      <3>4. post[c[1]].seg = sub[g].seg
        BY <2>3, <3>3 DEF Delivered, DeliveredTo
      <3>5. c[1] \in Writers
        BY <2>2, <2>3, <3>3, ChunkWriter
      <3> QED BY <3>4, <3>5 DEF HandlerInv, PostOK, SegmentOf
    <2> QED BY <2>1, <2>3
  <1> QED BY <1>1, DeliveryInvariance, PTL

(* A GET of a segment that was not reset has, at every moment, read the     *)
(* first readPos chunks of it, and been sent or is being sent exactly these *)
(* (SegmentSubscriber.readData and sendData of handleGet).                  *)
THEOREM DeliveredInOrder == Spec => []PrefixDelivery
  <1>1. HandlerInv /\ Delivered => PrefixDelivery
    BY DEF Delivered, DeliveredTo, PrefixDelivery
  <1> QED BY <1>1, DeliveryInvariance, PTL

(* A GET never sleeps in readData while there is something for it to do:    *)
(* neither writeData, close nor reset loses a wake-up.                      *)
THEOREM NoGetSleepsInVain == Spec => []ParkedIsCaughtUp
  <1>1. HandlerInv /\ Delivered => ParkedIsCaughtUp
    <2> SUFFICES ASSUME HandlerInv, Delivered, NEW g \in Readers, sub[g].parked
                 PROVE  ~SegmentOf(g).closed /\ sub[g].readPos >= Len(SegmentOf(g).buffer)
      BY DEF ParkedIsCaughtUp
    <2>1. sub[g].seg \in DOMAIN heap /\ sub[g].seg # Nil /\ sub[g] \in SubType(Len(heap))
      BY GetSegment DEF Delivered, DeliveredTo
    <2>2. ~SegmentOf(g).closed /\ Len(SegmentOf(g).buffer) <= sub[g].readPos
      BY <2>1 DEF Delivered, DeliveredTo
    <2>3. SegmentOf(g).buffer \in Seq(Data)
      BY <2>1, HeapFacts DEF SegmentOf, HandlerInv, RingOK, StreamTypeOK
    <2>4. sub[g].readPos \in Nat /\ Len(SegmentOf(g).buffer) \in Nat
      BY <2>1, <2>3, LenProperties DEF SubType
    <2> QED BY <2>2, <2>4
  <1> QED BY <1>1, DeliveryInvariance, PTL

(* A GET of the live edge is not turned away by getForRead while the stream *)
(* is open: if it is answered 470, the segment it was given ended empty.    *)
THEOREM LiveEdgeIsServed == Spec => []LiveEdgeServed
  <1>1. HandlerInv /\ Delivered => LiveEdgeServed
    BY DEF Delivered, DeliveredTo, LiveEdgeServed
  <1> QED BY <1>1, DeliveryInvariance, PTL

-----------------------------------------------------------------------------
(* Whole segments.  A segment is spoilt once several POSTs had it, it left  *)
(* the ring or a DELETE found it: it stays so, and unless it is, only the   *)
(* end of its POST closes it, nothing resets it, and it does not grow after *)
(* that end.                                                                *)

Several(s) == \E v, w \in Writers : v # w /\ post[v].seg = s /\ post[w].seg = s
Spoilt(s) == Several(s) \/ s \notin InRing \/ \E x \in Deleters : deleting[x].seg = s
Answered(s) == \E w \in Writers : post[w].seg = s /\ post[w].pc = "done"

EndedByItsPost(s) ==
  Spoilt(s) \/ (heap[s].closeCh = 0 /\ (heap[s].closed => Answered(s)))

ReadAll(g) ==
  sub[g].seg # Nil /\ (get[g].resp = "200" \/ (get[g].pc = "sending" /\ get[g].eof)) =>
    \/ Spoilt(sub[g].seg)
    \/ Answered(sub[g].seg) /\ sub[g].readPos = Len(SegmentOf(g).buffer)

Whole ==
  /\ \A x \in Deleters : deleting[x].pc = "idle" => deleting[x].seg = Nil
  /\ \A s \in DOMAIN heap : EndedByItsPost(s)
  /\ \A g \in Readers : ReadAll(g)

(* What no step undoes.                                                     *)
Stays ==
  /\ PostsKeepTheirs
  /\ \A w \in Writers : post[w].pc = "done" => post'[w].pc = "done"
  /\ \A x \in Deleters : deleting[x].seg # Nil => deleting'[x].seg = deleting[x].seg
  /\ \A s \in DOMAIN heap : s \in InRing' => s \in InRing

(* What a step may do to a segment that it does not spoil.                  *)
Fate(s) ==
  \/ Spoilt(s)'
  \/ /\ heap'[s].closeCh = heap[s].closeCh
     /\ heap'[s].closed => heap[s].closed \/ Answered(s)'
     /\ Answered(s) => heap'[s].buffer = heap[s].buffer

LEMMA OnceSpoilt ==
  ASSUME HandlerInv, Stays, NEW s \in DOMAIN heap
  PROVE  (Spoilt(s) => Spoilt(s)') /\ (Answered(s) => Answered(s)')
  <1>1. s # Nil
    BY HeapFacts DEF HandlerInv, RingOK, StreamTypeOK, Nil
  <1>2. Several(s) => Several(s)'
    BY <1>1 DEF Several, Stays, PostsKeepTheirs
  <1>3. Answered(s) => Answered(s)'
    BY <1>1 DEF Answered, Stays, PostsKeepTheirs
  <1>4. \A x \in Deleters : deleting[x].seg = s => deleting'[x].seg = s
    BY <1>1 DEF Stays
  <1>5. s \notin InRing => ~(s \in InRing')
    BY DEF Stays
  <1> QED BY <1>2, <1>3, <1>4, <1>5 DEF Spoilt

(* close as its effect on one segment.                                      *)
LEMMA ClosedFields ==
  ASSUME HandlerInv, NEW S, NEW s \in DOMAIN heap
  PROVE  /\ Closed(S)[s].closeCh = heap[s].closeCh /\ Closed(S)[s].buffer = heap[s].buffer
         /\ Closed(S)[s].closed => heap[s].closed \/ s \in S
  <1>1. heap[s] \in SegmentType
    BY HeapFacts DEF HandlerInv, RingOK, StreamTypeOK
  <1> QED BY <1>1 DEF Closed, SegmentType

(* A segment that is reset had a POST before.                               *)
LEMMA ResetBySecond ==
  ASSUME HandlerInv, Provenance, NEW w \in Writers, NEW s \in DOMAIN heap, heap[s].buffer # << >>,
         post[w].seg = Nil, post'[w].seg = s, PostsKeepTheirs
  PROVE  Several(s)'
  <1>1. heap[s].buffer \in Seq(Data) /\ s # Nil
    BY HeapFacts DEF HandlerInv, RingOK, StreamTypeOK, Nil
  <1>2. heap[s].buffer[1] \in ToSet(heap[s].buffer)
    <2>1. Len(heap[s].buffer) \in Nat /\ Len(heap[s].buffer) # 0 /\ DOMAIN heap[s].buffer = 1 .. Len(heap[s].buffer)
      BY <1>1, EmptySeq, LenProperties
    <2> QED BY <2>1 DEF ToSet
  <1>3. PICK v \in Writers : post[v].seg = s
    BY <1>1, <1>2, ChunkWriter DEF Provenance
  <1>4. v # w /\ post'[v].seg = s
    BY <1>1, <1>3 DEF PostsKeepTheirs
  <1> QED BY <1>4 DEF Several

(* The POST's steps.                                                        *)
LEMMA PostFate ==
  ASSUME HandlerInv, Provenance, NEW w \in Writers, PostClient(w) \/ PostServer(w)
  PROVE  /\ Stays
         /\ \A s \in DOMAIN heap : Fate(s)
  <1>1. post \in [Writers -> PostType(Len(heap))] /\ post[w] \in PostType(Len(heap))
    BY DEF HandlerInv, PostOK
  <1>2. PostsKeepTheirs /\ UNCHANGED deleting
    BY PostKeepsSegment
       DEF PostClient, PostServer, PostLookup, PostGetForWrite, PostArm, PostFirstByte, PostWriteFirst,
           PostMore, PostBodyEnd, PostEmptyBody, EmptyPost, PostKicked, PostError, PostClose
  <1>3. /\ post[w].pc # "done"
        /\ \A v \in Writers \ {w} : post'[v] = post[v]
    BY <1>1
       DEF PostClient, PostServer, PostLookup, PostGetForWrite, PostArm, PostFirstByte, PostWriteFirst,
           PostMore, PostBodyEnd, PostEmptyBody, EmptyPost, PostKicked, PostError, PostClose
  <1>4. ASSUME UNCHANGED segments
        PROVE  Stays
    BY <1>2, <1>3, <1>4 DEF Stays, InRing
  <1>5. CASE PostGetForWrite(w)
    <2> DEFINE i == ForWrite(post[w].seq)
    <2>1. i \in Nat
      BY SeqNumbers
    <2> HIDE DEF i
    <2>2. /\ getForWrite(i) /\ post[w].seg = Nil
          /\ post' = [post EXCEPT ![w].pc = "arming", ![w].seg = WriteSegment(i)]
      BY <1>5 DEF PostGetForWrite, HandlerInv, PostOK, i
    <2>3. post'[w].seg = WriteSegment(i)
      BY <1>1, <2>2
    <2>4. CASE Reuse(i)
      <3>1. Slot(i) \in DOMAIN heap /\ WriteSegment(i) = Slot(i) /\ UNCHANGED segments
        BY <2>1, <2>4, ExistsIsSegment DEF Reuse, WriteSegment, HandlerInv
      <3>2. \/ heap' = heap
            \/ heap[Slot(i)].buffer # << >> /\ heap' = [heap EXCEPT ![Slot(i)] = Emptied(Slot(i))]
        BY <2>4 DEF Reuse, reset, segmentVars
      <3>3. ASSUME NEW s \in DOMAIN heap
            PROVE  heap'[s] = heap[s] \/ Several(s)'
        <4>1. CASE s = Slot(i) /\ heap[s].buffer # << >>
          <5>1. post'[w].seg = s
            BY <2>3, <3>1, <4>1
          <5> QED BY <1>2, <2>2, <4>1, <5>1, ResetBySecond
        <4>2. CASE s # Slot(i) \/ heap[s].buffer = << >>
          BY <3>2, <4>2
        <4> QED BY <4>1, <4>2
      <3> QED BY <1>4, <3>1, <3>3 DEF Fate, Spoilt
    <2>5. CASE Replace(i)
      <3>1. heap' = Append(Closed({Slot(i)}), newSegment(i)) /\ Store(i, Len(heap) + 1)
        BY <2>5 DEF Replace
      <3>2. Stays
        BY <1>2, <1>3, <2>1, <3>1, StoreLoses DEF HandlerInv, Stays
      <3>3. \A s \in DOMAIN heap : heap'[s] = Closed({Slot(i)})[s]
        <4>1. /\ Closed({Slot(i)}) \in Seq(SegmentType) /\ Len(Closed({Slot(i)})) = Len(heap)
              /\ Len(heap) \in Nat /\ DOMAIN heap = 1 .. Len(heap)
          BY ClosedShut, HeapFacts DEF HandlerInv, RingOK, StreamTypeOK, SegInv
        <4>2. newSegment(i) \in SegmentType
          <5>1. << >> \in Seq(Data)
            OBVIOUS
          <5> QED BY <2>1, <5>1 DEF newSegment, SegmentType
        <4> QED BY <3>1, <4>1, <4>2, AppendProperties
      <3> SUFFICES ASSUME NEW s \in DOMAIN heap
                   PROVE  Fate(s)
        BY <3>2
      <3>4. s = Slot(i) => Spoilt(s)'
        BY <2>1, <3>1, StoreReplaces DEF HandlerInv, Spoilt
      <3>5. /\ Closed({Slot(i)})[s].closeCh = heap[s].closeCh /\ Closed({Slot(i)})[s].buffer = heap[s].buffer
            /\ Closed({Slot(i)})[s].closed => heap[s].closed \/ s \in {Slot(i)}
        BY ClosedFields
      <3> QED BY <3>3, <3>4, <3>5 DEF Fate
    <2> QED BY <2>2, <2>4, <2>5 DEF getForWrite
  <1>6. CASE PostWriteFirst(w) \/ PostMore(w)
    <2>1. UNCHANGED segments /\ post[w].pc \in {"numbered", "streaming"} /\ post'[w].seg = post[w].seg
      BY <1>1, <1>6 DEF PostWriteFirst, PostMore, streamVars, PostType
    <2>2. PICK d : heap' = Written(post[w].seg, d)
      BY <1>6 DEF PostWriteFirst, PostMore, writeData
    <2> SUFFICES ASSUME NEW s \in DOMAIN heap
                 PROVE  Fate(s)
      BY <1>4, <2>1
    <2>3. CASE s # post[w].seg
      BY <2>2, <2>3 DEF Written, Fate
    <2>4. CASE s = post[w].seg
      <3>1. heap[s] \in SegmentType /\ s # Nil
        BY HeapFacts DEF HandlerInv, RingOK, StreamTypeOK, Nil
      <3>2. heap'[s].closeCh = heap[s].closeCh /\ heap'[s].closed = heap[s].closed
        BY <2>2, <2>4, <3>1 DEF Written, SegmentType
      <3>3. Answered(s) => Several(s)'
        BY <1>2, <2>1, <2>4, <3>1 DEF Answered, Several, PostsKeepTheirs
      <3> QED BY <3>2, <3>3 DEF Fate, Spoilt
    <2> QED BY <2>3, <2>4
  <1>7. CASE PostClose(w)
    <2>1. UNCHANGED segments /\ heap' = Closed({post[w].seg})
      BY <1>7 DEF PostClose, close, streamVars
    <2>2. post'[w].seg = post[w].seg /\ post'[w].pc = "done"
      BY <1>1, <1>7 DEF PostClose, PostType
    <2> SUFFICES ASSUME NEW s \in DOMAIN heap
                 PROVE  Fate(s)
      BY <1>4, <2>1
    <2>3. s = post[w].seg => Answered(s)'
      BY <2>2 DEF Answered
    <2> QED BY <2>1, <2>3, ClosedFields DEF Fate
  <1>8. CASE UNCHANGED <<segmentVars, streamVars>> \/ UNCHANGED <<segmentVars, segments, closed, precreating>>
    BY <1>4, <1>8 DEF segmentVars, streamVars, Fate
  <1> QED BY <1>5, <1>6, <1>7, <1>8
          DEF PostClient, PostServer, PostLookup, PostArm, PostFirstByte, PostBodyEnd, PostEmptyBody,
              EmptyPost, PostKicked, PostError

(* The steps of a DELETE of a segment.                                      *)
LEMMA DeletionFate ==
  ASSUME HandlerInv, Whole, NEW x \in Deleters, Deletion(x)
  PROVE  /\ Stays
         /\ \A s \in DOMAIN heap : Fate(s)
         /\ \A y \in Deleters : deleting'[y].pc = "idle" => deleting'[y].seg = Nil
  <1>1. /\ deleting \in [Deleters -> [pc : {"idle", "holding", "done"}, seg : 0 .. Len(heap)]]
        /\ \A y \in Deleters : deleting[y].pc = "idle" => deleting[y].seg = Nil
    BY DEF HandlerInv, OthersOK, Whole
  <1>2. CASE DeleteFind(x)
    <2>1. UNCHANGED <<heap, segments, post>> /\ deleting[x].seg = Nil
      BY <1>1, <1>2 DEF DeleteFind, segmentVars, streamVars
    <2>2. PICK q : deleting' = [deleting EXCEPT ![x] = q] /\ q.pc # "idle"
      <3>1. PICK i \in PostSeqs \cap Nat :
              deleting' = [deleting EXCEPT ![x] =
                      IF exists(Slot(i), i) THEN [pc |-> "holding", seg |-> Slot(i)]
                                            ELSE [pc |-> "done", seg |-> Nil]]
        BY <1>2 DEF DeleteFind
      <3>2. CASE exists(Slot(i), i)
        <4>1. deleting' = [deleting EXCEPT ![x] = [pc |-> "holding", seg |-> Slot(i)]]
          BY <3>1, <3>2
        <4>2. [pc |-> "holding", seg |-> Slot(i)].pc # "idle"
          OBVIOUS
        <4> QED BY <4>1, <4>2, Zenon
      <3>3. CASE ~exists(Slot(i), i)
        <4>1. deleting' = [deleting EXCEPT ![x] = [pc |-> "done", seg |-> Nil]]
          BY <3>1, <3>3
        <4>2. [pc |-> "done", seg |-> Nil].pc # "idle"
          OBVIOUS
        <4> QED BY <4>1, <4>2, Zenon
      <3> QED BY <3>2, <3>3
    <2> QED BY <1>1, <2>1, <2>2 DEF Stays, PostsKeepTheirs, InRing, Fate
  <1>3. CASE DeleteClose(x)
    <2>1. /\ UNCHANGED <<segments, post>> /\ heap' = Closed({deleting[x].seg})
          /\ deleting' = [deleting EXCEPT ![x].pc = "done"]
      BY <1>3 DEF DeleteClose, close, streamVars
    <2>2. /\ \A y \in Deleters : deleting'[y].seg = deleting[y].seg
          /\ \A y \in Deleters : deleting'[y].pc = "idle" => deleting[y].pc = "idle"
      BY <1>1, <2>1
    <2>3. Stays
      BY <2>1, <2>2 DEF Stays, PostsKeepTheirs, InRing
    <2>4. ASSUME NEW s \in DOMAIN heap
          PROVE  Fate(s)
      <3>1. s = deleting[x].seg => Spoilt(s)'
        BY <2>2 DEF Spoilt
      <3> QED BY <2>1, <3>1, ClosedFields DEF Fate
    <2> QED BY <1>1, <2>2, <2>3, <2>4
  <1> QED BY <1>2, <1>3 DEF Deletion

(* The steps of a DELETE of the channel.                                    *)
LEMMA ClosingFate ==
  ASSUME HandlerInv, NEW x \in Closers, Closing(x)
  PROVE  /\ Stays
         /\ \A s \in DOMAIN heap : Fate(s)
  <1>1. UNCHANGED <<post, deleting>>
    BY DEF Closing, CloserLookup, CloserClose, CloserUnlist
  <1>2. CASE CloserClose(x)
    <2>1. InRing' = {}
      BY <1>2 DEF CloserClose, closeAll, InRing
    <2> QED BY <1>1, <2>1 DEF Stays, PostsKeepTheirs, Fate, Spoilt
  <1>3. CASE CloserLookup(x) \/ CloserUnlist(x)
    BY <1>1, <1>3 DEF CloserLookup, CloserUnlist, segmentVars, streamVars, Stays, PostsKeepTheirs, InRing, Fate
  <1> QED BY <1>2, <1>3 DEF Closing

(* The steps of a GET spoil no segment, and change none.                    *)
LEMMA GetFate ==
  ASSUME HandlerInv, NEW g \in Readers, GetClient(g) \/ GetServer(g)
  PROVE  /\ Stays
         /\ \A s \in DOMAIN heap : Fate(s) /\ heap'[s] = heap[s]
  <1>1. UNCHANGED <<post, deleting>>
    BY DEF GetClient, GetServer, GetLookup, GetGone, GetFound, GetAhead, GetPrecreate, GetAbsent,
           GetReadData, GetReadEnd, GetWait, GetSend, GetEmpty, handlerVars
  <1>2. CASE GetPrecreate(g)
    <2>1. precreating[g] \in Nat /\ Store(precreating[g], Len(heap) + 1)
      BY <1>2, HandlersAssumption DEF GetPrecreate, Precreate, HandlerInv, RingOK, StreamTypeOK
    <2>2. \A s \in DOMAIN heap : heap'[s] = heap[s]
      BY <1>2, PrecreateSafe, HandlersAssumption DEF GetPrecreate, HandlerInv
    <2>3. Stays
      BY <1>1, <2>1, StoreLoses DEF HandlerInv, Stays, PostsKeepTheirs
    <2> QED BY <2>2, <2>3 DEF Fate
  <1>3. CASE UNCHANGED <<heap, segments>>
    BY <1>1, <1>3 DEF Stays, PostsKeepTheirs, InRing, Fate
  <1> QED BY <1>2, <1>3
          DEF GetClient, GetServer, GetLookup, GetGone, GetFound, GetAhead, StartPrecreate, GetAbsent,
              GetReadData, GetReadEnd, GetWait, GetSend, GetEmpty, segmentVars, streamVars, handlerVars

(* Steps of the others leave a GET what it has.                             *)
LEMMA OthersKeepReadAll ==
  ASSUME HandlerInv, Whole, Stays, \A s \in DOMAIN heap : Fate(s), NEW g \in Readers,
         get'[g] = get[g], sub'[g].seg = sub[g].seg, sub'[g].readPos = sub[g].readPos
  PROVE  ReadAll(g)'
  <1> DEFINE Over == get[g].resp = "200" \/ (get[g].pc = "sending" /\ get[g].eof)
  <1>1. CASE sub[g].seg = Nil \/ ~Over
    BY <1>1 DEF ReadAll
  <1>2. CASE sub[g].seg # Nil /\ Over
    <2>0. PICK s \in DOMAIN heap : s = sub[g].seg
      <3>1. sub[g].seg \in 0 .. Len(heap) /\ Len(heap) \in Nat /\ DOMAIN heap = 1 .. Len(heap)
        BY GetSegment, HeapFacts DEF HandlerInv, RingOK, StreamTypeOK, SubType
      <3>2. sub[g].seg \in 1 .. Len(heap)
        BY <1>2, <3>1 DEF Nil
      <3> QED BY <3>1, <3>2
    <2>1. Spoilt(s) \/ (Answered(s) /\ sub[g].readPos = Len(heap[s].buffer))
      BY <1>2, <2>0 DEF Whole, ReadAll, SegmentOf
    <2>2. (Spoilt(s) => Spoilt(s)') /\ (Answered(s) => Answered(s)')
      BY OnceSpoilt
    <2>3. Spoilt(s)' \/ (Answered(s)' /\ sub[g].readPos = Len(heap'[s].buffer))
      BY <2>1, <2>2 DEF Fate
    <2>4. SegmentOf(g)' = heap'[s] /\ sub'[g].seg = s /\ sub'[g].readPos = sub[g].readPos
      BY <2>0 DEF SegmentOf
    <2>5. Spoilt(sub[g].seg)' <=> Spoilt(s)'
      BY <2>4 DEF Spoilt, Several
    <2>6. Answered(sub[g].seg)' <=> Answered(s)'
      BY <2>4 DEF Answered
    <2> QED BY <2>3, <2>4, <2>5, <2>6 DEF ReadAll
  <1> QED BY <1>1, <1>2

(* Every segment is still ended by its POST, if by anybody.                 *)
LEMMA EndsKept ==
  ASSUME HandlerInv, Whole, Stays, SegmentSteps, \A s \in DOMAIN heap : Fate(s)
  PROVE  \A s \in DOMAIN heap' : EndedByItsPost(s)'
  <1> SUFFICES ASSUME NEW s \in DOMAIN heap'
               PROVE  EndedByItsPost(s)'
    OBVIOUS
  <1>1. CASE s \in DOMAIN heap
    <2>1. EndedByItsPost(s) /\ Fate(s)
      BY <1>1 DEF Whole
    <2>2. (Spoilt(s) => Spoilt(s)') /\ (Answered(s) => Answered(s)')
      BY <1>1, OnceSpoilt
    <2> QED BY <2>1, <2>2 DEF EndedByItsPost, Fate
  <1>2. CASE s \notin DOMAIN heap
    BY <1>2 DEF SegmentSteps, newSegment, EndedByItsPost
  <1> QED BY <1>1, <1>2

(* The steps of requests other than GETs keep Whole.                        *)
LEMMA OthersKeepWhole ==
  ASSUME HandlerInv, Whole, Stays, SegmentSteps, Undisturbed, UNCHANGED get,
         \A s \in DOMAIN heap : Fate(s),
         \A x \in Deleters : deleting'[x].pc = "idle" => deleting'[x].seg = Nil
  PROVE  Whole'
  BY EndsKept, OthersKeepReadAll DEF Whole, Undisturbed

(* A GET's step keeps Whole if it keeps what it says of this GET.           *)
LEMMA GetKeepsWhole ==
  ASSUME HandlerInv, Whole, NEW g \in Readers, GetClient(g) \/ GetServer(g), SegmentSteps,
         \A h \in Readers \ {g} : get'[h] = get[h] /\ sub'[h] = sub[h],
         ReadAll(g)'
  PROVE  Whole'
  <1>1. UNCHANGED deleting
    BY DEF GetClient, GetServer, GetLookup, GetGone, GetFound, GetAhead, GetPrecreate, GetAbsent,
           GetReadData, GetReadEnd, GetWait, GetSend, GetEmpty, handlerVars
  <1>2. Stays /\ \A s \in DOMAIN heap : Fate(s)
    BY GetFate
  <1>3. \A h \in Readers \ {g} : ReadAll(h)'
    BY <1>2, OthersKeepReadAll
  <1>4. \A s \in DOMAIN heap' : EndedByItsPost(s)'
    BY <1>2, EndsKept
  <1> QED BY <1>1, <1>3, <1>4 DEF Whole

(* A GET that reads to the end of a segment that was not spoilt has all of  *)
(* it, and the segment's POST was answered.                                 *)
LEMMA EndIsWhole ==
  ASSUME HandlerInv, Delivered, Whole, NEW g \in Readers, sub[g].seg \in DOMAIN heap
  PROVE  /\ SegmentOf(g).closed => Spoilt(sub[g].seg) \/ Answered(sub[g].seg)
         /\ sub[g].readPos > Len(SegmentOf(g).buffer) => Spoilt(sub[g].seg)
  <1>1. EndedByItsPost(sub[g].seg)
    BY DEF Whole
  <1>2. sub[g].seg # Nil
    BY HeapFacts DEF HandlerInv, RingOK, StreamTypeOK, Nil
  <1>3. SegmentOf(g).closeCh = 0 => sub[g].readPos <= Len(SegmentOf(g).buffer)
    BY <1>2 DEF Delivered, DeliveredTo
  <1>4. sub[g].readPos \in Nat /\ Len(SegmentOf(g).buffer) \in Nat
    <2>1. SegmentOf(g).buffer \in Seq(Data)
      BY HeapFacts DEF SegmentOf, HandlerInv, RingOK, StreamTypeOK
    <2>2. Len(SegmentOf(g).buffer) \in Nat
      BY <2>1, LenProperties
    <2> QED BY <2>2, GetSegment DEF SubType
  <1> QED BY <1>1, <1>3, <1>4 DEF EndedByItsPost, SegmentOf

(* A GET that ends normally has read all of its segment.                    *)
LEMMA GetReadsAll ==
  ASSUME HandlerInv, Delivered, Whole, NEW g \in Readers, GetReadData(g) \/ GetReadEnd(g) \/ GetSend(g)
  PROVE  Whole'
  <1> DEFINE s == sub[g].seg
             b == SegmentOf(g).buffer
             n == sub[g].readPos
  <1>1. /\ UNCHANGED <<heap, segments, post, deleting>>
        /\ get[g].pc \in {"attached", "sending"}
    BY DEF GetReadData, GetReadEnd, GetSend, Reads, segmentVars, streamVars
  <1>2. /\ get \in [Readers -> GetType] /\ sub \in [Readers -> SubType(Len(heap))]
        /\ s \in DOMAIN heap /\ s # Nil
    BY <1>1, GetSegment, HandlersAssumption
       DEF HandlerInv, GetOK, RingOK, StreamTypeOK, SegmentTypeOK, SubType
  <1>3. /\ SegmentOf(g).closed => Spoilt(s) \/ Answered(s)
        /\ n > Len(b) => Spoilt(s)
    BY <1>2, EndIsWhole
  <1>4. b \in Seq(Data) /\ n \in Nat
    <2>1. b \in Seq(Data)
      BY <1>2, HeapFacts DEF SegmentOf, HandlerInv, RingOK, StreamTypeOK
    <2> QED BY <1>2, <2>1 DEF SubType
  <1>5. ASSUME sub'[g].seg = s,
               get'[g].resp = "200" \/ (get'[g].pc = "sending" /\ get'[g].eof) =>
                 Spoilt(s) \/ (Answered(s) /\ sub'[g].readPos = Len(b)),
               \A h \in Readers \ {g} : get'[h] = get[h] /\ sub'[h] = sub[h]
        PROVE  Whole'
    <2>1. SegmentOf(g)' = SegmentOf(g)
      BY <1>1, <1>5 DEF SegmentOf
    <2>2. Spoilt(s)' = Spoilt(s) /\ Answered(s)' = Answered(s)
      BY <1>1, <1>5 DEF Spoilt, Several, InRing, Answered
    <2>3. ReadAll(g)'
      BY <1>5, <2>1, <2>2 DEF ReadAll
    <2> QED BY <1>1, <1>5, <2>3, NothingHappens, GetKeepsWhole DEF GetServer
  <1> HIDE DEF s, b, n
  <1>6. CASE GetReadData(g)
    <2>1. /\ n < Len(b) /\ sub' = [sub EXCEPT ![g].readPos = @ + Len(Unread(b, n))]
          /\ get' = [get EXCEPT ![g].pc = "sending", ![g].data = Unread(b, n), ![g].eof = SegmentOf(g).closed]
      BY <1>6 DEF GetReadData, Reads, HasData, Advance, Waiting, b, n
    <2>2. n + Len(Unread(b, n)) = Len(b)
      BY <1>4, <2>1, ReadFollows
    <2>3. /\ sub'[g].seg = s /\ sub'[g].readPos = Len(b)
          /\ get'[g].eof = SegmentOf(g).closed /\ get'[g].resp = get[g].resp
          /\ \A h \in Readers \ {g} : get'[h] = get[h] /\ sub'[h] = sub[h]
      BY <1>2, <2>1, <2>2 DEF GetType, SubType, s, n
    <2>4. get[g].resp = "none"
      BY <1>6 DEF GetReadData, Reads, Delivered, DeliveredTo
    <2> QED BY <1>3, <1>5, <2>3, <2>4
  <1>7. CASE GetReadEnd(g)
    <2>1. UNCHANGED sub /\ AtEnd(g) /\ \A h \in Readers \ {g} : get'[h] = get[h]
      BY <1>2, <1>7 DEF GetReadEnd, segmentVars
    <2>2. n > Len(b) \/ (n = Len(b) /\ SegmentOf(g).closed)
      BY <2>1 DEF AtEnd, b, n
    <2> QED BY <1>3, <1>5, <2>1, <2>2 DEF s, n
  <1>8. CASE GetSend(g)
    <2>1. /\ UNCHANGED sub /\ get[g].pc = "sending" /\ \A h \in Readers \ {g} : get'[h] = get[h]
          /\ get'[g].resp = "200" => get[g].eof
          /\ get'[g].pc # "sending"
      <3> DEFINE f(torn) == [p \in 1 .. Len(get[g].data) |->
                               IF p \in torn THEN SegmentOf(g).buffer[SentFrom(g) + p] ELSE get[g].data[p]]
      <3>1. PICK torn \in SUBSET Overwritten(g) :
              get' = [get EXCEPT ![g].got = @ \o f(torn),
                                 ![g].data = << >>,
                                 ![g].pc = IF get[g].eof THEN "done" ELSE "attached",
                                 ![g].resp = IF get[g].eof THEN "200" ELSE "none"]
        BY <1>8 DEF GetSend
      <3> HIDE DEF f
      <3>2. UNCHANGED sub /\ get[g].pc = "sending"
        BY <1>8 DEF GetSend, segmentVars
      <3>3. /\ \A h \in Readers \ {g} : get'[h] = get[h]
            /\ get'[g].resp = (IF get[g].eof THEN "200" ELSE "none")
            /\ get'[g].pc = (IF get[g].eof THEN "done" ELSE "attached")
        BY <1>2, <3>1 DEF GetType
      <3> QED BY <3>2, <3>3
    <2>2. get[g].eof => Spoilt(s) \/ (Answered(s) /\ n = Len(b))
      BY <1>2, <2>1 DEF Whole, ReadAll, s, b, n
    <2> QED BY <1>5, <2>1, <2>2 DEF s, n
  <1> QED BY <1>6, <1>7, <1>8

(* The other steps of a GET end nothing normally.                           *)
LEMMA GetEndsNothing ==
  ASSUME HandlerInv, Delivered, Whole, NEW g \in Readers,
         \/ GetLookup(g) \/ GetFound(g) \/ GetAhead(g) \/ GetPrecreate(g) \/ GetAbsent(g)
         \/ GetWait(g) \/ GetEmpty(g) \/ GetGone(g)
  PROVE  Whole'
  <1>1. get \in [Readers -> GetType] /\ sub \in [Readers -> SubType(Len(heap))]
    BY HandlersAssumption DEF HandlerInv, GetOK, RingOK, StreamTypeOK, SegmentTypeOK, SubType
  <1>2. \A h \in Readers \ {g} : get'[h] = get[h] /\ sub'[h] = sub[h]
    BY <1>1, HandlersAssumption
       DEF GetLookup, GetFound, GetAhead, GetPrecreate, GetAbsent, GetWait, GetEmpty, GetGone,
           Subscribe, Precreate, Park, segmentVars, handlerVars
  <1>3. SegmentSteps
    <2>1. CASE GetFound(g) \/ GetPrecreate(g)
      BY <2>1, AttachSteps
    <2>2. CASE UNCHANGED heap
      BY <2>2, NothingHappens
    <2> QED BY <2>1, <2>2
            DEF GetLookup, GetAhead, StartPrecreate, GetAbsent, GetWait, GetEmpty, GetGone, segmentVars
  <1>4. get[g].resp # "none" => get[g].pc = "done"
    BY DEF Delivered, DeliveredTo
  <1>5. get'[g].resp # "200" /\ get'[g].pc # "sending"
    <2>1. CASE GetLookup(g)
      <3>1. PICK seq \in GetSeqs : get' = [get EXCEPT ![g].pc = "located", ![g].seq = seq]
        BY <2>1 DEF GetLookup
      <3> QED BY <1>1, <1>4, <2>1, <3>1 DEF GetLookup, GetType
    <2>2. CASE GetFound(g) \/ GetPrecreate(g)
      BY <1>1, <1>4, <2>2 DEF GetFound, GetPrecreate, GetType
    <2>3. CASE GetAhead(g) \/ GetWait(g)
      BY <1>4, <2>3 DEF GetAhead, GetWait, Reads, handlerVars
    <2>4. CASE GetAbsent(g) \/ GetEmpty(g)
      BY <1>1, <2>4 DEF GetAbsent, GetEmpty, GetType
    <2>5. CASE GetGone(g)
      BY <1>1, <2>5 DEF GetGone, GetType
    <2> QED BY <2>1, <2>2, <2>3, <2>4, <2>5
  <1>6. ReadAll(g)'
    BY <1>5 DEF ReadAll
  <1> QED BY <1>2, <1>3, <1>6, GetKeepsWhole DEF GetClient, GetServer

(* Every step keeps Whole.                                                  *)
LEMMA StepKeepsWhole ==
  ASSUME HandlerInv, Delivered, Whole, [Next]_vars
  PROVE  Whole'
  <1>1. \A x \in Deleters : deleting[x].pc = "idle" => deleting[x].seg = Nil
    BY DEF Whole
  <1>2. ASSUME NEW w \in Writers, PostClient(w) \/ PostServer(w)
        PROVE  Whole'
    <2>1. SegmentSteps /\ Undisturbed /\ Stays /\ \A s \in DOMAIN heap : Fate(s)
      BY <1>2, PostSteps, PostFate DEF StaysOrWakes, Delivered
    <2>2. UNCHANGED <<get, deleting>>
      BY <1>2
         DEF PostClient, PostServer, PostLookup, PostGetForWrite, PostArm, PostFirstByte, PostWriteFirst,
             PostMore, PostBodyEnd, PostEmptyBody, EmptyPost, PostKicked, PostError, PostClose
    <2> QED BY <1>1, <2>1, <2>2, OthersKeepWhole
  <1>3. ASSUME NEW x \in Deleters, Deletion(x)
        PROVE  Whole'
    <2>1. SegmentSteps /\ Undisturbed
      BY <1>3, DeletionSteps DEF StaysOrWakes
    <2>2. UNCHANGED get
      BY <1>3 DEF Deletion, DeleteFind, DeleteClose
    <2> QED BY <1>3, <2>1, <2>2, DeletionFate, OthersKeepWhole
  <1>4. ASSUME NEW x \in Closers, Closing(x)
        PROVE  Whole'
    <2>1. SegmentSteps /\ Undisturbed
      BY <1>4, ClosingSteps DEF StaysOrWakes
    <2>2. UNCHANGED <<get, deleting>>
      BY <1>4 DEF Closing, CloserLookup, CloserClose, CloserUnlist
    <2> QED BY <1>1, <1>4, <2>1, <2>2, ClosingFate, OthersKeepWhole
  <1>5. ASSUME NEW g \in Readers, GetClient(g) \/ GetServer(g)
        PROVE  Whole'
    BY <1>5, GetReadsAll, GetEndsNothing DEF GetClient, GetServer
  <1>6. CASE UNCHANGED vars
    <2>1. SegmentSteps /\ Undisturbed /\ UNCHANGED <<get, deleting>>
      BY <1>6, NothingHappens DEF vars, Undisturbed
    <2>2. Stays /\ \A s \in DOMAIN heap : Fate(s)
      BY <1>6 DEF vars, Stays, PostsKeepTheirs, InRing, Fate
    <2> QED BY <1>1, <2>1, <2>2, OthersKeepWhole
  <1> QED BY <1>2, <1>3, <1>4, <1>5, <1>6 DEF Next

LEMMA InitWhole ==
  ASSUME Init
  PROVE  Whole
  BY HandlersAssumption
     DEF Init, InitStream, InitSegments, NewGet, Whole, ReadAll, EndedByItsPost, Nil

(* A GET that ends normally was sent all that the one POST to its segment   *)
(* wrote, unless the segment was evicted, DELETEd or closed with its stream *)
(* (readData, isFresh, getForWrite, handleGet).                             *)
THEOREM SegmentsAreWhole == Spec => []WholeSegment
  <1>1. HandlerInv /\ Delivered /\ Whole => WholeSegment
    <2> SUFFICES ASSUME HandlerInv, Delivered, Whole, NEW g \in Readers, get[g].resp = "200",
                        NEW w \in Writers, Posts(sub[g].seg) = {w}, ClosedByItsPost(sub[g].seg)
                 PROVE  get[g].got = SegmentOf(g).buffer
      BY DEF WholeSegment
    <2>1. sub[g].seg \in DOMAIN heap /\ sub[g].seg # Nil
      <3>1. sub[g].seg \in 0 .. Len(heap) /\ Len(heap) \in Nat /\ DOMAIN heap = 1 .. Len(heap)
        BY GetSegment, HeapFacts DEF HandlerInv, RingOK, StreamTypeOK, SubType
      <3>2. sub[g].seg # Nil
        BY DEF ClosedByItsPost, InRing
      <3> QED BY <3>1, <3>2 DEF Nil
    <2>2. ~Spoilt(sub[g].seg)
      BY DEF Spoilt, Several, Posts, ClosedByItsPost
    <2>3. SegmentOf(g).closeCh = 0 /\ sub[g].readPos = Len(SegmentOf(g).buffer)
      BY <2>1, <2>2 DEF Whole, EndedByItsPost, ReadAll, SegmentOf
    <2>4. /\ get[g].got \o get[g].data = SubSeq(SegmentOf(g).buffer, 1, Len(SegmentOf(g).buffer))
          /\ get[g].data = << >>
      BY <2>1, <2>3 DEF Delivered, DeliveredTo
    <2>5. get[g].got \in Seq(Data) /\ SegmentOf(g).buffer \in Seq(Data)
      BY <2>1, HeapFacts, GetSegment DEF SegmentOf, HandlerInv, RingOK, StreamTypeOK, GetType
    <2> QED BY <2>4, <2>5, ConcatEmptySeq, SubSeqFull
  <1>2. Init => Whole
    BY InitWhole
  <1>3. HandlerInv /\ Delivered /\ Whole /\ [Next]_vars => Whole'
    BY StepKeepsWhole
  <1> QED BY <1>1, <1>2, <1>3, DeliveryInvariance, PTL DEF Spec
==============================================================================
