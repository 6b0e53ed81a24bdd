---------------------------- MODULE StreamHandlers ----------------------------
(***************************************************************************)
(* trickle_server.go: the HTTP handlers of one channel, running             *)
(* concurrently on its Stream.  Every request is a process that runs once:  *)
(*   Writers    POST /channel/seq     handlePost                            *)
(*   Readers    GET /channel/seq      handleGet                             *)
(*   Deleters   DELETE /channel/seq   closeSeq                              *)
(*   Closers    DELETE /channel       closeStream (also the idle sweep)     *)
(*                                                                         *)
(* A step is what a handler does between two points where another one may   *)
(* run: a lock released, a blocking read, a write to the client.  Clients   *)
(* decide when a request arrives, when its body has data, ends or breaks,   *)
(* and when they hang up; the rest is the server's own progress.            *)
(***************************************************************************)
EXTENDS Stream, SequencesExt

CONSTANTS
  Writers, Readers, Deleters, Closers,
  PostSeqs,       \* the seq of a POST: -1 or a segment number; the latter also of a DELETE
  GetSeqs,        \* the seq of a GET: -1, -2 or a segment number
  MaxChunks,      \* bound on the chunks of one POST
  BodyErrors      \* whether the connection of a publisher may break

ASSUME HandlersAssumption ==
  /\ Subscribers = Readers
  /\ Data = Writers \X (1 .. MaxChunks)   \* the k-th chunk of a POST
  /\ PostSeqs \subseteq Nat \cup {-1}
  /\ GetSeqs \subseteq Nat \cup {-1, -2}
  /\ MaxChunks \in Nat
  /\ BodyErrors \in BOOLEAN

VARIABLES
  listed,         \* the stream is in Server.streams
  post,           \* the POST handlers
  get,            \* the GET handlers
  deleting,       \* the DELETE seq handlers: the segment they hold
  closing         \* the DELETE channel handlers

handlerVars == <<listed, post, get, deleting, closing>>
vars == <<heap, shut, sub, segments, nextWrite, closed, precreating,
          listed, post, get, deleting, closing>>

NewPost == [pc |-> "idle", seq |-> 0, seg |-> Nil, closeCh |-> NoChannel, sent |-> 0, resp |-> "none"]
NewGet  == [pc |-> "idle", seq |-> 0, data |-> << >>, eof |-> FALSE, got |-> << >>, resp |-> "none"]

Init ==
  /\ InitStream
  /\ listed = TRUE
  /\ post = [w \in Writers |-> NewPost]
  /\ get = [g \in Readers |-> NewGet]
  /\ deleting = [x \in Deleters |-> [pc |-> "idle", seg |-> Nil]]
  /\ closing = [x \in Closers |-> "idle"]

-----------------------------------------------------------------------------
(* POST.                                                                    *)

(* A request that finds no stream in the server's map is not for this one.  *)
PostLookup(w) ==
  /\ post[w].pc = "idle"
  /\ listed
  /\ \E seq \in PostSeqs : post' = [post EXCEPT ![w].pc = "located", ![w].seq = seq]
  /\ UNCHANGED <<segmentVars, streamVars, listed, get, deleting, closing>>

(* getForWrite does not ask whether the stream was closed meanwhile.        *)
PostGetForWrite(w) ==
  LET i == ForWrite(post[w].seq)
  IN /\ post[w].pc = "located"
     /\ getForWrite(i)
     /\ post' = [post EXCEPT ![w].pc = "arming", ![w].seg = WriteSegment(i)]
     /\ UNCHANGED <<listed, get, deleting, closing>>

(* The timeoutReader takes the segment's closeCh, no lock held.             *)
PostArm(w) ==
  /\ post[w].pc = "arming"
  /\ post' = [post EXCEPT ![w].pc = "waiting", ![w].closeCh = heap[post[w].seg].closeCh]
  /\ UNCHANGED <<segmentVars, streamVars, listed, get, deleting, closing>>

(* The first data: the stream moves to the next segment before the data is  *)
(* in this one.                                                             *)
PostFirstByte(w) ==
  /\ post[w].pc = "waiting"
  /\ Unlocked
  /\ MaxChunks > 0
  /\ nextWrite' = post[w].seq + 1
  /\ post' = [post EXCEPT ![w].pc = "numbered", ![w].sent = 1]
  /\ UNCHANGED <<segmentVars, segments, closed, precreating, listed, get, deleting, closing>>

PostWriteFirst(w) ==
  /\ post[w].pc = "numbered"
  /\ writeData(post[w].seg, <<w, 1>>)
  /\ post' = [post EXCEPT ![w].pc = "streaming"]
  /\ UNCHANGED <<streamVars, listed, get, deleting, closing>>

(* After its first byte a POST looks at the body only, not at closeCh.      *)
PostMore(w) ==
  /\ post[w].pc = "streaming"
  /\ post[w].sent < MaxChunks
  /\ writeData(post[w].seg, <<w, post[w].sent + 1>>)
  /\ post' = [post EXCEPT ![w].sent = @ + 1]
  /\ UNCHANGED <<streamVars, listed, get, deleting, closing>>

PostBodyEnd(w) ==
  /\ post[w].pc = "streaming"
  /\ post' = [post EXCEPT ![w].pc = "finishing", ![w].resp = "200"]
  /\ UNCHANGED <<segmentVars, streamVars, listed, get, deleting, closing>>

(* The end before any data: told apart by whether the stream was closed.    *)
EmptyPost(w) ==
  /\ post[w].pc = "waiting"
  /\ Unlocked
  /\ post' = [post EXCEPT ![w].pc = "finishing",
                          ![w].resp = IF closed THEN "terminated" ELSE "200"]
  /\ UNCHANGED <<segmentVars, streamVars, listed, get, deleting, closing>>

PostEmptyBody(w) == EmptyPost(w)

(* Plausible bug: only closing the whole stream is noticed.                  *)
KickedByStream(w) == closed /\ EmptyPost(w)

(* Somebody closed or reset the segment of a publisher that has preconnected. *)
PostKicked(w) == <<post[w].seg, post[w].closeCh>> \in shut /\ EmptyPost(w)

(* A broken body is answered with an error and the segment stays open.      *)
PostError(w) ==
  /\ BodyErrors
  /\ post[w].pc \in {"waiting", "streaming"}
  /\ post' = [post EXCEPT ![w].pc = "done", ![w].resp = "500"]
  /\ UNCHANGED <<segmentVars, streamVars, listed, get, deleting, closing>>

PostClose(w) ==
  /\ post[w].pc = "finishing"
  /\ close({post[w].seg})
  /\ post' = [post EXCEPT ![w].pc = "done"]
  /\ UNCHANGED <<streamVars, listed, get, deleting, closing>>

-----------------------------------------------------------------------------
(* GET.                                                                     *)

GetLookup(g) ==
  /\ get[g].pc = "idle"
  /\ listed
  /\ \E seq \in GetSeqs : get' = [get EXCEPT ![g].pc = "located", ![g].seq = seq]
  /\ UNCHANGED <<segmentVars, streamVars, listed, post, deleting, closing>>

GetFound(g) ==
  LET i == ForRead(get[g].seq)
  IN /\ get[g].pc = "located"
     /\ precreating[g] = NotHeld
     /\ Found(i)
     /\ Subscribe(g, Slot(i))
     /\ get' = [get EXCEPT ![g].pc = "attached"]
     /\ UNCHANGED <<heap, shut, streamVars, listed, post, deleting, closing>>

GetAhead(g) ==
  /\ get[g].pc = "located"
  /\ precreating[g] = NotHeld
  /\ StartPrecreate(g, ForRead(get[g].seq))
  /\ UNCHANGED <<segmentVars, handlerVars>>

GetPrecreate(g) ==
  /\ get[g].pc = "located"
  /\ Precreate(g)
  /\ get' = [get EXCEPT ![g].pc = "attached"]
  /\ UNCHANGED <<listed, post, deleting, closing>>

GetAbsent(g) ==
  /\ get[g].pc = "located"
  /\ precreating[g] = NotHeld
  /\ Absent(ForRead(get[g].seq))
  /\ get' = [get EXCEPT ![g].pc = "done", ![g].resp = IF closed THEN "terminated" ELSE "470"]
  /\ UNCHANGED <<segmentVars, streamVars, listed, post, deleting, closing>>

(* One readData: it returns data, or the end, or sleeps.                    *)
Reads(g) == get[g].pc = "attached" /\ ~sub[g].parked

GetReadData(g) ==
  /\ Reads(g)
  /\ HasData(g)
  /\ Advance(g)
  /\ get' = [get EXCEPT ![g].pc = "sending", ![g].data = Waiting(g), ![g].eof = SegmentOf(g).closed]
  /\ UNCHANGED <<heap, shut, streamVars, listed, post, deleting, closing>>

GetReadEnd(g) ==
  /\ Reads(g)
  /\ AtEnd(g)
  /\ get' = [get EXCEPT ![g].pc = IF get[g].got = << >> THEN "empty" ELSE "done",
                        ![g].resp = IF get[g].got = << >> THEN "none" ELSE "200"]
  /\ UNCHANGED <<segmentVars, streamVars, listed, post, deleting, closing>>

GetWait(g) ==
  /\ Reads(g)
  /\ Park(g)
  /\ UNCHANGED <<heap, shut, streamVars, handlerVars>>

(* What readData returned shares its memory with the segment: whatever a    *)
(* POST has written since a reset over these positions may be sent instead. *)
SentFrom(g) == sub[g].readPos - Len(get[g].data)

Overwritten(g) ==
  {p \in 1 .. Len(get[g].data) :
     /\ SentFrom(g) + p <= Len(SegmentOf(g).buffer)
     /\ SegmentOf(g).buffer[SentFrom(g) + p] # get[g].data[p]}

GetSend(g) ==
  /\ get[g].pc = "sending"
  /\ \E torn \in SUBSET Overwritten(g) :
       get' = [get EXCEPT
                 ![g].got = @ \o [p \in 1 .. Len(get[g].data) |->
                                    IF p \in torn THEN SegmentOf(g).buffer[SentFrom(g) + p]
                                                  ELSE get[g].data[p]],
                 ![g].data = << >>,
                 ![g].pc = IF get[g].eof THEN "done" ELSE "attached",
                 ![g].resp = IF get[g].eof THEN "200" ELSE "none"]
  /\ UNCHANGED <<segmentVars, streamVars, listed, post, deleting, closing>>

(* The segment ended and nothing was sent.                                  *)
GetEmpty(g) ==
  /\ get[g].pc = "empty"
  /\ get' = [get EXCEPT ![g].pc = "done", ![g].resp = IF closed THEN "terminated" ELSE "470"]
  /\ UNCHANGED <<segmentVars, streamVars, listed, post, deleting, closing>>

(* A client that hung up is noticed before a read and by a failing write.   *)
GetGone(g) ==
  /\ Reads(g) \/ get[g].pc = "sending"
  /\ get' = [get EXCEPT ![g].pc = "done", ![g].data = << >>, ![g].resp = "gone"]
  /\ UNCHANGED <<segmentVars, streamVars, listed, post, deleting, closing>>

-----------------------------------------------------------------------------
(* DELETE.                                                                  *)

(* A number that is negative is left out: unlike a POST or a GET, closeSeq  *)
(* gives -1 no meaning and would index the ring with it.                    *)
DeleteFind(x) ==
  /\ deleting[x].pc = "idle"
  /\ listed
  /\ \E i \in PostSeqs \cap Nat :
       deleting' = [deleting EXCEPT ![x] =
                      IF exists(Slot(i), i) THEN [pc |-> "holding", seg |-> Slot(i)]
                                            ELSE [pc |-> "done", seg |-> Nil]]
  /\ UNCHANGED <<segmentVars, streamVars, listed, post, get, closing>>

DeleteClose(x) ==
  /\ deleting[x].pc = "holding"
  /\ close({deleting[x].seg})
  /\ deleting' = [deleting EXCEPT ![x].pc = "done"]
  /\ UNCHANGED <<streamVars, listed, post, get, closing>>

(* closeStream: look the stream up, close it, then take it off the map.     *)
CloserLookup(x) ==
  /\ closing[x] = "idle"
  /\ listed
  /\ closing' = [closing EXCEPT ![x] = "located"]
  /\ UNCHANGED <<segmentVars, streamVars, listed, post, get, deleting>>

CloserClose(x) ==
  /\ closing[x] = "located"
  /\ closeAll
  /\ closing' = [closing EXCEPT ![x] = "closed"]
  /\ UNCHANGED <<listed, post, get, deleting>>

CloserUnlist(x) ==
  /\ closing[x] = "closed"
  /\ listed' = FALSE
  /\ closing' = [closing EXCEPT ![x] = "done"]
  /\ UNCHANGED <<segmentVars, streamVars, post, get, deleting>>

-----------------------------------------------------------------------------
(* What a publisher's client decides, and what its handler then does.       *)
PostClient(w) ==
  \/ PostLookup(w)
  \/ PostFirstByte(w)
  \/ PostMore(w)
  \/ PostBodyEnd(w)
  \/ PostEmptyBody(w)
  \/ PostError(w)

PostServer(w) ==
  \/ PostGetForWrite(w)
  \/ PostArm(w)
  \/ PostWriteFirst(w)
  \/ PostKicked(w)
  \/ PostClose(w)

GetClient(g) == GetLookup(g) \/ GetGone(g)

GetServer(g) ==
  \/ GetFound(g)
  \/ GetAhead(g)
  \/ GetPrecreate(g)
  \/ GetAbsent(g)
  \/ GetReadData(g)
  \/ GetReadEnd(g)
  \/ GetWait(g)
  \/ GetSend(g)
  \/ GetEmpty(g)

Deletion(x) == DeleteFind(x) \/ DeleteClose(x)
Closing(x) == CloserLookup(x) \/ CloserClose(x) \/ CloserUnlist(x)

Next ==
  \/ \E w \in Writers : PostClient(w) \/ PostServer(w)
  \/ \E g \in Readers : GetClient(g) \/ GetServer(g)
  \/ \E x \in Deleters : Deletion(x)
  \/ \E x \in Closers : Closing(x)

Spec == Init /\ [][Next]_vars

(* The server's handlers make progress; clients need not.                   *)
FairSpec ==
  /\ Spec
  /\ \A w \in Writers : WF_vars(PostServer(w))
  /\ \A g \in Readers : WF_vars(GetServer(g))
  /\ \A x \in Closers : WF_vars(CloserClose(x) \/ CloserUnlist(x))

-----------------------------------------------------------------------------
(* Safety.                                                                  *)

(* The POSTs that were given segment s.                                     *)
Posts(s) == {w \in Writers : post[w].seg = s}

(* Types of the Stream, its Segments and the handlers' local variables;     *)
(* every segment has a channel that close and reset can close.              *)
TypeOK ==
  /\ StreamTypeOK
  /\ listed \in BOOLEAN
  /\ post \in [Writers ->
       [pc : {"idle", "located", "arming", "waiting", "numbered", "streaming", "finishing", "done"},
        seq : PostSeqs \cup {0}, seg : 0 .. Len(heap), closeCh : Nat \cup {NoChannel},
        sent : 0 .. MaxChunks, resp : {"none", "200", "500", "terminated"}]]
  /\ get \in [Readers ->
       [pc : {"idle", "located", "attached", "sending", "empty", "done"},
        seq : GetSeqs \cup {0}, data : Seq(Data), eof : BOOLEAN, got : Seq(Data),
        resp : {"none", "200", "470", "terminated", "gone"}]]
  /\ deleting \in [Deleters -> [pc : {"idle", "holding", "done"}, seg : 0 .. Len(heap)]]
  /\ closing \in [Closers -> {"idle", "located", "closed", "done"}]

(* A GET of segment n is only ever given data that was POSTed to n, also by *)
(* way of -1 and -2 (the number is then the one Lp-Trickle-Seq reports),    *)
(* however the ring was overwritten and the segment reset meanwhile.        *)
NoCrossTalk ==
  \A g \in Readers : sub[g].seg # Nil =>
    /\ get[g].seq \in Nat => SegmentOf(g).idx = get[g].seq
    /\ \A c \in ToSet(get[g].got \o get[g].data) : post[c[1]].seq \in {-1, SegmentOf(g).idx}

(* Unless the segment was reset, a GET is given the segment's data from its *)
(* first chunk, in order, nothing missing and nothing twice, however late   *)
(* it arrived: what it has been sent and is being sent is what it has read. *)
PrefixDelivery ==
  \A g \in Readers :
    (sub[g].seg # Nil /\ get[g].resp # "gone" /\ SegmentOf(g).closeCh = 0) =>
      get[g].got \o get[g].data = SubSeq(SegmentOf(g).buffer, 1, sub[g].readPos)

(* No lost wake-up: a GET sleeps only while its segment is open and holds   *)
(* nothing beyond what it has read (reset may have left it less).           *)
ParkedIsCaughtUp ==
  \A g \in Readers : sub[g].parked =>
    ~SegmentOf(g).closed /\ sub[g].readPos >= Len(SegmentOf(g).buffer)

(* The live edge of an open channel always has a segment to wait on: a GET  *)
(* of -1 is told 470 only by a segment it was attached to (getForRead).     *)
LiveEdgeServed ==
  \A g \in Readers :
    get[g].seq = -1 /\ get[g].resp = "470" => sub[g].seg # Nil

(* With one POST to the segment, a GET that ends normally was sent all that *)
(* the POST wrote, unless the segment was closed under the POST: evicted,   *)
(* DELETEd, or closed with its stream.                                      *)
ClosedByItsPost(s) == s \in InRing /\ \A x \in Deleters : deleting[x].seg # s

WholeSegment ==
  \A g \in Readers :
    (/\ get[g].resp = "200"
     /\ \E w \in Writers : Posts(sub[g].seg) = {w}
     /\ ClosedByItsPost(sub[g].seg)) => get[g].got = SegmentOf(g).buffer

-----------------------------------------------------------------------------
(* Liveness.                                                                *)

(* A publisher that preconnected and sent nothing is answered once its      *)
(* segment is closed, whoever closed it ("to shut down any pending          *)
(* publishers", Segment.closeCh): it never waits for its own 10 s timeouts. *)
KickedPublisherAnswered ==
  \A w \in Writers :
    (post[w].pc = "waiting" /\ <<post[w].seg, post[w].closeCh>> \in shut)
      ~> (post[w].pc = "done" \/ post[w].sent > 0)

(* The end of a segment reaches its subscribers: once it is closed, every   *)
(* GET on it returns, unless a repeated POST reopened it.                   *)
EndReachesReaders ==
  \A g \in Readers :
    (get[g].pc \in {"attached", "sending", "empty"} /\ SegmentOf(g).closed)
      ~> (get[g].pc = "done" \/ (sub[g].seg # Nil /\ SegmentOf(g).closeCh > 0))

(* Both at once: closing a segment releases everyone who waits on it.       *)
ClosingReleasesAll == KickedPublisherAnswered /\ EndReachesReaders

-----------------------------------------------------------------------------
(* What the comments and the README say of the program.                     *)

(* A segment that drops out of the window releases its subscribers          *)
(* (pendingPost.Close in trickle_publisher.go): whoever sleeps on a segment *)
(* of the open stream sleeps on one that the ring still holds, or that a    *)
(* POST is still filling.                                                   *)
SleepersHaveASource ==
  \A g \in Readers :
    sub[g].parked /\ ~closed =>
      \/ sub[g].seg \in InRing
      \/ \E w \in Posts(sub[g].seg) : post[w].pc # "done"
==============================================================================
