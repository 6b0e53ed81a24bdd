----------------------------- MODULE LocalChannel -----------------------------
(***************************************************************************)
(* local_publisher.go, local_subscriber.go: a channel published and read    *)
(* inside the server's process, as the changefeed is.                       *)
(*   Writers      calls of TrickleLocalPublisher.Write, concurrent          *)
(*   Subscribers  TrickleLocalSubscribers, each with one consumer that      *)
(*                Reads an entry, takes it to its end, and Reads again      *)
(*                                                                         *)
(* The channel is a Stream that is never reset.  The publisher keeps its    *)
(* own count of the segments (c.seq) under its own mutex (c.mu), which it   *)
(* holds across two calls of getForWrite: other users of the stream may     *)
(* come between them.  It does not touch nextWrite.                         *)
(***************************************************************************)
EXTENDS Stream

CONSTANTS
  Writers,
  SetSeqs,        \* what SetSeq may be called with
  MaxReads,       \* bound on the Reads of a subscriber
  MaxChunks,      \* bound on the chunks of a Write
  Failing         \* the Writes whose io.Reader may fail

Nobody == "nobody"

ASSUME LocalAssumption ==
  /\ ~CanReset
  /\ Data = Writers \X (1 .. MaxChunks)   \* the k-th chunk of a Write
  /\ Nobody \notin Writers
  /\ SetSeqs \subseteq Nat
  /\ MaxReads \in Nat
  /\ MaxChunks \in Nat
  /\ Failing \subseteq Writers

VARIABLES
  listed,         \* the stream is in Server.streams
  pubSeq,         \* TrickleLocalPublisher.seq
  mu,             \* who holds TrickleLocalPublisher.mu
  write,          \* the Write calls
  read,           \* the subscribers: seq, and the entry being read
  closing         \* TrickleLocalPublisher.Close

localVars == <<listed, pubSeq, mu, write, read, closing>>
vars == <<heap, shut, sub, segments, nextWrite, closed, precreating,
          listed, pubSeq, mu, write, read, closing>>

NewWrite == [pc |-> "idle", seq |-> 0, seg |-> Nil, sent |-> 0, resp |-> "none"]

NewLocalSubscriber ==
  [pc |-> "idle", seq |-> -1, data |-> << >>, eof |-> FALSE, got |-> << >>, reads |-> 0, resp |-> "none"]

Init ==
  /\ InitStream
  /\ listed = TRUE
  /\ pubSeq = 0
  /\ mu = Nobody
  /\ write = [w \in Writers |-> NewWrite]
  /\ read = [r \in Subscribers |-> NewLocalSubscriber]
  /\ closing = "idle"

-----------------------------------------------------------------------------
(* TrickleLocalPublisher.Write                                              *)

WriteLookup(w) ==
  /\ write[w].pc = "idle"
  /\ listed
  /\ write' = [write EXCEPT ![w].pc = "located"]
  /\ UNCHANGED <<segmentVars, streamVars, listed, pubSeq, mu, read, closing>>

(* An entry that has been written or closed already refuses the Write.      *)
Refuse(w, why) == write' = [write EXCEPT ![w].pc = "done", ![w].resp = why]

(* Plausible bug: c.mu is not taken.                                         *)
Anyway(w) == TRUE

MuFree(w) == mu = Nobody

WriteClaim(w) ==
  /\ write[w].pc = "located"
  /\ MuFree(w)
  /\ getForWrite(pubSeq)
  /\ IF AlreadyWritten(pubSeq)
     THEN Refuse(w, "exists") /\ UNCHANGED mu
     ELSE /\ write' = [write EXCEPT ![w].pc = "claimed", ![w].seq = pubSeq,
                                    ![w].seg = WriteSegment(pubSeq)]
          /\ mu' = w
  /\ UNCHANGED <<listed, pubSeq, read, closing>>

(* Plausible bug: the count is left where it was.                            *)
SameSeq == pubSeq

(* The next entry is made ready before this one is written.                 *)
NextSeq == pubSeq + 1

WritePrepare(w) ==
  /\ write[w].pc = "claimed"
  /\ getForWrite(pubSeq + 1)
  /\ mu' = Nobody
  /\ IF AlreadyWritten(pubSeq + 1)
     THEN Refuse(w, "nextexists") /\ UNCHANGED pubSeq
     ELSE /\ write' = [write EXCEPT ![w].pc = "streaming"]
          /\ pubSeq' = NextSeq
  /\ UNCHANGED <<listed, read, closing>>

WriteChunk(w) ==
  /\ write[w].pc = "streaming"
  /\ write[w].sent < MaxChunks
  /\ writeData(write[w].seg, <<w, write[w].sent + 1>>)
  /\ write' = [write EXCEPT ![w].sent = @ + 1]
  /\ UNCHANGED <<streamVars, listed, pubSeq, mu, read, closing>>

(* A reader that fails is read again and again: the entry is never closed.  *)
WriteFail(w) ==
  /\ w \in Failing
  /\ write[w].pc = "streaming"
  /\ write' = [write EXCEPT ![w].pc = "spinning"]
  /\ UNCHANGED <<segmentVars, streamVars, listed, pubSeq, mu, read, closing>>

WriteEnd(w) ==
  /\ write[w].pc = "streaming"
  /\ close({write[w].seg})
  /\ write' = [write EXCEPT ![w].pc = "done", ![w].resp = "ok"]
  /\ UNCHANGED <<streamVars, listed, pubSeq, mu, read, closing>>

-----------------------------------------------------------------------------
(* TrickleLocalSubscriber.Read and SetSeq                                   *)

ReadNotFound(r) ==
  /\ read[r].pc = "idle"
  /\ ~listed
  /\ read' = [read EXCEPT ![r].resp = "notfound"]
  /\ UNCHANGED <<segmentVars, streamVars, listed, pubSeq, mu, write, closing>>

ReadLookup(r) ==
  /\ read[r].pc = "idle"
  /\ read[r].reads < MaxReads
  /\ listed
  /\ read' = [read EXCEPT ![r].pc = "located", ![r].reads = @ + 1, ![r].resp = "none",
                          ![r].got = << >>]
  /\ UNCHANGED <<segmentVars, streamVars, listed, pubSeq, mu, write, closing>>

Locating(r) == read[r].pc = "located" /\ precreating[r] = NotHeld

(* The entry is there: the next Read asks for the one after c.seq, which is *)
(* 0 after a first Read of -1.                                              *)
Attached(r) == [read EXCEPT ![r].pc = "attached", ![r].seq = @ + 1]

ReadFound(r) ==
  LET i == ForRead(read[r].seq)
  IN /\ Locating(r)
     /\ Found(i)
     /\ Subscribe(r, Slot(i))
     /\ read' = Attached(r)
     /\ UNCHANGED <<heap, shut, streamVars, listed, pubSeq, mu, write, closing>>

ReadAhead(r) ==
  /\ Locating(r)
  /\ StartPrecreate(r, ForRead(read[r].seq))
  /\ UNCHANGED <<segmentVars, localVars>>

ReadPrecreate(r) ==
  /\ read[r].pc = "located"
  /\ Precreate(r)
  /\ read' = Attached(r)
  /\ UNCHANGED <<listed, pubSeq, mu, write, closing>>

ReadAbsent(r) ==
  /\ Locating(r)
  /\ Absent(ForRead(read[r].seq))
  /\ read' = [read EXCEPT ![r].pc = "idle", ![r].resp = IF closed THEN "EOS" ELSE "nonexistent"]
  /\ UNCHANGED <<segmentVars, streamVars, listed, pubSeq, mu, write, closing>>

(* The goroutine behind the pipe: readData, then a write that blocks until  *)
(* the consumer takes it.                                                   *)
Copying(r) == read[r].pc = "attached" /\ ~sub[r].parked

(* Plausible bug: an entry is taken to end when there is no more for now.    *)
CaughtUp(r) == TRUE

LastData(r) == SegmentOf(r).closed \/ AtEnd(r)

CopyData(r) ==
  /\ Copying(r)
  /\ HasData(r) \/ AtEnd(r)
  /\ Advance(r)
  /\ read' = [read EXCEPT ![r].pc = "piping", ![r].data = Waiting(r), ![r].eof = LastData(r)]
  /\ UNCHANGED <<heap, shut, streamVars, listed, pubSeq, mu, write, closing>>

CopyWait(r) ==
  /\ Copying(r)
  /\ Park(r)
  /\ UNCHANGED <<heap, shut, streamVars, localVars>>

PipeWrite(r) ==
  /\ read[r].pc = "piping"
  /\ read' = [read EXCEPT ![r].got = @ \o read[r].data, ![r].data = << >>,
                          ![r].pc = IF read[r].eof THEN "idle" ELSE "attached",
                          ![r].resp = IF read[r].eof THEN "whole" ELSE "none"]
  /\ UNCHANGED <<segmentVars, streamVars, listed, pubSeq, mu, write, closing>>

(* The consumer closed its end: the goroutine notices when it writes.       *)
PipeAbandoned(r) ==
  /\ read[r].pc = "piping"
  /\ read' = [read EXCEPT ![r].pc = "idle", ![r].data = << >>, ![r].resp = "abandoned"]
  /\ UNCHANGED <<segmentVars, streamVars, listed, pubSeq, mu, write, closing>>

SetSeq(r) ==
  /\ read[r].pc = "idle"
  /\ \E seq \in SetSeqs : read' = [read EXCEPT ![r].seq = seq]
  /\ UNCHANGED <<segmentVars, streamVars, listed, pubSeq, mu, write, closing>>

-----------------------------------------------------------------------------
(* TrickleLocalPublisher.Close: closeStream, with nobody else to take the   *)
(* stream off the map.                                                      *)
CloseStream ==
  /\ closing = "idle"
  /\ closeAll
  /\ closing' = "closed"
  /\ UNCHANGED <<listed, pubSeq, mu, write, read>>

CloseUnlist ==
  /\ closing = "closed"
  /\ listed' = FALSE
  /\ closing' = "done"
  /\ UNCHANGED <<segmentVars, streamVars, pubSeq, mu, write, read>>

-----------------------------------------------------------------------------
Write(w) ==
  WriteClaim(w) \/ WritePrepare(w) \/ WriteChunk(w) \/ WriteEnd(w)

Read(r) ==
  \/ ReadFound(r) \/ ReadAhead(r) \/ ReadPrecreate(r) \/ ReadAbsent(r)
  \/ CopyData(r) \/ CopyWait(r) \/ PipeWrite(r)

Next ==
  \/ \E w \in Writers : WriteLookup(w) \/ Write(w) \/ WriteFail(w)
  \/ \E r \in Subscribers :
       ReadLookup(r) \/ ReadNotFound(r) \/ Read(r) \/ PipeAbandoned(r) \/ SetSeq(r)
  \/ CloseStream \/ CloseUnlist

Spec == Init /\ [][Next]_vars

-----------------------------------------------------------------------------
(* Types of the publisher's, the subscribers' and the stream's state.        *)
TypeOK ==
  /\ StreamTypeOK
  /\ listed \in BOOLEAN
  /\ pubSeq \in Nat
  /\ mu \in Writers \cup {Nobody}
  /\ write \in [Writers ->
       [pc : {"idle", "located", "claimed", "streaming", "spinning", "done"}, seq : Nat,
        seg : 0 .. Len(heap), sent : 0 .. MaxChunks,
        resp : {"none", "ok", "exists", "nextexists"}]]
  /\ read \in [Subscribers ->
       [pc : {"idle", "located", "attached", "piping"}, seq : Nat \cup {-1}, data : Seq(Data),
        eof : BOOLEAN, got : Seq(Data), reads : 0 .. MaxReads,
        resp : {"none", "whole", "notfound", "EOS", "nonexistent", "abandoned"}]]
  /\ closing \in {"idle", "closed", "done"}

(* The publisher's own count never runs into an entry that was written or   *)
(* closed: no Write is refused with "Entry already exists", whatever        *)
(* subscribers precreate and whenever the stream is closed (getForWrite,    *)
(* twice under c.mu).                                                       *)
NeverRefused ==
  \A w \in Writers : write[w].resp \notin {"exists", "nextexists"}

(* Concurrent Writes have an entry each, with the numbers in the order of   *)
(* their claims, and the entry holds what that Write wrote and no more.     *)
OneWritePerEntry ==
  \A w \in Writers : write[w].seg # Nil =>
    /\ heap[write[w].seg].idx = write[w].seq
    /\ heap[write[w].seg].buffer = [k \in 1 .. write[w].sent |-> <<w, k>>]
    /\ \A v \in Writers \ {w} : write[v].seg # Nil => write[v].seq # write[w].seq

(* Both at once: a Write is given an entry, the next one, and to itself.    *)
EveryWriteHasItsEntry == NeverRefused /\ OneWritePerEntry

(* A Read that ended normally gave its consumer all of the entry, unless    *)
(* the entry was pushed out of the ring or closed with the stream while it  *)
(* was being written (the copy loop of Read).                               *)
WholeEntry ==
  \A r \in Subscribers :
    read[r].resp = "whole" /\ sub[r].seg \in InRing =>
      /\ SegmentOf(r).closed
      /\ read[r].got = SegmentOf(r).buffer
==============================================================================
