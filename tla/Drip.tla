--------------------------------- MODULE Drip ---------------------------------
(***************************************************************************)
(* drip.go: the in-process buffer between the segmenter, which writes one   *)
(* media segment into a TrickleWriter, and the goroutines that upload it,   *)
(* each through a TrickleReader of its own.  A reader that has caught up    *)
(* sleeps on the writer's condition variable; Write and Close broadcast.    *)
(*                                                                         *)
(* The writer is driven as readSegment (rtmp2segment.go) drives it: a copy  *)
(* loop of Writes, then one Close.  A chunk is one unit of data: a Read     *)
(* with a buffer of n takes at most n chunks.                               *)
(***************************************************************************)
EXTENDS Integers, Sequences

CONSTANTS
  Readers,      \* the TrickleReaders that may be made
  Chunks,       \* the data a Write may append
  BufferSizes,  \* the sizes of the buffers Read is called with
  MaxLength     \* bound on the chunks written, for model checking

ASSUME DripAssumption ==
  /\ BufferSizes \subseteq Nat \ {0}
  /\ MaxLength \in Nat

VARIABLES
  buffer,       \* TrickleWriter.buffer
  closed,       \* TrickleWriter.closed
  made,         \* the readers that exist
  parked,       \* the readers asleep in cond.Wait
  readPos,      \* TrickleReader.readPos
  got,          \* what each reader has copied out so far (history)
  eof           \* the readers whose last Read returned io.EOF

vars == <<buffer, closed, made, parked, readPos, got, eof>>

Init ==
  /\ buffer = << >>
  /\ closed = FALSE
  /\ made = {}
  /\ parked = {}
  /\ readPos = [r \in Readers |-> 0]
  /\ got = [r \in Readers |-> << >>]
  /\ eof = [r \in Readers |-> FALSE]

-----------------------------------------------------------------------------
(* The writer.                                                              *)

(* Plausible bug: sync.Cond.Signal in place of Broadcast.                    *)
Signal == IF parked = {} THEN parked' = {} ELSE \E r \in parked : parked' = parked \ {r}

(* Every sleeping reader wakes and looks at the buffer again.               *)
Broadcast == parked' = {}

Write(c) ==
  /\ ~closed                      \* io.Copy runs before Close
  /\ Len(buffer) < MaxLength
  /\ buffer' = Append(buffer, c)
  /\ Broadcast
  /\ UNCHANGED <<closed, made, readPos, got, eof>>

Close ==
  /\ ~closed
  /\ closed' = TRUE
  /\ Broadcast
  /\ UNCHANGED <<buffer, made, readPos, got, eof>>

-----------------------------------------------------------------------------
(* The readers.                                                             *)

MakeReader(r) ==
  /\ r \notin made
  /\ made' = made \cup {r}
  /\ UNCHANGED <<buffer, closed, parked, readPos, got, eof>>

(* Plausible bug: the clone inherits the position of its original.           *)
CloneInPlace(q, r) ==
  /\ q \in made
  /\ r \notin made
  /\ made' = made \cup {r}
  /\ readPos' = [readPos EXCEPT ![r] = readPos[q]]
  /\ UNCHANGED <<buffer, closed, parked, got, eof>>

(* A clone starts again from the first chunk, wherever its original is.     *)
Clone(q, r) ==
  /\ q \in made
  /\ r \notin made
  /\ made' = made \cup {r}
  /\ readPos' = [readPos EXCEPT ![r] = 0]
  /\ UNCHANGED <<buffer, closed, parked, got, eof>>

(* A reader whose consumer goes on calling Read until io.EOF.               *)
Reading(r) == r \in made /\ r \notin parked /\ ~eof[r]

(* Plausible bug: the end of the segment is reported although part of it did *)
(* not fit.                                                                  *)
ClosedAlready(waiting, n) == closed

(* How much of what is waiting a Read with a buffer of n takes, and whether *)
(* it passes the end of the segment on: only if everything fitted.          *)
Taken(waiting, n) == IF waiting <= n THEN waiting ELSE n
LastRead(waiting, n) == closed /\ waiting <= n

(* Plausible bug: the position moves by the size of the caller's buffer.     *)
ReadFullBuffer(r, n) ==
  LET waiting == Len(buffer) - readPos[r]
      toRead  == Taken(waiting, n)
  IN /\ Reading(r)
     /\ waiting > 0
     /\ got' = [got EXCEPT ![r] = @ \o SubSeq(buffer, readPos[r] + 1, readPos[r] + toRead)]
     /\ readPos' = [readPos EXCEPT ![r] = @ + n]
     /\ eof' = [eof EXCEPT ![r] = LastRead(waiting, n)]
     /\ UNCHANGED <<buffer, closed, made, parked>>

(* readData finds data, and Read copies what fits.                          *)
ReadSome(r, n) ==
  LET waiting == Len(buffer) - readPos[r]
      toRead  == Taken(waiting, n)
  IN /\ Reading(r)
     /\ waiting > 0
     /\ got' = [got EXCEPT ![r] = @ \o SubSeq(buffer, readPos[r] + 1, readPos[r] + toRead)]
     /\ readPos' = [readPos EXCEPT ![r] = @ + toRead]
     /\ eof' = [eof EXCEPT ![r] = LastRead(waiting, n)]
     /\ UNCHANGED <<buffer, closed, made, parked>>

(* readData finds nothing more, or a position past the end.                 *)
ReadEnd(r) ==
  /\ Reading(r)
  /\ \/ readPos[r] > Len(buffer)
     \/ readPos[r] = Len(buffer) /\ closed
  /\ eof' = [eof EXCEPT ![r] = TRUE]
  /\ UNCHANGED <<buffer, closed, made, parked, readPos, got>>

(* readData has nothing to return yet and sleeps on the condition.          *)
ReadWait(r) ==
  /\ Reading(r)
  /\ readPos[r] = Len(buffer)
  /\ ~closed
  /\ parked' = parked \cup {r}
  /\ UNCHANGED <<buffer, closed, made, readPos, got, eof>>

Read(r) ==
  \/ \E n \in BufferSizes : ReadSome(r, n)
  \/ ReadEnd(r)
  \/ ReadWait(r)

Next ==
  \/ \E c \in Chunks : Write(c)
  \/ Close
  \/ \E r \in Readers : MakeReader(r)
  \/ \E q, r \in Readers : Clone(q, r)
  \/ \E r \in Readers : Read(r)

Spec == Init /\ [][Next]_vars

(* Consumers keep reading; nothing is assumed of the writer.                *)
FairSpec == Spec /\ \A r \in Readers : WF_vars(Read(r))

-----------------------------------------------------------------------------
(* Properties.                                                              *)

(* Types of the variables of drip.go 15-25.                                  *)
TypeOK ==
  /\ buffer \in Seq(Chunks)
  /\ closed \in BOOLEAN
  /\ made \in SUBSET Readers
  /\ parked \in SUBSET Readers
  /\ readPos \in [Readers -> 0 .. MaxLength]
  /\ got \in [Readers -> Seq(Chunks)]
  /\ eof \in [Readers -> BOOLEAN]

(* No lost wake-up: a reader is asleep only while there is nothing for it   *)
(* to do -- it has read everything and the segment is still open (the       *)
(* Broadcast calls of Write and Close, drip.go 44 and 78).                  *)
NoLostWakeup ==
  \A r \in parked : readPos[r] = Len(buffer) /\ ~closed

(* Every reader holds exactly the prefix its position names, and io.EOF     *)
(* means the whole of a closed segment, whatever buffer sizes it reads with *)
(* and whenever it or its clone was made (Read's eof handling, drip.go 90). *)
ExactPrefix ==
  \A r \in Readers :
    /\ readPos[r] <= Len(buffer)
    /\ got[r] = SubSeq(buffer, 1, readPos[r])
    /\ eof[r] => closed /\ readPos[r] = Len(buffer)

(* drip.go implements the promise of module Relay.                          *)
Promise == INSTANCE Relay WITH
  published <- buffer, sealed <- closed, received <- got, finished <- eof

ImplementsRelay == Promise!Spec

(* Once the writer closes, every reader is eventually told so: nobody       *)
(* sleeps through the Close (drip.go 70-80, readSegment's writer.Close()).   *)
EveryReaderFinishes ==
  \A r \in Readers : (closed /\ r \in made) ~> eof[r]
==============================================================================
