---------------------------- MODULE SegmentPoster ----------------------------
(***************************************************************************)
(* cmd/publisher-mediamtx/main.go: SegmentPoster.NewSegment, called by the  *)
(* segmenter for one segment after another, and the SlowServerChecker that  *)
(* bounds how many of them are in flight.                                   *)
(*                                                                         *)
(* Each segment taken has a goroutine (a job), known by its count, which    *)
(* gets a number from TricklePublisher.Next and writes the segment to it,   *)
(* again and again as long as nothing could be sent and no later segment    *)
(* has begun.  What a Write may return is module TricklePublisher; the      *)
(* reader, and its clones, are module Drip: it never fails.                 *)
(***************************************************************************)
EXTENDS Integers, Sequences, FiniteSets

CONSTANTS
  maxInflightSegments,
  MaxSegments,    \* bound on the segments taken
  MaxTries,       \* bound on the Writes of a segment
  Chunks          \* the chunks of a segment

ASSUME PosterAssumption ==
  /\ maxInflightSegments \in Nat \ {0}
  /\ MaxSegments \in Nat
  /\ MaxTries \in Nat
  /\ Chunks \in Nat \ {0}

Jobs == 1 .. MaxSegments

VARIABLES
  segmentCount, completeCount,    \* SlowServerChecker
  job                             \* the goroutines of NewSegment

posterVars == <<segmentCount, completeCount, job>>

(* pos is what has been read of the segment, body what this Write has sent,  *)
(* number what became of the number that Next gave.                          *)
NewJob ==
  [pc |-> "none", pos |-> 0, body |-> << >>, writes |-> 0, result |-> "none",
   number |-> "none"]

PosterInit ==
  /\ segmentCount = 0
  /\ completeCount = 0
  /\ job = [s \in Jobs |-> NewJob]

Running == {s \in Jobs : job[s].pc \notin {"none", "done"}}

-----------------------------------------------------------------------------
(* Plausible bug: one more than the maximum is let through.                  *)
OverMax == segmentCount > completeCount + maxInflightSegments

AtMax == segmentCount >= completeCount + maxInflightSegments

(* NewSegment; at the maximum the segment is dropped instead.               *)
BeginSegment(s) ==
  /\ s = segmentCount + 1
  /\ ~AtMax
  /\ segmentCount' = s
  /\ job' = [job EXCEPT ![s].pc = "begun"]
  /\ UNCHANGED completeCount

TakeNumber(s) ==
  /\ job[s].pc = "begun"
  /\ job' = [job EXCEPT ![s].pc = "polling", ![s].number = "open"]
  /\ UNCHANGED <<segmentCount, completeCount>>

NextFails(s) ==
  /\ job[s].pc = "begun"
  /\ job' = [job EXCEPT ![s].pc = "ending"]
  /\ UNCHANGED <<segmentCount, completeCount>>

(* Plausible bug: a segment is retried however old.                          *)
NeverOutdated(s) == FALSE

Outdated(s) == s # segmentCount

(* Plausible bug: the number is left to itself.                              *)
LeaveOpen(s) == [job EXCEPT ![s].pc = "ending"]

(* writer.Close: what is left of the segment is dropped.                    *)
CloseWriter(s) == [job EXCEPT ![s].pc = "ending", ![s].number = "closed"]

Skip(s) ==
  /\ job[s].pc = "polling"
  /\ Outdated(s)
  /\ job' = CloseWriter(s)
  /\ UNCHANGED <<segmentCount, completeCount>>

StartWrite(s) ==
  /\ job[s].pc = "polling"
  /\ ~Outdated(s)
  /\ job[s].writes < MaxTries
  /\ job' = [job EXCEPT ![s].pc = "writing", ![s].writes = @ + 1, ![s].body = << >>]
  /\ UNCHANGED <<segmentCount, completeCount>>

(* io.Copy: a chunk is read, and goes into the pipe.                        *)
CopySegment(s) ==
  /\ job[s].pc = "writing"
  /\ job[s].pos < Chunks
  /\ job' = [job EXCEPT ![s].pos = @ + 1, ![s].body = Append(@, job[s].pos + 1)]
  /\ UNCHANGED <<segmentCount, completeCount>>

(* The POST failed, noticed before anything is copied, after all of it is,  *)
(* or by a chunk that was read and cannot go into the pipe.                 *)
WriteFails(s) ==
  /\ job[s].pc = "writing"
  /\ \E read \in 0 .. 1, why \in {"error", "notfound"} :
       /\ read = 0 => job[s].body = << >> \/ job[s].pos = Chunks
       /\ job[s].pos + read <= Chunks
       /\ job' = [job EXCEPT ![s].pc = "written", ![s].pos = @ + read, ![s].result = why]
  /\ UNCHANGED <<segmentCount, completeCount>>

(* An answer that was there before anything is copied counts, too.          *)
WriteSucceeds(s) ==
  /\ job[s].pc = "writing"
  /\ job[s].pos = Chunks \/ job[s].body = << >>
  /\ job' = [job EXCEPT ![s].pc = "ending", ![s].result = "ok", ![s].number = "sent"]
  /\ UNCHANGED <<segmentCount, completeCount>>

StreamNotFound(s) ==
  /\ job[s].pc = "written"
  /\ job[s].result = "notfound"
  /\ job' = [job EXCEPT ![s].pc = "ending", ![s].number = "nostream"]
  /\ UNCHANGED <<segmentCount, completeCount>>

DropRemainder(s) ==
  /\ job[s].pc = "written"
  /\ job[s].result = "error"
  /\ job[s].body # << >>
  /\ job' = CloseWriter(s)
  /\ UNCHANGED <<segmentCount, completeCount>>

(* Plausible bug: the retry goes on with the same reader.                    *)
SameReader(s) == job[s].pos

(* reader.Clone starts at the first byte.                                   *)
Clone(s) == 0

Retry(s) ==
  /\ job[s].pc = "written"
  /\ job[s].result = "error"
  /\ job[s].body = << >>
  /\ job' = [job EXCEPT ![s].pc = "polling", ![s].pos = Clone(s)]
  /\ UNCHANGED <<segmentCount, completeCount>>

(* Deferred to the end of the goroutine, however it ends.                   *)
EndSegment(s) ==
  /\ job[s].pc = "ending"
  /\ completeCount' = completeCount + 1
  /\ job' = [job EXCEPT ![s].pc = "done"]
  /\ UNCHANGED segmentCount

-----------------------------------------------------------------------------
Write(s) == CopySegment(s) \/ WriteFails(s) \/ WriteSucceeds(s)

Job(s) ==
  \/ TakeNumber(s) \/ NextFails(s)
  \/ Skip(s) \/ StartWrite(s)
  \/ Write(s)
  \/ StreamNotFound(s) \/ DropRemainder(s) \/ Retry(s)
  \/ EndSegment(s)

PosterNext == \E s \in Jobs : BeginSegment(s) \/ Job(s)

PosterSpec == PosterInit /\ [][PosterNext]_posterVars

(* Goroutines go on, and a Write returns (TricklePublisher, WriteReturns).  *)
PosterFairSpec == PosterSpec /\ \A s \in Jobs : WF_posterVars(Job(s))

-----------------------------------------------------------------------------
JobType ==
  [pc : {"none", "begun", "polling", "writing", "written", "ending", "done"},
   pos : 0 .. Chunks, body : Seq(1 .. Chunks), writes : 0 .. MaxTries,
   result : {"none", "ok", "error", "notfound"},
   number : {"none", "open", "sent", "closed", "nostream"}]

(* Types of the checker's counters and of the goroutines; one that is about *)
(* to write has its reader at the start.                                    *)
PosterTypeOK ==
  /\ segmentCount \in 0 .. MaxSegments
  /\ completeCount \in 0 .. segmentCount
  /\ job \in [Jobs -> JobType]
  /\ \A s \in Jobs : job[s].pc = "polling" => job[s].pos = 0

(* The two counters tell how many goroutines are running, by whatever path  *)
(* they end, and never more than the maximum do (SlowServerChecker: "Number  *)
(* of in flight segments to allow").                                        *)
InFlightBounded ==
  /\ Cardinality(Running) = segmentCount - completeCount
  /\ Cardinality(Running) <= maxInflightSegments

(* What is POSTed to a number is the segment from its first byte, although  *)
(* a failed Write may have read some of it without sending it (NewSegment,   *)
(* the retry with a clone).                                                 *)
FromTheStart ==
  \A s \in Jobs : job[s].body = [k \in 1 .. Len(job[s].body) |-> k]

(* Every number Next gave is sent or closed when its goroutine ends, so that *)
(* subscribers do not wait for it, unless the stream is not there.          *)
EveryNumberSettled ==
  \A s \in Jobs : job[s].pc = "done" => job[s].number # "open"

(* A segment that cannot be sent is given up once a later one has begun:    *)
(* its goroutine ends and its place in flight is free again.                *)
OutdatedGivesUp ==
  \A s \in Jobs : (s \in Running /\ s < segmentCount) ~> job[s].pc = "done"
==============================================================================
