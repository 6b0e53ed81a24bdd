-------------------------- MODULE FfmpegPublisher --------------------------
(***************************************************************************)
(* The publisher-ffmpeg program (cmd/publisher-ffmpeg/publisher-ffmpeg.go) *)
(* over module Segmenter: runPublish copies standard input into an os.Pipe *)
(* that ffmpeg segments, and each segment is POSTed by a goroutine of its  *)
(* own.  A wait group counts the segmenter's goroutine and the copier's;   *)
(* runPublish returns on an interrupt or when the goroutine of             *)
(* WaitGroupWithDone has seen the counter at zero.                         *)
(*                                                                         *)
(* External: what standard input holds and when it ends, what a POST is    *)
(* answered, and when an interrupt comes.                                  *)
(***************************************************************************)
EXTENDS Segmenter

CONSTANT PipeSize
ASSUME PipeAssumption == PipeSize \in Nat \ {0}

VARIABLES
  main,       \* runPublish's program counter
  wg,         \* the counter of the wait group
  doneCh,     \* it was closed
  early,      \* history: closed before both goroutines were counted
  segmenter,  \* the goroutine around RunSegmentation
  copier,     \* the goroutine around io.Copy
  writeEnd,   \* w is open
  inPipe,     \* chunks in the pipe
  posted,     \* segments whose Write has returned
  channel     \* Close has not deleted the channel

programVars == <<main, wg, doneCh, early, segmenter, copier, writeEnd, inPipe, posted, channel>>
allVars == <<vars, programVars>>

ProgramInit ==
  /\ Init
  /\ main = "start" /\ wg = 0 /\ doneCh = FALSE /\ early = FALSE
  /\ segmenter = "none" /\ copier = "none"
  /\ writeEnd = TRUE /\ inPipe = 0 /\ posted = {} /\ channel = TRUE

(***************************************************************************)
(* runPublish and the goroutine of WaitGroupWithDone, which runs from the  *)
(* start.                                                                  *)
(***************************************************************************)

StartSegmenter ==
  /\ main = "start"
  /\ wg' = wg + 1 /\ segmenter' = "running" /\ main' = "started"
  /\ UNCHANGED <<vars, doneCh, early, copier, writeEnd, inPipe, posted, channel>>

(* Plausible bug: a wg.Add is missing. *)
CountNothing == UNCHANGED wg

CountCopier == wg' = wg + 1

StartCopier ==
  /\ main = "started"
  /\ CountCopier /\ copier' = "reading" /\ main' = "select"
  /\ UNCHANGED <<vars, doneCh, early, segmenter, writeEnd, inPipe, posted, channel>>

CloseDoneCh ==
  /\ ~doneCh /\ wg = 0
  /\ doneCh' = TRUE /\ early' = (copier = "none")
  /\ UNCHANGED <<vars, main, wg, segmenter, copier, writeEnd, inPipe, posted, channel>>

Interrupted ==
  /\ main = "select"
  /\ writeEnd' = FALSE /\ main' = "waiting"
  /\ UNCHANGED <<vars, wg, doneCh, early, segmenter, copier, inPipe, posted, channel>>

MainReturns ==
  /\ \/ main = "select" /\ doneCh
     \/ main = "waiting" /\ wg = 0
  /\ main' = "returned"
  /\ UNCHANGED <<vars, wg, doneCh, early, segmenter, copier, writeEnd, inPipe, posted, channel>>

(***************************************************************************)
(* The copier: read waits for input, write for room or for w to be closed. *)
(***************************************************************************)

CopierStep(from, to) ==
  /\ copier = from /\ copier' = to
  /\ UNCHANGED <<vars, main, wg, doneCh, early, segmenter, writeEnd, inPipe, posted, channel>>

CopierReads == CopierStep("reading", "writing")
InputEnds == CopierStep("reading", "closing")
WriteFails == ~writeEnd /\ CopierStep("writing", "closing")

CopierWrites ==
  /\ copier = "writing" /\ writeEnd /\ inPipe < PipeSize
  /\ inPipe' = inPipe + 1 /\ copier' = "reading"
  /\ UNCHANGED <<vars, main, wg, doneCh, early, segmenter, writeEnd, posted, channel>>

(* Plausible bug: the pipe stays open when the input has ended. *)
KeepOpen == UNCHANGED writeEnd

CloseInput == writeEnd' = FALSE

CopierEnds ==
  /\ copier = "closing"
  /\ CloseInput
  /\ wg' = wg - 1 /\ copier' = "done"
  /\ UNCHANGED <<vars, main, doneCh, early, segmenter, inPipe, posted, channel>>

(***************************************************************************)
(* The segmenter's goroutine: a step of RunSegmentation, ffmpeg reading    *)
(* its input, and what follows when RunSegmentation has returned.          *)
(***************************************************************************)

Segments(A) == segmenter = "running" /\ A /\ UNCHANGED programVars

(* ffmpeg looks at its input unless it waits for a pipe to be read.        *)
FfmpegReads ==
  /\ segmenter = "running" /\ ffmpeg.pc \in {"between", "writing"} /\ inPipe > 0
  /\ inPipe' = inPipe - 1
  /\ UNCHANGED <<vars, main, wg, doneCh, early, segmenter, copier, writeEnd, posted, channel>>

InputIsOver == inPipe = 0 /\ ~writeEnd /\ ffmpeg.pc # "opening" /\ Exits

ClosePublisher ==
  /\ segmenter = "running" /\ run = "returned"
  /\ channel' = FALSE /\ segmenter' = "closed"
  /\ UNCHANGED <<vars, main, wg, doneCh, early, copier, writeEnd, inPipe, posted>>

SegmenterEnds ==
  /\ segmenter = "closed"
  /\ wg' = wg - 1 /\ segmenter' = "done"
  /\ UNCHANGED <<vars, main, doneCh, early, copier, writeEnd, inPipe, posted, channel>>

(***************************************************************************)
(* A segment's goroutine: NewSegment was called when processSegments began *)
(* the segment.                                                            *)
(***************************************************************************)

Posting == (ended \cup currentSegment) \ posted

PostReturns(n) ==
  /\ n \in Posting
  /\ posted' = posted \cup {n}
  /\ UNCHANGED <<vars, main, wg, doneCh, early, segmenter, copier, writeEnd, inPipe, channel>>

StreamNotFound(n) ==
  /\ n \in Posting
  /\ writeEnd' = FALSE /\ posted' = posted \cup {n}
  /\ UNCHANGED <<vars, main, wg, doneCh, early, segmenter, copier, inPipe, channel>>

----------------------------------------------------------------------------

Main == StartSegmenter \/ StartCopier \/ CloseDoneCh \/ MainReturns
Copier == CopierWrites \/ WriteFails \/ CopierEnds
SegmenterAfter == ClosePublisher \/ SegmenterEnds
Posts == \E n \in Names : PostReturns(n) \/ StreamNotFound(n)

(* The process ends with runPublish. *)
Alive(A) == main # "returned" /\ A

ProgramNext ==
  Alive(\/ Main \/ Interrupted
        \/ CopierReads \/ InputEnds \/ Copier
        \/ Segments(Next) \/ FfmpegReads \/ SegmenterAfter \/ Posts)

(* Goroutines run, and ffmpeg reads its input and ends with it; that input *)
(* comes, or an interrupt, is not assumed.                                 *)
ProgramFairness ==
  /\ WF_allVars(Alive(Main)) /\ WF_allVars(Alive(Copier)) /\ WF_allVars(Alive(SegmenterAfter))
  /\ WF_allVars(Alive(Segments(SignalCompletion \/ Complete)))
  /\ WF_allVars(Alive(Segments(RunReturns)))
  /\ WF_allVars(Alive(Segments(Loop))) /\ WF_allVars(Alive(Segments(OpenReturns)))
  /\ WF_allVars(Alive(FfmpegReads)) /\ WF_allVars(Alive(Segments(InputIsOver)))

ProgramSpec == ProgramInit /\ [][ProgramNext]_allVars /\ ProgramFairness

(***************************************************************************)
(* Correctness.                                                            *)
(***************************************************************************)

(* The handler's reader got all that ffmpeg had for the segment, unless the *)
(* completion signal cut it; ffmpeg may go on with a file of its own.      *)
ReadToItsEnd(n) == n \in ended /\ (n \in shut \/ n \in strays \/ delivered[n] = written[n])

(* The channel is deleted only when processSegments has ended, after it    *)
(* ended each segment it began, whole but for the one that was cut         *)
(* (publisher-ffmpeg.go:74, rtmp2segment.go:68).                           *)
ChannelOutlivesSegments ==
  ~channel => loop.pc = "ended" /\ \A n \in Names : n < loop.n => ReadToItsEnd(n)

(* runPublish returns only when both its goroutines are over, which closed *)
(* the pipe and deleted the channel, unless the goroutine of               *)
(* WaitGroupWithDone had looked at the counter before they were in it      *)
(* (publisher-ffmpeg.go:67, 92-98).                                        *)
MainOutlivesGoroutines ==
  main = "returned" /\ ~early =>
    segmenter = "done" /\ copier = "done" /\ ~writeEnd /\ ~channel

(* Both at once: when runPublish returns every segment it began was read.  *)
NothingEndsEarly == ChannelOutlivesSegments /\ MainOutlivesGoroutines

(* Once the input has ended runPublish returns, whatever ffmpeg, the       *)
(* segment in progress and an interrupt do, unless the segmenter lost      *)
(* ffmpeg to its timeout (publisher-ffmpeg.go:87).                         *)
StopsWhenInputEnds == (copier = "closing") ~> (main = "returned" \/ timedOut)

============================================================================
