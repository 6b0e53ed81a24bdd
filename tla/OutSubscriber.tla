--------------------------- MODULE OutSubscriber ---------------------------
(***************************************************************************)
(* runSubscribe of publisher-out (cmd/publisher-out/publisher-out.go): the *)
(* segments of a channel are copied into an os.Pipe that ffmpeg reads, and *)
(* a goroutine starts ffmpeg again when it ends early, at most MaxRetries  *)
(* times in RetryInterval.  Subscriber and ffmpeg are external: Read       *)
(* returns a segment or fails, ffmpeg reads its input and may crash at any *)
(* time.                                                                   *)
(*                                                                         *)
(* The pipe holds up to PipeSize chunks, and time is counted in ticks up   *)
(* to MaxTime.                                                             *)
(***************************************************************************)
EXTENDS Integers, Sequences

CONSTANTS MaxRetries, RetryInterval, PipeSize, MaxTime
ASSUME OutAssumption ==
  /\ MaxRetries \in Nat \ {0} /\ RetryInterval \in Nat
  /\ PipeSize \in Nat \ {0} /\ MaxTime \in Nat

VARIABLES
  now,               \* ticks of the clock
  sub,               \* the subscription's program counter
  inPipe,            \* chunks in the pipe
  writeEnd,          \* w is open
  subscriptionDone,  \* the channel of that name is closed
  proc,              \* the goroutine: program counter, whether ffmpeg crashed
  rc,                \* retryCounter
  failures           \* the times at which ffmpeg was found to have failed (history)

subVars == <<sub, writeEnd, subscriptionDone>>
procVars == <<proc, rc, failures>>
outVars == <<now, inPipe, subVars, procVars>>

OutInit ==
  /\ now = 0 /\ inPipe = 0
  /\ sub = "read"
  /\ writeEnd = TRUE /\ subscriptionDone = FALSE
  /\ proc = [pc |-> "running", crashed |-> FALSE]
  /\ rc = [retryCount |-> 0, firstRetry |-> 0]
  /\ failures = << >>

Tick ==
  /\ now < MaxTime
  /\ now' = now + 1
  /\ UNCHANGED <<inPipe, subVars, procVars>>

(***************************************************************************)
(* The subscription.                                                       *)
(***************************************************************************)

SubStep(from, to) ==
  /\ sub = from /\ sub' = to
  /\ UNCHANGED <<now, inPipe, writeEnd, subscriptionDone, procVars>>

ReadSegment == SubStep("read", "copy")
ReadFails == SubStep("read", "tell")

(* io.Copy gets a chunk; or the body ends or breaks, and the next segment  *)
(* is read either way.                                                     *)
CopyReads == SubStep("copy", "write")
CopyEnds == SubStep("copy", "read")

(* Plausible bug: a write does not wait. *)
AnyRoom == TRUE

(* r stays open in this process: a write waits for room, whether or not    *)
(* there is still an ffmpeg to make some.                                  *)
Room == inPipe < PipeSize

CopyWrites ==
  /\ sub = "write" /\ Room
  /\ inPipe' = inPipe + 1
  /\ sub' = "copy"
  /\ UNCHANGED <<now, writeEnd, subscriptionDone, procVars>>

(* Plausible bug: the goroutine is not told that the stream is over. *)
SayNothing == SubStep("tell", "close")

TellGoroutine ==
  /\ sub = "tell" /\ sub' = "close"
  /\ subscriptionDone' = TRUE
  /\ UNCHANGED <<now, inPipe, writeEnd, procVars>>

(* Plausible bug: ffmpeg is waited for with its input open. *)
LeaveOpen == SubStep("close", "wait")

CloseWriteEnd ==
  /\ sub = "close" /\ sub' = "wait"
  /\ writeEnd' = FALSE
  /\ UNCHANGED <<now, inPipe, subscriptionDone, procVars>>

SubscribeReturns == proc.pc \in {"done", "gaveUp"} /\ SubStep("wait", "returned")

(***************************************************************************)
(* ffmpeg and the goroutine that runs it.                                  *)
(***************************************************************************)

Reads ==
  /\ proc.pc = "running" /\ inPipe > 0
  /\ inPipe' = inPipe - 1
  /\ UNCHANGED <<now, subVars, procVars>>

Exits(crashed) ==
  /\ proc.pc = "running"
  /\ proc' = [pc |-> "exited", crashed |-> crashed]
  /\ UNCHANGED <<now, inPipe, subVars, rc, failures>>

Crashes == Exits(TRUE)
EndsAtEOF == inPipe = 0 /\ ~writeEnd /\ Exits(FALSE)

(* The select after ffmpeg's exit. *)
FindsDone ==
  /\ proc.pc = "exited"
  /\ proc' = [proc EXCEPT !.pc = IF subscriptionDone THEN "done" ELSE "failed"]
  /\ UNCHANGED <<now, inPipe, subVars, rc, failures>>

(* Plausible bug: the interval starts anew and the count does not. *)
CountGoesOn ==
  IF rc.retryCount = 0 \/ now - rc.firstRetry > RetryInterval
  THEN [retryCount |-> rc.retryCount + 1, firstRetry |-> now]
  ELSE [rc EXCEPT !.retryCount = @ + 1]

Counted ==
  IF rc.retryCount = 0 \/ now - rc.firstRetry > RetryInterval
  THEN [retryCount |-> 1, firstRetry |-> now]
  ELSE [rc EXCEPT !.retryCount = @ + 1]

CheckRetry ==
  /\ proc.pc = "failed"
  /\ rc' = Counted
  /\ failures' = Append(failures, now)
  /\ proc' = [proc EXCEPT !.pc = IF rc'.retryCount > MaxRetries THEN "gaveUp"
                                 ELSE "running"]
  /\ UNCHANGED <<now, inPipe, subVars>>

----------------------------------------------------------------------------

Subscription ==
  \/ ReadSegment \/ ReadFails \/ CopyReads \/ CopyEnds \/ CopyWrites
  \/ TellGoroutine \/ CloseWriteEnd \/ SubscribeReturns
Ffmpeg == Reads \/ Crashes \/ EndsAtEOF
Goroutine == FindsDone \/ CheckRetry

OutNext == Tick \/ Subscription \/ Ffmpeg \/ Goroutine

(* Goroutines run, and an ffmpeg that runs reads its input to the end.     *)
Fairness ==
  /\ WF_outVars(TellGoroutine) /\ WF_outVars(CloseWriteEnd) /\ WF_outVars(SubscribeReturns)
  /\ WF_outVars(Goroutine)
  /\ WF_outVars(Reads) /\ WF_outVars(EndsAtEOF)

OutSpec == OutInit /\ [][OutNext]_outVars /\ Fairness

(***************************************************************************)
(* Correctness.                                                            *)
(***************************************************************************)

OutTypeOK ==
  /\ now \in 0..MaxTime /\ inPipe \in 0..PipeSize
  /\ sub \in {"read", "copy", "write", "tell", "close", "wait", "returned"}
  /\ writeEnd \in BOOLEAN /\ subscriptionDone \in BOOLEAN
  /\ proc \in [pc : {"running", "exited", "failed", "done", "gaveUp"}, crashed : BOOLEAN]
  /\ rc \in [retryCount : 0..MaxRetries + 1, firstRetry : 0..MaxTime]
  /\ failures \in Seq(0..MaxTime)

(* ffmpeg is given up only when it failed more than MaxRetries times       *)
(* within one RetryInterval, not for failures spread over a long stream    *)
(* (publisher-out.go:185).                                                 *)
GivesUpOnBursts ==
  proc.pc = "gaveUp" =>
    LET last == Len(failures)
    IN last > MaxRetries /\ failures[last] - failures[last - MaxRetries] <= RetryInterval

(* The end of the stream is no failure of ffmpeg: it is not started again  *)
(* for having read its input to the end (publisher-out.go:107, 140).       *)
EndIsNoFailure == proc.pc = "failed" => proc.crashed

RetriesOnlyFailures == GivesUpOnBursts /\ EndIsNoFailure

(* Once the subscription has ended runSubscribe returns, in whatever state *)
(* ffmpeg and its goroutine are at that moment (publisher-out.go:140-142). *)
EndsWithStream == (sub = "tell") ~> (sub = "returned")

============================================================================
