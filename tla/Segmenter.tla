----------------------------- MODULE Segmenter -----------------------------
(***************************************************************************)
(* The RTMP segmenter (rtmp2segment.go).  ffmpeg writes segment n of the   *)
(* stream to the file named n; RunSegmentation makes a named pipe under    *)
(* that name beforehand, and processSegments reads one pipe after the      *)
(* other and hands each to the segment handler.  ffmpeg is external: it    *)
(* opens the names in order, blocks as open(2) of a pipe does, makes a     *)
(* regular file of a name it does not find, and may end at any time.       *)
(*                                                                         *)
(* A segment is a number of chunks; the first Last+1 segments are          *)
(* modelled, of at most MaxChunks chunks each.                             *)
(***************************************************************************)
EXTENDS Naturals

CONSTANTS Last, MaxChunks
ASSUME BoundsAssumption == Last \in Nat /\ MaxChunks \in Nat

Names == 0..Last + 2

VARIABLES
  dir,             \* dir[n]: what is found under the name n
  pipe,            \* pipe[n]: chunks not yet read, and whether it had a writer
  ffmpeg,          \* the process: what it does, and with which segment
  written,         \* written[n]: chunks ffmpeg had for segment n
  strays,          \* segments ffmpeg wrote to a regular file
  loop,            \* processSegments: program counter, pipeNum
  delivered,       \* delivered[n]: chunks of segment n the handler's reader got
  ended,           \* segments whose TrickleWriter was closed
  currentSegment,  \* {n}: the file of pipe n, once it was opened
  shut,            \* files closed by the completion goroutine
  isComplete, pipeCompletion,
  timedOut,        \* processSegments gave up waiting for ffmpeg
  run              \* RunSegmentation's program counter

readVars == <<delivered, ended, currentSegment, timedOut>>
loopVars == <<loop, readVars>>
doneVars == <<shut, isComplete, pipeCompletion>>
fileVars == <<dir, pipe, written, strays>>
vars == <<fileVars, ffmpeg, loopVars, doneVars, run>>

Init ==
  /\ dir = [n \in Names |-> "none"]
  /\ pipe = [n \in Names |-> [unread |-> 0, writer |-> "never"]]
  /\ ffmpeg = [pc |-> "between", n |-> 0]
  /\ written = [n \in Names |-> 0] /\ strays = {}
  /\ loop = [pc |-> "start", n |-> 0]
  /\ delivered = [n \in Names |-> 0] /\ ended = {} /\ currentSegment = {}
  /\ shut = {} /\ isComplete = FALSE /\ pipeCompletion = FALSE
  /\ timedOut = FALSE /\ run = "ffmpeg"

(* The descriptor of pipe n is open in processSegments. *)
HasOpen(n) == loop.n = n /\ loop.pc \in {"check", "select", "opened", "copy", "read"}

(***************************************************************************)
(* ffmpeg.                                                                 *)
(***************************************************************************)

FindsPipe ==
  /\ ffmpeg.pc = "between" /\ dir[ffmpeg.n] = "fifo"
  /\ ffmpeg' = [ffmpeg EXCEPT !.pc = "opening"]
  /\ UNCHANGED <<fileVars, loopVars, doneVars, run>>

FindsNothing ==
  /\ ffmpeg.pc = "between" /\ dir[ffmpeg.n] # "fifo"
  /\ dir' = [dir EXCEPT ![ffmpeg.n] = "file"]
  /\ strays' = strays \cup {ffmpeg.n}
  /\ ffmpeg' = [ffmpeg EXCEPT !.pc = "writing"]
  /\ UNCHANGED <<pipe, written, loopVars, doneVars, run>>

(* open(2) of a pipe for writing waits for a reader. *)
OpenReturns ==
  /\ ffmpeg.pc = "opening" /\ HasOpen(ffmpeg.n)
  /\ pipe' = [pipe EXCEPT ![ffmpeg.n].writer = "open"]
  /\ ffmpeg' = [ffmpeg EXCEPT !.pc = "writing"]
  /\ UNCHANGED <<dir, written, strays, loopVars, doneVars, run>>

(* Into a pipe that processSegments has closed nothing is written (EPIPE). *)
Writes ==
  /\ ffmpeg.pc = "writing" /\ written[ffmpeg.n] < MaxChunks
  /\ pipe' = IF ffmpeg.n \in strays \/ HasOpen(ffmpeg.n)
             THEN [pipe EXCEPT ![ffmpeg.n].unread = @ + 1] ELSE pipe
  /\ written' = [written EXCEPT ![ffmpeg.n] = @ + 1]
  /\ UNCHANGED <<dir, strays, ffmpeg, loopVars, doneVars, run>>

Hangup ==
  pipe' = IF pipe[ffmpeg.n].writer = "open"
          THEN [pipe EXCEPT ![ffmpeg.n].writer = "gone"] ELSE pipe

EndsSegment ==
  /\ ffmpeg.pc = "writing" /\ ffmpeg.n < Last
  /\ Hangup
  /\ ffmpeg' = [pc |-> "between", n |-> ffmpeg.n + 1]
  /\ UNCHANGED <<dir, written, strays, loopVars, doneVars, run>>

Exits ==
  /\ ffmpeg.pc # "exited"
  /\ Hangup
  /\ ffmpeg' = [ffmpeg EXCEPT !.pc = "exited"]
  /\ UNCHANGED <<dir, written, strays, loopVars, doneVars, run>>

(***************************************************************************)
(* RunSegmentation and the goroutine that waits for its signal.  The       *)
(* goroutine and processSegments hold mu for one step at a time.           *)
(***************************************************************************)

SignalCompletion ==
  /\ run = "ffmpeg" /\ ffmpeg.pc = "exited"
  /\ run' = "waiting"
  /\ UNCHANGED <<fileVars, ffmpeg, loopVars, doneVars>>

(* Plausible bug: only the current file is closed. *)
TellNobody == UNCHANGED pipeCompletion

TellLoop == pipeCompletion' = TRUE

Complete ==
  /\ run = "waiting" /\ ~isComplete
  /\ shut' = shut \cup currentSegment
  /\ isComplete' = TRUE
  /\ TellLoop
  /\ UNCHANGED <<fileVars, ffmpeg, loopVars, run>>

(* Plausible bug: processSegments is not waited for. *)
ReturnAtOnce ==
  /\ run = "waiting"
  /\ run' = "returned"
  /\ UNCHANGED <<fileVars, ffmpeg, loopVars, doneVars>>

RunReturns ==
  /\ run = "waiting" /\ loop.pc = "ended"
  /\ run' = "returned"
  /\ UNCHANGED <<fileVars, ffmpeg, loopVars, doneVars>>

(***************************************************************************)
(* processSegments.                                                        *)
(***************************************************************************)

(* Mkfifo leaves alone what it finds, and its EEXIST is no error. *)
WithPipe(d, n) == [d EXCEPT ![n] = IF @ = "none" THEN "fifo" ELSE @]
Without(d, ns) == [n \in Names |-> IF n \in ns THEN "none" ELSE d[n]]

Goto(pc) == loop' = [loop EXCEPT !.pc = pc]

(* A step that changes nothing but the program counter. *)
Step(from, to) ==
  /\ loop.pc = from
  /\ Goto(to)
  /\ UNCHANGED <<fileVars, ffmpeg, readVars, doneVars, run>>

CreateFirst ==
  /\ loop.pc = "start"
  /\ dir' = WithPipe(dir, 0)
  /\ Goto("create")
  /\ UNCHANGED <<pipe, written, strays, ffmpeg, readVars, doneVars, run>>

(* Plausible bug: a pipe is made when its turn comes. *)
InTime(d, n) == WithPipe(d, n)

(* nextPipeName exists before pipeName is opened. *)
AheadOf(d, n) == WithPipe(d, n + 1)

CreateNext ==
  /\ loop.pc = "create"
  /\ dir' = AheadOf(dir, loop.n)
  /\ Goto("open")
  /\ UNCHANGED <<pipe, written, strays, ffmpeg, readVars, doneVars, run>>

OpenPipe == Step("open", "check")

(* Plausible bug: the pipe made ahead is forgotten. *)
OnlyCurrent(n) == {n}

(* pipeName and nextPipeName. *)
PipesOf(n) == {n, n + 1}

(* openNonBlockingWithRetry returned an error. *)
GiveUp ==
  /\ dir' = Without(dir, PipesOf(loop.n))
  /\ Goto("ended")
  /\ UNCHANGED <<pipe, written, strays, ffmpeg, delivered, ended, currentSegment,
                 shut, isComplete, run>>

OpenCompleted ==
  /\ loop.pc = "check" /\ pipeCompletion
  /\ pipeCompletion' = FALSE
  /\ GiveUp
  /\ UNCHANGED timedOut

OpenTimesOut ==
  /\ loop.pc = "check" /\ ~pipeCompletion
  /\ timedOut' = TRUE
  /\ GiveUp
  /\ UNCHANGED pipeCompletion

Select == ~pipeCompletion /\ Step("check", "select")

(* Plausible bug: select's result is not looked at. *)
Anyway(n) == TRUE

(* select(2): a regular file, data, or a writer that came and went. *)
Ready(n) ==
  \/ n \in strays
  \/ pipe[n].unread > 0
  \/ pipe[n].writer = "gone"

SelectReady == Ready(loop.n) /\ Step("select", "opened")
SelectTimesOut == ~Ready(loop.n) /\ Step("select", "check")

BeginSegment ==
  /\ loop.pc = "opened"
  /\ currentSegment' = {loop.n}
  /\ Goto("copy")
  /\ UNCHANGED <<fileVars, ffmpeg, delivered, ended, timedOut, doneVars, run>>

EndSegment ==
  /\ ended' = ended \cup {loop.n}
  /\ Goto("clean")
  /\ UNCHANGED <<fileVars, ffmpeg, delivered, currentSegment, timedOut, doneVars, run>>

(* A Read that has begun is not disturbed by Close; the next one fails. *)
CopyReads == loop.n \notin shut /\ Step("copy", "read")

CopyFindsClosed == loop.pc = "copy" /\ loop.n \in shut /\ EndSegment

ReadReturns ==
  /\ loop.pc = "read" /\ pipe[loop.n].unread > 0
  /\ pipe' = [pipe EXCEPT ![loop.n].unread = @ - 1]
  /\ delivered' = [delivered EXCEPT ![loop.n] = @ + 1]
  /\ Goto("copy")
  /\ UNCHANGED <<dir, written, strays, ffmpeg, ended, currentSegment, timedOut,
                 doneVars, run>>

(* Plausible bug: the descriptor is left non-blocking. *)
EmptyPipe(n) == pipe[n].unread = 0

(* Plausible bug: a hangup is the end, whatever the pipe still holds. *)
HungUp(n) == pipe[n].writer # "open"

(* read(2) of a blocking descriptor waits while the pipe has a writer. *)
EOF(n) == pipe[n].unread = 0 /\ pipe[n].writer # "open"

ReadEnds == loop.pc = "read" /\ EOF(loop.n) /\ EndSegment

CleanUp ==
  /\ loop.pc = "clean"
  /\ dir' = Without(dir, {loop.n})
  /\ loop' = [pc |-> "again", n |-> loop.n + 1]
  /\ UNCHANGED <<pipe, written, strays, ffmpeg, readVars, doneVars, run>>

Again == ~isComplete /\ Step("again", "create")

Finish ==
  /\ loop.pc = "again" /\ isComplete
  /\ dir' = Without(dir, PipesOf(loop.n - 1))
  /\ Goto("ended")
  /\ UNCHANGED <<pipe, written, strays, ffmpeg, readVars, doneVars, run>>

----------------------------------------------------------------------------

Ffmpeg == FindsPipe \/ FindsNothing \/ OpenReturns \/ Writes \/ EndsSegment \/ Exits
Completion == SignalCompletion \/ Complete \/ RunReturns
Loop ==
  \/ CreateFirst \/ CreateNext \/ OpenPipe \/ OpenCompleted \/ Select
  \/ SelectReady \/ SelectTimesOut \/ BeginSegment \/ CopyReads \/ CopyFindsClosed \/ ReadReturns
  \/ ReadEnds \/ CleanUp \/ Again \/ Finish

Next == Ffmpeg \/ Completion \/ Loop \/ OpenTimesOut

(* Goroutines run, and the kernel lets a writer in; that ffmpeg does       *)
(* anything, and that 20 seconds pass, is not assumed.                     *)
Fairness ==
  /\ WF_vars(SignalCompletion) /\ WF_vars(Complete) /\ WF_vars(RunReturns)
  /\ WF_vars(Loop) /\ WF_vars(OpenReturns)

Spec == Init /\ [][Next]_vars /\ Fairness

(***************************************************************************)
(* Correctness.                                                            *)
(***************************************************************************)

TypeOK ==
  /\ dir \in [Names -> {"none", "fifo", "file"}]
  /\ pipe \in [Names -> [unread : 0..MaxChunks, writer : {"never", "open", "gone"}]]
  /\ ffmpeg \in [pc : {"between", "opening", "writing", "exited"}, n : 0..Last]
  /\ written \in [Names -> 0..MaxChunks] /\ strays \subseteq Names
  /\ loop \in [pc : {"start", "create", "open", "check", "select", "opened", "copy",
                     "read", "clean", "again", "ended"}, n : 0..Last + 1]
  /\ delivered \in [Names -> 0..MaxChunks] /\ ended \subseteq Names
  /\ currentSegment \subseteq Names /\ shut \subseteq Names
  /\ isComplete \in BOOLEAN /\ pipeCompletion \in BOOLEAN /\ timedOut \in BOOLEAN
  /\ run \in {"ffmpeg", "waiting", "returned"}

(* Once ffmpeg got into the pipe of a later segment, the segment before it *)
(* was handed on complete and its readers told the end: neither select,    *)
(* nor a read that finds the pipe empty for a while, nor the completion    *)
(* signal cut a segment that is not the last (rtmp2segment.go:149, 187).   *)
WholeOnceFollowed ==
  \A n \in 0..Last :
    pipe[n + 1].writer # "never" /\ n \notin strays =>
      n \in ended /\ delivered[n] = written[n]

(* Unless ffmpeg was faster than the first Mkfifo, or processSegments gave *)
(* up on it, every name ffmpeg opens is a pipe                             *)
(* (rtmp2segment.go:201: "Create the next pipe ahead of time").            *)
PipeBeforeWriter == strays # {} => 0 \in strays \/ timedOut

(* When processSegments has ended none of its pipes is left in the work    *)
(* directory, wherever in the loop the end found it.                       *)
NoPipeLeft == loop.pc = "ended" => \A n \in Names : dir[n] # "fifo"

(* Both at once: the pipes are there when they are needed, and then go.    *)
PipesInPlace == PipeBeforeWriter /\ NoPipeLeft

(* Nobody waits on a pipe for ever: once ffmpeg has exited RunSegmentation *)
(* returns, and without its twenty-second timeout; and ffmpeg's open of a  *)
(* segment returns unless processSegments has given up.                    *)
EndsWithFfmpeg == (ffmpeg.pc = "exited") ~> (run = "returned")
WriterIsLetIn == (ffmpeg.pc = "opening") ~> (ffmpeg.pc # "opening" \/ timedOut)

NobodyWaitsForEver == EndsWithFfmpeg /\ WriterIsLetIn

============================================================================
