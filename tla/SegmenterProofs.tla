--------------------------- MODULE SegmenterProofs ---------------------------
(***************************************************************************)
(* Segmenter, for any number of segments and of chunks: its safety          *)
(* invariants.                                                              *)
(*                                                                          *)
(* ffmpeg and processSegments move through the names together: a writer is  *)
(* let in only while the pipe is open here, and then the next pipe is there *)
(* already (Ahead); the loop leaves a pipe only when its writer has come    *)
(* and gone or has ended altogether (LoopIsBehind, OpenIsHere).  So the     *)
(* pipe ffmpeg looks for next is one the loop has made and not yet removed, *)
(* and of a segment that is followed by another nothing was dropped         *)
(* (Accounted, Finished).                                                   *)
(*                                                                          *)
(* FfmpegPublisher, whose steps are Segmenter's or leave it alone, inherits *)
(* this; its channel outlives its segments because RunSegmentation returns  *)
(* after the loop, which has done with every segment before the one it is   *)
(* at, and runPublish outlives its goroutines because the wait group's      *)
(* counter is the number of those that run (WaitGroup).                     *)
(***************************************************************************)
EXTENDS FfmpegPublisher, FiniteSetTheorems, SequenceTheorems, TLAPS

(* Where ffmpeg has not been yet there is no trace of it.                   *)
Untouched ==
  \A n \in Names :
    n > ffmpeg.n \/ (n = ffmpeg.n /\ ffmpeg.pc \in {"between", "opening"}) =>
      pipe[n].writer = "never" /\ n \notin strays

(* A pipe that has a writer is the one ffmpeg writes to, and the loop has   *)
(* it open, unless it timed out.                                            *)
OpenIsHere ==
  \A n \in Names :
    pipe[n].writer = "open" =>
      /\ ffmpeg.n = n /\ ffmpeg.pc = "writing"
      /\ loop.n = n /\ (HasOpen(n) \/ loop.pc = "ended")

WritesSomewhere ==
  ffmpeg.pc = "writing" => ffmpeg.n \in strays \/ pipe[ffmpeg.n].writer = "open"

(* The loop handles a segment after ffmpeg came to it, and ffmpeg gets into *)
(* a pipe only when the loop has come to it.                                *)
LoopIsBehind ==
  loop.pc \in {"opened", "copy", "read", "clean"} =>
    loop.n \in strays \/ pipe[loop.n].writer # "never"

WriterIsBehind ==
  \A n \in Names :
    pipe[n].writer # "never" =>
      \/ n < loop.n
      \/ n = loop.n /\ loop.pc \notin {"start", "create", "open", "again"}

(* The goroutine closes and signals only when ffmpeg has exited.            *)
SignalMeansExited ==
  /\ isComplete \/ pipeCompletion \/ shut # {} \/ run # "ffmpeg" => ffmpeg.pc = "exited"

(* The names that may be a pipe are the loop's current one and the next.    *)
PipesInWindow ==
  \A n \in Names :
    dir[n] = "fifo" =>
      \/ n = loop.n /\ loop.pc \notin {"start", "ended"}
      \/ n = loop.n + 1 /\ loop.pc \notin {"start", "create", "again", "ended"}

FilesAreStrays == \A n \in Names : dir[n] = "file" => n \in strays

(* The pipe ffmpeg needs next is there.                                     *)
Ahead ==
  strays = {} /\ ~timedOut =>
    /\ loop.pc \in {"open", "check", "select", "opened", "copy", "read", "clean"} =>
         dir[loop.n + 1] = "fifo"
    /\ ffmpeg.pc = "between" /\ ffmpeg.n > 0 => dir[ffmpeg.n] = "fifo"
    /\ ffmpeg.pc = "writing" => dir[ffmpeg.n + 1] = "fifo"

LoopHasMoved ==
  /\ loop.pc = "start" => loop.n = 0
  /\ loop.pc = "again" => loop.n > 0

(* What was delivered and what is unread is part of what was written, and   *)
(* all of it while the loop has the pipe open; without a writer there is    *)
(* nothing.                                                                 *)
Accounted ==
  \A n \in Names :
    /\ delivered[n] + pipe[n].unread <= written[n]
    /\ pipe[n].writer = "never" /\ n \notin strays => written[n] = 0
    /\ HasOpen(n) /\ n \notin strays => delivered[n] + pipe[n].unread = written[n]

(* Segments the loop has done with: only the completion signal cuts one.     *)
Finished ==
  \A n \in Names :
    n < loop.n \/ (n = loop.n /\ loop.pc = "clean") => ReadToItsEnd(n)

IInv ==
  /\ TypeOK /\ SignalMeansExited
  /\ Untouched /\ OpenIsHere /\ WritesSomewhere
  /\ LoopIsBehind /\ WriterIsBehind /\ LoopHasMoved
  /\ PipesInWindow /\ FilesAreStrays /\ Ahead
  /\ Accounted /\ Finished
  /\ PipeBeforeWriter /\ WholeOnceFollowed

-----------------------------------------------------------------------------
(* The numbers of ffmpeg and of the loop are names, and so are the next.    *)
LEMMA Numbers ==
  ASSUME TypeOK
  PROVE  /\ ffmpeg.n \in 0..Last /\ ffmpeg.n \in Names /\ ffmpeg.n + 1 \in Names
         /\ loop.n \in Nat /\ loop.n \in Names /\ loop.n + 1 \in Names
  <1>1. ffmpeg.n \in 0..Last /\ loop.n \in 0..Last + 1
    BY DEF TypeOK
  <1> QED BY <1>1, BoundsAssumption DEF Names

(* A pipe whose writer or whose count changes is still a pipe.              *)
Pipes == [Names -> [unread : 0..MaxChunks, writer : {"never", "open", "gone"}]]

LEMMA WriterChanges ==
  ASSUME pipe \in Pipes, NEW n \in Names, NEW w \in {"never", "open", "gone"}
  PROVE  [pipe EXCEPT ![n].writer = w] \in Pipes
  <1>1. pipe[n] \in [unread : 0..MaxChunks, writer : {"never", "open", "gone"}]
    BY DEF Pipes
  <1>2. [pipe[n] EXCEPT !.writer = w] \in [unread : 0..MaxChunks, writer : {"never", "open", "gone"}]
    BY <1>1
  <1> QED BY <1>2 DEF Pipes

LEMMA UnreadChanges ==
  ASSUME pipe \in Pipes, NEW n \in Names, NEW u \in 0..MaxChunks
  PROVE  [pipe EXCEPT ![n].unread = u] \in Pipes
  <1>1. pipe[n] \in [unread : 0..MaxChunks, writer : {"never", "open", "gone"}]
    BY DEF Pipes
  <1>2. [pipe[n] EXCEPT !.unread = u] \in [unread : 0..MaxChunks, writer : {"never", "open", "gone"}]
    BY <1>1
  <1> QED BY <1>2 DEF Pipes


-----------------------------------------------------------------------------
(***************************************************************************)
(* One lemma for each action: every part of IInv survives it.               *)
(***************************************************************************)

(* ffmpeg finds the pipe it is about to open.                               *)
LEMMA FindsPipeStep == IInv /\ FindsPipe => IInv'
  <1> SUFFICES ASSUME IInv, FindsPipe PROVE IInv'
    OBVIOUS
  <1> USE BoundsAssumption DEF IInv, TypeOK, HasOpen, Names, fileVars,
        readVars, loopVars, doneVars, FindsPipe
  <1>1. TypeOK'
    OBVIOUS
  <1>2. /\ SignalMeansExited' /\ Untouched' /\ OpenIsHere' /\ WritesSomewhere'
        /\ LoopIsBehind' /\ WriterIsBehind' /\ LoopHasMoved'
        /\ PipesInWindow' /\ FilesAreStrays' /\ Ahead' /\ Accounted'
        /\ Finished' /\ PipeBeforeWriter' /\ WholeOnceFollowed'
    BY DEF SignalMeansExited, Untouched, OpenIsHere, WritesSomewhere,
           LoopIsBehind, WriterIsBehind, LoopHasMoved, PipesInWindow,
           FilesAreStrays, Ahead, Accounted, Finished, ReadToItsEnd, PipeBeforeWriter,
           WholeOnceFollowed
  <1> QED BY <1>1, <1>2

(* ffmpeg makes a file: it was first, or the loop has given up.             *)
LEMMA FindsNothingStep == IInv /\ FindsNothing => IInv'
  <1> SUFFICES ASSUME IInv, FindsNothing PROVE IInv'
    OBVIOUS
  <1> USE BoundsAssumption DEF IInv, TypeOK, HasOpen, Names, fileVars,
        readVars, loopVars, doneVars, FindsNothing
  <1>1. TypeOK'
    <2>1. ffmpeg.n \in Names
      BY Numbers
    <2> QED BY <2>1
  <1>2. PipeBeforeWriter'
    BY DEF PipeBeforeWriter, Ahead
  <1>3. /\ SignalMeansExited' /\ Untouched' /\ OpenIsHere' /\ WritesSomewhere'
        /\ LoopIsBehind' /\ WriterIsBehind' /\ LoopHasMoved'
        /\ PipesInWindow' /\ FilesAreStrays' /\ Ahead' /\ Accounted'
        /\ Finished' /\ WholeOnceFollowed'
    BY DEF SignalMeansExited, Untouched, OpenIsHere, WritesSomewhere,
           LoopIsBehind, WriterIsBehind, LoopHasMoved, PipesInWindow,
           FilesAreStrays, Ahead, Accounted, Finished, ReadToItsEnd, WholeOnceFollowed
  <1> QED BY <1>1, <1>2, <1>3

(* A writer is let in: the segment before it was finished.                  *)
LEMMA OpenReturnsStep == IInv /\ OpenReturns => IInv'
  <1> SUFFICES ASSUME IInv, OpenReturns PROVE IInv'
    OBVIOUS
  <1> USE BoundsAssumption DEF IInv, TypeOK, HasOpen, Names, fileVars,
        readVars, loopVars, doneVars, OpenReturns
  <1>1. TypeOK'
    OBVIOUS
  <1>2. WholeOnceFollowed'
    BY DEF WholeOnceFollowed, Finished, ReadToItsEnd, SignalMeansExited
  <1>3. /\ SignalMeansExited' /\ Untouched' /\ OpenIsHere' /\ WritesSomewhere'
        /\ LoopIsBehind' /\ WriterIsBehind' /\ LoopHasMoved'
    BY DEF SignalMeansExited, Untouched, OpenIsHere, WritesSomewhere,
           LoopIsBehind, WriterIsBehind, LoopHasMoved
  <1>4. /\ PipesInWindow' /\ FilesAreStrays' /\ Ahead'
    BY DEF PipesInWindow, FilesAreStrays, Ahead
  <1>5. Accounted' /\ Finished'
    BY DEF Accounted, Finished, ReadToItsEnd
  <1>6. PipeBeforeWriter'
    BY DEF PipeBeforeWriter
  <1> QED BY <1>1, <1>2, <1>3, <1>4, <1>5, <1>6

(* A chunk is written to the pipe the loop has open, or dropped.            *)
LEMMA WritesStep == IInv /\ Writes => IInv'
  <1> SUFFICES ASSUME IInv, Writes PROVE IInv'
    OBVIOUS
  <1> USE BoundsAssumption DEF IInv, TypeOK, HasOpen, Names, fileVars,
        readVars, loopVars, doneVars, Writes
  <1>1. TypeOK'
    <2>1. ffmpeg.n \in Names
      BY Numbers
    <2>2. /\ written[ffmpeg.n] + 1 \in 0..MaxChunks
          /\ pipe[ffmpeg.n].unread + 1 \in 0..MaxChunks
      BY <2>1 DEF Accounted
    <2>3. pipe' \in Pipes
      BY <2>1, <2>2, UnreadChanges DEF Pipes
    <2>4. written' \in [Names -> 0..MaxChunks]
      BY <2>1, <2>2
    <2> QED BY <2>3, <2>4 DEF Pipes
  <1>2. Untouched'
    BY DEF Untouched
  <1>3. OpenIsHere'
    BY DEF OpenIsHere
  <1>4. WritesSomewhere'
    BY DEF WritesSomewhere
  <1>5. LoopIsBehind'
    BY DEF LoopIsBehind
  <1>6. WriterIsBehind'
    BY DEF WriterIsBehind
  <1>7. Accounted'
    <2> SUFFICES ASSUME NEW n \in Names
                 PROVE  /\ delivered[n] + pipe'[n].unread <= written'[n]
                        /\ pipe'[n].writer = "never" /\ n \notin strays => written'[n] = 0
                        /\ HasOpen(n) /\ n \notin strays =>
                             delivered[n] + pipe'[n].unread = written'[n]
      BY DEF Accounted
    <2>1. ffmpeg.n \in Names
      BY Numbers
    <2>2. pipe[n].unread \in Nat /\ delivered[n] \in Nat /\ written[n] \in Nat
      OBVIOUS
    <2>3. /\ delivered[n] + pipe[n].unread <= written[n]
          /\ pipe[n].writer = "never" /\ n \notin strays => written[n] = 0
          /\ HasOpen(n) /\ n \notin strays => delivered[n] + pipe[n].unread = written[n]
      BY DEF Accounted
    <2>4. CASE n # ffmpeg.n
      <3>1. written'[n] = written[n] /\ pipe'[n] = pipe[n]
        BY <2>1, <2>4
      <3> QED BY <2>3, <3>1
    <2>5. CASE n = ffmpeg.n
      <3>1. /\ written'[n] = written[n] + 1 /\ pipe'[n].writer = pipe[n].writer
            /\ n \in strays \/ pipe[n].writer = "open"
            /\ \/ pipe'[n].unread = pipe[n].unread + 1
               \/ pipe'[n].unread = pipe[n].unread /\ n \notin strays /\ ~HasOpen(n)
        BY <2>1, <2>5 DEF WritesSomewhere
      <3> QED BY <2>2, <2>3, <3>1
    <2> QED BY <2>4, <2>5
  <1>8. Finished'
    BY DEF Finished, ReadToItsEnd, WritesSomewhere, OpenIsHere
  <1>9. WholeOnceFollowed'
    BY DEF WholeOnceFollowed, Untouched
  <1>10. /\ SignalMeansExited' /\ LoopHasMoved' /\ PipesInWindow'
         /\ FilesAreStrays' /\ Ahead' /\ PipeBeforeWriter'
    BY DEF SignalMeansExited, LoopHasMoved, PipesInWindow, FilesAreStrays,
           Ahead, PipeBeforeWriter
  <1> QED BY <1>1, <1>2, <1>3, <1>4, <1>5, <1>6, <1>7, <1>8, <1>9, <1>10

(* The writer leaves; the next pipe is there.                               *)
LEMMA EndsSegmentStep == IInv /\ EndsSegment => IInv'
  <1> SUFFICES ASSUME IInv, EndsSegment PROVE IInv'
    OBVIOUS
  <1> USE BoundsAssumption DEF IInv, TypeOK, HasOpen, Names, fileVars,
        readVars, loopVars, doneVars, EndsSegment, Hangup
  <1>1. TypeOK'
    <2>1. ffmpeg.n \in Names /\ ffmpeg.n \in 0..Last
      BY Numbers
    <2>2. ffmpeg.n + 1 \in 0..Last
      BY <2>1
    <2>3. pipe' \in Pipes
      BY <2>1, WriterChanges DEF Pipes
    <2>4. ffmpeg' \in [pc : {"between", "opening", "writing", "exited"}, n : 0..Last]
      BY <2>2
    <2> QED BY <2>3, <2>4 DEF Pipes
  <1>2. SignalMeansExited'
    BY DEF SignalMeansExited
  <1>3. Untouched'
    BY DEF Untouched
  <1>4. OpenIsHere'
    BY DEF OpenIsHere
  <1>5. WritesSomewhere'
    BY DEF WritesSomewhere
  <1>6. LoopIsBehind'
    BY DEF LoopIsBehind
  <1>7. WriterIsBehind'
    BY DEF WriterIsBehind
  <1>8. Ahead'
    BY DEF Ahead
  <1>9. Accounted'
    BY DEF Accounted
  <1>10. Finished'
    BY DEF Finished, ReadToItsEnd
  <1>11. WholeOnceFollowed'
    BY DEF WholeOnceFollowed
  <1>12. /\ LoopHasMoved' /\ PipesInWindow' /\ FilesAreStrays'
         /\ PipeBeforeWriter'
    BY DEF LoopHasMoved, PipesInWindow, FilesAreStrays, PipeBeforeWriter
  <1> QED BY <1>1, <1>2, <1>3, <1>4, <1>5, <1>6, <1>7, <1>8, <1>9, <1>10,
             <1>11, <1>12

(* ffmpeg exits, in whatever state it is.                                   *)
LEMMA ExitsStep == IInv /\ Exits => IInv'
  <1> SUFFICES ASSUME IInv, Exits PROVE IInv'
    OBVIOUS
  <1> USE BoundsAssumption DEF IInv, TypeOK, HasOpen, Names, fileVars,
        readVars, loopVars, doneVars, Exits, Hangup
  <1>1. TypeOK'
    OBVIOUS
  <1>2. SignalMeansExited'
    BY DEF SignalMeansExited
  <1>3. Untouched'
    BY DEF Untouched
  <1>4. OpenIsHere'
    BY DEF OpenIsHere
  <1>5. WritesSomewhere'
    BY DEF WritesSomewhere
  <1>6. LoopIsBehind'
    BY DEF LoopIsBehind
  <1>7. WriterIsBehind'
    BY DEF WriterIsBehind
  <1>8. Ahead'
    BY DEF Ahead
  <1>9. Accounted'
    BY DEF Accounted
  <1>10. Finished'
    BY DEF Finished, ReadToItsEnd
  <1>11. WholeOnceFollowed'
    BY DEF WholeOnceFollowed
  <1>12. /\ LoopHasMoved' /\ PipesInWindow' /\ FilesAreStrays'
         /\ PipeBeforeWriter'
    BY DEF LoopHasMoved, PipesInWindow, FilesAreStrays, PipeBeforeWriter
  <1> QED BY <1>1, <1>2, <1>3, <1>4, <1>5, <1>6, <1>7, <1>8, <1>9, <1>10,
             <1>11, <1>12

(* RunSegmentation tells of ffmpeg's exit.                                  *)
LEMMA SignalCompletionStep == IInv /\ SignalCompletion => IInv'
  <1> SUFFICES ASSUME IInv, SignalCompletion PROVE IInv'
    OBVIOUS
  <1> USE BoundsAssumption DEF IInv, TypeOK, HasOpen, Names, fileVars,
        readVars, loopVars, doneVars, SignalCompletion
  <1>1. TypeOK'
    OBVIOUS
  <1>2. /\ SignalMeansExited' /\ Untouched' /\ OpenIsHere' /\ WritesSomewhere'
        /\ LoopIsBehind' /\ WriterIsBehind' /\ LoopHasMoved'
        /\ PipesInWindow' /\ FilesAreStrays' /\ Ahead' /\ Accounted'
        /\ Finished' /\ PipeBeforeWriter' /\ WholeOnceFollowed'
    BY DEF SignalMeansExited, Untouched, OpenIsHere, WritesSomewhere,
           LoopIsBehind, WriterIsBehind, LoopHasMoved, PipesInWindow,
           FilesAreStrays, Ahead, Accounted, Finished, ReadToItsEnd, PipeBeforeWriter,
           WholeOnceFollowed
  <1> QED BY <1>1, <1>2

(* The goroutine closes the current file and tells the loop.                *)
LEMMA CompleteStep == IInv /\ Complete => IInv'
  <1> SUFFICES ASSUME IInv, Complete PROVE IInv'
    OBVIOUS
  <1> USE BoundsAssumption DEF IInv, TypeOK, HasOpen, Names, fileVars,
        readVars, loopVars, doneVars, Complete, TellLoop
  <1>1. TypeOK'
    OBVIOUS
  <1>2. /\ SignalMeansExited' /\ Untouched' /\ OpenIsHere' /\ WritesSomewhere'
        /\ LoopIsBehind' /\ WriterIsBehind' /\ LoopHasMoved'
        /\ PipesInWindow' /\ FilesAreStrays' /\ Ahead' /\ Accounted'
        /\ Finished' /\ PipeBeforeWriter' /\ WholeOnceFollowed'
    BY DEF SignalMeansExited, Untouched, OpenIsHere, WritesSomewhere,
           LoopIsBehind, WriterIsBehind, LoopHasMoved, PipesInWindow,
           FilesAreStrays, Ahead, Accounted, Finished, ReadToItsEnd, PipeBeforeWriter,
           WholeOnceFollowed
  <1> QED BY <1>1, <1>2

(* RunSegmentation returns.                                                 *)
LEMMA RunReturnsStep == IInv /\ RunReturns => IInv'
  <1> SUFFICES ASSUME IInv, RunReturns PROVE IInv'
    OBVIOUS
  <1> USE BoundsAssumption DEF IInv, TypeOK, HasOpen, Names, fileVars,
        readVars, loopVars, doneVars, RunReturns
  <1>1. TypeOK'
    OBVIOUS
  <1>2. /\ SignalMeansExited' /\ Untouched' /\ OpenIsHere' /\ WritesSomewhere'
        /\ LoopIsBehind' /\ WriterIsBehind' /\ LoopHasMoved'
        /\ PipesInWindow' /\ FilesAreStrays' /\ Ahead' /\ Accounted'
        /\ Finished' /\ PipeBeforeWriter' /\ WholeOnceFollowed'
    BY DEF SignalMeansExited, Untouched, OpenIsHere, WritesSomewhere,
           LoopIsBehind, WriterIsBehind, LoopHasMoved, PipesInWindow,
           FilesAreStrays, Ahead, Accounted, Finished, ReadToItsEnd, PipeBeforeWriter,
           WholeOnceFollowed
  <1> QED BY <1>1, <1>2

(* The first pipe is made.                                                  *)
LEMMA CreateFirstStep == IInv /\ CreateFirst => IInv'
  <1> SUFFICES ASSUME IInv, CreateFirst PROVE IInv'
    OBVIOUS
  <1> USE BoundsAssumption DEF IInv, TypeOK, HasOpen, Names, fileVars,
        readVars, loopVars, doneVars, CreateFirst, WithPipe, Goto
  <1>1. TypeOK'
    OBVIOUS
  <1>2. PipesInWindow'
    <2>1. loop.n = 0 /\ loop'.n = 0
      BY DEF LoopHasMoved
    <2> QED BY <2>1 DEF PipesInWindow
  <1>3. /\ SignalMeansExited' /\ Untouched' /\ OpenIsHere' /\ WritesSomewhere'
        /\ LoopIsBehind' /\ WriterIsBehind' /\ LoopHasMoved'
        /\ FilesAreStrays' /\ Ahead' /\ Accounted' /\ Finished'
        /\ PipeBeforeWriter' /\ WholeOnceFollowed'
    BY DEF SignalMeansExited, Untouched, OpenIsHere, WritesSomewhere,
           LoopIsBehind, WriterIsBehind, LoopHasMoved, FilesAreStrays, Ahead,
           Accounted, Finished, ReadToItsEnd, PipeBeforeWriter, WholeOnceFollowed
  <1> QED BY <1>1, <1>2, <1>3

(* The pipe after the current one is made.                                  *)
LEMMA CreateNextStep == IInv /\ CreateNext => IInv'
  <1> SUFFICES ASSUME IInv, CreateNext PROVE IInv'
    OBVIOUS
  <1> USE BoundsAssumption DEF IInv, TypeOK, HasOpen, Names, fileVars,
        readVars, loopVars, doneVars, CreateNext, AheadOf, WithPipe, Goto
  <1>1. TypeOK'
    OBVIOUS
  <1>2. Ahead'
    BY DEF Ahead, FilesAreStrays
  <1>3. /\ SignalMeansExited' /\ Untouched' /\ OpenIsHere' /\ WritesSomewhere'
        /\ LoopIsBehind' /\ WriterIsBehind' /\ LoopHasMoved'
        /\ PipesInWindow' /\ FilesAreStrays' /\ Accounted' /\ Finished'
        /\ PipeBeforeWriter' /\ WholeOnceFollowed'
    BY DEF SignalMeansExited, Untouched, OpenIsHere, WritesSomewhere,
           LoopIsBehind, WriterIsBehind, LoopHasMoved, PipesInWindow,
           FilesAreStrays, Accounted, Finished, ReadToItsEnd, PipeBeforeWriter,
           WholeOnceFollowed
  <1> QED BY <1>1, <1>2, <1>3

(* The loop opens a pipe nobody has written to.                             *)
LEMMA OpenPipeStep == IInv /\ OpenPipe => IInv'
  <1> SUFFICES ASSUME IInv, OpenPipe PROVE IInv'
    OBVIOUS
  <1> USE BoundsAssumption DEF IInv, TypeOK, HasOpen, Names, fileVars,
        readVars, loopVars, doneVars, OpenPipe, Step, Goto
  <1>1. TypeOK'
    OBVIOUS
  <1>2. Accounted'
    BY DEF Accounted, WriterIsBehind
  <1>3. /\ SignalMeansExited' /\ Untouched' /\ OpenIsHere' /\ WritesSomewhere'
        /\ LoopIsBehind' /\ WriterIsBehind' /\ LoopHasMoved'
        /\ PipesInWindow' /\ FilesAreStrays' /\ Ahead' /\ Finished'
        /\ PipeBeforeWriter' /\ WholeOnceFollowed'
    BY DEF SignalMeansExited, Untouched, OpenIsHere, WritesSomewhere,
           LoopIsBehind, WriterIsBehind, LoopHasMoved, PipesInWindow,
           FilesAreStrays, Ahead, Finished, ReadToItsEnd, PipeBeforeWriter,
           WholeOnceFollowed
  <1> QED BY <1>1, <1>2, <1>3

(* The loop gives up because ffmpeg has exited.                             *)
LEMMA OpenCompletedStep == IInv /\ OpenCompleted => IInv'
  <1> SUFFICES ASSUME IInv, OpenCompleted PROVE IInv'
    OBVIOUS
  <1> USE BoundsAssumption DEF IInv, TypeOK, HasOpen, Names, fileVars,
        readVars, loopVars, doneVars, OpenCompleted, GiveUp, Without, PipesOf,
        Goto
  <1>1. TypeOK'
    OBVIOUS
  <1>2. Ahead'
    BY DEF Ahead, SignalMeansExited
  <1>3. /\ SignalMeansExited' /\ Untouched' /\ OpenIsHere' /\ WritesSomewhere'
        /\ LoopIsBehind' /\ WriterIsBehind' /\ LoopHasMoved'
        /\ PipesInWindow' /\ FilesAreStrays' /\ Accounted' /\ Finished'
        /\ PipeBeforeWriter' /\ WholeOnceFollowed'
    BY DEF SignalMeansExited, Untouched, OpenIsHere, WritesSomewhere,
           LoopIsBehind, WriterIsBehind, LoopHasMoved, PipesInWindow,
           FilesAreStrays, Accounted, Finished, ReadToItsEnd, PipeBeforeWriter,
           WholeOnceFollowed
  <1> QED BY <1>1, <1>2, <1>3

(* The loop gives up on ffmpeg.                                             *)
LEMMA OpenTimesOutStep == IInv /\ OpenTimesOut => IInv'
  <1> SUFFICES ASSUME IInv, OpenTimesOut PROVE IInv'
    OBVIOUS
  <1> USE BoundsAssumption DEF IInv, TypeOK, HasOpen, Names, fileVars,
        readVars, loopVars, doneVars, OpenTimesOut, GiveUp, Without, PipesOf,
        Goto
  <1>1. TypeOK'
    OBVIOUS
  <1>2. /\ SignalMeansExited' /\ Untouched' /\ OpenIsHere' /\ WritesSomewhere'
        /\ LoopIsBehind' /\ WriterIsBehind' /\ LoopHasMoved'
        /\ PipesInWindow' /\ FilesAreStrays' /\ Ahead' /\ Accounted'
        /\ Finished' /\ PipeBeforeWriter' /\ WholeOnceFollowed'
    BY DEF SignalMeansExited, Untouched, OpenIsHere, WritesSomewhere,
           LoopIsBehind, WriterIsBehind, LoopHasMoved, PipesInWindow,
           FilesAreStrays, Ahead, Accounted, Finished, ReadToItsEnd, PipeBeforeWriter,
           WholeOnceFollowed
  <1> QED BY <1>1, <1>2

(* The loop goes to select.                                                 *)
LEMMA SelectStep == IInv /\ Select => IInv'
  <1> SUFFICES ASSUME IInv, Select PROVE IInv'
    OBVIOUS
  <1> USE BoundsAssumption DEF IInv, TypeOK, HasOpen, Names, fileVars,
        readVars, loopVars, doneVars, Select, Step, Goto
  <1>1. TypeOK'
    OBVIOUS
  <1>2. /\ SignalMeansExited' /\ Untouched' /\ OpenIsHere' /\ WritesSomewhere'
        /\ LoopIsBehind' /\ WriterIsBehind' /\ LoopHasMoved'
        /\ PipesInWindow' /\ FilesAreStrays' /\ Ahead' /\ Accounted'
        /\ Finished' /\ PipeBeforeWriter' /\ WholeOnceFollowed'
    BY DEF SignalMeansExited, Untouched, OpenIsHere, WritesSomewhere,
           LoopIsBehind, WriterIsBehind, LoopHasMoved, PipesInWindow,
           FilesAreStrays, Ahead, Accounted, Finished, ReadToItsEnd, PipeBeforeWriter,
           WholeOnceFollowed
  <1> QED BY <1>1, <1>2

(* The pipe is ready: ffmpeg has come to it.                                *)
LEMMA SelectReadyStep == IInv /\ SelectReady => IInv'
  <1> SUFFICES ASSUME IInv, SelectReady PROVE IInv'
    OBVIOUS
  <1> USE BoundsAssumption DEF IInv, TypeOK, HasOpen, Names, fileVars,
        readVars, loopVars, doneVars, SelectReady, Step, Goto, Ready
  <1>1. TypeOK'
    OBVIOUS
  <1>2. LoopIsBehind'
    BY DEF LoopIsBehind, Accounted
  <1>3. /\ SignalMeansExited' /\ Untouched' /\ OpenIsHere' /\ WritesSomewhere'
        /\ WriterIsBehind' /\ LoopHasMoved' /\ PipesInWindow'
        /\ FilesAreStrays' /\ Ahead' /\ Accounted' /\ Finished'
        /\ PipeBeforeWriter' /\ WholeOnceFollowed'
    BY DEF SignalMeansExited, Untouched, OpenIsHere, WritesSomewhere,
           WriterIsBehind, LoopHasMoved, PipesInWindow, FilesAreStrays, Ahead,
           Accounted, Finished, ReadToItsEnd, PipeBeforeWriter, WholeOnceFollowed
  <1> QED BY <1>1, <1>2, <1>3

(* The loop goes back to look at the signal.                                *)
LEMMA SelectTimesOutStep == IInv /\ SelectTimesOut => IInv'
  <1> SUFFICES ASSUME IInv, SelectTimesOut PROVE IInv'
    OBVIOUS
  <1> USE BoundsAssumption DEF IInv, TypeOK, HasOpen, Names, fileVars,
        readVars, loopVars, doneVars, SelectTimesOut, Step, Goto
  <1>1. TypeOK'
    OBVIOUS
  <1>2. /\ SignalMeansExited' /\ Untouched' /\ OpenIsHere' /\ WritesSomewhere'
        /\ LoopIsBehind' /\ WriterIsBehind' /\ LoopHasMoved'
        /\ PipesInWindow' /\ FilesAreStrays' /\ Ahead' /\ Accounted'
        /\ Finished' /\ PipeBeforeWriter' /\ WholeOnceFollowed'
    BY DEF SignalMeansExited, Untouched, OpenIsHere, WritesSomewhere,
           LoopIsBehind, WriterIsBehind, LoopHasMoved, PipesInWindow,
           FilesAreStrays, Ahead, Accounted, Finished, ReadToItsEnd, PipeBeforeWriter,
           WholeOnceFollowed
  <1> QED BY <1>1, <1>2

(* The segment's reader is handed out.                                      *)
LEMMA BeginSegmentStep == IInv /\ BeginSegment => IInv'
  <1> SUFFICES ASSUME IInv, BeginSegment PROVE IInv'
    OBVIOUS
  <1> USE BoundsAssumption DEF IInv, TypeOK, HasOpen, Names, fileVars,
        readVars, loopVars, doneVars, BeginSegment, Goto
  <1>1. TypeOK'
    <2>1. loop.n \in Names
      BY Numbers
    <2> QED BY <2>1
  <1>2. /\ SignalMeansExited' /\ Untouched' /\ OpenIsHere' /\ WritesSomewhere'
        /\ LoopIsBehind' /\ WriterIsBehind' /\ LoopHasMoved'
        /\ PipesInWindow' /\ FilesAreStrays' /\ Ahead' /\ Accounted'
        /\ Finished' /\ PipeBeforeWriter' /\ WholeOnceFollowed'
    BY DEF SignalMeansExited, Untouched, OpenIsHere, WritesSomewhere,
           LoopIsBehind, WriterIsBehind, LoopHasMoved, PipesInWindow,
           FilesAreStrays, Ahead, Accounted, Finished, ReadToItsEnd, PipeBeforeWriter,
           WholeOnceFollowed
  <1> QED BY <1>1, <1>2

(* The loop reads on.                                                       *)
LEMMA CopyReadsStep == IInv /\ CopyReads => IInv'
  <1> SUFFICES ASSUME IInv, CopyReads PROVE IInv'
    OBVIOUS
  <1> USE BoundsAssumption DEF IInv, TypeOK, HasOpen, Names, fileVars,
        readVars, loopVars, doneVars, CopyReads, Step, Goto
  <1>1. TypeOK'
    OBVIOUS
  <1>2. /\ SignalMeansExited' /\ Untouched' /\ OpenIsHere' /\ WritesSomewhere'
        /\ LoopIsBehind' /\ WriterIsBehind' /\ LoopHasMoved'
        /\ PipesInWindow' /\ FilesAreStrays' /\ Ahead' /\ Accounted'
        /\ Finished' /\ PipeBeforeWriter' /\ WholeOnceFollowed'
    BY DEF SignalMeansExited, Untouched, OpenIsHere, WritesSomewhere,
           LoopIsBehind, WriterIsBehind, LoopHasMoved, PipesInWindow,
           FilesAreStrays, Ahead, Accounted, Finished, ReadToItsEnd, PipeBeforeWriter,
           WholeOnceFollowed
  <1> QED BY <1>1, <1>2

(* The file was closed: ffmpeg has exited.                                  *)
LEMMA CopyFindsClosedStep == IInv /\ CopyFindsClosed => IInv'
  <1> SUFFICES ASSUME IInv, CopyFindsClosed PROVE IInv'
    OBVIOUS
  <1> USE BoundsAssumption DEF IInv, TypeOK, HasOpen, Names, fileVars,
        readVars, loopVars, doneVars, CopyFindsClosed, EndSegment, Goto
  <1>1. TypeOK'
    <2>1. loop.n \in Names
      BY Numbers
    <2> QED BY <2>1
  <1>2. OpenIsHere'
    BY DEF OpenIsHere, SignalMeansExited
  <1>3. Finished'
    BY DEF Finished, ReadToItsEnd, SignalMeansExited
  <1>4. /\ SignalMeansExited' /\ Untouched' /\ WritesSomewhere' /\ LoopIsBehind'
        /\ WriterIsBehind' /\ LoopHasMoved' /\ PipesInWindow'
        /\ FilesAreStrays' /\ Ahead' /\ Accounted' /\ PipeBeforeWriter'
        /\ WholeOnceFollowed'
    BY DEF SignalMeansExited, Untouched, WritesSomewhere, LoopIsBehind,
           WriterIsBehind, LoopHasMoved, PipesInWindow, FilesAreStrays, Ahead,
           Accounted, PipeBeforeWriter, WholeOnceFollowed
  <1> QED BY <1>1, <1>2, <1>3, <1>4

(* A chunk is read.                                                         *)
LEMMA ReadReturnsStep == IInv /\ ReadReturns => IInv'
  <1> SUFFICES ASSUME IInv, ReadReturns PROVE IInv'
    OBVIOUS
  <1> USE BoundsAssumption DEF IInv, TypeOK, HasOpen, Names, fileVars,
        readVars, loopVars, doneVars, ReadReturns, Goto
  <1>1. TypeOK'
    <2>1. loop.n \in Names
      BY Numbers
    <2>2. /\ delivered[loop.n] + 1 \in 0..MaxChunks
          /\ pipe[loop.n].unread - 1 \in 0..MaxChunks
      BY <2>1 DEF Accounted
    <2>3. pipe' \in Pipes
      BY <2>1, <2>2, UnreadChanges DEF Pipes
    <2>4. delivered' \in [Names -> 0..MaxChunks]
      BY <2>1, <2>2
    <2> QED BY <2>3, <2>4 DEF Pipes
  <1>2. Untouched'
    BY DEF Untouched
  <1>3. OpenIsHere'
    BY DEF OpenIsHere
  <1>4. WritesSomewhere'
    BY DEF WritesSomewhere
  <1>5. LoopIsBehind'
    BY DEF LoopIsBehind
  <1>6. WriterIsBehind'
    BY DEF WriterIsBehind
  <1>7. LoopHasMoved'
    BY DEF LoopHasMoved
  <1>8. PipesInWindow'
    BY DEF PipesInWindow
  <1>9. Ahead'
    BY DEF Ahead
  <1>10. Accounted'
    <2>1. loop.n \in Names
      BY Numbers
    <2>2. \A n \in Names :
            /\ delivered'[n] = IF n = loop.n THEN delivered[n] + 1 ELSE delivered[n]
            /\ pipe'[n].unread = IF n = loop.n THEN pipe[n].unread - 1 ELSE pipe[n].unread
            /\ pipe'[n].writer = pipe[n].writer
            /\ delivered[n] \in Nat /\ pipe[n].unread \in Nat
      BY <2>1
    <2>3. \A n \in Names : (HasOpen(n))' <=> HasOpen(n)
      OBVIOUS
    <2> QED BY <2>1, <2>2, <2>3 DEF Accounted
  <1>11. Finished'
    BY DEF Finished, ReadToItsEnd
  <1>12. WholeOnceFollowed'
    BY DEF WholeOnceFollowed, WriterIsBehind
  <1>13. SignalMeansExited' /\ FilesAreStrays' /\ PipeBeforeWriter'
    BY DEF SignalMeansExited, FilesAreStrays, PipeBeforeWriter
  <1> QED BY <1>1, <1>2, <1>3, <1>4, <1>5, <1>6, <1>7, <1>8, <1>9, <1>10,
             <1>11, <1>12, <1>13

(* The writer has left and all was read.                                    *)
LEMMA ReadEndsStep == IInv /\ ReadEnds => IInv'
  <1> SUFFICES ASSUME IInv, ReadEnds PROVE IInv'
    OBVIOUS
  <1> USE BoundsAssumption DEF IInv, TypeOK, HasOpen, Names, fileVars,
        readVars, loopVars, doneVars, ReadEnds, EndSegment, EOF, Goto
  <1>1. TypeOK'
    <2>1. loop.n \in Names
      BY Numbers
    <2> QED BY <2>1
  <1>2. Finished'
    BY DEF Finished, ReadToItsEnd, Accounted
  <1>3. /\ SignalMeansExited' /\ Untouched' /\ OpenIsHere' /\ WritesSomewhere'
        /\ LoopIsBehind' /\ WriterIsBehind' /\ LoopHasMoved'
        /\ PipesInWindow' /\ FilesAreStrays' /\ Ahead' /\ Accounted'
        /\ PipeBeforeWriter' /\ WholeOnceFollowed'
    BY DEF SignalMeansExited, Untouched, OpenIsHere, WritesSomewhere,
           LoopIsBehind, WriterIsBehind, LoopHasMoved, PipesInWindow,
           FilesAreStrays, Ahead, Accounted, PipeBeforeWriter,
           WholeOnceFollowed
  <1> QED BY <1>1, <1>2, <1>3

(* The loop removes a pipe ffmpeg is through with.                          *)
LEMMA CleanUpStep == IInv /\ CleanUp => IInv'
  <1> SUFFICES ASSUME IInv, CleanUp PROVE IInv'
    OBVIOUS
  <1> USE BoundsAssumption DEF CleanUp, Without, HasOpen
  <1>1. /\ loop.n \in Names /\ loop.n \in Nat /\ ffmpeg.n \in 0..Last
        /\ loop'.n = loop.n + 1 /\ loop'.pc = "again" /\ loop.pc = "clean"
    BY Numbers DEF IInv
  <1>2. /\ loop.n <= ffmpeg.n
        /\ loop.n = ffmpeg.n => ffmpeg.pc \notin {"between", "opening"}
    BY <1>1 DEF IInv, LoopIsBehind, Untouched
  <1>3. UNCHANGED <<pipe, ffmpeg, written, strays, delivered, ended, currentSegment, shut,
                    isComplete, pipeCompletion, timedOut, run>>
    BY DEF readVars, doneVars
  <1>4. TypeOK'
    <2>1. loop.n + 1 \in 0..Last + 1
      BY <1>1, <1>2
    <2>2. loop' \in [pc : {"start", "create", "open", "check", "select", "opened", "copy",
                          "read", "clean", "again", "ended"}, n : 0..Last + 1]
      BY <2>1
    <2> QED BY <1>3, <2>2 DEF IInv, TypeOK
  <1>5. OpenIsHere' /\ LoopIsBehind' /\ LoopHasMoved'
    BY <1>1, <1>3 DEF IInv, OpenIsHere, LoopIsBehind, LoopHasMoved
  <1>6. WriterIsBehind'
    BY <1>1, <1>3 DEF IInv, WriterIsBehind, Names
  <1>7. PipesInWindow'
    BY <1>1 DEF IInv, PipesInWindow, Names
  <1>8. Ahead'
    BY <1>1, <1>2, <1>3, Numbers DEF IInv, Ahead, LoopIsBehind
  <1>9. Accounted'
    BY <1>1, <1>3 DEF IInv, Accounted
  <1>10. Finished'
    BY <1>1, <1>3 DEF IInv, Finished, ReadToItsEnd, Names
  <1>11. /\ SignalMeansExited' /\ Untouched' /\ WritesSomewhere'
         /\ FilesAreStrays' /\ PipeBeforeWriter' /\ WholeOnceFollowed'
    BY <1>3 DEF IInv, SignalMeansExited, Untouched, WritesSomewhere, FilesAreStrays,
       PipeBeforeWriter, WholeOnceFollowed
  <1> QED BY <1>4, <1>5, <1>6, <1>7, <1>8, <1>9, <1>10, <1>11 DEF IInv

(* The loop goes on.                                                        *)
LEMMA AgainStep == IInv /\ Again => IInv'
  <1> SUFFICES ASSUME IInv, Again PROVE IInv'
    OBVIOUS
  <1> USE BoundsAssumption DEF IInv, TypeOK, HasOpen, Names, fileVars,
        readVars, loopVars, doneVars, Again, Step, Goto
  <1>1. TypeOK'
    OBVIOUS
  <1>2. /\ SignalMeansExited' /\ Untouched' /\ OpenIsHere' /\ WritesSomewhere'
        /\ LoopIsBehind' /\ WriterIsBehind' /\ LoopHasMoved'
        /\ PipesInWindow' /\ FilesAreStrays' /\ Ahead' /\ Accounted'
        /\ Finished' /\ PipeBeforeWriter' /\ WholeOnceFollowed'
    BY DEF SignalMeansExited, Untouched, OpenIsHere, WritesSomewhere,
           LoopIsBehind, WriterIsBehind, LoopHasMoved, PipesInWindow,
           FilesAreStrays, Ahead, Accounted, Finished, ReadToItsEnd, PipeBeforeWriter,
           WholeOnceFollowed
  <1> QED BY <1>1, <1>2

(* The loop ends and removes what is left.                                  *)
LEMMA FinishStep == IInv /\ Finish => IInv'
  <1> SUFFICES ASSUME IInv, Finish PROVE IInv'
    OBVIOUS
  <1> USE BoundsAssumption DEF IInv, TypeOK, HasOpen, Names, fileVars,
        readVars, loopVars, doneVars, Finish, Without, PipesOf, Goto
  <1>1. TypeOK'
    OBVIOUS
  <1>2. Ahead'
    BY DEF Ahead, SignalMeansExited
  <1>3. /\ SignalMeansExited' /\ Untouched' /\ OpenIsHere' /\ WritesSomewhere'
        /\ LoopIsBehind' /\ WriterIsBehind' /\ LoopHasMoved'
        /\ PipesInWindow' /\ FilesAreStrays' /\ Accounted' /\ Finished'
        /\ PipeBeforeWriter' /\ WholeOnceFollowed'
    BY DEF SignalMeansExited, Untouched, OpenIsHere, WritesSomewhere,
           LoopIsBehind, WriterIsBehind, LoopHasMoved, PipesInWindow,
           FilesAreStrays, Accounted, Finished, ReadToItsEnd, PipeBeforeWriter,
           WholeOnceFollowed
  <1> QED BY <1>1, <1>2, <1>3

-----------------------------------------------------------------------------
(* The inductive invariant holds at the start.                              *)
LEMMA Initial == Init => IInv
  <1> SUFFICES ASSUME Init PROVE IInv
    OBVIOUS
  <1> USE BoundsAssumption DEF Init, Names, HasOpen
  <1>1. TypeOK
    <2>1. /\ ffmpeg \in [pc : {"between", "opening", "writing", "exited"}, n : 0..Last]
          /\ loop \in [pc : {"start", "create", "open", "check", "select", "opened", "copy",
                            "read", "clean", "again", "ended"}, n : 0..Last + 1]
          /\ pipe \in Pipes
      BY DEF Pipes
    <2> QED BY <2>1 DEF TypeOK, Pipes
  <1>2. SignalMeansExited /\ Untouched /\ OpenIsHere /\ WritesSomewhere
    BY DEF SignalMeansExited, Untouched, OpenIsHere, WritesSomewhere
  <1>3. LoopIsBehind /\ WriterIsBehind /\ LoopHasMoved
    BY DEF LoopIsBehind, WriterIsBehind, LoopHasMoved
  <1>4. PipesInWindow /\ FilesAreStrays /\ Ahead /\ PipeBeforeWriter
    BY DEF PipesInWindow, FilesAreStrays, Ahead, PipeBeforeWriter
  <1>5. Accounted /\ Finished /\ WholeOnceFollowed
    BY DEF Accounted, Finished, ReadToItsEnd, WholeOnceFollowed
  <1> QED BY <1>1, <1>2, <1>3, <1>4, <1>5 DEF IInv

(* Every step keeps the inductive invariant.                                *)
LEMMA Invariant == IInv /\ [Next]_vars => IInv'
  <1> SUFFICES ASSUME IInv, [Next]_vars PROVE IInv'
    OBVIOUS
  <1>1. CASE UNCHANGED vars
    BY <1>1 DEF vars, fileVars, loopVars, readVars, doneVars, IInv, TypeOK,
       SignalMeansExited, Untouched, OpenIsHere, HasOpen, WritesSomewhere, LoopIsBehind,
       WriterIsBehind, LoopHasMoved, PipesInWindow, FilesAreStrays, Ahead,
       Accounted, Finished, ReadToItsEnd, PipeBeforeWriter, WholeOnceFollowed
  <1>2. CASE Ffmpeg
    BY <1>2, FindsPipeStep, FindsNothingStep, OpenReturnsStep, WritesStep,
       EndsSegmentStep, ExitsStep DEF Ffmpeg
  <1>3. CASE Completion
    BY <1>3, SignalCompletionStep, CompleteStep, RunReturnsStep DEF Completion
  <1>4. CASE Loop
    BY <1>4, CreateFirstStep, CreateNextStep, OpenPipeStep, OpenCompletedStep, SelectStep,
       SelectReadyStep, SelectTimesOutStep, BeginSegmentStep, CopyReadsStep,
       CopyFindsClosedStep, ReadReturnsStep, ReadEndsStep, CleanUpStep, AgainStep,
       FinishStep DEF Loop
  <1> QED BY <1>1, <1>2, <1>3, <1>4, OpenTimesOutStep DEF Next

(* The inductive invariant holds.                                           *)
THEOREM SegmenterInvariance == Spec => []IInv
  <1> QED BY Initial, Invariant, PTL DEF Spec

(* The segmenter's variables keep their types; in particular the loop never *)
(* runs more than one name ahead of ffmpeg's last (rtmp2segment.go:221).    *)
THEOREM TypeCorrect == Spec => []TypeOK
  <1>1. IInv => TypeOK
    BY DEF IInv
  <1> QED BY <1>1, SegmenterInvariance, PTL

(* Every name ffmpeg opens is a pipe, unless it was faster than the first   *)
(* Mkfifo or given up, and none is left when processSegments has ended      *)
(* (rtmp2segment.go:201, 206-212, 227-232).                                 *)
THEOREM PipesAreInPlace == Spec => []PipesInPlace
  <1>1. IInv => PipesInPlace
    BY DEF IInv, PipesInPlace, NoPipeLeft, PipesInWindow
  <1> QED BY <1>1, SegmenterInvariance, PTL

(* A segment is handed on whole once ffmpeg got into the pipe of the next   *)
(* (rtmp2segment.go:149, 187).                                              *)
THEOREM OnlyTheLastIsCut == Spec => []WholeOnceFollowed
  <1>1. IInv => WholeOnceFollowed
    BY DEF IInv
  <1> QED BY <1>1, SegmenterInvariance, PTL

-----------------------------------------------------------------------------
(***************************************************************************)
(* The program around it.                                                   *)
(***************************************************************************)

(* RunSegmentation returns after the loop, and the channel goes after that.  *)
ChannelGoesLast ==
  /\ run = "returned" => loop.pc = "ended"
  /\ ~channel => run = "returned"

One(b) == IF b THEN 1 ELSE 0

(* The counter is the number of goroutines that were added and have not     *)
(* ended; it was zero before both were there, or after both had ended.      *)
WaitGroup ==
  /\ wg = One(segmenter \in {"running", "closed"}) + One(copier \in {"reading", "writing", "closing"})
  /\ main \in {"start", "started", "select", "waiting", "returned"}
  /\ segmenter \in {"none", "running", "closed", "done"}
  /\ copier \in {"none", "reading", "writing", "closing", "done"}
  /\ segmenter = "none" <=> main = "start"
  /\ copier = "none" <=> main \in {"start", "started"}
  /\ segmenter \in {"closed", "done"} => ~channel
  /\ copier = "done" => ~writeEnd
  /\ early \in BOOLEAN
  /\ (doneCh \/ main = "returned") /\ ~early => segmenter = "done" /\ copier = "done"

PInv == IInv /\ ChannelGoesLast /\ WaitGroup

(* A step of the program is a step of Segmenter or leaves it alone.         *)
LEMMA ProgramStep == ProgramNext => [Next]_vars
  BY DEF ProgramNext, Alive, Main, StartSegmenter, StartCopier, CloseDoneCh, MainReturns,
     Interrupted, CopierReads, InputEnds, Copier, CopierWrites, WriteFails, CopierEnds,
     CopierStep, Segments, FfmpegReads, SegmenterAfter, ClosePublisher, SegmenterEnds,
     Posts, PostReturns, StreamNotFound

(* RunSegmentation waits for the loop, which does nothing once it has ended. *)
LEMMA SegmenterKeepsOrder ==
  ASSUME ChannelGoesLast, Next, channel' = channel
  PROVE  ChannelGoesLast'
  <1> USE DEF ChannelGoesLast, fileVars, loopVars, readVars, doneVars
  <1>1. CASE Ffmpeg
    BY <1>1 DEF Ffmpeg, FindsPipe, FindsNothing, OpenReturns, Writes, EndsSegment, Exits
  <1>2. CASE Completion
    BY <1>2 DEF Completion, SignalCompletion, Complete, RunReturns
  <1>3. CASE Loop \/ OpenTimesOut
    <2>1. loop.pc # "ended" /\ run' = run
      BY <1>3 DEF Loop, CreateFirst, CreateNext, OpenPipe, OpenCompleted, Select, SelectReady,
         SelectTimesOut, BeginSegment, CopyReads, CopyFindsClosed, ReadReturns, ReadEnds,
         CleanUp, Again, Finish, OpenTimesOut, Step, GiveUp, EndSegment
    <2> QED BY <2>1
  <1> QED BY <1>1, <1>2, <1>3 DEF Next

(* The program deletes the channel only when RunSegmentation has returned.  *)
LEMMA ProgramKeepsOrder ==
  ASSUME ChannelGoesLast, [ProgramNext]_allVars
  PROVE  ChannelGoesLast'
  <1>1. CASE Segments(Next)
    BY <1>1, SegmenterKeepsOrder DEF Segments, programVars
  <1>2. CASE UNCHANGED vars /\ (channel' = channel \/ run = "returned")
    BY <1>2 DEF ChannelGoesLast, vars, loopVars
  <1>3. ProgramNext => Segments(Next) \/ (UNCHANGED vars /\ (channel' = channel \/ run = "returned"))
    BY DEF ProgramNext, Alive, Main, StartSegmenter, StartCopier, CloseDoneCh, MainReturns,
       Interrupted, CopierReads, InputEnds, Copier, CopierWrites, WriteFails, CopierEnds,
       CopierStep, FfmpegReads, SegmenterAfter, ClosePublisher, SegmenterEnds,
       Posts, PostReturns, StreamNotFound
  <1> QED BY <1>1, <1>2, <1>3 DEF allVars, programVars

(* Each goroutine is counted from its start to its end.                     *)
LEMMA ProgramKeepsCount ==
  ASSUME WaitGroup, [ProgramNext]_allVars
  PROVE  WaitGroup'
  <1> USE DEF WaitGroup, One
  <1>1. CASE UNCHANGED programVars
    BY <1>1 DEF programVars
  <1>2. CASE Alive(StartSegmenter)
    BY <1>2 DEF Alive, StartSegmenter
  <1>3. CASE Alive(StartCopier)
    BY <1>3 DEF Alive, StartCopier, CountCopier
  <1>4. CASE Alive(CloseDoneCh)
    <2>1. /\ wg = 0 /\ early' = (copier = "none") /\ main # "returned"
          /\ UNCHANGED <<main, wg, segmenter, copier, writeEnd, channel>>
      BY <1>4 DEF Alive, CloseDoneCh
    <2>2. CASE copier = "none"
      <3>1. early' = TRUE
        BY <2>1, <2>2
      <3> QED BY <2>1, <3>1
    <2>3. CASE copier # "none"
      <3>1. segmenter = "done" /\ copier = "done"
        BY <2>1, <2>3
      <3>2. early' = FALSE
        BY <2>1, <2>3
      <3> QED BY <2>1, <3>1, <3>2
    <2> QED BY <2>2, <2>3
  <1>5. CASE Alive(MainReturns \/ Interrupted)
    BY <1>5 DEF Alive, MainReturns, Interrupted
  <1>6. CASE Alive(CopierReads \/ InputEnds \/ WriteFails \/ CopierWrites)
    BY <1>6 DEF Alive, CopierReads, InputEnds, WriteFails, CopierWrites, CopierStep
  <1>7. CASE Alive(CopierEnds)
    BY <1>7 DEF Alive, CopierEnds, CloseInput
  <1>8. CASE Alive(ClosePublisher)
    BY <1>8 DEF Alive, ClosePublisher
  <1>9. CASE Alive(SegmenterEnds)
    BY <1>9 DEF Alive, SegmenterEnds
  <1>10. CASE Alive(FfmpegReads \/ Posts)
    BY <1>10 DEF Alive, FfmpegReads, Posts, PostReturns, StreamNotFound
  <1>11. CASE Alive(Segments(Next))
    BY <1>1, <1>11 DEF Alive, Segments
  <1> QED BY <1>1, <1>2, <1>3, <1>4, <1>5, <1>6, <1>7, <1>8, <1>9, <1>10, <1>11
          DEF ProgramNext, Alive, Main, Copier, SegmenterAfter, allVars

(* The invariants of both hold throughout.                                  *)
THEOREM ProgramInvariance == ProgramSpec => []PInv
  <1>1. ProgramInit => PInv
    <2>1. ProgramInit => IInv
      BY Initial DEF ProgramInit
    <2>2. ProgramInit => ChannelGoesLast
      BY DEF ProgramInit, Init, ChannelGoesLast
    <2>3. ASSUME ProgramInit PROVE WaitGroup
      <3>1. main = "start" /\ wg = 0 /\ segmenter = "none" /\ copier = "none"
        BY <2>3 DEF ProgramInit
      <3>2. doneCh = FALSE /\ early = FALSE
        BY <2>3 DEF ProgramInit
      <3>3. ~(doneCh \/ main = "returned")
        BY <3>1, <3>2, Zenon
      <3>4. wg = One(segmenter \in {"running", "closed"})
                 + One(copier \in {"reading", "writing", "closing"})
        BY <3>1 DEF One
      <3>5. early \in BOOLEAN
        BY <3>2
      <3> QED BY <3>1, <3>3, <3>4, <3>5, Zenon DEF WaitGroup
    <2> QED BY <2>1, <2>2, <2>3 DEF PInv
  <1>2. IInv /\ [ProgramNext]_allVars => IInv'
    BY Invariant, ProgramStep DEF allVars
  <1>3. PInv /\ [ProgramNext]_allVars => PInv'
    BY <1>2, ProgramKeepsOrder, ProgramKeepsCount DEF PInv
  <1> QED BY <1>1, <1>3, PTL DEF ProgramSpec

(* In publisher-ffmpeg too, no segment but the last is cut, whatever the    *)
(* program does around RunSegmentation (publisher-ffmpeg.go:75).            *)
THEOREM ProgramCutsOnlyTheLast == ProgramSpec => [](PipesInPlace /\ WholeOnceFollowed)
  <1>1. IInv => PipesInPlace /\ WholeOnceFollowed
    BY DEF IInv, PipesInPlace, NoPipeLeft, PipesInWindow
  <1> QED BY <1>1, ProgramInvariance, PTL DEF PInv

(* The channel is deleted only after every segment was read to its end, but *)
(* for the one the completion signal cut; and runPublish returns only after *)
(* that and the end of both its goroutines, unless WaitGroupWithDone had    *)
(* looked too soon (publisher-ffmpeg.go:67, 74, rtmp2segment.go:68).        *)
THEOREM NothingIsLeftBehind == ProgramSpec => []NothingEndsEarly
  <1>1. IInv /\ ChannelGoesLast => ChannelOutlivesSegments
    BY DEF IInv, ChannelGoesLast, ChannelOutlivesSegments, Finished
  <1>2. WaitGroup => MainOutlivesGoroutines
    BY DEF WaitGroup, MainOutlivesGoroutines
  <1>3. PInv => NothingEndsEarly
    BY <1>1, <1>2 DEF PInv, NothingEndsEarly
  <1> QED BY <1>3, ProgramInvariance, PTL
=============================================================================
