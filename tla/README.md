# http-trickle in TLA+

TLA+ models of the trickle protocol implementation in this repository, the TLC configurations that check
them, and TLAPS proofs about them. Every definition is translated from the source; `PROJECT.json` maps each
to its lines, lists the runs, the mutations that each property was seen to catch, the hazards of the code
with the properties that cover them, and the theorems.

Check a model with `tlc -config MCStream.cfg MCStream`, a proof with `tlapm StreamProofs.tla`.

## The system

Publishers POST segments `channel/seq`, subscribers GET them while they are still being sent; the server
keeps a ring of five segments for each channel.

| Part | State | Operations | Interacts with |
|---|---|---|---|
| Drip buffer (`drip.go`) | buffer, `closed`, condition variable; position of each reader | `Write`, `Close`, `MakeReader`, `Read`, `Clone` | the segmenter writes, publishers read |
| Segment (`trickle_server.go`) | buffer, `closed`, `closeCh`, condition variable | `writeData`, `readData`, `close`, `reset`, `isFresh` | handlers of POST and GET share it |
| Stream | ring of segments, `nextWrite`, `writeTime`, `closed` | `getForWrite`, `getForRead`, `close` | handlers, local clients, sweeper |
| HTTP handlers | one process for each request | `handlePost`, `handleGet`, `closeSeq`, `handleDelete` | stream, segments, clients |
| Server | map of streams, changefeed | `getOrCreateStream`, `closeStream`, sweep, stop | handlers; the changefeed is a local channel |
| Local publisher and subscriber | own `seq`, own mutex | `Write`, `Close`; `Read`, `SetSeq` | stream and segments, without HTTP |
| `TricklePublisher` | `index`, `pendingPost`; for each post a pipe and `errCh` | `Next`, `Write`, `Close`, reconnect | server; callers in several goroutines |
| `TrickleSubscriber` | `idx`, `pendingGet`, error count, context | `Read`, its background preconnect, `SetSeq` | server; consumer and setter |
| Segment poster (`publisher-mediamtx`) | two counters, one goroutine for each segment | `NewSegment`, `BeginSegment`, `EndSegment` | drip buffer, `TricklePublisher` |
| RTMP segmenter (`rtmp2segment.go`) | named pipes in a directory, current file, completion flags | `RunSegmentation`, `processSegments`, `openNonBlockingWithRetry`, `readSegment` | ffmpeg, drip buffer, segment handlers |
| `publisher-ffmpeg` | pipe into ffmpeg, wait group, its channel | `runPublish`, `WaitGroupWithDone`, `NewSegment` | standard input, segmenter, `TricklePublisher` |
| `publisher-out` | pipe into ffmpeg, retry count | `runSubscribe`, `checkRetry` | `TrickleSubscriber`, ffmpeg, changefeed |
| Switchable handler (`segment_reader.go`) | a handler behind a mutex | `SwitchReader`, `Read` | segmenter |
| Subscriber programs, `pubsub-mediamtx` | none of their own | loops around the clients | clients, segmenter |
| Python clients, segmenter, JPEG parser | as the Go clients, under `asyncio` | publish, subscribe, split | server |

The hard parts are concurrent: handlers of one segment meet on its buffer and its `closeCh`; two GETs can be
in `getForRead` at once, as it stores under a read lock; segments are evicted, closed, reset and repeated
while they are read; the server's map, a stream and the changefeed are changed in separate critical sections;
the clients connect ahead, renew, cancel and retry requests whose answers may be on their way. What makes
each part correct:

* drip buffer, segment: no lost wake-up; every reader gets an exact prefix, and the end only after all of it;
* stream, handlers: a segment stays in its slot, `closeCh` is closed exactly once, a GET of `n` sees what was
  POSTed to `n`, whoever waits on a closed segment is answered;
* server: closed streams leave the map, no creation or removal goes untold, idle channels are swept;
* local channel: concurrent `Write`s get an entry each and are never refused; entries are read whole;
* publisher: numbers increase without gaps, a post has one owner, the server's error is what `Write` returns;
* subscriber: every segment once, in order; neither `Read` nor `SetSeq` is stuck behind the mutex;
* poster: segments in flight are counted exactly, a retry starts at the first byte, no number is left open;
* segmenter: a pipe is there before ffmpeg opens its name and gone after the end, no segment but the last can be cut, and
  nobody waits on a pipe for ever;
* programs: `publisher-ffmpeg` ends with its input, deletes its channel after its last segment was read and returns after both; `publisher-out` ends
  with its stream, and gives ffmpeg up for a burst of failures only.

## Modules

```
Relay  <--implements--  Drip                    Segment
                                                   |  EXTENDS
                                                 Stream
                                                /      \
                                  StreamHandlers        LocalChannel
TrickleServer     TricklePublisher     TrickleSubscriber     SegmentPoster
Segmenter  <--EXTENDS--  FfmpegPublisher                     OutSubscriber
```

`MC*` modules give TLC its model values, symmetry and sets; `*Proofs` hold the theorems. Definitions have the
names of the source where they can. Those of FfmpegPublisher, SegmentPoster and OutSubscriber that other modules
also have (`Init`, `Next`, `Spec`, `TypeOK`) start with Program, Poster and Out, so that a proof module can extend a client and
the program that drives it. An action is what a goroutine does between two points where another may
run: a lock released, a blocking read or wait, a write to the client. A body's data is a sequence of chunks;
a POST's k-th chunk is `<<post, k>>`, so its origin can be told (Segment takes the chunks as a constant `Data`; StreamHandlers
and LocalChannel say which they are). Definitions marked "Plausible bug" are the
mutated forms of the operator below them; no specification uses them.

**Relay** is what a buffered relay promises: each subscriber gets a growing prefix of what was published, and
is told the end once it has everything. **Drip** is `drip.go`: the buffer, the readers with their positions,
and the condition variable as the set `parked`. A `Read` with a buffer of `n` takes up to `n` chunks. It is
driven as `readSegment` drives it: writes, then one close. `ImplementsRelay` is the refinement mapping.

**Segment** has the segments on a heap, as handlers keep pointers to segments that the stream has dropped.
`closeCh` is numbered, because `reset` replaces it: `shut` is the set of channels that were closed.
**Stream** adds the ring, `nextWrite`, `getForWrite` in one step and `getForRead` in two (`Precreate` stores
what an earlier step decided to make; `Unlocked` keeps writers out between them). `Stream.close` is one step.

**StreamHandlers** has a process for each request. A POST looks up the stream, gets its segment, takes
`closeCh` (in a step of its own, without the mutex), waits for the first byte or for `closeCh`, sets
`nextWrite`, copies chunks, and closes; it may break, or be empty. A GET waits, copies and ends as
`handleGet` does; its client may go away. `listed` is whether the server's map has the channel.

**LocalChannel** reuses Segment and Stream with `CanReset = FALSE`. `Write` holds `c.mu` across two calls of
`getForWrite`, each a step. `Read` attaches, then its goroutine copies into a pipe that the consumer reads.

**TrickleServer** sees streams from outside: which name, closed or not, idle or not. `closeStream` takes
steps of its own for the lookup, the close, the removal and the announcement; the sweeper works from a copy
of the map. The changefeed is the sequence of changes handed to `internalPub.Write`; its own channel is not one of the names. That
channel is a LocalChannel, whose `Write`s are ordered and not refused (checked there) until somebody closes it: the sweeper
passes it over, but `clearAllStreams` closes it, and a DELETE of it would. A user either writes data, which resets `idle`, or
leaves without (`UserLeaves`: a POST without data, `handleCreate`, a local publisher).

`EveryChangeIsTold` is exact for creations. For removals it is a lower bound, and only until the server is stopped: two
goroutines that close one stream both tell it, the order of announcements is open, and `clearAllStreams` tells nothing.

**TricklePublisher** has callers of `Next` and `Write`. Each post has a pipe, a goroutine that waits for the
answer, and `errCh`. **TrickleSubscriber** has the consumer, the setter and the goroutines that `Read`s leave
behind (`spawned`); a preconnect has one request under way and the ones it renewed, whose late answers
compete for the channels. In both, the server and the HTTP transport are external: they answer as
StreamHandlers does, at any time, in any order the transport allows. The two are not composed with
StreamHandlers: the product is out of TLC's reach, and the answers offered include all that StreamHandlers
gives.

**SegmentPoster** has a goroutine for each segment taken. `Next` and `Write` are modelled by what they may
return. A `Write` may fail with part of the segment read and nothing sent, which is what makes the clone
necessary.

**Segmenter** is `rtmp2segment.go`. `dir` is what the work directory has under each name (nothing, a pipe, a regular
file), `pipe` the kernel's side of each pipe (chunks unread, whether a writer is there or has left). ffmpeg and the
kernel are external: ffmpeg opens the names in order, waits in open(2) until the loop has the pipe open, makes a file of a
name it does not find, and exits at any time. `loop` is `processSegments`: make the pipe ahead, open without
blocking, look at the completion channel, select, then read as a blocking file until the end. `Complete` is its
goroutine: it closes the current file and signals, which a loop in open hears (`OpenCompleted`) and a loop in read
notices at its next read (`CopyFindsClosed`). `run` is `RunSegmentation`, which waits for ffmpeg and then for the loop.

**FfmpegPublisher** composes `runPublish` with Segmenter: a copier from standard input, the wait group as a counter, the
goroutine that closes `doneCh`, the interrupt, and a goroutine for each segment posted, which closes the pipe when the
stream is not found. A step of Segmenter is a step of it (`Segments`); ffmpeg now exits in particular when its input ends.
The history variable `early` records that the wait group was seen at zero before both goroutines were counted.

**OutSubscriber** is `runSubscribe`: the loop that copies segments into a pipe, and the goroutine that runs
ffmpeg. `Counted` is `checkRetry`'s count, with a clock `now`; `failures` is the times at which ffmpeg failed, for the property.

## Runs

| Run | Instance | States | What it shows |
|---|---|---|---|
| `drip` | 3 readers, 2 kinds of chunk, buffers of 1 and 2, 3 chunks | 5 thousand | types, `NoLostWakeup`; `ImplementsRelay`, `EveryReaderFinishes` |
| `stream` | 2 POSTs, 1 GET, 1 DELETE of a segment, ring of 2, 1 chunk, bodies may break | 386 thousand | types, `ChannelAgree`, `NoCrossTalk`, `ParkedIsCaughtUp`, `LiveEdgeServed` |
| `stream_live` | 2 POSTs to one number, 2 chunks, 1 GET, 1 close of the stream | 224 thousand | `PrefixDelivery`, `WholeSegment`; `ClosingReleasesAll` |
| `local` | 3 concurrent Writes that may fail, 1 subscriber, ring of 2, close | 540 thousand | types, `EveryWriteHasItsEntry`, `WholeEntry` |
| `server` | 1 name, an HTTP and a local user, 2 closers, sweeper, stop, 2 streams | 282 thousand | types, `ClosedIsLeaving`, `EveryChangeIsTold`; `IdleIsSwept` |
| `publisher` | 2 callers of 2 Writes, 4 posts | 369 thousand | types, `EachCallItsNumber`, `ServerHasTheLastWord`; `WriteReturns` |
| `subscriber` | 3 segments, window of 2, one `SetSeq`, limit of 1 error | 182 thousand | types, `InOrder`; `NobodyIsStuck` |
| `poster` | 3 segments of 2 chunks, 2 in flight, 2 Writes each | 113 thousand | types, `InFlightBounded`, `FromTheStart`, `EveryNumberSettled`; `OutdatedGivesUp` |
| `segmenter` | 3 segments of up to 2 chunks, ffmpeg ends at any time, the timeout at any time | 32 thousand | types, `WholeOnceFollowed`, `PipesInPlace`; `NobodyWaitsForEver` |
| `out_subscriber` | 2 retries in an interval of 2 of 5 ticks, pipe of 2 chunks | 15 thousand | types, `RetriesOnlyFailures`; `EndsWithStream` |
| `ffmpeg_publisher` | 2 segments of 1 chunk, pipe of 1, interrupt, POSTs that find no stream | 379 thousand | `NothingEndsEarly`; `StopsWhenInputEnds` |

One run ends in a counterexample, where the code disagrees with what the repository says of it. `stream_forgotten`
(`SleepersHaveASource`): `getForRead` stores the segment it makes ahead of the publisher under a read lock, and does not
close what it replaces. Two GETs ahead each make one, or one replaces an old segment whose POST broke: a GET sleeps on a
segment that has left the ring and that no POST fills or closes. `pendingPost.Close` (`trickle_publisher.go:270`) says
that subscribers stop waiting when their segment "drops out of the window".

Other disagreements met while modelling, in the models and without a run:

* The changefeed is written outside of `sm.mutex`: "removed" may come before "added", and the feed's last word is that a
  channel exists which does not (`trickle_server.go:179`). `clearAllStreams` tells it nothing (a TODO, `:192`).
* A POST on a stream that was closed between lookup and lock makes an open segment in it (`trickle_server.go:441`).
* A preconnected POST answered 200 before it is written: `Write` takes that for the answer to the data
  (`trickle_publisher.go:226`).
* Local publishers never set `nextWrite`, so a local subscriber that starts at -1 is given entry 0 where the
  repository's README says the most recent one; nor do they set `writeTime`, so their channels are swept `IdleTimeout`
  after they were made (`local_publisher.go:34`). `Read` adds one to the number it remembers even if it was -1
  (`local_subscriber.go:49`), and `Write` reads again, for ever, after an error of its source (`local_publisher.go:66`).
* The completion signal closes the pipe that is being read: the last segment loses what is still in it
  (`rtmp2segment.go:187`), or all of it when the signal comes before it is opened (`:119`).
* An ffmpeg that is faster than the first `Mkfifo`, or slower than the twenty seconds of the open, writes regular files from
  then on; nobody reads them (`rtmp2segment.go:127`, `:194`).
* When publisher-out has given ffmpeg up, its subscription blocks on a full pipe and does not end (`publisher-out.go:113`, `:132`).
* `WaitGroupWithDone` starts its goroutine before `wg.Add`: `runPublish` may return at once (`publisher-ffmpeg.go:67`). An
  interrupt waits for a copier that waits for standard input (`:94`), and a copier whose ffmpeg has died blocks on a full pipe.
  `Close` deletes the channel when the segmenter has returned, whether or not the last POSTs have (`:74`).

### Bounds, and why they are enough

A ring of two has every effect of one of five: a number that reuses a slot, one that runs ahead over a live
segment, and a slot that is still free. Numbers posted to and asked for in `stream` include -1, -2 and one
that wraps. Two POSTs are what eviction, repetition and reset take; three local `Write`s are what it takes
for the third to reuse the first one's slot while the second is in progress. One chunk is enough where
only origin and order of handlers matter; order and completeness of data are checked with two chunks
(`stream_live`) and three (`drip`). Two streams under one name are what "closed by name" can confuse. Four
posts allow two callers a reconnect each. Three segments and a limit of two in flight let a poster hit its
limit and a segment become outdated twice over; three segments give the segmenter
one that is followed by another, one between two and the last; the code's limits, 3 in flight and 5 errors, are constants
(`maxInflightSegments`, `MaxPreconnectErrors`), for which the smaller value reaches the same branches. Bounds
on the number of requests, chunks, posts, streams, `Read`s and retries (`MaxChunks`, `MaxPosts`, `MaxWrites`, `MaxTries`,
`MaxStreams`, `MaxReads`, `MaxSeq`, `MaxSeeks`, `MaxErrors`, `MaxSegments`, `MaxLength`, `Last`, `MaxTime`) are guards of the actions
that count. `CHECK_DEADLOCK FALSE` is everywhere: every process ends when its requests are used up, a GET
may wait for ever for a publisher that never comes, and a copier for an ffmpeg that died. Symmetry is used in `stream` and `local`, which check safety only.

### Fairness

Fair are goroutines that can go on: the server's side of a handler (`PostServer`, `GetServer`), the rest of a
`closeStream` that has begun, the sweeper (driven by a ticker), goroutines of the clients once they have what they
wait for. No client is ever forced to send a request, to send or end a body, or to hang up, except where a
property is about the answer to it. In TricklePublisher a server deals with each POST at last (by its own
timeout if by nothing else), and so does the transport. In TrickleSubscriber strong fairness stands for two
things: `sync.Mutex` gives way to whoever has waited long enough (its starvation mode), and a segment that
is available is not missed by every renewed request for ever; `Attach` and `Refuse`, the server's first
reaction to a request, are weakly fair. In SegmentPoster goroutines go on and each `Write` returns, which is `WriteReturns`
of TricklePublisher. In Segmenter the loop and the goroutine go on and the kernel lets a writer in that waits for an open
pipe; that ffmpeg writes, ends a segment or exits is not assumed, nor that the timeout strikes. In FfmpegPublisher and
OutSubscriber an ffmpeg that runs reads its input and ends with it; that input comes, that a Read of the
subscription returns, and an interrupt are not assumed.

## What is proved

Every safety invariant that a passing run checks is a theorem, for every value of the constants (any number of requests,
readers, callers, streams, any ring size, any data), from the named assumptions of the modules alone; so is that Drip
implements Relay, and so are three facts about every step. The assumptions give constants their types and say that bounds are numbers. Beyond that, StreamHandlers and
LocalChannel assume that chunks are those of their writers, and LocalChannel that a local channel is not reset; TrickleServer,
whose changes are counted, that users and closers are finitely many.

Most invariants are not inductive. Each proof module starts with what has to be added, and why:

* **DripProofs** (Drip): `TypeCorrect`, `NoReaderSleepsInVain`, `ReadersHoldPrefixes`, `DripImplementsRelay`. `ExactPrefix`
  becomes inductive with the types and the fact that a reader that does not exist yet has read nothing;
  appending leaves every prefix alone, and a `Read` extends one by the next piece of the buffer. Each step of
  Drip is then `Publish`, `Seal`, `Deliver` or a stutter of Relay.
* **StreamProofs** (Segment, Stream): lemmas that the next two modules share. Each operator keeps `RingOK` (types, `ChannelAgree`,
  `RingAligned`); the heap only grows, and a segment keeps its number (`Grows`). `ChannelAgree` needs `ClosedShut`: what a close
  shuts are the channels of the segments it closes and no other.
* **HandlerProofs** (StreamHandlers), three invariants one on top of the other.
  * `HandlerInv`, for `TypeCorrect`, `ChannelsClosedOnce`, `SegmentsInTheirSlots`: `RingOK` and what each handler
    remembers; a POST's and a GET's number is its segment's.
  * `Delivered`, for `NoForeignData`, `DeliveredInOrder`, `NoGetSleepsInVain`, `LiveEdgeIsServed`: of every chunk, which POST sent
    it and to which segment (`Provenance`); of every GET, that its position, what it was sent and what it holds add up
    (`DeliveredTo`). A step does one of four things to a segment (`SegmentSteps`): leaves it, appends, closes or
    resets (`SegmentsChangeInThreeWays`, of every step); for the GETs that do not move, one lemma covers all.
  * `Whole`, for `SegmentsAreWhole`: a segment that is closed was closed by its POST, unless it has left the ring, is being deleted or
    had a second POST (`EndedByItsPost`), and who saw the end has read up to it (`ReadAll`).
* **LocalProofs** (LocalChannel): `TypeCorrect`, `EveryWriteGetsItsEntry`, `EntriesAreWhole`. No `Write` is refused because in the ring
  every segment from `c.seq` on is fresh (`Fresh`): a segment is filled or closed by a `Write` that holds it, and then `c.seq` is past it
  (`Numbered`). Numbers of `Write`s differ (`Apart`), as only the holder of `c.mu` has the number `c.seq`. A segment closed in the ring was
  closed by its `Write` (`ClosedByItsWrite`) and grows no more, so what a subscriber holds stays a prefix (`Holds`), and all of it
  once it saw the close and read what was there (`AllOf`). `EntriesAreFinal`, of every step: no entry is opened again, and one whose
  `Write` has returned does not change.
* **ServerProofs** (TrickleServer): `TypeCorrect`, `ClosedStreamsLeave`, `NoChangeGoesUntold`. What a goroutine carries from one
  step to the next is the name of the stream it holds (`Named`); hence whoever closes a listed stream is about to
  take that name off the map. The changefeed is counted: a step that makes a stream or takes one off the map adds a change on its way, and
  an announcement moves one from there to the changefeed. Creations are counted exactly; of removals there may be more than
  streams that left, not fewer, and a stopped server, which tells nothing of what it clears, is excepted.
* **PublisherProofs** (TricklePublisher, SegmentPoster).
  * `TypeCorrect`, `NumbersWithoutGaps`, `AnswersReachTheWriter`: a `Write` goes to a post that nobody has written to, so
    no two callers write to one (`OwnWrites`), and what a caller knows of its post stays true while others move (`CallerOK`, `PostOK`).
    `AnswersAreFinal`, of every step: no post is renumbered, and no answer replaced.
  * `PosterTypeCorrect`, `NeverTooManyInFlight`, `PostedFromTheStart`, `NumbersAreSettled`: the counters tell the number of running
    goroutines because those that have begun are exactly the first `segmentCount` (`Begun`); the rest is one fact
    about each goroutine (`Good`), which the step of another cannot disturb.
* **SubscriberProofs** (TrickleSubscriber, OutSubscriber).
  * `TypeCorrect`, `SegmentsComeInOrder`: every response that could still be taken is for the segment `c.idx` asks for (`Asked`),
    since `c.idx` moves only with `c.mu` held and no preconnect under way (`Locks`); and `c.idx` is one past
    what `Read` returned last (`Follows`).
  * `OutTypeCorrect`, `GivenUpOnlyForBursts`: the failures counted are the last ones and came within one interval
    (`CountedAreRecent`); ffmpeg's input ends only after the goroutine was told (`ToldBeforeTheEnd`), so that an ffmpeg that ends for that
    reason is not counted.
* **SegmenterProofs** (Segmenter, FfmpegPublisher): `TypeCorrect`, `PipesAreInPlace`, `OnlyTheLastIsCut`; `ProgramCutsOnlyTheLast`,
  `NothingIsLeftBehind`. That ffmpeg finds a pipe becomes inductive with where ffmpeg and the loop are (`Ahead`): a
  writer is let in only while the loop has its pipe open (`OpenIsHere`), and the next pipe was made before that; the loop
  removes a pipe only after ffmpeg came to it (`LoopIsBehind`). Nothing is dropped while the pipe is open (`Accounted`), so what
  the loop has done with is whole, or was cut by the completion signal, or is a file (`Finished`). FfmpegPublisher inherits this, as its steps are
  Segmenter's or leave it alone (`ProgramStep`). The channel goes after RunSegmentation, that after the loop (`ChannelGoesLast`), and
  the wait group's counter is the number of goroutines that were added and have not ended (`WaitGroup`): when it is zero
  after both were added, both are over.

Only model-checked, as liveness under fairness is beyond the prover: `EveryReaderFinishes`, `ClosingReleasesAll`, `IdleIsSwept`, `WriteReturns`,
`NobodyIsStuck`, `OutdatedGivesUp`, `NobodyWaitsForEver`, `EndsWithStream` and `StopsWhenInputEnds`; and the counterexample to
`SleepersHaveASource`, of course.

## Not modelled

* HTTP itself: headers other than the status and the segment number, redirects, TLS, flow control; the
  transport is external to the clients.
* Time. A timeout is an action that may happen whenever its operation is waiting; `IdleTimeout` is a flag of a
  stream that may become true while nobody writes to it. Only OutSubscriber has a clock, as its retries are counted in an interval.
* `applyDefaults`, routing, command lines, logging: no state of the protocol.
* POSTs and DELETEs of a negative number, but for a POST of -1, and GETs of one below -2: no client of the repository sends one. The
  server indexes the ring with it and panics (`trickle_server.go:282`, `:449`, `:487`); `closeSeq` does with `s.mutex` read-locked, for good.
* `cmd/pubsub-mediamtx`, the subscriber programs (`read2pipe`, `subscriber-example`, `stress-subscriber`, `trickle_reader`) and the
  publishing half of publisher-out: loops around the clients and `RunSegmentation`, with no state of their own.
* `segment_reader.go`: a handler variable behind a mutex that no program of the repository sets. `utils.go`: two error values.
* The Python library: its publisher and subscriber implement the same protocol a second time (planned); the segmenter, the JPEG
  parser and the media helpers move bytes from and to ffmpeg; the rest are examples.

## Plan

1. An abstract channel (what a POST and a GET of one number promise each other) that StreamHandlers is shown to implement; `SegmentsChangeInThreeWays`
   is most of its step.
2. `SegmentPoster` with `TricklePublisher` in place of the abstract `Next` and `Write`: which numbers segments get when
   their goroutines overtake each other.
3. The Python publisher and subscriber: preconnect under an `asyncio.Lock`, cancellation at each `await`.
