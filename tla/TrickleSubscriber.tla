-------------------------- MODULE TrickleSubscriber --------------------------
(***************************************************************************)
(* trickle_subscriber.go: a client that reads the segments of a channel in  *)
(* order, with the GET of the next one connected ahead.                     *)
(*   reader   the consumer, in Read                                         *)
(*   setter   whoever calls SetSeq, never twice at a time                   *)
(*   spawned  the goroutines that Reads have left behind, to preconnect     *)
(*                                                                         *)
(* A preconnect holds c.mu from its request to its answer.  It is one       *)
(* request at a time, renewed every 20 seconds: a renewed one is cancelled  *)
(* (stale), yet its answer may be on its way already.  SetSeq cancels the   *)
(* context of all of them before it asks for c.mu.  The server is external: *)
(* module StreamHandlers answers GETs so.                                   *)
(***************************************************************************)
EXTENDS Integers, Sequences

CONSTANTS
  SeekTo,         \* what SetSeq may be called with
  MaxPreconnectErrors,   \* the 5 of Read
  Window,         \* how many segments the server keeps
  MaxSeq,         \* bound on the segments published
  MaxSeeks,       \* bound on the calls of SetSeq
  MaxErrors       \* bound on the errors of one Read after another

ASSUME SubscriberAssumption ==
  /\ SeekTo \subseteq Nat \cup {-1}
  /\ MaxPreconnectErrors \in Nat
  /\ Window \in Nat \ {0}
  /\ MaxSeq \in Nat
  /\ MaxSeeks \in Nat
  /\ MaxErrors \in Nat

VARIABLES
  mu,             \* who holds c.mu
  idx,            \* c.idx
  pendingGet,     \* c.pendingGet
  errorCount,     \* c.preconnectErrorCount
  cancelled,      \* c.ctx was cancelled
  spawned,        \* background preconnects that wait for c.mu
  conn,           \* the preconnect under way
  reader, setter,
  base, got,      \* what was last sought, and the segments Read returned since (history)
  latest, ended   \* the server: the latest segment, and whether the stream was closed

vars == <<mu, idx, pendingGet, errorCount, cancelled, spawned, conn, reader, setter,
          base, got, latest, ended>>

clientVars == <<mu, idx, pendingGet, errorCount, cancelled, spawned, conn, reader, setter, base, got>>

Nobody == "nobody"
None == [status |-> "none", seq |-> -1]

NoRequest == [pc |-> "none", seq |-> -1]
Sent == [pc |-> "sent", seq |-> -1]

NoConn == [asking |-> NoRequest, stale |-> NoRequest, respCh |-> None, errCh |-> "empty"]

Init ==
  /\ mu = Nobody
  /\ idx = -1
  /\ pendingGet = None
  /\ errorCount = 0
  /\ cancelled = FALSE
  /\ spawned = 0
  /\ conn = NoConn
  /\ reader = [pc |-> "idle", resp |-> "none", errors |-> 0]
  /\ setter = [pc |-> "idle", seq |-> 0, calls |-> 0]
  /\ base = -1
  /\ got = << >>
  /\ latest = -1
  /\ ended = FALSE

-----------------------------------------------------------------------------
(* The server: every segment has data, unless a publisher drops it.         *)

Publish ==
  /\ ~ended
  /\ latest < MaxSeq
  /\ latest' = latest + 1
  /\ UNCHANGED <<clientVars, ended>>

CloseStream ==
  /\ ~ended
  /\ ended' = TRUE
  /\ UNCHANGED <<clientVars, latest>>

(* -1 is the next segment to be written.                                    *)
ForRead(i) == IF i = -1 THEN latest + 1 ELSE i

(* A GET attaches to a segment kept, or to one just ahead; a stream that was *)
(* closed keeps none.                                                       *)
Kept(n) == ~ended /\ n <= latest /\ n > latest - Window
Ahead(n) == ~ended /\ (n = latest + 1 \/ (latest = -1 /\ n = 1))

-----------------------------------------------------------------------------
(* preconnect, for whoever holds c.mu.                                      *)

StartConn == conn' = [NoConn EXCEPT !.asking = Sent]

Request == {"asking", "stale"}

ConnStepUnchanged ==
  UNCHANGED <<mu, idx, pendingGet, errorCount, cancelled, spawned, reader, setter, base, got,
              latest, ended>>

Attach(q) ==
  /\ conn[q] = Sent
  /\ Kept(ForRead(idx)) \/ Ahead(ForRead(idx))
  /\ conn' = [conn EXCEPT ![q] = [pc |-> "attached", seq |-> ForRead(idx)]]
  /\ ConnStepUnchanged

Respond(q, status, seq) ==
  /\ conn.respCh = None
  /\ conn' = [conn EXCEPT ![q] = NoRequest, !.respCh = [status |-> status, seq |-> seq]]
  /\ ConnStepUnchanged

(* A stream that is not in the map any more is answered 404, which Read      *)
(* handles as it does the end of the stream.                                *)
Refuse(q) ==
  /\ conn[q] = Sent
  /\ ~Kept(ForRead(idx)) /\ ~Ahead(ForRead(idx))
  /\ Respond(q, IF ended THEN "EOS" ELSE "470", -1)

Serve(q) ==
  /\ conn[q].pc = "attached"
  /\ \/ conn[q].seq <= latest /\ Respond(q, "200", conn[q].seq)
     \/ conn[q].seq > latest /\ ended /\ Respond(q, "EOS", -1)

(* The publisher closed the segment without data.                           *)
Drop(q) ==
  /\ conn[q].pc = "attached" /\ conn[q].seq > latest
  /\ Respond(q, "470", -1)

(* Plausible bug: an error of any cancelled request is ignored.              *)
AnyCancel(why) == why = "cancelled"

(* Only preconnectTimeoutErr is ignored: the request was renewed.           *)
Ignored(why) == why = "renewed"

Reported(why) == IF Ignored(why) \/ conn.errCh # "empty" THEN conn.errCh ELSE why

(* The request fails by itself, or because SetSeq cancelled its context, or, *)
(* a renewed one, because preconnect did.                                   *)
Fail(why) ==
  /\ conn.asking # NoRequest
  /\ conn' = [conn EXCEPT !.asking = NoRequest, !.errCh = Reported(why)]
  /\ ConnStepUnchanged

ConnFails == Fail("failed")
ConnCancelled == cancelled /\ Fail("cancelled")

StaleFails ==
  /\ conn.stale # NoRequest
  /\ \E why \in {"failed", "renewed"} :
       conn' = [conn EXCEPT !.stale = NoRequest, !.errCh = Reported(why)]
  /\ ConnStepUnchanged

Waiting == conn.respCh = None /\ conn.errCh = "empty"

(* After 20 seconds without an answer the request is made anew.             *)
Refresh ==
  /\ conn # NoConn
  /\ Waiting
  /\ conn' = [conn EXCEPT !.asking = Sent, !.stale = conn.asking]
  /\ ConnStepUnchanged

(* preconnect returns: if there are both, an error or a response.           *)
ConnError == conn.errCh # "empty"
ConnResponse == conn.respCh # None

-----------------------------------------------------------------------------
(* Read                                                                     *)

ReadCall ==
  /\ reader.pc = "idle"
  /\ reader.errors < MaxErrors
  /\ reader' = [reader EXCEPT !.pc = "locking", !.resp = "none"]
  /\ UNCHANGED <<mu, idx, pendingGet, errorCount, cancelled, spawned, conn, setter, base, got,
                 latest, ended>>

Return(resp) ==
  /\ mu' = Nobody
  /\ reader' = [pc |-> "idle", resp |-> resp,
                errors |-> IF resp = "200" THEN 0 ELSE reader.errors + 1]

ReadGivesUp ==
  /\ reader.pc = "locking"
  /\ mu = Nobody
  /\ errorCount > MaxPreconnectErrors
  /\ Return("hitmax")
  /\ UNCHANGED <<idx, pendingGet, errorCount, cancelled, spawned, conn, setter, base, got,
                 latest, ended>>

ReadConnects ==
  /\ reader.pc = "locking"
  /\ mu = Nobody
  /\ errorCount <= MaxPreconnectErrors
  /\ pendingGet = None
  /\ mu' = "reader"
  /\ StartConn
  /\ reader' = [reader EXCEPT !.pc = "connecting"]
  /\ UNCHANGED <<idx, pendingGet, errorCount, cancelled, spawned, setter, base, got, latest, ended>>

ReadConnError ==
  /\ reader.pc = "connecting"
  /\ ConnError
  /\ errorCount' = errorCount + 1
  /\ conn' = NoConn
  /\ Return("error")
  /\ UNCHANGED <<idx, pendingGet, cancelled, spawned, setter, base, got, latest, ended>>

(* Plausible bug: the same segment is asked for again.                       *)
SameIdx(seq) == seq

(* The next segment to ask for, and to connect ahead.                       *)
NextIdx(seq) == seq + 1

(* The segment goes to the consumer, and a goroutine is left to preconnect  *)
(* the next; any other response leaves c.idx and nothing behind.            *)
Take(r) ==
  /\ pendingGet' = None
  /\ Return(r.status)
  /\ IF r.status = "200"
     THEN /\ idx' = NextIdx(r.seq)
          /\ spawned' = spawned + 1
          /\ got' = Append(got, r.seq)
     ELSE UNCHANGED <<idx, spawned, got>>

ReadConnected ==
  /\ reader.pc = "connecting"
  /\ ConnResponse
  /\ errorCount' = 0
  /\ conn' = NoConn
  /\ Take(conn.respCh)
  /\ UNCHANGED <<cancelled, setter, base, latest, ended>>

ReadAhead ==
  /\ reader.pc = "locking"
  /\ mu = Nobody
  /\ errorCount <= MaxPreconnectErrors
  /\ pendingGet # None
  /\ Take(pendingGet)
  /\ UNCHANGED <<errorCount, cancelled, conn, setter, base, latest, ended>>

-----------------------------------------------------------------------------
(* The goroutine a Read leaves behind.                                      *)

BackgroundConnects ==
  /\ spawned > 0
  /\ mu = Nobody
  /\ mu' = "background"
  /\ spawned' = spawned - 1
  /\ StartConn
  /\ UNCHANGED <<idx, pendingGet, errorCount, cancelled, reader, setter, base, got, latest, ended>>

BackgroundError ==
  /\ mu = "background"
  /\ ConnError
  /\ errorCount' = errorCount + 1
  /\ conn' = NoConn
  /\ mu' = Nobody
  /\ UNCHANGED <<idx, pendingGet, cancelled, spawned, reader, setter, base, got, latest, ended>>

BackgroundConnected ==
  /\ mu = "background"
  /\ ConnResponse
  /\ pendingGet' = conn.respCh
  /\ errorCount' = 0
  /\ conn' = NoConn
  /\ mu' = Nobody
  /\ UNCHANGED <<idx, cancelled, spawned, reader, setter, base, got, latest, ended>>

-----------------------------------------------------------------------------
(* SetSeq                                                                   *)

(* Plausible bug: the pending GET is cancelled with c.mu held.               *)
NotYet == FALSE

(* The pending GET is cancelled before c.mu is asked for.                   *)
AtOnce == TRUE

SetSeqCancels ==
  /\ setter.pc = "idle"
  /\ setter.calls < MaxSeeks
  /\ cancelled' = AtOnce
  /\ \E seq \in SeekTo : setter' = [pc |-> "locking", seq |-> seq, calls |-> setter.calls + 1]
  /\ UNCHANGED <<mu, idx, pendingGet, errorCount, spawned, conn, reader, base, got, latest, ended>>

(* Plausible bug: the response connected ahead is kept.                      *)
KeepPending == pendingGet

DropPending == None

SetSeqSets ==
  /\ setter.pc = "locking"
  /\ mu = Nobody
  /\ idx' = setter.seq
  /\ cancelled' = FALSE           \* a new context
  /\ pendingGet' = DropPending
  /\ errorCount' = 0
  /\ setter' = [setter EXCEPT !.pc = "idle"]
  /\ base' = setter.seq
  /\ got' = << >>
  /\ UNCHANGED <<mu, spawned, conn, reader, latest, ended>>

-----------------------------------------------------------------------------
ConnStep ==
  \/ \E q \in Request : Attach(q) \/ Refuse(q) \/ Serve(q) \/ Drop(q)
  \/ ConnFails \/ ConnCancelled \/ StaleFails
  \/ Refresh

Read ==
  \/ ReadGivesUp \/ ReadConnects \/ ReadConnError \/ ReadConnected \/ ReadAhead
Background == BackgroundConnects \/ BackgroundError \/ BackgroundConnected

Next ==
  \/ Publish \/ CloseStream
  \/ ConnStep
  \/ ReadCall \/ Read
  \/ Background
  \/ SetSeqCancels \/ SetSeqSets

Spec == Init /\ [][Next]_vars

(* What the server can answer it does, at last within the 20 seconds of a   *)
(* renewal; a request whose context is cancelled fails; goroutines go on,   *)
(* and sync.Mutex starves none of them.                                     *)
FairSpec ==
  /\ Spec
  /\ WF_vars(Attach("asking") \/ Refuse("asking"))
  /\ SF_vars(Serve("asking"))
  /\ WF_vars(ConnCancelled)
  /\ WF_vars(ReadConnError \/ ReadConnected)
  /\ WF_vars(BackgroundError \/ BackgroundConnected)
  /\ SF_vars(ReadGivesUp \/ ReadConnects \/ ReadAhead)
  /\ SF_vars(SetSeqSets)

-----------------------------------------------------------------------------
Requests == [pc : {"none", "sent", "attached"}, seq : -1 .. MaxSeq + 1]

(* Types of the subscriber's state; c.mu is held exactly by a preconnect.    *)
TypeOK ==
  /\ mu \in {Nobody, "reader", "background"}
  /\ idx \in Nat \cup {-1}
  /\ pendingGet \in [status : {"none", "200", "470", "EOS"}, seq : -1 .. MaxSeq]
  /\ errorCount \in Nat
  /\ cancelled \in BOOLEAN
  /\ spawned \in Nat
  /\ conn \in [asking : Requests, stale : Requests,
               respCh : [status : {"none", "200", "470", "EOS"}, seq : -1 .. MaxSeq],
               errCh : {"empty", "failed", "cancelled"}]
  /\ mu = Nobody <=> conn = NoConn
  /\ reader \in [pc : {"idle", "locking", "connecting"}, errors : 0 .. MaxErrors,
                 resp : {"none", "200", "470", "EOS", "error", "hitmax"}]
  /\ mu = "reader" <=> reader.pc = "connecting"
  /\ setter \in [pc : {"idle", "locking"}, seq : SeekTo \cup {0}, calls : 0 .. MaxSeeks]
  /\ base \in Int /\ got \in Seq(0 .. MaxSeq)
  /\ latest \in -1 .. MaxSeq /\ ended \in BOOLEAN

(* From where it started or was last set, the consumer is given every       *)
(* segment once, in order, none skipped, whether it was fetched by its own  *)
(* Read, connected ahead, or fetched again by a goroutine an earlier Read   *)
(* left behind, and whatever was in flight when SetSeq was called.          *)
InOrder ==
  /\ base >= 0 /\ got # << >> => got[1] = base
  /\ \A k \in 1 .. Len(got) - 1 : got[k + 1] = got[k] + 1

(* SetSeq gets through, although a preconnect may hold c.mu waiting for a   *)
(* segment that never comes ("we may be deadlocked in preconnect            *)
(* otherwise", SetSeq).                                                     *)
SetSeqReturns == (setter.pc = "locking") ~> (setter.pc = "idle")

Available == ended \/ idx \in 0 .. latest

(* A Read whose segment is there, or whose stream has ended, returns, unless *)
(* SetSeq sends it elsewhere: whatever was renewed, failed or left behind.   *)
ReadReturns ==
  (reader.pc # "idle" /\ Available) ~> (reader.pc = "idle" \/ ~Available)
(* Both at once: nobody is stuck behind c.mu.                               *)
NobodyIsStuck == SetSeqReturns /\ ReadReturns
==============================================================================
