--------------------------- MODULE SubscriberProofs ---------------------------
(***************************************************************************)
(* TrickleSubscriber, whatever SetSeq is called with, however many segments *)
(* the server keeps and however often it fails: its types, and InOrder.     *)
(*                                                                         *)
(* InOrder holds because every response that could still be taken, sent or  *)
(* connected ahead, is for the segment c.idx asks for (Asked): c.idx only   *)
(* moves with c.mu held and no preconnect under way, and whoever moves it   *)
(* drops what was connected ahead.  And c.idx is one past what Read         *)
(* returned last (Follows).                                                 *)
(*                                                                         *)
(* Then OutSubscriber, the program that copies what a subscriber reads into *)
(* ffmpeg: its types, and RetriesOnlyFailures.                              *)
(***************************************************************************)
EXTENDS TrickleSubscriber, OutSubscriber, SequenceTheorems, TLAPS

Response == [status : {"none", "200", "470", "EOS"}, seq : -1 .. MaxSeq]

ConnRecord == [asking : Requests, stale : Requests, respCh : Response,
               errCh : {"empty", "failed", "cancelled"}]

ReaderRecord == [pc : {"idle", "locking", "connecting"}, errors : 0 .. MaxErrors,
                 resp : {"none", "200", "470", "EOS", "error", "hitmax"}]

Types ==
  /\ mu \in {Nobody, "reader", "background"}
  /\ idx \in Nat \cup {-1}
  /\ pendingGet \in Response
  /\ errorCount \in Nat /\ cancelled \in BOOLEAN /\ spawned \in Nat
  /\ conn \in ConnRecord
  /\ reader \in ReaderRecord
  /\ setter \in [pc : {"idle", "locking"}, seq : SeekTo \cup {0}, calls : 0 .. MaxSeeks]
  /\ base \in Int /\ got \in Seq(0 .. MaxSeq)
  /\ latest \in -1 .. MaxSeq /\ ended \in BOOLEAN

(* A preconnect that has not answered has a request out.                    *)
Live(c) == c.asking # NoRequest \/ c.respCh # None \/ c.errCh # "empty"

Locks ==
  /\ mu = Nobody <=> conn = NoConn
  /\ mu = "reader" <=> reader.pc = "connecting"
  /\ conn # NoConn => Live(conn)
  /\ reader.pc # "idle" => reader.errors < MaxErrors

(* A request, or a response, is for segment i, or for the latest.           *)
AskedFor(r, i) == r.pc = "attached" => r.seq \in 0 .. MaxSeq + 1 /\ (i = -1 \/ r.seq = i)

AnswerTo(r, i) == r.status = "200" => r.seq \in 0 .. MaxSeq /\ (i = -1 \/ r.seq = i)

ConnFor(c, i) == AskedFor(c.asking, i) /\ AskedFor(c.stale, i) /\ AnswerTo(c.respCh, i)

Asked == ConnFor(conn, idx) /\ AnswerTo(pendingGet, idx)

Follows == IF got = << >> THEN idx = base ELSE idx = got[Len(got)] + 1

IInv == Types /\ Locks /\ Asked /\ Follows /\ InOrder

-----------------------------------------------------------------------------
(* The invariant says what the properties do.                               *)
LEMMA Consequences == IInv => TypeOK /\ InOrder
  BY DEF IInv, Types, Locks, TypeOK, Response, ConnRecord, ReaderRecord

LEMMA Initial == Init => IInv
  <1> SUFFICES ASSUME Init PROVE IInv
    OBVIOUS
  <1> USE SubscriberAssumption DEF Init, None, NoConn, NoRequest, Nobody
  <1>1. NoRequest \in Requests /\ None \in Response
    BY DEF Requests, Response
  <1>2. Types
    <2>1. conn \in ConnRecord /\ reader \in ReaderRecord /\ pendingGet \in Response
      BY <1>1 DEF ConnRecord, ReaderRecord
    <2>2. /\ setter \in [pc : {"idle", "locking"}, seq : SeekTo \cup {0}, calls : 0 .. MaxSeeks]
          /\ got \in Seq(0 .. MaxSeq) /\ latest \in -1 .. MaxSeq
      OBVIOUS
    <2>3. cancelled \in BOOLEAN /\ ended \in BOOLEAN
      OBVIOUS
    <2>4. /\ mu \in {Nobody, "reader", "background"} /\ idx \in Nat \cup {-1} /\ base \in Int
          /\ errorCount \in Nat /\ spawned \in Nat
      OBVIOUS
    <2> HIDE DEF Init, None, NoConn, NoRequest, Nobody
    <2> QED BY <2>1, <2>2, <2>3, <2>4 DEF Types
  <1>3. Locks
    BY DEF Locks
  <1>4. Asked
    BY DEF Asked, ConnFor, AskedFor, AnswerTo
  <1>5. Follows /\ InOrder
    BY DEF Follows, InOrder
  <1> QED BY <1>2, <1>3, <1>4, <1>5 DEF IInv

(* Nothing is asked for, and nothing was answered.                          *)
LEMMA NothingAsked ==
  /\ NoRequest \in Requests /\ Sent \in Requests /\ None \in Response /\ NoConn \in ConnRecord
  /\ \A i : AskedFor(NoRequest, i) /\ AskedFor(Sent, i) /\ AnswerTo(None, i) /\ ConnFor(NoConn, i)
  /\ Sent # NoRequest
  BY SubscriberAssumption
     DEF NoRequest, Sent, None, NoConn, Requests, Response, ConnRecord, AskedFor, AnswerTo, ConnFor

-----------------------------------------------------------------------------
(* The preconnect under way                                                 *)

(* Only the preconnect moves.                                               *)
LEMMA ConnMoves ==
  ASSUME IInv, ConnStepUnchanged, conn # NoConn,
         conn' \in ConnRecord, ConnFor(conn', idx), Live(conn')
  PROVE  IInv'
  <1>1. conn' # NoConn
    BY DEF Live, NoConn
  <1>2. /\ mu' = mu /\ idx' = idx /\ pendingGet' = pendingGet /\ reader' = reader /\ base' = base
        /\ got' = got
    BY DEF ConnStepUnchanged
  <1>3. Types'
    BY DEF IInv, Types, ConnStepUnchanged
  <1>4. Locks'
    BY <1>1, <1>2 DEF IInv, Locks
  <1>5. Asked'
    BY <1>2 DEF IInv, Asked
  <1>6. Follows' /\ InOrder'
    BY <1>2 DEF IInv, Follows, InOrder
  <1> QED BY <1>3, <1>4, <1>5, <1>6 DEF IInv

(* The fields of the preconnect have their types.                           *)
LEMMA ConnFacts ==
  ASSUME IInv
  PROVE  /\ conn \in ConnRecord /\ ConnFor(conn, idx) /\ idx \in Nat \cup {-1}
         /\ conn.asking \in Requests /\ conn.stale \in Requests /\ conn.respCh \in Response
         /\ latest \in -1 .. MaxSeq
         /\ \A q \in Request : conn[q] \in Requests /\ AskedFor(conn[q], idx)
         /\ (conn.asking # NoRequest \/ conn.stale # NoRequest) => conn # NoConn
  <1>1. conn \in ConnRecord /\ ConnFor(conn, idx) /\ idx \in Nat \cup {-1} /\ latest \in -1 .. MaxSeq
    BY DEF IInv, Types, Asked
  <1>2. conn.asking \in Requests /\ conn.stale \in Requests /\ conn.respCh \in Response
    BY <1>1 DEF ConnRecord
  <1>3. \A q \in Request : conn[q] \in Requests /\ AskedFor(conn[q], idx)
    BY <1>1, <1>2 DEF Request, ConnFor
  <1> QED BY <1>1, <1>2, <1>3 DEF NoConn

(* One of the two requests changes.                                         *)
LEMMA RequestChanges ==
  ASSUME IInv, NEW q \in Request, NEW r \in Requests, AskedFor(r, idx),
         NEW a \in Response, AnswerTo(a, idx),
         conn' = [conn EXCEPT ![q] = r, !.respCh = a]
  PROVE  /\ conn' \in ConnRecord /\ ConnFor(conn', idx)
         /\ conn'.respCh = a /\ conn'[q] = r /\ conn'.errCh = conn.errCh
         /\ q # "asking" => conn'.asking = conn.asking
  <1>1. conn \in ConnRecord /\ ConnFor(conn, idx)
    BY ConnFacts
  <1>2. CASE q = "asking"
    <2>1. conn' = [conn EXCEPT !.asking = r, !.respCh = a]
      BY <1>2
    <2>2. /\ conn' \in ConnRecord /\ conn'.asking = r /\ conn'.respCh = a
          /\ conn'.stale = conn.stale /\ conn'.errCh = conn.errCh
      BY <1>1, <2>1 DEF ConnRecord
    <2> QED BY <1>1, <1>2, <2>2 DEF ConnFor
  <1>3. CASE q = "stale"
    <2>1. conn' = [conn EXCEPT !.stale = r, !.respCh = a]
      BY <1>3
    <2>2. /\ conn' \in ConnRecord /\ conn'.stale = r /\ conn'.respCh = a
          /\ conn'.asking = conn.asking /\ conn'.errCh = conn.errCh
      BY <1>1, <2>1 DEF ConnRecord
    <2> QED BY <1>1, <1>3, <2>2 DEF ConnFor
  <1> QED BY <1>2, <1>3 DEF Request

(* The server attaches a request to the segment asked for.                  *)
LEMMA AttachStep ==
  ASSUME IInv, NEW q \in Request, Attach(q)
  PROVE  IInv'
  <1> DEFINE n == ForRead(idx)
             r == [pc |-> "attached", seq |-> n]
  <1>1. /\ conn[q] = Sent /\ (Kept(n) \/ Ahead(n)) /\ ConnStepUnchanged
        /\ conn' = [conn EXCEPT ![q] = r]
    BY DEF Attach
  <1>2. n \in 0 .. MaxSeq + 1 /\ (idx = -1 \/ n = idx)
    BY <1>1, ConnFacts, SubscriberAssumption DEF ForRead, Kept, Ahead
  <1> HIDE DEF n
  <1>3. r \in Requests /\ AskedFor(r, idx) /\ r # NoRequest
    BY <1>2, SubscriberAssumption DEF Requests, AskedFor, NoRequest
  <1> HIDE DEF r
  <1>4. conn.respCh \in Response /\ AnswerTo(conn.respCh, idx) /\ conn # NoConn
    BY <1>1, ConnFacts, NothingAsked DEF ConnFor, Request
  <1>5. conn' = [conn EXCEPT ![q] = r, !.respCh = conn.respCh]
    BY <1>1, ConnFacts DEF ConnRecord, Request
  <1>6. /\ conn' \in ConnRecord /\ ConnFor(conn', idx)
        /\ conn'.respCh = conn.respCh /\ conn'[q] = r /\ conn'.errCh = conn.errCh
        /\ q # "asking" => conn'.asking = conn.asking
    BY <1>3, <1>4, <1>5, RequestChanges
  <1>7. Live(conn')
    <2>1. Live(conn)
      BY <1>4 DEF IInv, Locks
    <2> QED BY <1>3, <1>6, <2>1 DEF Live
  <1> QED BY <1>1, <1>4, <1>6, <1>7, ConnMoves

(* It answers: with the segment attached to, or to say there is none.       *)
LEMMA ResponseStep ==
  ASSUME IInv, NEW q \in Request, Refuse(q) \/ Serve(q) \/ Drop(q)
  PROVE  IInv'
  <1>1. conn[q] # NoRequest /\ conn # NoConn
    BY ConnFacts DEF Refuse, Serve, Drop, Sent, NoRequest, Request
  <1>2. PICK status \in {"200", "470", "EOS"}, seq \in -1 .. MaxSeq :
          /\ Respond(q, status, seq)
          /\ status = "200" => seq \in 0 .. MaxSeq /\ (idx = -1 \/ seq = idx)
    <2>1. CASE Refuse(q)
      BY <2>1, SubscriberAssumption DEF Refuse
    <2>2. CASE Serve(q)
      <3>1. conn[q].seq \in 0 .. MaxSeq + 1 /\ (idx = -1 \/ conn[q].seq = idx)
        BY <2>2, ConnFacts DEF Serve, AskedFor
      <3> QED BY <2>2, <3>1, ConnFacts, SubscriberAssumption DEF Serve
    <2>3. CASE Drop(q)
      BY <2>3, SubscriberAssumption DEF Drop
    <2> QED BY <2>1, <2>2, <2>3
  <1> DEFINE a == [status |-> status, seq |-> seq]
  <1>3. ConnStepUnchanged /\ conn' = [conn EXCEPT ![q] = NoRequest, !.respCh = a]
    BY <1>2 DEF Respond
  <1>4. a \in Response /\ AnswerTo(a, idx) /\ a # None
    BY <1>2 DEF Response, AnswerTo, None
  <1> HIDE DEF a
  <1>5. conn' \in ConnRecord /\ ConnFor(conn', idx) /\ conn'.respCh = a
    BY <1>3, <1>4, NothingAsked, RequestChanges
  <1> QED BY <1>1, <1>3, <1>4, <1>5, ConnMoves DEF Live

(* A request fails, or is renewed.                                          *)
LEMMA RequestFails ==
  ASSUME IInv, ConnFails \/ ConnCancelled \/ StaleFails \/ Refresh
  PROVE  IInv'
  <1>1. conn # NoConn /\ ConnStepUnchanged
    BY ConnFacts DEF ConnFails, ConnCancelled, Fail, StaleFails, Refresh
  <1>2. Live(conn) /\ conn \in ConnRecord /\ ConnFor(conn, idx)
    BY <1>1, ConnFacts DEF IInv, Locks
  <1>3. CASE ConnFails \/ ConnCancelled
    <2>1. PICK why \in {"failed", "cancelled"} :
            conn' = [conn EXCEPT !.asking = NoRequest, !.errCh = Reported(why)]
      BY <1>3 DEF ConnFails, ConnCancelled, Fail
    <2>2. Reported(why) \in {"failed", "cancelled"}
      BY <1>2 DEF Reported, Ignored, ConnRecord
    <2>3. /\ conn' \in ConnRecord /\ conn'.asking = NoRequest /\ conn'.stale = conn.stale
          /\ conn'.respCh = conn.respCh /\ conn'.errCh # "empty"
      BY <1>2, <2>1, <2>2, NothingAsked DEF ConnRecord
    <2>4. ConnFor(conn', idx) /\ Live(conn')
      BY <1>2, <2>3, NothingAsked DEF ConnFor, Live
    <2> QED BY <1>1, <2>3, <2>4, ConnMoves
  <1>4. CASE StaleFails
    <2>1. PICK why \in {"failed", "renewed"} :
            conn' = [conn EXCEPT !.stale = NoRequest, !.errCh = Reported(why)]
      BY <1>4 DEF StaleFails
    <2>2. /\ Reported(why) \in {"empty", "failed", "cancelled"}
          /\ conn.errCh # "empty" => Reported(why) # "empty"
      BY <1>2 DEF Reported, Ignored, ConnRecord
    <2>3. /\ conn' \in ConnRecord /\ conn'.asking = conn.asking /\ conn'.stale = NoRequest
          /\ conn'.respCh = conn.respCh /\ (conn.errCh # "empty" => conn'.errCh # "empty")
      BY <1>2, <2>1, <2>2, NothingAsked DEF ConnRecord
    <2>4. ConnFor(conn', idx) /\ Live(conn')
      BY <1>2, <2>3, NothingAsked DEF ConnFor, Live
    <2> QED BY <1>1, <2>3, <2>4, ConnMoves
  <1>5. CASE Refresh
    <2>1. conn' = [conn EXCEPT !.asking = Sent, !.stale = conn.asking]
      BY <1>5 DEF Refresh
    <2>2. /\ conn' \in ConnRecord /\ conn'.asking = Sent /\ conn'.stale = conn.asking
          /\ conn'.respCh = conn.respCh
      BY <1>2, <2>1, NothingAsked DEF ConnRecord
    <2>3. ConnFor(conn', idx) /\ Live(conn')
      BY <1>2, <2>2, NothingAsked DEF ConnFor, Live
    <2> QED BY <1>1, <2>2, <2>3, ConnMoves
  <1> QED BY <1>3, <1>4, <1>5

-----------------------------------------------------------------------------
(* The server                                                               *)

LEMMA ServerStep ==
  ASSUME IInv, Publish \/ CloseStream
  PROVE  IInv'
  <1>1. UNCHANGED clientVars /\ latest' \in -1 .. MaxSeq /\ ended' \in BOOLEAN
    <2>1. latest \in -1 .. MaxSeq /\ ended \in BOOLEAN
      BY DEF IInv, Types
    <2>2. CASE Publish
      BY <2>1, <2>2, SubscriberAssumption DEF Publish
    <2>3. CASE CloseStream
      <3>1. ended' \in BOOLEAN
        BY <2>3 DEF CloseStream
      <3> QED BY <2>1, <2>3, <3>1 DEF CloseStream
    <2> QED BY <2>2, <2>3
  <1>2. /\ mu' = mu /\ idx' = idx /\ pendingGet' = pendingGet /\ conn' = conn /\ reader' = reader
        /\ base' = base /\ got' = got
    BY <1>1 DEF clientVars
  <1>3. Types'
    BY <1>1 DEF IInv, Types, clientVars
  <1> QED BY <1>2, <1>3 DEF IInv, Locks, Asked, Follows, InOrder

-----------------------------------------------------------------------------
(* Read                                                                     *)

LEMMA ReaderFacts ==
  ASSUME IInv
  PROVE  /\ reader \in ReaderRecord /\ reader.errors \in 0 .. MaxErrors /\ MaxErrors \in Nat
         /\ reader.pc # "idle" => reader.errors + 1 \in 0 .. MaxErrors
         /\ mu = Nobody => conn = NoConn /\ reader.pc # "connecting"
         /\ reader.pc = "connecting" => mu = "reader"
         /\ Nobody # "reader" /\ Nobody # "background"
  BY SubscriberAssumption DEF IInv, Types, Locks, ReaderRecord, Nobody

(* A Read that is called, gives up, or has to connect by itself.            *)
LEMMA ReadAlone ==
  ASSUME IInv, ReadCall \/ ReadGivesUp \/ ReadConnects
  PROVE  IInv'
  <1>1. /\ UNCHANGED <<idx, pendingGet, errorCount, cancelled, spawned, setter, base, got,
                       latest, ended>>
        /\ idx' = idx /\ pendingGet' = pendingGet /\ base' = base /\ got' = got
    BY DEF ReadCall, ReadGivesUp, ReadConnects
  <1>2. /\ mu' \in {Nobody, "reader", "background"} /\ conn' \in ConnRecord /\ ConnFor(conn', idx)
        /\ reader' \in ReaderRecord /\ Locks'
    <2>1. CASE ReadCall
      <3>1. /\ reader' \in ReaderRecord /\ reader'.pc = "locking" /\ reader'.errors = reader.errors
        BY <2>1, ReaderFacts DEF ReadCall, ReaderRecord
      <3>2. mu' = mu /\ conn' = conn /\ reader.pc = "idle" /\ reader.errors < MaxErrors
        BY <2>1 DEF ReadCall
      <3> QED BY <3>1, <3>2, ConnFacts DEF IInv, Types, Locks
    <2>2. CASE ReadGivesUp
      <3>1. /\ reader' = [pc |-> "idle", resp |-> "hitmax", errors |-> reader.errors + 1]
            /\ mu = Nobody /\ mu' = Nobody /\ conn' = conn /\ reader.pc = "locking"
        BY <2>2 DEF ReadGivesUp, Return
      <3>2. reader' \in ReaderRecord /\ reader'.pc = "idle"
        BY <3>1, ReaderFacts DEF ReaderRecord
      <3> QED BY <3>1, <3>2, ConnFacts, ReaderFacts DEF Locks
    <2>3. CASE ReadConnects
      <3>1. /\ reader' \in ReaderRecord /\ reader'.pc = "connecting" /\ reader'.errors = reader.errors
        BY <2>3, ReaderFacts DEF ReadConnects, ReaderRecord
      <3>2. mu' = "reader" /\ reader.errors < MaxErrors
        BY <2>3 DEF ReadConnects, IInv, Locks
      <3>3. conn' \in ConnRecord /\ conn'.asking = Sent /\ ConnFor(conn', idx)
        BY <2>3, NothingAsked DEF ReadConnects, StartConn, NoConn, ConnRecord, ConnFor
      <3>4. Live(conn') /\ conn' # NoConn
        BY <3>3, NothingAsked DEF Live, NoConn
      <3> QED BY <3>1, <3>2, <3>3, <3>4, ReaderFacts DEF Locks
    <2> QED BY <2>1, <2>2, <2>3
  <1>3. Types'
    BY <1>1, <1>2 DEF IInv, Types
  <1>4. Asked' /\ Follows' /\ InOrder'
    BY <1>1, <1>2 DEF IInv, Asked, Follows, InOrder
  <1> QED BY <1>2, <1>3, <1>4 DEF IInv

(* A preconnect that fails, in Read or left behind by one, only counts it.  *)
LEMMA ErrorStep ==
  ASSUME IInv, ReadConnError \/ BackgroundError
  PROVE  IInv'
  <1>1. /\ UNCHANGED <<idx, pendingGet, cancelled, spawned, setter, base, got, latest, ended>>
        /\ idx' = idx /\ pendingGet' = pendingGet /\ base' = base /\ got' = got
        /\ errorCount' = errorCount + 1 /\ conn' = NoConn /\ mu' = Nobody
    BY DEF ReadConnError, BackgroundError, Return
  <1>2. reader' \in ReaderRecord /\ reader'.pc # "connecting"
        /\ (reader'.pc # "idle" => reader'.errors < MaxErrors)
    <2>1. CASE ReadConnError
      <3>1. /\ reader' = [pc |-> "idle", resp |-> "error", errors |-> reader.errors + 1]
            /\ reader.pc = "connecting"
        BY <2>1 DEF ReadConnError, Return
      <3> QED BY <3>1, ReaderFacts DEF ReaderRecord
    <2>2. CASE BackgroundError
      <3>1. reader' = reader /\ mu = "background"
        BY <2>2 DEF BackgroundError
      <3> QED BY <3>1, ReaderFacts DEF IInv, Locks
    <2> QED BY <2>1, <2>2
  <1>3. Types'
    BY <1>1, <1>2, NothingAsked DEF IInv, Types
  <1>4. Locks'
    BY <1>1, <1>2, ReaderFacts DEF Locks
  <1>5. Asked' /\ Follows' /\ InOrder'
    BY <1>1, NothingAsked DEF IInv, Asked, Follows, InOrder
  <1> QED BY <1>3, <1>4, <1>5 DEF IInv

(* A Read takes a response, its own or the one connected ahead: if it is a  *)
(* segment, it is the next one.                                             *)
LEMMA TakeStep ==
  ASSUME IInv, ReadConnected \/ ReadAhead
  PROVE  IInv'
  <1>1. PICK r \in Response :
          /\ AnswerTo(r, idx) /\ Take(r) /\ reader.pc \in {"connecting", "locking"}
          /\ conn' = NoConn /\ errorCount' \in Nat
          /\ UNCHANGED <<cancelled, setter, base, latest, ended>>
    <2>1. CASE ReadConnected
      BY <2>1, ConnFacts DEF ReadConnected, ConnFor
    <2>2. CASE ReadAhead
      BY <2>2, ReaderFacts DEF ReadAhead, IInv, Types, Asked
    <2> QED BY <2>1, <2>2
  <1>2. mu' = Nobody /\ pendingGet' = None /\ base' = base
    BY <1>1 DEF Take, Return
  <1>3. reader' \in ReaderRecord /\ reader'.pc = "idle"
    <2>1. reader' = [pc |-> "idle", resp |-> r.status,
                     errors |-> IF r.status = "200" THEN 0 ELSE reader.errors + 1]
      BY <1>1 DEF Take, Return
    <2>2. r.status \in {"none", "200", "470", "EOS"}
      BY <1>1 DEF Response
    <2>3. (IF r.status = "200" THEN 0 ELSE reader.errors + 1) \in 0 .. MaxErrors
      BY <1>1, ReaderFacts
    <2> QED BY <2>1, <2>2, <2>3 DEF ReaderRecord
  <1>4. Locks'
    BY <1>1, <1>2, <1>3, ReaderFacts DEF Locks
  <1>5. CASE r.status = "200"
    <2>1. idx' = r.seq + 1 /\ spawned' = spawned + 1 /\ got' = Append(got, r.seq)
      BY <1>1, <1>5 DEF Take, NextIdx
    <2>2. r.seq \in 0 .. MaxSeq /\ (idx = -1 \/ r.seq = idx) /\ got \in Seq(0 .. MaxSeq)
          /\ MaxSeq \in Nat
      BY <1>1, <1>5, SubscriberAssumption DEF AnswerTo, IInv, Types
    <2>3. /\ got' \in Seq(0 .. MaxSeq) /\ Len(got) \in Nat /\ Len(got') = Len(got) + 1
          /\ got' # << >> /\ got'[Len(got) + 1] = r.seq
          /\ \A k \in 1 .. Len(got) : got'[k] = got[k] /\ got[k] \in 0 .. MaxSeq
          /\ got # << >> => Len(got) # 0
      <3>1. /\ got' \in Seq(0 .. MaxSeq) /\ Len(got') = Len(got) + 1
            /\ got'[Len(got) + 1] = r.seq /\ \A k \in 1 .. Len(got) : got'[k] = got[k]
        BY <2>1, <2>2, AppendProperties
      <3>2. Len(got) \in Nat /\ \A k \in 1 .. Len(got) : got[k] \in 0 .. MaxSeq
        BY <2>2, LenProperties
      <3>3. (got # << >> => Len(got) # 0) /\ got' # << >>
        BY <2>2, <3>1, <3>2, EmptySeq
      <3> QED BY <3>1, <3>2, <3>3
    <2>4. idx' \in Nat /\ spawned' \in Nat
      BY <2>1, <2>2 DEF IInv, Types
    <2>5. Types'
      BY <1>1, <1>2, <1>3, <2>3, <2>4, NothingAsked DEF IInv, Types
    <2>6. Asked' /\ Follows'
      BY <1>1, <1>2, <2>1, <2>2, <2>3, NothingAsked DEF Asked, Follows
    <2>7. InOrder'
      <3>1. got # << >> => r.seq = got[Len(got)] + 1
        BY <2>2, <2>3 DEF IInv, Follows
      <3>2. base >= 0 => got'[1] = base
        <4>1. CASE got = << >>
          BY <2>2, <2>3, <4>1 DEF IInv, Follows, Types
        <4>2. CASE got # << >>
          BY <2>3, <4>2 DEF IInv, InOrder
        <4> QED BY <4>1, <4>2
      <3>3. \A k \in 1 .. Len(got) : got'[k + 1] = got'[k] + 1
        <4> SUFFICES ASSUME NEW k \in 1 .. Len(got) PROVE got'[k + 1] = got'[k] + 1
          OBVIOUS
        <4>1. CASE k = Len(got)
          BY <2>3, <3>1, <4>1
        <4>2. CASE k # Len(got)
          <5>1. k \in 1 .. Len(got) - 1 /\ k + 1 \in 1 .. Len(got)
            BY <2>3, <4>2
          <5> QED BY <2>3, <5>1 DEF IInv, InOrder
        <4> QED BY <4>1, <4>2
      <3> QED BY <1>2, <2>3, <3>2, <3>3 DEF InOrder
    <2> QED BY <1>4, <2>5, <2>6, <2>7 DEF IInv
  <1>6. CASE r.status # "200"
    <2>1. idx' = idx /\ spawned' = spawned /\ got' = got
      BY <1>1, <1>6 DEF Take
    <2>2. Types'
      BY <1>1, <1>2, <1>3, <2>1, NothingAsked DEF IInv, Types
    <2>3. Asked' /\ Follows' /\ InOrder'
      BY <1>1, <1>2, <2>1, NothingAsked DEF IInv, Asked, Follows, InOrder
    <2> QED BY <1>4, <2>2, <2>3 DEF IInv
  <1> QED BY <1>5, <1>6

-----------------------------------------------------------------------------
(* The goroutine a Read left behind takes c.mu, and connects ahead.         *)
LEMMA BackgroundStep ==
  ASSUME IInv, BackgroundConnects \/ BackgroundConnected
  PROVE  IInv'
  <1>1. /\ UNCHANGED <<idx, cancelled, reader, setter, base, got, latest, ended>>
        /\ idx' = idx /\ reader' = reader /\ base' = base /\ got' = got
    BY DEF BackgroundConnects, BackgroundConnected
  <1>2. CASE BackgroundConnects
    <2>1. mu = Nobody /\ mu' = "background" /\ pendingGet' = pendingGet /\ errorCount' = errorCount
          /\ spawned' \in Nat
      BY <1>2 DEF BackgroundConnects, IInv, Types
    <2>2. conn' \in ConnRecord /\ conn'.asking = Sent /\ ConnFor(conn', idx)
      BY <1>2, NothingAsked DEF BackgroundConnects, StartConn, NoConn, ConnRecord, ConnFor
    <2>3. Live(conn') /\ conn' # NoConn
      BY <2>2, NothingAsked DEF Live, NoConn
    <2>4. Types'
      BY <1>1, <2>1, <2>2 DEF IInv, Types
    <2>5. Locks'
      BY <1>1, <2>1, <2>3, ReaderFacts DEF IInv, Locks
    <2> QED BY <1>1, <2>1, <2>2, <2>4, <2>5 DEF IInv, Asked, Follows, InOrder
  <1>3. CASE BackgroundConnected
    <2>1. /\ mu = "background" /\ mu' = Nobody /\ pendingGet' = conn.respCh /\ errorCount' = 0
          /\ conn' = NoConn /\ spawned' = spawned
      BY <1>3 DEF BackgroundConnected
    <2>2. pendingGet' \in Response /\ AnswerTo(pendingGet', idx)
      BY <2>1, ConnFacts DEF ConnFor
    <2>3. Types'
      BY <1>1, <2>1, <2>2, NothingAsked DEF IInv, Types
    <2>4. Locks'
      BY <1>1, <2>1, ReaderFacts DEF IInv, Locks
    <2> QED BY <1>1, <2>1, <2>2, <2>3, <2>4, NothingAsked DEF IInv, Asked, Follows, InOrder
  <1> QED BY <1>2, <1>3

(* SetSeq cancels, then starts over where it is told to.                    *)
LEMMA SetterStep ==
  ASSUME IInv, SetSeqCancels \/ SetSeqSets
  PROVE  IInv'
  <1>1. CASE SetSeqCancels
    <2>1. /\ UNCHANGED <<mu, idx, pendingGet, errorCount, spawned, conn, reader, base, got,
                         latest, ended>>
          /\ mu' = mu /\ idx' = idx /\ pendingGet' = pendingGet /\ conn' = conn /\ reader' = reader
          /\ base' = base /\ got' = got /\ cancelled' \in BOOLEAN
      BY <1>1 DEF SetSeqCancels, AtOnce
    <2>2. setter' \in [pc : {"idle", "locking"}, seq : SeekTo \cup {0}, calls : 0 .. MaxSeeks]
      BY <1>1, SubscriberAssumption DEF SetSeqCancels, IInv, Types
    <2>3. Types'
      BY <2>1, <2>2 DEF IInv, Types
    <2> QED BY <2>1, <2>3 DEF IInv, Locks, Asked, Follows, InOrder
  <1>2. CASE SetSeqSets
    <2>1. /\ idx' = setter.seq /\ cancelled' = FALSE /\ pendingGet' = None /\ errorCount' = 0
          /\ base' = setter.seq /\ got' = << >> /\ mu' = mu /\ spawned' = spawned
          /\ conn' = conn /\ reader' = reader /\ latest' = latest /\ ended' = ended /\ mu = Nobody
      BY <1>2 DEF SetSeqSets, DropPending
    <2>2. /\ setter.seq \in Nat \cup {-1}
          /\ setter' \in [pc : {"idle", "locking"}, seq : SeekTo \cup {0}, calls : 0 .. MaxSeeks]
      <3>1. setter \in [pc : {"idle", "locking"}, seq : SeekTo \cup {0}, calls : 0 .. MaxSeeks]
            /\ setter' = [setter EXCEPT !.pc = "idle"]
        BY <1>2 DEF SetSeqSets, IInv, Types
      <3>2. setter.seq \in SeekTo \cup {0}
        BY <3>1
      <3> QED BY <3>1, <3>2, SubscriberAssumption
    <2>3. got' \in Seq(0 .. MaxSeq) /\ Len(got') = 0
      BY <2>1
    <2>4. Types'
      <3>1. cancelled' \in BOOLEAN
        BY <2>1
      <3>2. idx' \in Nat \cup {-1} /\ base' \in Int
        BY <2>1, <2>2
      <3>3. /\ pendingGet' = None /\ errorCount' = 0 /\ mu' = mu /\ spawned' = spawned
            /\ conn' = conn /\ reader' = reader /\ latest' = latest /\ ended' = ended
        BY <2>1
      <3> QED BY <2>2, <2>3, <3>1, <3>2, <3>3, NothingAsked DEF IInv, Types
    <2>5. Locks' /\ Asked'
      BY <2>1, NothingAsked, ReaderFacts DEF IInv, Locks, Asked
    <2>6. Follows' /\ InOrder'
      BY <2>1, <2>3 DEF Follows, InOrder
    <2> QED BY <2>4, <2>5, <2>6 DEF IInv
  <1> QED BY <1>1, <1>2

-----------------------------------------------------------------------------
(* Every step keeps the invariant.                                          *)
LEMMA Step == IInv /\ [Next]_vars => IInv'
  <1> SUFFICES ASSUME IInv, [Next]_vars PROVE IInv'
    OBVIOUS
  <1>1. CASE UNCHANGED vars
    BY <1>1 DEF vars, IInv, Types, Locks, Asked, Follows, InOrder
  <1>2. CASE Publish \/ CloseStream
    BY <1>2, ServerStep
  <1>3. CASE ConnStep
    BY <1>3, AttachStep, ResponseStep, RequestFails DEF ConnStep
  <1>4. CASE ReadCall \/ Read
    BY <1>4, ReadAlone, ErrorStep, TakeStep DEF Read
  <1>5. CASE Background
    BY <1>5, BackgroundStep, ErrorStep DEF Background
  <1>6. CASE SetSeqCancels \/ SetSeqSets
    BY <1>6, SetterStep
  <1> QED BY <1>1, <1>2, <1>3, <1>4, <1>5, <1>6 DEF Next

(* TrickleSubscriber's fields have their types, and c.mu is held exactly    *)
(* while a preconnect is under way (Read, SetSeq).                          *)
THEOREM TypeCorrect == Spec => []TypeOK
  BY Initial, Step, Consequences, PTL DEF Spec

(* Read (trickle_subscriber.go) returns every segment once and in order     *)
(* from where SetSeq last put it, whichever of Read, the goroutines it      *)
(* leaves behind and the renewed requests of preconnect got the response.   *)
THEOREM SegmentsComeInOrder == Spec => []InOrder
  BY Initial, Step, Consequences, PTL DEF Spec

-----------------------------------------------------------------------------
(* publisher-out, which feeds what a subscriber reads to ffmpeg             *)

(* The failures that retryCount counts are the last ones, and all of them   *)
(* came within one RetryInterval of firstRetry.                             *)
CountedAreRecent ==
  /\ rc.retryCount <= Len(failures) /\ rc.firstRetry <= now
  /\ \A i \in 1 .. Len(failures) :
       i > Len(failures) - rc.retryCount =>
         rc.firstRetry <= failures[i] /\ failures[i] - rc.firstRetry <= RetryInterval
  /\ IF proc.pc = "gaveUp" THEN rc.retryCount > MaxRetries
     ELSE rc.retryCount <= MaxRetries

(* ffmpeg's input is closed only after the goroutine was told, so an ffmpeg *)
(* that ends by itself is found to be done.                                 *)
ToldBeforeTheEnd ==
  /\ sub \in {"close", "wait", "returned"} => subscriptionDone
  /\ ~writeEnd => subscriptionDone
  /\ proc.pc = "exited" /\ ~proc.crashed => subscriptionDone
  /\ proc.pc = "failed" => proc.crashed

OutInv == OutTypeOK /\ CountedAreRecent /\ ToldBeforeTheEnd

LEMMA OutInitial == OutInit => OutInv
  <1> SUFFICES ASSUME OutInit PROVE OutInv
    OBVIOUS
  <1> USE OutAssumption DEF OutInit
  <1>1. OutTypeOK
    <2>1. failures \in Seq(0 .. MaxTime) /\ Len(failures) = 0
      OBVIOUS
    <2>2. writeEnd \in BOOLEAN /\ subscriptionDone \in BOOLEAN
      OBVIOUS
    <2>3. proc \in [pc : {"running", "exited", "failed", "done", "gaveUp"}, crashed : BOOLEAN]
      OBVIOUS
    <2>4. rc \in [retryCount : 0..MaxRetries + 1, firstRetry : 0..MaxTime]
      OBVIOUS
    <2>5. /\ now \in 0..MaxTime /\ inPipe \in 0..PipeSize
          /\ sub \in {"read", "copy", "write", "tell", "close", "wait", "returned"}
      OBVIOUS
    <2> HIDE DEF OutInit
    <2> QED BY <2>1, <2>2, <2>3, <2>4, <2>5 DEF OutTypeOK
  <1>2. CountedAreRecent
    BY DEF CountedAreRecent
  <1>3. ToldBeforeTheEnd
    BY DEF ToldBeforeTheEnd
  <1> QED BY <1>1, <1>2, <1>3 DEF OutInv

(* What the invariant says of the types.                                    *)
LEMMA OutFacts ==
  ASSUME OutInv
  PROVE  /\ now \in 0..MaxTime /\ inPipe \in 0..PipeSize
         /\ sub \in {"read", "copy", "write", "tell", "close", "wait", "returned"}
         /\ writeEnd \in BOOLEAN /\ subscriptionDone \in BOOLEAN
         /\ proc \in [pc : {"running", "exited", "failed", "done", "gaveUp"}, crashed : BOOLEAN]
         /\ rc \in [retryCount : 0..MaxRetries + 1, firstRetry : 0..MaxTime]
         /\ failures \in Seq(0..MaxTime) /\ Len(failures) \in Nat
         /\ MaxRetries \in Nat \ {0} /\ RetryInterval \in Nat /\ PipeSize \in Nat \ {0}
         /\ MaxTime \in Nat
  BY LenProperties, OutAssumption DEF OutInv, OutTypeOK

(* A step of the subscription, of ffmpeg or of the clock: no failure is     *)
(* counted.                                                                 *)
LEMMA NotCounted ==
  ASSUME OutInv, UNCHANGED <<rc, failures>>,
         now' \in 0..MaxTime, now <= now', inPipe' \in 0..PipeSize,
         sub' \in {"read", "copy", "write", "tell", "close", "wait", "returned"},
         writeEnd' \in BOOLEAN, subscriptionDone' \in BOOLEAN,
         proc' \in [pc : {"running", "exited", "failed", "done", "gaveUp"}, crashed : BOOLEAN],
         (proc'.pc = "gaveUp") <=> (proc.pc = "gaveUp"), ToldBeforeTheEnd'
  PROVE  OutInv'
  <1>1. OutTypeOK'
    BY DEF OutInv, OutTypeOK
  <1>2. CountedAreRecent'
    <2>1. rc.firstRetry <= now'
      BY OutFacts DEF OutInv, CountedAreRecent
    <2> QED BY <2>1 DEF OutInv, CountedAreRecent
  <1> QED BY <1>1, <1>2 DEF OutInv

LEMMA SubscriptionStep ==
  ASSUME OutInv, Subscription \/ Tick
  PROVE  OutInv'
  <1>1. /\ UNCHANGED <<rc, failures, proc>> /\ proc' = proc
        /\ sub' \in {"read", "copy", "write", "tell", "close", "wait", "returned"}
    BY OutFacts DEF Subscription, Tick, ReadSegment, ReadFails, CopyReads,
       CopyEnds, CopyWrites, TellGoroutine, CloseWriteEnd, SubscribeReturns,
       SubStep, procVars, subVars
  <1>2. now' \in 0..MaxTime /\ now <= now' /\ inPipe' \in 0..PipeSize
    BY OutFacts DEF Subscription, Tick, ReadSegment, ReadFails, CopyReads,
       CopyEnds, CopyWrites, Room, TellGoroutine, CloseWriteEnd,
       SubscribeReturns, SubStep
  <1> DEFINE over(s) == s \in {"close", "wait", "returned"}
  <1>3. /\ writeEnd' \in BOOLEAN /\ subscriptionDone' \in BOOLEAN
        /\ subscriptionDone => subscriptionDone'
        /\ over(sub') => over(sub) \/ subscriptionDone'
        /\ ~writeEnd' => ~writeEnd \/ over(sub)
    <2>1. CASE UNCHANGED <<writeEnd, subscriptionDone>> /\ (over(sub') => over(sub))
      BY <2>1, OutFacts
    <2>2. CASE TellGoroutine
      <3>1. subscriptionDone' = TRUE /\ writeEnd' = writeEnd
        BY <2>2 DEF TellGoroutine
      <3> QED BY <3>1, OutFacts
    <2>3. CASE CloseWriteEnd
      <3>1. writeEnd' = FALSE /\ subscriptionDone' = subscriptionDone /\ sub = "close"
        BY <2>3 DEF CloseWriteEnd
      <3> QED BY <3>1, OutFacts
    <2> QED BY <2>1, <2>2, <2>3 DEF Subscription, Tick, ReadSegment, ReadFails,
            CopyReads, CopyEnds, CopyWrites, SubscribeReturns, SubStep, subVars
  <1>4. ToldBeforeTheEnd'
    BY <1>1, <1>3 DEF OutInv, ToldBeforeTheEnd
  <1> QED BY <1>1, <1>2, <1>3, <1>4, OutFacts, NotCounted

LEMMA FfmpegStep ==
  ASSUME OutInv, Ffmpeg \/ FindsDone
  PROVE  OutInv'
  <1>1. /\ UNCHANGED <<now, sub, writeEnd, subscriptionDone, rc, failures>>
        /\ sub' = sub /\ writeEnd' = writeEnd /\ subscriptionDone' = subscriptionDone
    BY DEF Ffmpeg, FindsDone, Reads, Crashes, EndsAtEOF, Exits,
       subVars, procVars
  <1>2. inPipe' \in 0..PipeSize
    BY OutFacts DEF Ffmpeg, FindsDone, Reads, Crashes, EndsAtEOF, Exits
  <1>3. /\ proc' \in [pc : {"running", "exited", "failed", "done", "gaveUp"}, crashed : BOOLEAN]
        /\ (proc'.pc = "gaveUp") <=> (proc.pc = "gaveUp")
        /\ ToldBeforeTheEnd'
    <2>1. CASE Reads
      <3>1. proc' = proc
        BY <2>1 DEF Reads, procVars
      <3> QED BY <1>1, <3>1, OutFacts DEF OutInv, ToldBeforeTheEnd
    <2>2. CASE Crashes
      <3>1. proc.pc = "running" /\ proc' = [pc |-> "exited", crashed |-> TRUE]
        BY <2>2 DEF Crashes, Exits
      <3> QED BY <1>1, <3>1 DEF OutInv, ToldBeforeTheEnd
    <2>3. CASE EndsAtEOF
      <3>1. proc.pc = "running" /\ proc' = [pc |-> "exited", crashed |-> FALSE] /\ ~writeEnd
        BY <2>3 DEF EndsAtEOF, Exits
      <3> QED BY <1>1, <3>1 DEF OutInv, ToldBeforeTheEnd
    <2>4. CASE FindsDone
      <3>1. /\ proc.pc = "exited"
            /\ proc' = [proc EXCEPT !.pc = IF subscriptionDone THEN "done" ELSE "failed"]
        BY <2>4 DEF FindsDone
      <3>2. /\ proc' \in [pc : {"running", "exited", "failed", "done", "gaveUp"}, crashed : BOOLEAN]
            /\ proc'.crashed = proc.crashed
            /\ proc'.pc = IF subscriptionDone THEN "done" ELSE "failed"
        BY <3>1, OutFacts
      <3> QED BY <1>1, <3>1, <3>2 DEF OutInv, ToldBeforeTheEnd
    <2> QED BY <2>1, <2>2, <2>3, <2>4 DEF Ffmpeg
  <1>4. now' \in 0..MaxTime /\ now <= now'
    BY <1>1, OutFacts
  <1> QED BY <1>1, <1>2, <1>3, <1>4, OutFacts, NotCounted

(* A failure is counted.                                                    *)
LEMMA CheckRetryStep ==
  ASSUME OutInv, CheckRetry
  PROVE  OutInv'
  <1>1. /\ proc.pc = "failed" /\ rc' = Counted /\ failures' = Append(failures, now)
        /\ proc' = [proc EXCEPT !.pc = IF rc'.retryCount > MaxRetries THEN "gaveUp" ELSE "running"]
        /\ UNCHANGED <<now, inPipe, sub, writeEnd, subscriptionDone>>
    BY DEF CheckRetry, subVars
  <1>2. /\ rc.retryCount \in 0..MaxRetries /\ rc.retryCount <= Len(failures)
        /\ rc.firstRetry \in 0..MaxTime /\ rc.firstRetry <= now
    BY <1>1, OutFacts DEF OutInv, CountedAreRecent
  <1>3. /\ failures' \in Seq(0..MaxTime) /\ Len(failures') = Len(failures) + 1
        /\ failures'[Len(failures) + 1] = now
        /\ \A i \in 1 .. Len(failures) : failures'[i] = failures[i]
    BY <1>1, OutFacts, AppendProperties
  <1>4. /\ proc' \in [pc : {"running", "exited", "failed", "done", "gaveUp"}, crashed : BOOLEAN]
        /\ proc'.pc = IF rc'.retryCount > MaxRetries THEN "gaveUp" ELSE "running"
    BY <1>1, OutFacts
  <1>5. CASE rc.retryCount = 0 \/ now - rc.firstRetry > RetryInterval
    <2>1. rc' = [retryCount |-> 1, firstRetry |-> now]
      BY <1>1, <1>5 DEF Counted
    <2>2. rc' \in [retryCount : 0..MaxRetries + 1, firstRetry : 0..MaxTime]
      BY <2>1, OutFacts
    <2>3. CountedAreRecent'
      BY <1>1, <1>3, <1>4, <2>1, OutFacts DEF CountedAreRecent
    <2> QED BY <1>1, <1>3, <1>4, <2>2, <2>3 DEF OutInv, OutTypeOK, ToldBeforeTheEnd
  <1>6. CASE ~(rc.retryCount = 0 \/ now - rc.firstRetry > RetryInterval)
    <2>1. rc' = [rc EXCEPT !.retryCount = rc.retryCount + 1]
      BY <1>1, <1>6 DEF Counted
    <2>2. /\ rc' \in [retryCount : 0..MaxRetries + 1, firstRetry : 0..MaxTime]
          /\ rc'.retryCount = rc.retryCount + 1 /\ rc'.firstRetry = rc.firstRetry
      <3>1. rc.retryCount + 1 \in 0..MaxRetries + 1
        BY <1>2, OutFacts
      <3>2. rc \in [retryCount : 0..MaxRetries + 1, firstRetry : 0..MaxTime]
        BY OutFacts
      <3> QED BY <2>1, <3>1, <3>2
    <2>3. \A i \in 1 .. Len(failures') :
            i > Len(failures') - rc'.retryCount =>
              rc'.firstRetry <= failures'[i] /\ failures'[i] - rc'.firstRetry <= RetryInterval
      <3>1. \A i \in 1 .. Len(failures) :
              i > Len(failures) - rc.retryCount =>
                rc.firstRetry <= failures[i] /\ failures[i] - rc.firstRetry <= RetryInterval
        BY DEF OutInv, CountedAreRecent
      <3>2. Len(failures') - rc'.retryCount = Len(failures) - rc.retryCount
        BY <1>2, <1>3, <2>2, OutFacts
      <3>3. now - rc.firstRetry <= RetryInterval
        BY <1>2, <1>6, OutFacts
      <3> SUFFICES ASSUME NEW i \in 1 .. Len(failures'), i > Len(failures) - rc.retryCount
                   PROVE  rc.firstRetry <= failures'[i] /\ failures'[i] - rc.firstRetry <= RetryInterval
        BY <2>2, <3>2
      <3>4. CASE i = Len(failures) + 1
        BY <1>2, <1>3, <3>3, <3>4
      <3>5. CASE i # Len(failures) + 1
        <4>1. i \in 1 .. Len(failures)
          BY <1>3, <3>5, OutFacts
        <4> QED BY <1>3, <3>1, <4>1
      <3> QED BY <3>4, <3>5
    <2>4. CountedAreRecent'
      <3>1. rc'.retryCount <= Len(failures') /\ rc'.firstRetry <= now'
        BY <1>1, <1>2, <1>3, <2>2, OutFacts
      <3>2. IF proc'.pc = "gaveUp" THEN rc'.retryCount > MaxRetries ELSE rc'.retryCount <= MaxRetries
        BY <1>2, <1>4, <2>2, OutFacts
      <3> QED BY <2>3, <3>1, <3>2 DEF CountedAreRecent
    <2> QED BY <1>1, <1>3, <1>4, <2>2, <2>4 DEF OutInv, OutTypeOK, ToldBeforeTheEnd
  <1> QED BY <1>5, <1>6

LEMMA OutStep == OutInv /\ [OutNext]_(outVars) => OutInv'
  <1> SUFFICES ASSUME OutInv, [OutNext]_(outVars) PROVE OutInv'
    OBVIOUS
  <1>1. CASE UNCHANGED outVars
    BY <1>1 DEF outVars, subVars, procVars, OutInv, OutTypeOK,
       CountedAreRecent, ToldBeforeTheEnd
  <1> QED BY <1>1, SubscriptionStep, FfmpegStep, CheckRetryStep DEF OutNext, Goroutine

LEMMA OutConsequences == OutInv => OutTypeOK /\ RetriesOnlyFailures
  <1> SUFFICES ASSUME OutInv PROVE RetriesOnlyFailures
    BY DEF OutInv
  <1>1. EndIsNoFailure
    BY DEF OutInv, ToldBeforeTheEnd, EndIsNoFailure
  <1>2. GivesUpOnBursts
    <2> SUFFICES ASSUME proc.pc = "gaveUp"
                 PROVE  /\ Len(failures) > MaxRetries
                        /\ failures[Len(failures)] - failures[Len(failures) - MaxRetries] <= RetryInterval
      BY DEF GivesUpOnBursts
    <2> DEFINE last == Len(failures)
               first == last - MaxRetries
    <2>1. rc.retryCount = MaxRetries + 1 /\ rc.retryCount <= last
      BY OutFacts DEF OutInv, CountedAreRecent
    <2>2. first \in 1 .. last /\ last \in 1 .. last /\ last \in Nat
          /\ first > last - rc.retryCount /\ last > last - rc.retryCount
      BY <2>1, OutFacts
    <2>3. /\ rc.firstRetry <= failures[first]
          /\ failures[last] - rc.firstRetry <= RetryInterval
      BY <2>2 DEF OutInv, CountedAreRecent
    <2>4. \A i \in 1 .. Len(failures) : failures[i] \in 0..MaxTime
      BY OutFacts, LenProperties
    <2>5. failures[first] \in Nat /\ failures[last] \in Nat /\ rc.firstRetry \in Nat
      <3>1. failures[first] \in 0..MaxTime /\ failures[last] \in 0..MaxTime
        BY <2>2, <2>4
      <3>2. rc.firstRetry \in 0..MaxTime
        BY OutFacts
      <3> QED BY <3>1, <3>2, OutFacts
    <2>6. last > MaxRetries
      BY <2>1, <2>2, OutFacts
    <2>7. RetryInterval \in Nat
      BY OutFacts
    <2> HIDE DEF first, last
    <2>8. failures[last] - failures[first] <= RetryInterval
      BY <2>3, <2>5, <2>7
    <2> QED BY <2>6, <2>8 DEF first, last
  <1> QED BY <1>1, <1>2 DEF RetriesOnlyFailures

(* runSubscribe of publisher-out keeps its types, from the assumption of    *)
(* its module; in particular the pipe never holds more than it can.         *)
THEOREM OutTypeCorrect == OutSpec => []OutTypeOK
  BY OutInitial, OutStep, OutConsequences, PTL DEF OutSpec

(* checkRetry (publisher-out.go) gives ffmpeg up only when its last         *)
(* MaxRetries + 1 failures came within one RetryInterval, and the end of    *)
(* the stream never counts as one.                                          *)
THEOREM GivenUpOnlyForBursts == OutSpec => []RetriesOnlyFailures
  BY OutInitial, OutStep, OutConsequences, PTL DEF OutSpec
==============================================================================
