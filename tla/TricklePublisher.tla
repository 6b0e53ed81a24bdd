--------------------------- MODULE TricklePublisher ---------------------------
(***************************************************************************)
(* trickle_publisher.go: a client that publishes to a channel over HTTP,    *)
(* with the POST of the next segment always connected ahead.                *)
(*   Callers   goroutines that take a pendingPost from Next and Write it,   *)
(*             several times if need be, or Close it                        *)
(*                                                                         *)
(* Each pendingPost has a pipe, whose reading end is the body of its POST,  *)
(* a goroutine that waits for the answer and sends it to errCh, and the     *)
(* server at the other end, which is external: it may read the body to its  *)
(* end, or answer without reading (module StreamHandlers: EmptyPost), or    *)
(* refuse, or the connection may break.  A preconnect answered before it    *)
(* is written leaves its answer in errCh.                                   *)
(***************************************************************************)
EXTENDS Integers, Sequences, FiniteSets

CONSTANTS
  Callers,
  MaxPosts,       \* bound on the POSTs made
  MaxWrites,      \* bound on the Writes of one caller
  MaxChunks,      \* bound on the chunks of one Write
  Answers         \* what the server may answer other than 200

OK == "200"

ASSUME PublisherAssumption ==
  /\ MaxPosts \in Nat
  /\ MaxWrites \in Nat
  /\ MaxChunks \in Nat \ {0}
  /\ Answers \subseteq {"EOS", "404", "5xx", "broken"}

VARIABLES
  index,          \* TricklePublisher.index
  pending,        \* TricklePublisher.pendingPost
  posts,          \* every pendingPost, with the state of its POST
  caller          \* the callers

vars == <<index, pending, posts, caller>>

Nil == 0
Empty == "empty"

(* As reconnect and Next make them: body is what the transport took from the *)
(* pipe, seen that the server has read some of it.                           *)
NewPost(i, again) ==
  [index |-> i, again |-> again, written |-> FALSE, body |-> 0, ended |-> FALSE, seen |-> FALSE,
   answer |-> "none", errCh |-> Empty]

Idle ==
  [pc |-> "idle", pp |-> Nil, cur |-> Nil, writes |-> 0, size |-> 0, sent |-> 0,
   ioError |-> FALSE, resp |-> "none"]

Init ==
  /\ index = 1                    \* NewTricklePublisher preconnects 0
  /\ pending = 1
  /\ posts = <<NewPost(0, FALSE)>>
  /\ caller = [k \in Callers |-> Idle]

Room(n) == Len(posts) + n <= MaxPosts

-----------------------------------------------------------------------------
(* Next hands out the post that is connected, and connects another.         *)

(* Plausible bug: the pending post is not replaced.                          *)
SamePending == pending

NextPending == Len(posts) + 1

Take(k) ==
  /\ caller[k].pc = "idle"
  /\ Room(1)
  /\ posts' = Append(posts, NewPost(index, FALSE))
  /\ index' = index + 1
  /\ pending' = NextPending
  /\ caller' = [caller EXCEPT ![k].pc = "have", ![k].pp = pending]

-----------------------------------------------------------------------------
(* pendingPost.Write                                                        *)

(* Plausible bug: reconnect leaves the publisher's sequence where preconnect *)
(* put it.                                                                   *)
Incremented(i) == i + 1

Restored(i) == index

(* A second Write needs a new POST to the same index: reconnect.            *)
WriteStart(k) ==
  LET pp == caller[k].pp
      again == posts[pp].written
      cur == IF again THEN Len(posts) + 1 ELSE pp
      made == IF again THEN Append(posts, NewPost(posts[pp].index, TRUE)) ELSE posts
  IN /\ caller[k].pc = "have"
     /\ caller[k].writes < MaxWrites
     /\ again => Room(1)
     /\ posts' = [made EXCEPT ![cur].written = TRUE]
     /\ index' = IF again THEN Restored(posts[pp].index) ELSE index
     /\ \E size \in 1 .. MaxChunks :
          caller' = [caller EXCEPT ![k].pc = "checking", ![k].cur = cur, ![k].size = size,
                                   ![k].sent = 0, ![k].ioError = FALSE, ![k].resp = "none",
                                   ![k].writes = @ + 1]
     /\ UNCHANGED pending

Post(k) == posts[caller[k].cur]

(* Before writing: is there an answer already?  Whatever it is, it ends the  *)
(* Write.                                                                    *)
WriteAnsweredBefore(k) ==
  /\ caller[k].pc = "checking"
  /\ Post(k).errCh # Empty
  /\ caller' = [caller EXCEPT ![k].pc = "have", ![k].resp = Post(k).errCh]
  /\ posts' = [posts EXCEPT ![caller[k].cur].errCh = Empty]
  /\ UNCHANGED <<index, pending>>

WriteGoesOn(k) ==
  /\ caller[k].pc = "checking"
  /\ Post(k).errCh = Empty
  /\ caller' = [caller EXCEPT ![k].pc = "copying"]
  /\ UNCHANGED <<index, pending, posts>>

(* io.Copy: a write to the pipe ends when the transport has taken it.       *)
Copy(k) ==
  /\ caller[k].pc = "copying"
  /\ caller[k].sent < caller[k].size
  /\ Post(k).answer = "none" /\ ~Post(k).ended
  /\ caller' = [caller EXCEPT ![k].sent = @ + 1]
  /\ posts' = [posts EXCEPT ![caller[k].cur].body = @ + 1]
  /\ UNCHANGED <<index, pending>>

(* An answer closes the pipe under io.Copy; or what is copied from fails.   *)
CopyFails(k) ==
  /\ caller[k].pc = "copying"
  /\ caller[k].sent < caller[k].size
  /\ caller' = [caller EXCEPT ![k].pc = "waiting", ![k].ioError = TRUE]
  /\ UNCHANGED <<index, pending, posts>>

CopyEnds(k) ==
  /\ caller[k].pc = "copying"
  /\ caller[k].sent = caller[k].size
  /\ caller' = [caller EXCEPT ![k].pc = "waiting"]
  /\ posts' = [posts EXCEPT ![caller[k].cur].ended = TRUE]
  /\ UNCHANGED <<index, pending>>

(* Plausible bug: the error of the pipe hides what the server answered.      *)
PipeFirst(answer, ioError) == IF ioError THEN "ioerror" ELSE answer

(* An error the server answered comes before one of the pipe.               *)
Verdict(answer, ioError) == IF answer = OK /\ ioError THEN "ioerror" ELSE answer

WriteAnswered(k) ==
  /\ caller[k].pc = "waiting"
  /\ Post(k).errCh # Empty
  /\ caller' = [caller EXCEPT ![k].pc = "have", ![k].resp = Verdict(Post(k).errCh, caller[k].ioError)]
  /\ posts' = [posts EXCEPT ![caller[k].cur].errCh = Empty]
  /\ UNCHANGED <<index, pending>>

(* pendingPost.Close ends the body and DELETEs the segment.                 *)
ClosePost(k) ==
  /\ caller[k].pc = "have"
  /\ posts' = [posts EXCEPT ![caller[k].pp].ended = TRUE]
  /\ caller' = [caller EXCEPT ![k] = Idle]
  /\ UNCHANGED <<index, pending>>

Leave(k) ==
  /\ caller[k].pc = "have"
  /\ posts[caller[k].pp].written
  /\ caller' = [caller EXCEPT ![k] = Idle]
  /\ UNCHANGED <<index, pending, posts>>

-----------------------------------------------------------------------------
(* The POST of p, at the server's end and in the goroutine of preconnect.   *)

ServerReads(p) ==
  /\ posts[p].answer = "none"
  /\ posts[p].body > 0
  /\ posts' = [posts EXCEPT ![p].seen = TRUE]
  /\ UNCHANGED <<index, pending, caller>>

(* Plausible bug: the goroutine returns without a word when Do fails.        *)
SentIfAnswered(a) == IF a = "broken" THEN Empty ELSE a

Sent(a) == a

Answered(p, a) ==
  /\ posts[p].answer = "none"
  /\ posts' = [posts EXCEPT ![p].answer = a, ![p].errCh = Sent(a)]
  /\ UNCHANGED <<index, pending, caller>>

(* 200: the body was read to its end, or nothing of it.                     *)
Accepts(p) == (posts[p].ended \/ ~posts[p].seen) /\ Answered(p, OK)

(* EOS: the stream was closed before anything of the body was read.         *)
Refuses(p) == \E a \in Answers : (a = "EOS" => ~posts[p].seen) /\ Answered(p, a)

-----------------------------------------------------------------------------
WriteStep(k) ==
  \/ WriteAnsweredBefore(k) \/ WriteGoesOn(k) \/ Copy(k) \/ CopyFails(k) \/ CopyEnds(k)
  \/ WriteAnswered(k)

Server(p) == Accepts(p) \/ Refuses(p)

Next ==
  \/ \E k \in Callers : Take(k) \/ WriteStart(k) \/ WriteStep(k) \/ ClosePost(k) \/ Leave(k)
  \/ \E p \in DOMAIN posts : ServerReads(p) \/ Server(p)

Spec == Init /\ [][Next]_vars

(* A Write goes on, and the server does not leave a POST unanswered for     *)
(* ever: the ReadTimeout of cmd/trickle-server.                             *)
FairSpec ==
  /\ Spec
  /\ \A k \in Callers : WF_vars(WriteStep(k))
  /\ \A p \in 1 .. MaxPosts : WF_vars(p \in DOMAIN posts /\ Server(p))

-----------------------------------------------------------------------------
(* Types of the publisher, its posts and its callers; the post connected     *)
(* ahead is a fresh one.                                                     *)
TypeOK ==
  /\ index \in Nat
  /\ pending \in {p \in DOMAIN posts : ~posts[p].written}
  /\ posts \in Seq([index : Nat, again : BOOLEAN, written : BOOLEAN, body : 0 .. MaxChunks,
                    ended : BOOLEAN, seen : BOOLEAN, answer : Answers \cup {"none", OK},
                    errCh : Answers \cup {Empty, OK}])
  /\ caller \in [Callers ->
       [pc : {"idle", "have", "checking", "copying", "waiting"}, pp : 0 .. Len(posts),
        cur : 0 .. Len(posts), writes : 0 .. MaxWrites, size : 0 .. MaxChunks,
        sent : 0 .. MaxChunks, ioError : BOOLEAN,
        resp : Answers \cup {"none", "ioerror", OK}]]

(* seq "must increase sequentially without gaps": Next uses each number     *)
(* once, in order, however reconnects, which set the publisher's sequence   *)
(* back for a moment, fall between (Next, reconnect).                       *)
FirstPosts == {p \in DOMAIN posts : ~posts[p].again}

NumberedInOrder ==
  /\ {posts[p].index : p \in FirstPosts} = 0 .. index - 1
  /\ \A p, q \in FirstPosts : p < q => posts[p].index < posts[q].index
  /\ posts[pending].index = index - 1

(* A post belongs to one caller: nobody writes to the pipe of another, nor  *)
(* to the post that is connected ahead (Next, under writeLock).             *)
OwnPosts ==
  \A k, l \in Callers :
    /\ caller[k].pc # "idle" => caller[k].pp # pending
    /\ k # l /\ caller[k].pc # "idle" /\ caller[l].pc # "idle" => caller[k].pp # caller[l].pp

(* Both at once: a number for each call of Next, and nobody else's post.     *)
EachCallItsNumber == NumberedInOrder /\ OwnPosts

(* What the server answered is what Write returns: an error it sent is never *)
(* lost, nor hidden by the broken pipe that comes with it, and a Write only  *)
(* succeeds if its own POST did (errCh, Write).                              *)
ServerHasTheLastWord ==
  \A k \in Callers :
    caller[k].resp # "none" =>
      \/ caller[k].resp = Post(k).answer
      \/ caller[k].resp = "ioerror" /\ Post(k).answer = OK

(* Every Write returns: nobody waits on an errCh that stays empty.          *)
WriteReturns ==
  \A k \in Callers :
    (caller[k].pc \in {"checking", "copying", "waiting"}) ~> caller[k].pc = "have"
==============================================================================
