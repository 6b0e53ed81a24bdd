---------------------------- MODULE PublisherProofs ----------------------------
(***************************************************************************)
(* TricklePublisher, for any number of callers, POSTs, Writes and chunks:   *)
(* its types, EachCallItsNumber and ServerHasTheLastWord.                   *)
(*                                                                         *)
(* Two callers never write to the same POST, because a Write goes to a post *)
(* nobody has written to yet: the one the caller was given, or one made for *)
(* this Write (OwnWrites).  So what a caller knows of its POST stays true   *)
(* while others move (CallerOK), and what is in errCh is the answer the     *)
(* server gave (PostOK).  A reconnect makes a post that is no call's first, *)
(* and leaves the numbers of Next alone.                                    *)
(*                                                                         *)
(* Then SegmentPoster, which drives the publisher in publisher-mediamtx.    *)
(***************************************************************************)
EXTENDS TricklePublisher, SegmentPoster, FiniteSetTheorems, SequenceTheorems, TLAPS

PostRecord ==
  [index : Nat, again : BOOLEAN, written : BOOLEAN, body : 0 .. MaxChunks,
   ended : BOOLEAN, seen : BOOLEAN, answer : Answers \cup {"none", OK},
   errCh : Answers \cup {Empty, OK}]

CallerRecord(n) ==
  [pc : {"idle", "have", "checking", "copying", "waiting"}, pp : 0 .. n,
   cur : 0 .. n, writes : 0 .. MaxWrites, size : 0 .. MaxChunks,
   sent : 0 .. MaxChunks, ioError : BOOLEAN,
   resp : Answers \cup {"none", "ioerror", OK}]

Writing(g) == g.pc \in {"checking", "copying", "waiting"}

(* Nothing was sent before the first Write; errCh holds the answer.         *)
PostOK(q) ==
  /\ ~q.written => q.body = 0
  /\ q.errCh # Empty => q.errCh = q.answer

(* What a caller knows of the post it was given, and of that it writes to.  *)
CallerOK(g, ps) ==
  /\ g.pc # "idle" => g.pp # Nil
  /\ Writing(g) => g.cur # Nil /\ ps[g.cur].written
  /\ g.pc = "checking" => g.sent = 0 /\ ps[g.cur].body = 0
  /\ g.pc = "copying" => g.sent <= g.size /\ ps[g.cur].body = g.sent
  /\ g.resp # "none" =>
       /\ g.cur # Nil
       /\ \/ g.resp = ps[g.cur].answer
          \/ g.resp = "ioerror" /\ ps[g.cur].answer = OK

Types ==
  /\ index \in Nat
  /\ posts \in Seq(PostRecord)
  /\ pending \in 1 .. Len(posts) /\ ~posts[pending].written
  /\ caller \in [Callers -> CallerRecord(Len(posts))]

Known ==
  /\ \A p \in 1 .. Len(posts) : PostOK(posts[p])
  /\ \A k \in Callers : CallerOK(caller[k], posts)

OwnWrites ==
  \A k, l \in Callers :
    k # l /\ Writing(caller[k]) /\ Writing(caller[l]) => caller[k].cur # caller[l].cur

IInv == Types /\ Known /\ OwnWrites /\ NumberedInOrder /\ OwnPosts

-----------------------------------------------------------------------------
(* A function on 1 .. n is a sequence of length n.                          *)
LEMMA FunctionIsSeq ==
  ASSUME NEW S, NEW n \in Nat, NEW f \in [1 .. n -> S]
  PROVE  f \in Seq(S) /\ Len(f) = n
  OBVIOUS

(* The posts, as a function from their numbers.                             *)
LEMMA PostFacts ==
  ASSUME Types
  PROVE  /\ Len(posts) \in Nat /\ DOMAIN posts = 1 .. Len(posts)
         /\ posts \in [1 .. Len(posts) -> PostRecord]
  BY LenProperties DEF Types

(* The invariant says what the properties do.                               *)
LEMMA Consequences == IInv => TypeOK /\ EachCallItsNumber /\ ServerHasTheLastWord
  <1> SUFFICES ASSUME IInv PROVE TypeOK /\ EachCallItsNumber /\ ServerHasTheLastWord
    OBVIOUS
  <1>1. TypeOK
    BY PostFacts DEF IInv, Types, TypeOK, PostRecord, CallerRecord
  <1>2. EachCallItsNumber
    BY DEF IInv, EachCallItsNumber
  <1>3. ServerHasTheLastWord
    BY DEF IInv, Known, CallerOK, ServerHasTheLastWord, Post
  <1> QED BY <1>1, <1>2, <1>3

(* NewTricklePublisher connects the first post.                             *)
LEMMA Initial == Init => IInv
  <1> SUFFICES ASSUME Init PROVE IInv
    OBVIOUS
  <1> USE PublisherAssumption DEF Init, NewPost, Idle, Nil, Empty, OK
  <1>1. /\ NewPost(0, FALSE) \in PostRecord
        /\ Len(posts) = 1 /\ posts[1] = NewPost(0, FALSE) /\ DOMAIN posts = {1}
    BY DEF PostRecord
  <1>2. posts \in Seq(PostRecord)
    BY <1>1
  <1>3. Types
    BY <1>1, <1>2 DEF Types, CallerRecord
  <1>4. Known
    BY <1>1 DEF Known, PostOK, CallerOK, Writing
  <1>5. OwnWrites
    BY DEF OwnWrites, Writing
  <1>6. OwnPosts
    BY DEF OwnPosts
  <1>7. NumberedInOrder
    <2>1. FirstPosts = {1}
      BY <1>1 DEF FirstPosts
    <2>2. {posts[p].index : p \in FirstPosts} = 0 .. index - 1
      BY <1>1, <2>1
    <2> QED BY <1>1, <2>1, <2>2 DEF NumberedInOrder
  <1> QED BY <1>3, <1>4, <1>5, <1>6, <1>7 DEF IInv

-----------------------------------------------------------------------------
(* What steps leave alone                                                   *)

(* No step unmakes a post, renumbers it or takes back its answer.           *)
Evolves ==
  /\ posts' \in Seq(PostRecord) /\ Len(posts) <= Len(posts')
  /\ \A p \in 1 .. Len(posts) :
       /\ posts'[p].index = posts[p].index /\ posts'[p].again = posts[p].again
       /\ posts[p].written => posts'[p].written
       /\ posts[p].answer # "none" => posts'[p].answer = posts[p].answer

LEMMA PostChanges ==
  ASSUME Types, NEW p \in 1 .. Len(posts), NEW q \in PostRecord, posts' = [posts EXCEPT ![p] = q],
         q.index = posts[p].index, q.again = posts[p].again,
         posts[p].written => q.written, posts[p].answer # "none" => q.answer = posts[p].answer
  PROVE  /\ Evolves /\ Len(posts') = Len(posts) /\ posts'[p] = q
         /\ \A r \in 1 .. Len(posts) : r # p => posts'[r] = posts[r]
  <1>1. posts' \in [1 .. Len(posts) -> PostRecord]
    BY PostFacts
  <1>2. posts' \in Seq(PostRecord) /\ Len(posts') = Len(posts)
    BY <1>1, FunctionIsSeq, PostFacts
  <1> QED BY <1>2, PostFacts DEF Evolves

LEMMA PostAppended ==
  ASSUME Types, NEW q \in PostRecord, posts' = Append(posts, q)
  PROVE  /\ Evolves /\ Len(posts') = Len(posts) + 1 /\ posts'[Len(posts) + 1] = q
         /\ \A r \in 1 .. Len(posts) : posts'[r] = posts[r]
  BY AppendProperties, PostFacts DEF Evolves, Types

LEMMA PostsUnchanged ==
  ASSUME Types, posts' = posts
  PROVE  Evolves
  BY PostFacts DEF Evolves, Types

(* A caller's knowledge outlives the steps of others.                       *)
LEMMA CallerKept ==
  ASSUME Types, Evolves, NEW g \in CallerRecord(Len(posts)), CallerOK(g, posts),
         g.pc \in {"checking", "copying"} => posts'[g.cur].body = posts[g.cur].body
  PROVE  g \in CallerRecord(Len(posts')) /\ CallerOK(g, posts')
  <1>1. Len(posts) \in Nat /\ Len(posts') \in Nat /\ Len(posts) <= Len(posts')
    BY PostFacts, LenProperties DEF Evolves
  <1>2. g.cur \in 0 .. Len(posts) /\ (g.cur # Nil => g.cur \in 1 .. Len(posts))
    BY <1>1 DEF CallerRecord, Nil
  <1>3. g \in CallerRecord(Len(posts'))
    BY <1>1 DEF CallerRecord
  <1>4. CallerOK(g, posts')
    BY <1>2 DEF CallerOK, Evolves, Writing, OK
  <1> QED BY <1>3, <1>4

(* One caller moves.                                                        *)
LEMMA CallerMoves ==
  ASSUME Types, Known, Evolves, NEW k \in Callers, NEW g \in CallerRecord(Len(posts')),
         caller' = [caller EXCEPT ![k] = g], CallerOK(g, posts'),
         \A l \in Callers \ {k} : caller[l].pc \in {"checking", "copying"} =>
           posts'[caller[l].cur].body = posts[caller[l].cur].body
  PROVE  /\ caller' \in [Callers -> CallerRecord(Len(posts'))]
         /\ \A l \in Callers : CallerOK(caller'[l], posts')
  <1>1. caller \in [Callers -> CallerRecord(Len(posts))]
    BY DEF Types
  <1>2. \A l \in Callers \ {k} :
          /\ caller'[l] = caller[l]
          /\ caller[l] \in CallerRecord(Len(posts')) /\ CallerOK(caller[l], posts')
    BY <1>1, CallerKept DEF Known
  <1>3. caller'[k] = g
    BY <1>1
  <1>4. caller' \in [Callers -> CallerRecord(Len(posts'))]
    BY <1>1, <1>2, <1>3
  <1> QED BY <1>2, <1>3, <1>4

(* Nobody moves.                                                            *)
LEMMA CallersKept ==
  ASSUME Types, Known, Evolves, caller' = caller,
         \A p \in 1 .. Len(posts) : posts'[p].body = posts[p].body
  PROVE  /\ caller' \in [Callers -> CallerRecord(Len(posts'))]
         /\ \A l \in Callers : CallerOK(caller'[l], posts')
  <1>1. caller \in [Callers -> CallerRecord(Len(posts))]
    BY DEF Types
  <1>2. \A l \in Callers : caller[l].pc \in {"checking", "copying"} => caller[l].cur \in 1 .. Len(posts)
    BY <1>1, PostFacts DEF Known, CallerOK, CallerRecord, Writing, Nil
  <1>3. \A l \in Callers : caller[l] \in CallerRecord(Len(posts')) /\ CallerOK(caller[l], posts')
    BY <1>1, <1>2, CallerKept DEF Known
  <1> QED BY <1>1, <1>3

(* Only Next uses a number: a post made again is no call's first.           *)
LEMMA NumbersKept ==
  ASSUME Types, NumberedInOrder, Evolves, UNCHANGED <<index, pending>>,
         \A p \in Len(posts) + 1 .. Len(posts') : posts'[p].again
  PROVE  NumberedInOrder'
  <1>1. Len(posts) \in Nat /\ Len(posts') \in Nat /\ DOMAIN posts = 1 .. Len(posts)
        /\ DOMAIN posts' = 1 .. Len(posts') /\ Len(posts) <= Len(posts')
    BY PostFacts, LenProperties DEF Evolves
  <1>2. FirstPosts' = FirstPosts
    BY <1>1 DEF FirstPosts, Evolves
  <1>3. \A p \in FirstPosts : p \in 1 .. Len(posts) /\ posts'[p].index = posts[p].index
    BY <1>1 DEF FirstPosts, Evolves
  <1>4. {posts'[p].index : p \in FirstPosts} = {posts[p].index : p \in FirstPosts}
    BY <1>3
  <1>5. posts'[pending].index = posts[pending].index
    BY DEF Types, Evolves
  <1> QED BY <1>2, <1>3, <1>4, <1>5 DEF NumberedInOrder

(* Only Next hands out a post.                                              *)
LEMMA OwnPostsKept ==
  ASSUME OwnPosts, pending' = pending,
         \A k \in Callers : caller'[k].pc # "idle" => caller[k].pc # "idle" /\ caller'[k].pp = caller[k].pp
  PROVE  OwnPosts'
  BY DEF OwnPosts

(* Only the start of a Write chooses a post to write to.                    *)
LEMMA OwnWritesKept ==
  ASSUME OwnWrites,
         \A k \in Callers : Writing(caller'[k]) => Writing(caller[k]) /\ caller'[k].cur = caller[k].cur
  PROVE  OwnWrites'
  BY DEF OwnWrites, Writing

(* The numbered posts, when the step neither takes nor starts.              *)
LEMMA StepKeeps ==
  ASSUME IInv, Evolves, Len(posts') = Len(posts), UNCHANGED <<index, pending>>,
         ~posts'[pending].written,
         \A p \in 1 .. Len(posts) : PostOK(posts'[p]),
         caller' \in [Callers -> CallerRecord(Len(posts'))],
         \A l \in Callers : CallerOK(caller'[l], posts'),
         \A k \in Callers :
           /\ caller'[k].pc # "idle" => caller[k].pc # "idle" /\ caller'[k].pp = caller[k].pp
           /\ Writing(caller'[k]) => Writing(caller[k]) /\ caller'[k].cur = caller[k].cur
  PROVE  IInv'
  <1>1. Types'
    BY DEF IInv, Types, Evolves
  <1>2. Known'
    BY DEF Known
  <1>3. NumberedInOrder'
    <2>1. \A p \in Len(posts) + 1 .. Len(posts') : posts'[p].again
      BY PostFacts DEF IInv
    <2> QED BY <2>1, NumbersKept DEF IInv
  <1> QED BY <1>1, <1>2, <1>3, OwnPostsKept, OwnWritesKept DEF IInv

-----------------------------------------------------------------------------
(* The steps                                                                *)

(* Where a caller that writes stands.                                       *)
LEMMA CallerFacts ==
  ASSUME Types, Known, NEW k \in Callers
  PROVE  /\ caller \in [Callers -> CallerRecord(Len(posts))]
         /\ caller[k] \in CallerRecord(Len(posts)) /\ CallerOK(caller[k], posts)
         /\ caller[k].pc # "idle" => caller[k].pp \in 1 .. Len(posts)
         /\ caller[k].pc \in {"checking", "copying", "waiting"} =>
              /\ caller[k].cur \in 1 .. Len(posts) /\ caller[k].cur # pending
              /\ posts[caller[k].cur] \in PostRecord /\ PostOK(posts[caller[k].cur])
              /\ posts[caller[k].cur].written
  <1>1. caller \in [Callers -> CallerRecord(Len(posts))] /\ caller[k] \in CallerRecord(Len(posts))
    BY DEF Types
  <1>2. CallerOK(caller[k], posts)
    BY DEF Known
  <1>3. caller[k].pp \in 0 .. Len(posts) /\ caller[k].cur \in 0 .. Len(posts) /\ Len(posts) \in Nat
    BY <1>1, PostFacts DEF CallerRecord
  <1>4. caller[k].pc # "idle" => caller[k].pp \in 1 .. Len(posts)
    BY <1>2, <1>3 DEF CallerOK, Nil
  <1>5. caller[k].pc \in {"checking", "copying", "waiting"} =>
          caller[k].cur \in 1 .. Len(posts) /\ posts[caller[k].cur].written
    BY <1>2, <1>3 DEF CallerOK, Writing, Nil
  <1> QED BY <1>1, <1>2, <1>4, <1>5, PostFacts DEF Types, Known

(* An answer ends a Write, with what the server said.                       *)
LEMMA AnswerStep ==
  ASSUME IInv, NEW k \in Callers, WriteAnsweredBefore(k) \/ WriteAnswered(k)
  PROVE  IInv' /\ Evolves
  <1> DEFINE p == caller[k].cur
             resp == IF WriteAnsweredBefore(k) THEN posts[p].errCh
                     ELSE Verdict(posts[p].errCh, caller[k].ioError)
             g == [caller[k] EXCEPT !.pc = "have", !.resp = resp]
             q == [posts[p] EXCEPT !.errCh = Empty]
  <1>1. Types /\ Known
    BY DEF IInv
  <1>2. /\ caller[k].pc \in {"checking", "waiting"} /\ posts[p].errCh # Empty
        /\ UNCHANGED <<index, pending>>
        /\ posts' = [posts EXCEPT ![p].errCh = Empty]
        /\ caller' = [caller EXCEPT ![k].pc = "have", ![k].resp = resp]
    BY DEF WriteAnsweredBefore, WriteAnswered, Post
  <1>3. /\ p \in 1 .. Len(posts) /\ p # pending /\ posts[p] \in PostRecord /\ PostOK(posts[p])
        /\ caller[k].pp \in 1 .. Len(posts)
    BY <1>1, <1>2, CallerFacts
  <1>4. resp \in Answers \cup {OK, "ioerror"}
        /\ (resp = posts[p].answer \/ (resp = "ioerror" /\ posts[p].answer = OK))
    BY <1>2, <1>3 DEF PostOK, PostRecord, Verdict
  <1> HIDE DEF resp
  <1>5. posts' = [posts EXCEPT ![p] = q] /\ caller' = [caller EXCEPT ![k] = g]
    BY <1>1, <1>2, PostFacts, CallerFacts
  <1>6. q \in PostRecord /\ PostOK(q) /\ q.body = posts[p].body /\ q.written = posts[p].written
        /\ q.index = posts[p].index /\ q.again = posts[p].again /\ q.answer = posts[p].answer
    BY <1>3 DEF PostRecord, PostOK
  <1> HIDE DEF q
  <1>7. /\ Evolves /\ Len(posts') = Len(posts) /\ posts'[p] = q
        /\ \A r \in 1 .. Len(posts) : r # p => posts'[r] = posts[r]
    BY <1>1, <1>3, <1>5, <1>6, PostChanges
  <1>8. g \in CallerRecord(Len(posts')) /\ CallerOK(g, posts')
    <2>1. /\ g \in CallerRecord(Len(posts)) /\ g.pc = "have" /\ g.pp = caller[k].pp /\ g.cur = p
          /\ g.resp = resp
      BY <1>1, <1>4, CallerFacts DEF CallerRecord
    <2>2. p # Nil /\ caller[k].pp # Nil /\ posts'[p].answer = posts[p].answer
      BY <1>3, <1>6, <1>7, PostFacts, <1>1 DEF Nil
    <2> QED BY <1>4, <1>7, <2>1, <2>2 DEF CallerOK, Writing
  <1>9. \A l \in Callers \ {k} : caller[l].pc \in {"checking", "copying"} =>
          posts'[caller[l].cur].body = posts[caller[l].cur].body
    BY <1>1, <1>6, <1>7, CallerFacts
  <1>10. /\ caller' \in [Callers -> CallerRecord(Len(posts'))]
         /\ \A l \in Callers : CallerOK(caller'[l], posts')
    BY <1>1, <1>5, <1>7, <1>8, <1>9, CallerMoves
  <1>11. \A l \in Callers :
           /\ caller'[l].pc # "idle" => caller[l].pc # "idle" /\ caller'[l].pp = caller[l].pp
           /\ Writing(caller'[l]) => Writing(caller[l]) /\ caller'[l].cur = caller[l].cur
    BY <1>1, <1>2, <1>5, CallerFacts DEF Writing, CallerRecord
  <1>12. ~posts'[pending].written /\ \A r \in 1 .. Len(posts) : PostOK(posts'[r])
    BY <1>1, <1>3, <1>6, <1>7 DEF Types, Known
  <1> QED BY <1>2, <1>7, <1>10, <1>11, <1>12, StepKeeps

(* io.Copy takes a chunk, or is done; nobody else writes to that post.      *)
LEMMA CopyStep ==
  ASSUME IInv, NEW k \in Callers, Copy(k) \/ CopyEnds(k)
  PROVE  IInv' /\ Evolves
  <1> DEFINE p == caller[k].cur
  <1>1. Types /\ Known
    BY DEF IInv
  <1>2. caller[k].pc = "copying" /\ UNCHANGED <<index, pending>>
    BY DEF Copy, CopyEnds
  <1>3. /\ p \in 1 .. Len(posts) /\ p # pending /\ posts[p] \in PostRecord /\ PostOK(posts[p])
        /\ posts[p].written /\ caller[k].pp \in 1 .. Len(posts)
        /\ caller[k] \in CallerRecord(Len(posts)) /\ CallerOK(caller[k], posts)
    BY <1>1, <1>2, CallerFacts
  <1>4. /\ posts[p].body = caller[k].sent /\ caller[k].sent <= caller[k].size
        /\ posts[p].body \in 0 .. MaxChunks /\ caller[k].size \in 0 .. MaxChunks
        /\ caller[k].sent \in 0 .. MaxChunks /\ MaxChunks \in Nat
    BY <1>2, <1>3, PublisherAssumption DEF CallerOK, PostRecord, CallerRecord
  <1>5. PICK q \in PostRecord, g \in CallerRecord(Len(posts)) :
          /\ posts' = [posts EXCEPT ![p] = q] /\ caller' = [caller EXCEPT ![k] = g]
          /\ PostOK(q) /\ q.written
          /\ q.index = posts[p].index /\ q.again = posts[p].again /\ q.answer = posts[p].answer
          /\ g.pc \in {"copying", "waiting"} /\ g.pp = caller[k].pp /\ g.cur = p
          /\ g.resp = caller[k].resp
          /\ g.pc = "copying" => g.sent <= g.size /\ q.body = g.sent
    <2>1. CASE Copy(k)
      <3> DEFINE q == [posts[p] EXCEPT !.body = posts[p].body + 1]
                 g == [caller[k] EXCEPT !.sent = caller[k].sent + 1]
      <3>1. posts' = [posts EXCEPT ![p] = q] /\ caller' = [caller EXCEPT ![k] = g]
        BY <1>1, <2>1, PostFacts, CallerFacts DEF Copy
      <3>2. caller[k].sent + 1 <= caller[k].size /\ caller[k].sent + 1 \in 0 .. MaxChunks
        BY <1>4, <2>1 DEF Copy
      <3>3. /\ q \in PostRecord /\ PostOK(q) /\ q.written /\ q.body = caller[k].sent + 1
            /\ q.index = posts[p].index /\ q.again = posts[p].again /\ q.answer = posts[p].answer
        BY <1>3, <1>4, <3>2 DEF PostRecord, PostOK
      <3>4. /\ g \in CallerRecord(Len(posts)) /\ g.pc = "copying" /\ g.pp = caller[k].pp /\ g.cur = p
            /\ g.resp = caller[k].resp /\ g.size = caller[k].size /\ g.sent = caller[k].sent + 1
        BY <1>2, <1>3, <3>2 DEF CallerRecord
      <3> HIDE DEF q, g
      <3> QED BY <3>1, <3>2, <3>3, <3>4
    <2>2. CASE CopyEnds(k)
      <3> DEFINE q == [posts[p] EXCEPT !.ended = TRUE]
                 g == [caller[k] EXCEPT !.pc = "waiting"]
      <3>1. posts' = [posts EXCEPT ![p] = q] /\ caller' = [caller EXCEPT ![k] = g]
        BY <1>1, <2>2, PostFacts, CallerFacts DEF CopyEnds
      <3>2. /\ q \in PostRecord /\ PostOK(q) /\ q.written
            /\ q.index = posts[p].index /\ q.again = posts[p].again /\ q.answer = posts[p].answer
        BY <1>3 DEF PostRecord, PostOK
      <3>3. /\ g \in CallerRecord(Len(posts)) /\ g.pc = "waiting" /\ g.pp = caller[k].pp /\ g.cur = p
            /\ g.resp = caller[k].resp
        BY <1>3 DEF CallerRecord
      <3> HIDE DEF q, g
      <3> QED BY <3>1, <3>2, <3>3
    <2> QED BY <2>1, <2>2
  <1> HIDE DEF p
  <1>6. /\ Evolves /\ Len(posts') = Len(posts) /\ posts'[p] = q
        /\ \A r \in 1 .. Len(posts) : r # p => posts'[r] = posts[r]
    BY <1>1, <1>3, <1>5, PostChanges
  <1>7. g \in CallerRecord(Len(posts')) /\ CallerOK(g, posts')
    <2>1. posts'[p].answer = posts[p].answer /\ posts'[p].written /\ posts'[p] = q /\ p # Nil
      BY <1>1, <1>3, <1>5, <1>6, PostFacts DEF Nil
    <2>2. g.pp # Nil /\ g.pc \in {"copying", "waiting"} /\ g.cur = p
      BY <1>1, <1>3, <1>5, PostFacts DEF Nil
    <2>3. g.resp # "none" =>
            g.resp = posts[p].answer \/ (g.resp = "ioerror" /\ posts[p].answer = OK)
      BY <1>3, <1>5 DEF CallerOK, p
    <2>4. CallerOK(g, posts')
      BY <1>5, <2>1, <2>2, <2>3 DEF CallerOK, Writing
    <2> QED BY <1>5, <1>6, <2>4
  <1>8. \A l \in Callers \ {k} : caller[l].pc \in {"checking", "copying"} =>
           posts'[caller[l].cur].body = posts[caller[l].cur].body
    <2>1. \A l \in Callers \ {k} : Writing(caller[l]) => caller[l].cur # p
      BY <1>2 DEF IInv, OwnWrites, Writing, p
    <2> QED BY <1>1, <1>6, <2>1, CallerFacts DEF Writing
  <1>9. /\ caller' \in [Callers -> CallerRecord(Len(posts'))]
         /\ \A l \in Callers : CallerOK(caller'[l], posts')
    BY <1>1, <1>5, <1>6, <1>7, <1>8, CallerMoves
  <1>10. \A l \in Callers :
           /\ caller'[l].pc # "idle" => caller[l].pc # "idle" /\ caller'[l].pp = caller[l].pp
           /\ Writing(caller'[l]) => Writing(caller[l]) /\ caller'[l].cur = caller[l].cur
    BY <1>1, <1>2, <1>5, CallerFacts DEF Writing, p
  <1>11. ~posts'[pending].written /\ \A r \in 1 .. Len(posts) : PostOK(posts'[r])
    BY <1>1, <1>3, <1>5, <1>6 DEF Types, Known
  <1> QED BY <1>2, <1>6, <1>9, <1>10, <1>11, StepKeeps

(* A caller goes on, fails, closes its post or leaves: no post it writes to *)
(* changes under anybody.                                                   *)
LEMMA CallerAloneStep ==
  ASSUME IInv, NEW k \in Callers, WriteGoesOn(k) \/ CopyFails(k) \/ ClosePost(k) \/ Leave(k)
  PROVE  IInv' /\ Evolves
  <1> DEFINE p == caller[k].pp
             q == [posts[p] EXCEPT !.ended = TRUE]
  <1>1. Types /\ Known
    BY DEF IInv
  <1>2. caller[k].pc \in {"checking", "copying", "have"} /\ UNCHANGED <<index, pending>>
        /\ (WriteGoesOn(k) => caller[k].pc = "checking") /\ (CopyFails(k) => caller[k].pc = "copying")
    BY DEF WriteGoesOn, CopyFails, ClosePost, Leave
  <1>3. p \in 1 .. Len(posts) /\ posts[p] \in PostRecord /\ PostOK(posts[p])
        /\ caller[k] \in CallerRecord(Len(posts)) /\ CallerOK(caller[k], posts)
    BY <1>1, <1>2, CallerFacts, PostFacts DEF Known
  <1>4. PICK g \in CallerRecord(Len(posts)) :
          /\ caller' = [caller EXCEPT ![k] = g] /\ CallerOK(g, posts)
          /\ g.pc # "idle" => caller[k].pc # "idle" /\ g.pp = caller[k].pp
          /\ Writing(g) => Writing(caller[k]) /\ g.cur = caller[k].cur
    <2>1. CASE WriteGoesOn(k)
      <3> DEFINE g == [caller[k] EXCEPT !.pc = "copying"]
      <3>1. caller' = [caller EXCEPT ![k] = g]
        BY <1>1, <2>1, CallerFacts DEF WriteGoesOn
      <3>2. /\ g \in CallerRecord(Len(posts)) /\ g.pc = "copying" /\ g.pp = caller[k].pp
            /\ g.cur = caller[k].cur /\ g.sent = caller[k].sent /\ g.size = caller[k].size
            /\ g.resp = caller[k].resp
        BY <1>3 DEF CallerRecord
      <3> HIDE DEF g
      <3>3. caller[k].size \in Nat
        BY <1>3, PublisherAssumption DEF CallerRecord
      <3>4. CallerOK(g, posts)
        BY <1>2, <1>3, <2>1, <3>2, <3>3 DEF CallerOK, Writing
      <3> QED BY <1>2, <2>1, <3>1, <3>2, <3>4 DEF Writing
    <2>2. CASE CopyFails(k)
      <3> DEFINE g == [caller[k] EXCEPT !.pc = "waiting", !.ioError = TRUE]
      <3>1. caller' = [caller EXCEPT ![k] = g]
        BY <1>1, <2>2, CallerFacts DEF CopyFails
      <3>2. /\ g \in CallerRecord(Len(posts)) /\ g.pc = "waiting" /\ g.pp = caller[k].pp
            /\ g.cur = caller[k].cur /\ g.resp = caller[k].resp
        BY <1>3 DEF CallerRecord
      <3> HIDE DEF g
      <3>3. CallerOK(g, posts)
        BY <1>2, <1>3, <2>2, <3>2 DEF CallerOK, Writing
      <3> QED BY <1>2, <2>2, <3>1, <3>2, <3>3 DEF Writing
    <2>3. CASE ClosePost(k) \/ Leave(k)
      <3>1. caller' = [caller EXCEPT ![k] = Idle]
        BY <2>3 DEF ClosePost, Leave
      <3>2. Idle \in CallerRecord(Len(posts)) /\ Idle.pc = "idle" /\ Idle.resp = "none"
        BY <1>1, PostFacts, PublisherAssumption DEF Idle, CallerRecord, Nil
      <3> QED BY <3>1, <3>2 DEF CallerOK, Writing
    <2> QED BY <2>1, <2>2, <2>3
  <1>5. /\ Evolves /\ Len(posts') = Len(posts)
        /\ \A r \in 1 .. Len(posts) : /\ posts'[r].body = posts[r].body /\ PostOK(posts'[r])
                                      /\ posts'[r].written = posts[r].written
    <2>1. CASE posts' = posts
      BY <1>1, <2>1, PostsUnchanged DEF Known
    <2>2. CASE posts' = [posts EXCEPT ![p].ended = TRUE]
      <3>1. posts' = [posts EXCEPT ![p] = q]
        BY <1>1, <2>2, PostFacts
      <3>2. /\ q \in PostRecord /\ PostOK(q) /\ q.body = posts[p].body /\ q.written = posts[p].written
            /\ q.index = posts[p].index /\ q.again = posts[p].again /\ q.answer = posts[p].answer
        BY <1>3 DEF PostRecord, PostOK
      <3> HIDE DEF q
      <3>3. /\ Evolves /\ Len(posts') = Len(posts) /\ posts'[p] = q
            /\ \A r \in 1 .. Len(posts) : r # p => posts'[r] = posts[r]
        BY <1>1, <1>3, <3>1, <3>2, PostChanges
      <3> QED BY <1>1, <3>2, <3>3 DEF Known
    <2> QED BY <2>1, <2>2 DEF WriteGoesOn, CopyFails, ClosePost, Leave
  <1>6. g.pc \in {"checking", "copying"} => g.cur \in 1 .. Len(posts)
    BY <1>1, <1>4, PostFacts DEF CallerRecord, CallerOK, Writing, Nil
  <1>7. g \in CallerRecord(Len(posts')) /\ CallerOK(g, posts')
    BY <1>1, <1>4, <1>5, <1>6, CallerKept
  <1>8. \A l \in Callers \ {k} : caller[l].pc \in {"checking", "copying"} =>
          posts'[caller[l].cur].body = posts[caller[l].cur].body
    BY <1>1, <1>5, CallerFacts
  <1>9. /\ caller' \in [Callers -> CallerRecord(Len(posts'))]
         /\ \A l \in Callers : CallerOK(caller'[l], posts')
    BY <1>1, <1>4, <1>5, <1>7, <1>8, CallerMoves
  <1>10. \A l \in Callers :
           /\ caller'[l].pc # "idle" => caller[l].pc # "idle" /\ caller'[l].pp = caller[l].pp
           /\ Writing(caller'[l]) => Writing(caller[l]) /\ caller'[l].cur = caller[l].cur
    BY <1>1, <1>4, CallerFacts
  <1>11. ~posts'[pending].written
    BY <1>1, <1>2, <1>5 DEF Types
  <1> QED BY <1>2, <1>5, <1>9, <1>10, <1>11, StepKeeps

(* The server reads of a post, or answers it: it does so once.              *)
LEMMA ServerStep ==
  ASSUME IInv, NEW p \in DOMAIN posts, ServerReads(p) \/ Server(p)
  PROVE  IInv' /\ Evolves
  <1>1. Types /\ Known /\ p \in 1 .. Len(posts)
    BY PostFacts DEF IInv
  <1>2. UNCHANGED <<index, pending, caller>> /\ posts[p].answer = "none"
    BY DEF ServerReads, Server, Accepts, Refuses, Answered
  <1>3. posts[p] \in PostRecord /\ PostOK(posts[p])
    BY <1>1, PostFacts DEF Known
  <1>4. PICK q \in PostRecord :
          /\ posts' = [posts EXCEPT ![p] = q] /\ PostOK(q)
          /\ q.body = posts[p].body /\ q.written = posts[p].written
          /\ q.index = posts[p].index /\ q.again = posts[p].again
    <2>1. CASE ServerReads(p)
      <3> DEFINE q == [posts[p] EXCEPT !.seen = TRUE]
      <3>1. /\ q \in PostRecord /\ PostOK(q) /\ q.body = posts[p].body /\ q.written = posts[p].written
            /\ q.index = posts[p].index /\ q.again = posts[p].again
        BY <1>3 DEF PostRecord, PostOK
      <3>2. posts' = [posts EXCEPT ![p] = q]
        BY <1>1, <2>1, PostFacts DEF ServerReads
      <3> HIDE DEF q
      <3> QED BY <3>1, <3>2
    <2>2. ASSUME NEW a \in Answers \cup {OK}, Answered(p, a)
          PROVE  \E q \in PostRecord :
                   /\ posts' = [posts EXCEPT ![p] = q] /\ PostOK(q)
                   /\ q.body = posts[p].body /\ q.written = posts[p].written
                   /\ q.index = posts[p].index /\ q.again = posts[p].again
      <3> DEFINE q == [posts[p] EXCEPT !.answer = a, !.errCh = a]
      <3>1. /\ q \in PostRecord /\ PostOK(q) /\ q.body = posts[p].body /\ q.written = posts[p].written
            /\ q.index = posts[p].index /\ q.again = posts[p].again
        BY <1>3 DEF PostRecord, PostOK
      <3>2. posts' = [posts EXCEPT ![p] = q]
        BY <1>1, <2>2, PostFacts DEF Answered, Sent
      <3> HIDE DEF q
      <3> QED BY <3>1, <3>2
    <2> QED BY <2>1, <2>2 DEF Server, Accepts, Refuses
  <1>5. /\ Evolves /\ Len(posts') = Len(posts) /\ posts'[p] = q
        /\ \A r \in 1 .. Len(posts) : r # p => posts'[r] = posts[r]
    BY <1>1, <1>2, <1>4, PostChanges
  <1>6. /\ caller' \in [Callers -> CallerRecord(Len(posts'))]
        /\ \A l \in Callers : CallerOK(caller'[l], posts')
    BY <1>1, <1>2, <1>4, <1>5, CallersKept
  <1>7. ~posts'[pending].written /\ \A r \in 1 .. Len(posts) : PostOK(posts'[r])
    BY <1>1, <1>4, <1>5 DEF Types, Known
  <1> QED BY <1>2, <1>5, <1>6, <1>7, StepKeeps

(* Next hands out the pending post, and makes the next one.                 *)
LEMMA TakeStep ==
  ASSUME IInv, NEW k \in Callers, Take(k)
  PROVE  IInv' /\ Evolves
  <1> DEFINE n == NewPost(index, FALSE)
             g == [caller[k] EXCEPT !.pc = "have", !.pp = pending]
  <1>1. Types /\ Known
    BY DEF IInv
  <1>2. /\ caller[k].pc = "idle" /\ posts' = Append(posts, n) /\ index' = index + 1
        /\ pending' = Len(posts) + 1
        /\ caller' = [caller EXCEPT ![k].pc = "have", ![k].pp = pending]
    BY DEF Take, NextPending
  <1>3. index \in Nat /\ Len(posts) \in Nat /\ pending \in 1 .. Len(posts)
    BY <1>1, PostFacts DEF Types
  <1>4. n \in PostRecord /\ PostOK(n) /\ n.index = index /\ ~n.again /\ ~n.written
    BY <1>3, PublisherAssumption DEF NewPost, PostRecord, PostOK, Empty
  <1> HIDE DEF n
  <1>5. /\ Evolves /\ Len(posts') = Len(posts) + 1 /\ posts'[Len(posts) + 1] = n
        /\ \A r \in 1 .. Len(posts) : posts'[r] = posts[r]
    BY <1>1, <1>2, <1>4, PostAppended
  <1>6. caller' = [caller EXCEPT ![k] = g]
    BY <1>1, <1>2, CallerFacts
  <1>7. /\ g \in CallerRecord(Len(posts)) /\ g.pc = "have" /\ g.pp = pending
        /\ g.resp = caller[k].resp /\ g.cur = caller[k].cur /\ CallerOK(caller[k], posts)
    <2>1. caller[k] \in CallerRecord(Len(posts)) /\ CallerOK(caller[k], posts)
      BY <1>1, CallerFacts
    <2>2. pending \in 0 .. Len(posts)
      BY <1>3
    <2> QED BY <2>1, <2>2 DEF CallerRecord
  <1> HIDE DEF g
  <1>8. g \in CallerRecord(Len(posts')) /\ CallerOK(g, posts')
    <2>1. CallerOK(g, posts)
      BY <1>3, <1>7 DEF CallerOK, Writing, Nil
    <2> QED BY <1>1, <1>5, <1>7, <2>1, CallerKept
  <1>9. \A l \in Callers \ {k} : caller[l].pc \in {"checking", "copying"} =>
          posts'[caller[l].cur].body = posts[caller[l].cur].body
    BY <1>1, <1>5, CallerFacts
  <1>10. /\ caller' \in [Callers -> CallerRecord(Len(posts'))]
         /\ \A l \in Callers : CallerOK(caller'[l], posts')
    BY <1>1, <1>5, <1>6, <1>8, <1>9, CallerMoves
  <1>11. caller'[k] = g /\ \A l \in Callers \ {k} : caller'[l] = caller[l]
    BY <1>1, <1>6, CallerFacts
  <1>12. Types'
    BY <1>2, <1>3, <1>4, <1>5, <1>10 DEF Types, Evolves
  <1>13. Known'
    <2>1. \A p \in 1 .. Len(posts') : PostOK(posts'[p])
      BY <1>1, <1>3, <1>4, <1>5 DEF Known
    <2> QED BY <1>10, <2>1 DEF Known
  <1>14. OwnWrites'
    BY <1>7, <1>11 DEF IInv, OwnWrites, Writing
  <1>15. OwnPosts'
    <2>1. \A l \in Callers : caller[l].pc # "idle" => caller[l].pp \in 1 .. Len(posts) /\ caller[l].pp # pending
      BY <1>1, CallerFacts DEF IInv, OwnPosts
    <2>2. pending' \notin 1 .. Len(posts)
      BY <1>2, <1>3
    <2>3. \A l \in Callers : caller'[l].pc # "idle" =>
             /\ caller'[l].pp \in 1 .. Len(posts)
             /\ caller'[l].pp = IF l = k THEN pending ELSE caller[l].pp
      BY <1>3, <1>7, <1>11, <2>1
    <2>4. \A l \in Callers \ {k} : caller'[l].pc # "idle" => caller[l].pc # "idle"
      BY <1>11
    <2>5. \A l, m \in Callers :
            l # m /\ caller'[l].pc # "idle" /\ caller'[m].pc # "idle" => caller'[l].pp # caller'[m].pp
      BY <2>1, <2>3, <2>4 DEF IInv, OwnPosts
    <2> QED BY <2>2, <2>3, <2>5 DEF OwnPosts
  <1>16. NumberedInOrder'
    <2>1. /\ DOMAIN posts = 1 .. Len(posts) /\ DOMAIN posts' = 1 .. Len(posts) + 1
      BY <1>1, <1>3, <1>5, PostFacts, LenProperties DEF Evolves
    <2>2. /\ FirstPosts' = FirstPosts \cup {Len(posts) + 1} /\ FirstPosts \subseteq 1 .. Len(posts)
      BY <1>3, <1>4, <1>5, <2>1 DEF FirstPosts
    <2>3. /\ {posts[p].index : p \in FirstPosts} = 0 .. index - 1
          /\ \A p, q \in FirstPosts : p < q => posts[p].index < posts[q].index
      BY DEF IInv, NumberedInOrder
    <2>4. {posts'[p].index : p \in FirstPosts'} = {posts[p].index : p \in FirstPosts} \cup {index}
      BY <1>4, <1>5, <2>2
    <2>5. (0 .. index - 1) \cup {index} = 0 .. index
      BY <1>3
    <2>6. \A p \in FirstPosts : posts[p].index \in 0 .. index - 1
      BY <2>3
    <2>7. \A p, q \in FirstPosts' : p < q => posts'[p].index < posts'[q].index
      BY <1>3, <1>4, <1>5, <2>2, <2>3, <2>6
    <2>8. {posts'[p].index : p \in FirstPosts'} = 0 .. index' - 1 /\ posts'[pending'].index = index' - 1
      <3>1. index' - 1 = index /\ pending' = Len(posts) + 1
        BY <1>2, <1>3
      <3>2. posts'[pending'].index = index
        BY <1>4, <1>5, <3>1
      <3> QED BY <2>3, <2>4, <2>5, <3>1, <3>2
    <2> QED BY <2>7, <2>8 DEF NumberedInOrder
  <1> QED BY <1>5, <1>12, <1>13, <1>14, <1>15, <1>16 DEF IInv

(* A Write goes to a post nobody has written to.                            *)
LEMMA WriteStartStep ==
  ASSUME IInv, NEW k \in Callers, WriteStart(k)
  PROVE  IInv' /\ Evolves
  <1> DEFINE pp == caller[k].pp
  <1>1. Types /\ Known
    BY DEF IInv
  <1>2. caller[k].pc = "have" /\ UNCHANGED <<index, pending>>
    BY DEF WriteStart, Restored
  <1>3. /\ pp \in 1 .. Len(posts) /\ Len(posts) \in Nat /\ pp # pending
        /\ posts[pp] \in PostRecord /\ PostOK(posts[pp])
        /\ caller[k] \in CallerRecord(Len(posts)) /\ pending \in 1 .. Len(posts)
    BY <1>1, <1>2, CallerFacts, PostFacts DEF Known, IInv, OwnPosts, Types
  <1>4. PICK cur \in 1 .. Len(posts) + 1, q \in PostRecord :
          /\ q.written /\ q.body = 0 /\ PostOK(q) /\ cur # pending
          /\ Evolves /\ Len(posts') \in {Len(posts), Len(posts) + 1} /\ cur <= Len(posts')
          /\ posts'[cur] = q
          /\ \A r \in 1 .. Len(posts) : r # cur => posts'[r] = posts[r]
          /\ cur \in 1 .. Len(posts) => ~posts[cur].written
          /\ Len(posts') = Len(posts) + 1 => cur = Len(posts) + 1 /\ q.again
          /\ \E size \in 1 .. MaxChunks :
               caller' = [caller EXCEPT ![k].pc = "checking", ![k].cur = cur, ![k].size = size,
                                        ![k].sent = 0, ![k].ioError = FALSE, ![k].resp = "none",
                                        ![k].writes = @ + 1]
    <2>1. CASE posts[pp].written
      <3> DEFINE i == posts[pp].index
                 n == NewPost(i, TRUE)
                 q == [n EXCEPT !.written = TRUE]
                 cur == Len(posts) + 1
                 made == Append(posts, n)
      <3>1. /\ n \in PostRecord /\ q \in PostRecord /\ q.written /\ q.body = 0 /\ PostOK(q) /\ q.again
        <4>1. i \in Nat /\ 0 \in 0 .. MaxChunks
          BY <1>3, PublisherAssumption DEF PostRecord
        <4> HIDE DEF i
        <4>2. n \in PostRecord /\ n.body = 0 /\ n.again /\ n.errCh = Empty
          BY <4>1 DEF NewPost, PostRecord, Empty
        <4> HIDE DEF n
        <4> QED BY <4>2 DEF PostRecord, PostOK
      <3>2. posts' = [made EXCEPT ![cur].written = TRUE]
        BY <2>1, Zenon DEF WriteStart
      <3> HIDE DEF n
      <3>3. made \in Seq(PostRecord) /\ Len(made) = cur /\ made[cur] = n
            /\ \A r \in 1 .. Len(posts) : made[r] = posts[r]
        BY <1>1, <3>1, AppendProperties DEF Types
      <3>4. made \in [1 .. cur -> PostRecord]
        BY <3>3, LenProperties
      <3> HIDE DEF made
      <3>5. posts' = [made EXCEPT ![cur] = q]
        BY <1>3, <3>2, <3>3, <3>4
      <3> HIDE DEF q
      <3>6. posts' \in [1 .. cur -> PostRecord] /\ posts'[cur] = q
            /\ \A r \in 1 .. Len(posts) : posts'[r] = posts[r]
        BY <1>3, <3>1, <3>3, <3>4, <3>5
      <3>7. posts' \in Seq(PostRecord) /\ Len(posts') = cur
        BY <1>3, <3>6, FunctionIsSeq
      <3>8. Evolves
        BY <1>3, <3>6, <3>7 DEF Evolves
      <3>9. \E size \in 1 .. MaxChunks :
               caller' = [caller EXCEPT ![k].pc = "checking", ![k].cur = cur, ![k].size = size,
                                        ![k].sent = 0, ![k].ioError = FALSE, ![k].resp = "none",
                                        ![k].writes = @ + 1]
        BY <2>1, Zenon DEF WriteStart
      <3>10. /\ cur \in 1 .. Len(posts) + 1 /\ cur # pending /\ cur \notin 1 .. Len(posts)
             /\ Len(posts') \in {Len(posts), Len(posts) + 1} /\ cur <= Len(posts')
             /\ (Len(posts') = Len(posts) + 1 => cur = Len(posts) + 1)
        BY <1>3, <3>7
      <3> HIDE DEF cur
      <3>11. /\ q.written /\ q.body = 0 /\ PostOK(q) /\ cur # pending
             /\ Evolves /\ Len(posts') \in {Len(posts), Len(posts) + 1} /\ cur <= Len(posts')
             /\ posts'[cur] = q
             /\ \A r \in 1 .. Len(posts) : r # cur => posts'[r] = posts[r]
             /\ cur \in 1 .. Len(posts) => ~posts[cur].written
             /\ Len(posts') = Len(posts) + 1 => cur = Len(posts) + 1 /\ q.again
        BY <3>1, <3>6, <3>8, <3>10
      <3>12. cur \in 1 .. Len(posts) + 1 /\ q \in PostRecord
        BY <3>1, <3>10
      <3> QED BY <3>9, <3>11, <3>12, Zenon
    <2>2. CASE ~posts[pp].written
      <3> DEFINE q == [posts[pp] EXCEPT !.written = TRUE]
      <3>1. /\ q \in PostRecord /\ q.written /\ q.body = 0 /\ PostOK(q)
            /\ q.index = posts[pp].index /\ q.again = posts[pp].again /\ q.answer = posts[pp].answer
        BY <1>3, <2>2 DEF PostRecord, PostOK
      <3>2. posts' = [posts EXCEPT ![pp] = q]
        BY <1>1, <1>3, <2>2, PostFacts DEF WriteStart
      <3> HIDE DEF q
      <3>3. /\ Evolves /\ Len(posts') = Len(posts) /\ posts'[pp] = q
            /\ \A r \in 1 .. Len(posts) : r # pp => posts'[r] = posts[r]
        BY <1>1, <1>3, <3>1, <3>2, PostChanges
      <3>4. \E size \in 1 .. MaxChunks :
               caller' = [caller EXCEPT ![k].pc = "checking", ![k].cur = pp, ![k].size = size,
                                        ![k].sent = 0, ![k].ioError = FALSE, ![k].resp = "none",
                                        ![k].writes = @ + 1]
        BY <2>2 DEF WriteStart
      <3>5. pp \in 1 .. Len(posts) + 1 /\ pp <= Len(posts') /\ Len(posts') # Len(posts) + 1
        BY <1>3, <3>3
      <3> QED BY <1>3, <2>2, <3>1, <3>3, <3>4, <3>5
    <2> QED BY <2>1, <2>2
  <1>5. PICK g \in CallerRecord(Len(posts')) :
          /\ caller' = [caller EXCEPT ![k] = g]
          /\ g.pc = "checking" /\ g.pp = pp /\ g.cur = cur /\ g.sent = 0 /\ g.resp = "none"
    <2>1. PICK size \in 1 .. MaxChunks :
            caller' = [caller EXCEPT ![k].pc = "checking", ![k].cur = cur, ![k].size = size,
                                     ![k].sent = 0, ![k].ioError = FALSE, ![k].resp = "none",
                                     ![k].writes = @ + 1]
      BY <1>4
    <2> DEFINE g == [caller[k] EXCEPT !.pc = "checking", !.cur = cur, !.size = size, !.sent = 0,
                                      !.ioError = FALSE, !.resp = "none", !.writes = @ + 1]
    <2>2. caller' = [caller EXCEPT ![k] = g]
      BY <1>1, <2>1, CallerFacts
    <2>3. caller[k].writes + 1 \in 0 .. MaxWrites /\ size \in 0 .. MaxChunks
      <3>1. caller[k].writes < MaxWrites
        BY DEF WriteStart
      <3> QED BY <1>3, <3>1, PublisherAssumption DEF CallerRecord
    <2>4. cur \in 0 .. Len(posts') /\ 0 \in 0 .. MaxChunks
          /\ \A x \in 0 .. Len(posts) : x \in 0 .. Len(posts')
      BY <1>3, <1>4, PublisherAssumption
    <2>5. /\ g \in CallerRecord(Len(posts')) /\ g.pc = "checking" /\ g.pp = pp /\ g.cur = cur
          /\ g.sent = 0 /\ g.resp = "none"
      BY <1>3, <2>3, <2>4 DEF CallerRecord
    <2> HIDE DEF g
    <2> QED BY <2>2, <2>5
  <1> HIDE DEF pp
  <1>6. CallerOK(g, posts')
    BY <1>3, <1>4, <1>5 DEF CallerOK, Writing, Nil
  <1>7. \A l \in Callers : Writing(caller[l]) => caller[l].cur \in 1 .. Len(posts) /\ caller[l].cur # cur
    BY <1>1, <1>4, CallerFacts DEF Writing
  <1>8. \A l \in Callers \ {k} : caller[l].pc \in {"checking", "copying"} =>
          posts'[caller[l].cur].body = posts[caller[l].cur].body
    BY <1>4, <1>7 DEF Writing
  <1>9. /\ caller' \in [Callers -> CallerRecord(Len(posts'))]
        /\ \A l \in Callers : CallerOK(caller'[l], posts')
    BY <1>1, <1>4, <1>5, <1>6, <1>8, CallerMoves
  <1>10. caller'[k] = g /\ \A l \in Callers \ {k} : caller'[l] = caller[l]
    BY <1>1, <1>5, CallerFacts
  <1>11. Types'
    <2>1. ~posts'[pending].written /\ pending \in 1 .. Len(posts')
      BY <1>1, <1>3, <1>4 DEF Types
    <2> QED BY <1>1, <1>2, <1>4, <1>9, <2>1 DEF Types, Evolves
  <1>12. Known'
    <2>1. \A p \in 1 .. Len(posts') : PostOK(posts'[p])
      BY <1>1, <1>3, <1>4 DEF Known
    <2> QED BY <1>9, <2>1 DEF Known
  <1>13. OwnWrites'
    BY <1>5, <1>7, <1>10 DEF IInv, OwnWrites, Writing
  <1>14. OwnPosts'
    <2>1. \A l \in Callers : caller'[l].pc # "idle" => caller[l].pc # "idle" /\ caller'[l].pp = caller[l].pp
      BY <1>2, <1>5, <1>10 DEF pp
    <2> QED BY <1>2, <2>1, OwnPostsKept DEF IInv
  <1>15. NumberedInOrder'
    <2>1. \A p \in Len(posts) + 1 .. Len(posts') : posts'[p].again
      BY <1>3, <1>4
    <2> QED BY <1>1, <1>2, <1>4, <2>1, NumbersKept DEF IInv
  <1> QED BY <1>4, <1>11, <1>12, <1>13, <1>14, <1>15 DEF IInv

-----------------------------------------------------------------------------
(* Every step keeps the invariant.                                          *)
LEMMA Step == IInv /\ [Next]_vars => IInv' /\ Evolves
  <1> SUFFICES ASSUME IInv, [Next]_vars PROVE IInv' /\ Evolves
    OBVIOUS
  <1>1. CASE UNCHANGED vars
    <2>1. IInv'
      BY <1>1 DEF vars, IInv, Types, Known, OwnWrites, NumberedInOrder, FirstPosts, OwnPosts
    <2>2. Evolves
      BY <1>1, PostsUnchanged DEF vars, IInv
    <2> QED BY <2>1, <2>2
  <1>2. ASSUME NEW k \in Callers, Take(k)
        PROVE  IInv' /\ Evolves
    BY <1>2, TakeStep
  <1>3. ASSUME NEW k \in Callers, WriteStart(k)
        PROVE  IInv' /\ Evolves
    BY <1>3, WriteStartStep
  <1>4. ASSUME NEW k \in Callers, WriteStep(k)
        PROVE  IInv' /\ Evolves
    BY <1>4, AnswerStep, CopyStep, CallerAloneStep DEF WriteStep
  <1>5. ASSUME NEW k \in Callers, ClosePost(k) \/ Leave(k)
        PROVE  IInv' /\ Evolves
    BY <1>5, CallerAloneStep
  <1>6. ASSUME NEW p \in DOMAIN posts, ServerReads(p) \/ Server(p)
        PROVE  IInv' /\ Evolves
    BY <1>6, ServerStep
  <1> QED BY <1>1, <1>2, <1>3, <1>4, <1>5, <1>6 DEF Next

(* TricklePublisher's fields, its posts and its callers have their types,   *)
(* and the post connected ahead was never written to.                       *)
THEOREM TypeCorrect == Spec => []TypeOK
  BY Initial, Step, Consequences, PTL DEF Spec

(* Next (trickle_publisher.go) gives every call a number, in order and      *)
(* without a gap, and a post nobody else has, whatever reconnect does to    *)
(* the publisher's index meanwhile.                                         *)
THEOREM NumbersWithoutGaps == Spec => []EachCallItsNumber
  BY Initial, Step, Consequences, PTL DEF Spec

(* pendingPost.Write returns what the server answered to the POST it wrote  *)
(* to, or the error of the pipe when that answer was 200.                   *)
THEOREM AnswersReachTheWriter == Spec => []ServerHasTheLastWord
  BY Initial, Step, Consequences, PTL DEF Spec

(* A post keeps its number and, once the server answered it, that answer:   *)
(* neither a reconnect (Write, Next) nor a Close of another caller changes  *)
(* what the caller that wrote it is told.                                   *)
THEOREM AnswersAreFinal == Spec => [][Evolves]_vars
  <1>1. IInv /\ [Next]_vars => [Evolves]_vars
    BY Step
  <1> QED BY <1>1, Initial, Step, PTL DEF Spec

-----------------------------------------------------------------------------
(***************************************************************************)
(* SegmentPoster, publisher-mediamtx's use of the publisher, for any        *)
(* maximum of segments in flight and any number of segments, of chunks and  *)
(* of retries.                                                              *)
(*                                                                         *)
(* The counters tell the number of running goroutines because a goroutine   *)
(* counts as running from the step that adds one to segmentCount until the  *)
(* step that adds one to completeCount; for that, the segments taken are    *)
(* exactly 1 .. segmentCount.  A body is the segment from its first byte    *)
(* because a goroutine that is writing has sent all it has read, and one    *)
(* that is about to write has read nothing.  What one goroutine does leaves *)
(* the others alone, so these are facts about one of them at a time (Good). *)
(***************************************************************************)

(* The segments that have begun are the first ones.                         *)
Begun == \A s \in Jobs : job[s].pc = "none" <=> s > segmentCount

(* What is so of every goroutine.                                           *)
Good(j) ==
  /\ j.pc \in {"none", "begun", "polling"} => j.pos = 0
  /\ j.pc = "writing" => Len(j.body) = j.pos
  /\ j.pc \in {"none", "begun"} => j.number = "none"
  /\ j.pc \in {"ending", "done"} => j.number # "open"
  /\ j.body = [k \in 1 .. Len(j.body) |-> k]

PosterInv ==
  /\ PosterTypeOK
  /\ Begun
  /\ \A s \in Jobs : Good(job[s])
  /\ InFlightBounded

-----------------------------------------------------------------------------
(* The next chunk after the first n makes the first n + 1.                  *)
LEMMA IdentityExtends ==
  ASSUME NEW c \in Nat, NEW b \in Seq(1 .. c), b = [k \in 1 .. Len(b) |-> k],
         Len(b) + 1 \in 1 .. c
  PROVE  /\ Append(b, Len(b) + 1) \in Seq(1 .. c)
         /\ Len(Append(b, Len(b) + 1)) = Len(b) + 1
         /\ Append(b, Len(b) + 1) = [k \in 1 .. Len(b) + 1 |-> k]
  <1> DEFINE n == Len(b)
             a == Append(b, n + 1)
  <1>1. n \in Nat
    BY LenProperties
  <1>2. /\ a \in Seq(1 .. c) /\ Len(a) = n + 1
        /\ \A i \in 1 .. n : a[i] = b[i]
        /\ a[n + 1] = n + 1
    BY AppendProperties
  <1>3. a = [k \in 1 .. n + 1 |-> a[k]]
    BY <1>2, LenProperties
  <1>4. \A k \in 1 .. n + 1 : a[k] = k
    BY <1>1, <1>2
  <1> HIDE DEF a
  <1>5. a = [k \in 1 .. n + 1 |-> k]
    BY <1>3, <1>4
  <1> QED BY <1>2, <1>5 DEF a

(* There are finitely many goroutines.                                      *)
LEMMA RunningFinite == IsFiniteSet(Running)
  <1>1. IsFiniteSet(Jobs)
    BY FS_Interval, PosterAssumption DEF Jobs
  <1> QED BY <1>1, FS_Subset DEF Running

(* In the first state nothing has begun.                                    *)
LEMMA PosterInitial == PosterInit => PosterInv
  <1> SUFFICES ASSUME PosterInit PROVE PosterInv
    OBVIOUS
  <1> USE PosterAssumption
  <1>1. \A s \in Jobs : job[s] = NewJob
    BY DEF PosterInit
  <1>2. << >> \in Seq(1 .. Chunks) /\ Len(<< >>) = 0
    OBVIOUS
  <1>3. NewJob \in JobType
    BY <1>2 DEF NewJob, JobType, PosterInit
  <1>4. PosterTypeOK
    BY <1>3 DEF PosterInit, PosterTypeOK, NewJob
  <1>5. Running = {}
    BY <1>1 DEF NewJob, Running
  <1>6. InFlightBounded
    BY <1>5, FS_EmptySet DEF PosterInit, InFlightBounded
  <1>7. Begun
    BY <1>1 DEF PosterInit, NewJob, Begun, Jobs
  <1>8. << >> = [k \in 1 .. 0 |-> k]
    OBVIOUS
  <1>9. Good(NewJob)
    BY <1>2, <1>8 DEF NewJob, Good
  <1> QED BY <1>1, <1>4, <1>6, <1>7, <1>9 DEF PosterInv

(* The types and the facts about each goroutine survive a step of one of    *)
(* them, if they hold of what it becomes.                                   *)
LEMMA OneMoves ==
  ASSUME PosterInv, NEW s \in Jobs, NEW j, j \in JobType, Good(j),
         job' = [job EXCEPT ![s] = j]
  PROVE  /\ job' \in [Jobs -> JobType]
         /\ \A r \in Jobs : Good(job'[r])
         /\ \A r \in Jobs : job'[r].pc = "polling" => job'[r].pos = 0
         /\ \A r \in Jobs : job'[r] = IF r = s THEN j ELSE job[r]
  <1>1. job \in [Jobs -> JobType]
    BY DEF PosterInv, PosterTypeOK
  <1>2. \A r \in Jobs : job'[r] = IF r = s THEN j ELSE job[r]
    BY <1>1
  <1>3. job' \in [Jobs -> JobType]
    BY <1>1
  <1>4. \A r \in Jobs : Good(job'[r])
    BY <1>2 DEF PosterInv
  <1> QED BY <1>2, <1>3, <1>4 DEF Good

(* A step of a running goroutine that goes on running leaves the counts.    *)
LEMMA GoesOn ==
  ASSUME PosterInv, NEW s \in Jobs, NEW j, j \in JobType, Good(j),
         job' = [job EXCEPT ![s] = j],
         job[s].pc \notin {"none", "done"}, j.pc \notin {"none", "done"},
         UNCHANGED <<segmentCount, completeCount>>
  PROVE  PosterInv'
  <1>1. \A r \in Jobs : job'[r] = IF r = s THEN j ELSE job[r]
    BY OneMoves
  <1>2. Running' = Running
    BY <1>1 DEF Running
  <1>3. InFlightBounded'
    BY <1>2 DEF InFlightBounded, PosterInv
  <1>4. Begun'
    BY <1>1 DEF Begun, PosterInv
  <1>5. PosterTypeOK'
    BY OneMoves DEF PosterTypeOK, PosterInv
  <1> QED BY <1>3, <1>4, <1>5, OneMoves DEF PosterInv

-----------------------------------------------------------------------------
(* NewSegment keeps the count of running goroutines within the maximum.     *)
LEMMA TakeSegmentStep ==
  ASSUME PosterInv, NEW s \in Jobs, BeginSegment(s)
  PROVE  PosterInv'
  <1> USE PosterAssumption
  <1> DEFINE j == [job[s] EXCEPT !.pc = "begun"]
  <1>1. job[s] \in JobType /\ Good(job[s]) /\ job[s].pc = "none"
    BY DEF PosterInv, PosterTypeOK, Begun, BeginSegment, Jobs
  <1>2. job' = [job EXCEPT ![s] = j]
    BY DEF BeginSegment
  <1>3. j \in JobType /\ Good(j) /\ j.pc = "begun"
    BY <1>1, <1>2 DEF JobType, Good
  <1> HIDE DEF j
  <1>4. /\ job' \in [Jobs -> JobType]
        /\ \A r \in Jobs : Good(job'[r])
        /\ \A r \in Jobs : job'[r].pc = "polling" => job'[r].pos = 0
        /\ \A r \in Jobs : job'[r] = IF r = s THEN j ELSE job[r]
    BY <1>2, <1>3, OneMoves
  <1>5. s \notin Running /\ Running' = Running \cup {s}
    BY <1>1, <1>3, <1>4 DEF Running
  <1>6. Cardinality(Running') = Cardinality(Running) + 1
    BY <1>5, RunningFinite, FS_AddElement
  <1>7. segmentCount \in Nat /\ completeCount \in 0 .. segmentCount
    BY DEF PosterInv, PosterTypeOK
  <1>8. InFlightBounded'
    BY <1>6, <1>7 DEF InFlightBounded, BeginSegment, AtMax, PosterInv
  <1>9. Begun'
    BY <1>3, <1>4, <1>7 DEF Begun, BeginSegment, PosterInv, Jobs
  <1>10. PosterTypeOK'
    BY <1>2, <1>4, <1>7 DEF PosterTypeOK, BeginSegment, Jobs
  <1> QED BY <1>4, <1>8, <1>9, <1>10 DEF PosterInv

(* However a goroutine ends, its place in flight is given back.             *)
LEMMA EndSegmentStep ==
  ASSUME PosterInv, NEW s \in Jobs, EndSegment(s)
  PROVE  PosterInv'
  <1> USE PosterAssumption
  <1> DEFINE j == [job[s] EXCEPT !.pc = "done"]
  <1>1. job[s] \in JobType /\ Good(job[s]) /\ job[s].pc = "ending"
    BY DEF PosterInv, PosterTypeOK, EndSegment
  <1>2. job' = [job EXCEPT ![s] = j]
    BY DEF EndSegment
  <1>3. j \in JobType /\ Good(j) /\ j.pc = "done"
    BY <1>1, <1>2 DEF JobType, Good
  <1> HIDE DEF j
  <1>4. /\ job' \in [Jobs -> JobType]
        /\ \A r \in Jobs : Good(job'[r])
        /\ \A r \in Jobs : job'[r].pc = "polling" => job'[r].pos = 0
        /\ \A r \in Jobs : job'[r] = IF r = s THEN j ELSE job[r]
    BY <1>2, <1>3, OneMoves
  <1>5. s \in Running /\ Running' = Running \ {s}
    BY <1>1, <1>3, <1>4 DEF Running
  <1>6. Cardinality(Running') = Cardinality(Running) - 1
    BY <1>5, RunningFinite, FS_RemoveElement
  <1>7. Cardinality(Running) \in Nat \ {0}
    BY <1>5, RunningFinite, FS_EmptySet, FS_CardinalityType
  <1>8. segmentCount \in 0 .. MaxSegments /\ completeCount \in 0 .. segmentCount
    BY DEF PosterInv, PosterTypeOK
  <1>9. completeCount + 1 <= segmentCount
    BY <1>7, <1>8 DEF InFlightBounded, PosterInv
  <1>10. InFlightBounded'
    BY <1>6, <1>7, <1>8 DEF InFlightBounded, EndSegment, PosterInv
  <1>11. Begun'
    BY <1>1, <1>3, <1>4 DEF Begun, EndSegment, PosterInv
  <1>12. PosterTypeOK'
    BY <1>2, <1>4, <1>8, <1>9 DEF PosterTypeOK, EndSegment
  <1> QED BY <1>4, <1>10, <1>11, <1>12 DEF PosterInv

(* A goroutine that gets a number has it to settle.                        *)
LEMMA TakeNumberStep ==
  ASSUME PosterInv, NEW s \in Jobs, TakeNumber(s)
  PROVE  PosterInv'
  <1> DEFINE j == [job[s] EXCEPT !.pc = "polling", !.number = "open"]
  <1>1. job[s] \in JobType /\ Good(job[s]) /\ job[s].pc = "begun"
    BY DEF PosterInv, PosterTypeOK, TakeNumber
  <1>2. job' = [job EXCEPT ![s] = j] /\ UNCHANGED <<segmentCount, completeCount>>
    BY DEF TakeNumber
  <1>3. j \in JobType /\ Good(j) /\ j.pc \notin {"none", "done"}
    BY <1>1, <1>2, PosterAssumption DEF JobType, Good, TakeNumber
  <1> HIDE DEF j
  <1> QED BY <1>1, <1>2, <1>3, GoesOn

(* A goroutine without a number has nothing to settle.                     *)
LEMMA NextFailsStep ==
  ASSUME PosterInv, NEW s \in Jobs, NextFails(s)
  PROVE  PosterInv'
  <1> DEFINE j == [job[s] EXCEPT !.pc = "ending"]
  <1>1. job[s] \in JobType /\ Good(job[s]) /\ job[s].pc = "begun"
    BY DEF PosterInv, PosterTypeOK, NextFails
  <1>2. job' = [job EXCEPT ![s] = j] /\ UNCHANGED <<segmentCount, completeCount>>
    BY DEF NextFails
  <1>3. j \in JobType /\ Good(j) /\ j.pc \notin {"none", "done"}
    BY <1>1, <1>2, PosterAssumption DEF JobType, Good, NextFails
  <1> HIDE DEF j
  <1> QED BY <1>1, <1>2, <1>3, GoesOn

(* An outdated segment closes its number.                                  *)
LEMMA SkipStep ==
  ASSUME PosterInv, NEW s \in Jobs, Skip(s)
  PROVE  PosterInv'
  <1> DEFINE j == [job[s] EXCEPT !.pc = "ending", !.number = "closed"]
  <1>1. job[s] \in JobType /\ Good(job[s]) /\ job[s].pc = "polling"
    BY DEF PosterInv, PosterTypeOK, Skip
  <1>2. job' = [job EXCEPT ![s] = j] /\ UNCHANGED <<segmentCount, completeCount>>
    BY DEF Skip, CloseWriter
  <1>3. j \in JobType /\ Good(j) /\ j.pc \notin {"none", "done"}
    BY <1>1, <1>2, PosterAssumption DEF JobType, Good, Skip, CloseWriter
  <1> HIDE DEF j
  <1> QED BY <1>1, <1>2, <1>3, GoesOn

(* A Write starts with nothing read and nothing sent.                      *)
LEMMA StartWriteStep ==
  ASSUME PosterInv, NEW s \in Jobs, StartWrite(s)
  PROVE  PosterInv'
  <1> DEFINE w == job[s].writes + 1
             j == [job[s] EXCEPT !.pc = "writing", !.writes = w, !.body = << >>]
  <1>1. job[s] \in JobType /\ Good(job[s]) /\ job[s].pc = "polling"
    BY DEF PosterInv, PosterTypeOK, StartWrite
  <1>2. job' = [job EXCEPT ![s] = j] /\ UNCHANGED <<segmentCount, completeCount>>
    BY DEF StartWrite
  <1>3. w \in 0 .. MaxTries
    <2>1. job[s].writes \in 0 .. MaxTries /\ MaxTries \in Nat
      BY <1>1, PosterAssumption DEF JobType
    <2>2. job[s].writes < MaxTries
      BY DEF StartWrite
    <2> QED BY <2>1, <2>2
  <1> HIDE DEF w
  <1>4. << >> \in Seq(1 .. Chunks) /\ Len(<< >>) = 0 /\ << >> = [k \in 1 .. 0 |-> k]
    OBVIOUS
  <1>5. j \in JobType
    BY <1>1, <1>3, <1>4 DEF JobType
  <1>6. j.pc = "writing" /\ j.pos = 0 /\ j.body = << >>
    BY <1>1 DEF JobType, Good
  <1>7. Good(j)
    BY <1>4, <1>6 DEF Good
  <1> HIDE DEF j
  <1> QED BY <1>1, <1>2, <1>5, <1>6, <1>7, GoesOn

(* A chunk that is read is sent after those before it.                     *)
LEMMA CopySegmentStep ==
  ASSUME PosterInv, NEW s \in Jobs, CopySegment(s)
  PROVE  PosterInv'
  <1> DEFINE p == job[s].pos + 1
             a == Append(job[s].body, p)
             j == [job[s] EXCEPT !.pos = p, !.body = a]
  <1>1. job[s] \in JobType /\ Good(job[s]) /\ job[s].pc = "writing"
    BY DEF PosterInv, PosterTypeOK, CopySegment
  <1>2. job' = [job EXCEPT ![s] = j] /\ UNCHANGED <<segmentCount, completeCount>>
    BY DEF CopySegment
  <1>3. /\ job[s].body \in Seq(1 .. Chunks)
        /\ job[s].body = [k \in 1 .. Len(job[s].body) |-> k]
        /\ p = Len(job[s].body) + 1
        /\ p \in 1 .. Chunks
        /\ p \in 0 .. Chunks
    <2>1. /\ job[s].pos \in 0 .. Chunks
          /\ job[s].body \in Seq(1 .. Chunks)
          /\ Chunks \in Nat
      BY <1>1, PosterAssumption DEF JobType
    <2>2. job[s].pos < Chunks
      BY DEF CopySegment
    <2>3. /\ Len(job[s].body) = job[s].pos
          /\ job[s].body = [k \in 1 .. Len(job[s].body) |-> k]
      BY <1>1 DEF Good
    <2>4. p \in 1 .. Chunks /\ p \in 0 .. Chunks
      BY <2>1, <2>2
    <2> QED BY <2>1, <2>3, <2>4
  <1> HIDE DEF p
  <1>4. a \in Seq(1 .. Chunks) /\ Len(a) = p /\ a = [k \in 1 .. p |-> k]
    <2>1. Chunks \in Nat
      BY PosterAssumption
    <2> QED BY <1>3, <2>1, IdentityExtends
  <1> HIDE DEF a
  <1>5. j \in JobType
    BY <1>1, <1>3, <1>4 DEF JobType
  <1>6. j.pc = "writing" /\ j.pos = p /\ j.body = a
    BY <1>1 DEF JobType
  <1>7. Good(j)
    BY <1>4, <1>6 DEF Good
  <1> HIDE DEF j
  <1> QED BY <1>1, <1>2, <1>5, <1>6, <1>7, GoesOn

(* A Write that succeeds settles its number.                               *)
LEMMA WriteSucceedsStep ==
  ASSUME PosterInv, NEW s \in Jobs, WriteSucceeds(s)
  PROVE  PosterInv'
  <1> DEFINE j == [job[s] EXCEPT !.pc = "ending", !.result = "ok", !.number = "sent"]
  <1>1. job[s] \in JobType /\ Good(job[s]) /\ job[s].pc = "writing"
    BY DEF PosterInv, PosterTypeOK, WriteSucceeds
  <1>2. job' = [job EXCEPT ![s] = j] /\ UNCHANGED <<segmentCount, completeCount>>
    BY DEF WriteSucceeds
  <1>3. j \in JobType /\ Good(j) /\ j.pc \notin {"none", "done"}
    BY <1>1, <1>2, PosterAssumption DEF JobType, Good, WriteSucceeds
  <1> HIDE DEF j
  <1> QED BY <1>1, <1>2, <1>3, GoesOn

(* Without a stream there is no number to settle.                          *)
LEMMA StreamNotFoundStep ==
  ASSUME PosterInv, NEW s \in Jobs, StreamNotFound(s)
  PROVE  PosterInv'
  <1> DEFINE j == [job[s] EXCEPT !.pc = "ending", !.number = "nostream"]
  <1>1. job[s] \in JobType /\ Good(job[s]) /\ job[s].pc = "written"
    BY DEF PosterInv, PosterTypeOK, StreamNotFound
  <1>2. job' = [job EXCEPT ![s] = j] /\ UNCHANGED <<segmentCount, completeCount>>
    BY DEF StreamNotFound
  <1>3. j \in JobType /\ Good(j) /\ j.pc \notin {"none", "done"}
    BY <1>1, <1>2, PosterAssumption DEF JobType, Good, StreamNotFound
  <1> HIDE DEF j
  <1> QED BY <1>1, <1>2, <1>3, GoesOn

(* What was sent in part is closed.                                        *)
LEMMA DropRemainderStep ==
  ASSUME PosterInv, NEW s \in Jobs, DropRemainder(s)
  PROVE  PosterInv'
  <1> DEFINE j == [job[s] EXCEPT !.pc = "ending", !.number = "closed"]
  <1>1. job[s] \in JobType /\ Good(job[s]) /\ job[s].pc = "written"
    BY DEF PosterInv, PosterTypeOK, DropRemainder
  <1>2. job' = [job EXCEPT ![s] = j] /\ UNCHANGED <<segmentCount, completeCount>>
    BY DEF DropRemainder, CloseWriter
  <1>3. j \in JobType /\ Good(j) /\ j.pc \notin {"none", "done"}
    BY <1>1, <1>2, PosterAssumption DEF JobType, Good, DropRemainder, CloseWriter
  <1> HIDE DEF j
  <1> QED BY <1>1, <1>2, <1>3, GoesOn

(* A retry reads from the start.                                           *)
LEMMA RetryStep ==
  ASSUME PosterInv, NEW s \in Jobs, Retry(s)
  PROVE  PosterInv'
  <1> DEFINE j == [job[s] EXCEPT !.pc = "polling", !.pos = Clone(s)]
  <1>1. job[s] \in JobType /\ Good(job[s]) /\ job[s].pc = "written"
    BY DEF PosterInv, PosterTypeOK, Retry
  <1>2. job' = [job EXCEPT ![s] = j] /\ UNCHANGED <<segmentCount, completeCount>>
    BY DEF Retry
  <1>3. Clone(s) = 0 /\ Clone(s) \in 0 .. Chunks
    BY PosterAssumption DEF Clone
  <1>4. j \in JobType
    BY <1>1, <1>3 DEF JobType
  <1>5. j.pc = "polling" /\ j.pos = 0 /\ j.body = job[s].body
    BY <1>1, <1>3 DEF JobType
  <1>6. Good(j)
    BY <1>1, <1>5 DEF Good
  <1> HIDE DEF j
  <1> QED BY <1>1, <1>2, <1>4, <1>5, <1>6, GoesOn

(* A Write may fail with part of the segment read and not sent.             *)
LEMMA WriteFailsStep ==
  ASSUME PosterInv, NEW s \in Jobs, WriteFails(s)
  PROVE  PosterInv'
  <1>1. job[s] \in JobType /\ Good(job[s]) /\ job[s].pc = "writing"
    BY DEF PosterInv, PosterTypeOK, WriteFails
  <1>2. PICK read \in 0 .. 1, why \in {"error", "notfound"} :
          /\ job[s].pos + read <= Chunks
          /\ job' = [job EXCEPT ![s].pc = "written", ![s].pos = @ + read, ![s].result = why]
    BY DEF WriteFails
  <1> DEFINE p == job[s].pos + read
             j == [job[s] EXCEPT !.pc = "written", !.pos = p, !.result = why]
  <1>3. job' = [job EXCEPT ![s] = j] /\ UNCHANGED <<segmentCount, completeCount>>
    BY <1>2 DEF WriteFails
  <1>4. p \in 0 .. Chunks
    <2>1. job[s].pos \in 0 .. Chunks /\ Chunks \in Nat
      BY <1>1, PosterAssumption DEF JobType
    <2>2. job[s].pos + read <= Chunks
      BY <1>2
    <2> QED BY <2>1, <2>2
  <1> HIDE DEF p
  <1>5. j \in JobType
    BY <1>1, <1>4 DEF JobType
  <1>6. j.pc = "written" /\ j.body = job[s].body
    BY <1>1 DEF JobType
  <1>7. Good(j)
    BY <1>1, <1>6 DEF Good
  <1> HIDE DEF j
  <1> QED BY <1>1, <1>3, <1>5, <1>6, <1>7, GoesOn

-----------------------------------------------------------------------------
(* Every step keeps the invariant.                                          *)
LEMMA PosterStep ==
  ASSUME PosterInv, [PosterNext]_(posterVars)
  PROVE  PosterInv'
  <1>1. CASE UNCHANGED posterVars
    BY <1>1 DEF posterVars, PosterInv, PosterTypeOK, Begun, InFlightBounded, Running
  <1>2. ASSUME NEW s \in Jobs, BeginSegment(s) \/ Job(s)
        PROVE  PosterInv'
    BY <1>2, TakeSegmentStep, TakeNumberStep, NextFailsStep, SkipStep, StartWriteStep, CopySegmentStep,
       WriteFailsStep, WriteSucceedsStep, StreamNotFoundStep, DropRemainderStep, RetryStep,
       EndSegmentStep
    DEF Job, Write
  <1> QED BY <1>1, <1>2 DEF PosterNext

(* The inductive invariant holds.                                           *)
THEOREM PosterInvariance == PosterSpec => []PosterInv
  <1> QED BY PosterInitial, PosterStep, PTL DEF PosterSpec

(* Counters and goroutines of the poster keep their types, and a goroutine   *)
(* about to write has its reader at the start (NewSegment).                 *)
THEOREM PosterTypeCorrect == PosterSpec => []PosterTypeOK
  <1>1. PosterInv => PosterTypeOK
    BY DEF PosterInv
  <1> QED BY <1>1, PosterInvariance, PTL

(* The two counters of SlowServerChecker tell how many goroutines run, and   *)
(* never more than maxInflightSegments do.                                  *)
THEOREM NeverTooManyInFlight == PosterSpec => []InFlightBounded
  <1>1. PosterInv => InFlightBounded
    BY DEF PosterInv
  <1> QED BY <1>1, PosterInvariance, PTL

(* Every POST of a segment, retried or not, is the segment from its first    *)
(* byte (the retry of NewSegment).                                          *)
THEOREM PostedFromTheStart == PosterSpec => []FromTheStart
  <1>1. PosterInv => FromTheStart
    BY DEF PosterInv, FromTheStart, Good
  <1> QED BY <1>1, PosterInvariance, PTL

(* No goroutine ends with its number neither sent nor closed, unless the    *)
(* stream is gone (NewSegment).                                             *)
THEOREM NumbersAreSettled == PosterSpec => []EveryNumberSettled
  <1>1. PosterInv => EveryNumberSettled
    BY DEF PosterInv, EveryNumberSettled, Good
  <1> QED BY <1>1, PosterInvariance, PTL
=============================================================================
