---------------------------- MODULE ServerProofs ----------------------------
(***************************************************************************)
(* TrickleServer, for any number of channels, users, closers and streams:   *)
(* its types, ClosedIsLeaving and EveryChangeIsTold.                        *)
(*                                                                         *)
(* What is missing in these for induction is what a goroutine carries from  *)
(* one step to the next: the name it holds is still that of its stream      *)
(* (Named).  So whoever closes the stream a name stands for is about to     *)
(* take that very name off the map.  EveryChangeIsTold counts: a step that  *)
(* makes a stream or takes one off the map adds a change on its way, and an *)
(* announcement moves one from those to the entries of the changefeed.      *)
(***************************************************************************)
EXTENDS TrickleServer, FiniteSetTheorems, SequenceTheorems, TLAPS

StreamRecord == [name : Names, closed : BOOLEAN, idle : BOOLEAN]

Change == [kind : {"added", "removed"}, name : Names]

UserRecord(n) ==
  [pc : {"idle", "adding", "using", "done"}, name : Names \cup {Nil}, stream : 0 .. n]

CloserRecord(n) ==
  [pc : {"idle", "found", "closed", "removing", "done"}, name : Names \cup {Nil}, stream : 0 .. n]

SweeperRecord(n) ==
  [pc : {"ticking", "sweeping", "found", "closed", "removing", "stopped"},
   todo : SUBSET (1 .. n), name : Names \cup {Nil}, stream : 0 .. n]

(* A goroutine that holds a name has one of the server's, its stream's.     *)
NamesItsStream(g, m) ==
  /\ g.pc \in {"adding", "using", "found", "closed", "removing"} =>
       /\ g.name \in Names
       /\ g.stream # Nil => m[g.stream].name = g.name
  /\ g.pc \in {"adding", "using", "found", "closed"} => g.stream # Nil

StreamsOK ==
  /\ streams \in [Names -> 0 .. Len(made)]
  /\ \A n \in Names : streams[n] # Nil => made[streams[n]].name = n
UsersOK ==
  user \in [Users -> UserRecord(Len(made))] /\ \A u \in Users : NamesItsStream(user[u], made)
ClosersOK ==
  closer \in [Closers -> CloserRecord(Len(made))] /\ \A c \in Closers : NamesItsStream(closer[c], made)
SweeperOK == sweeper \in SweeperRecord(Len(made)) /\ NamesItsStream(sweeper, made)

Named ==
  /\ made \in Seq(StreamRecord) /\ feed \in Seq(Change)
  /\ StreamsOK /\ UsersOK /\ ClosersOK /\ SweeperOK

IInv == Named /\ ClosedIsLeaving /\ EveryChangeIsTold

-----------------------------------------------------------------------------
(* Types                                                                    *)

(* Named says what TypeOK does, and whose the names are.                    *)
LEMMA NamedTypes == Named => TypeOK
  BY DEF Named, TypeOK, StreamsOK, UsersOK, ClosersOK, SweeperOK, NamesItsStream,
         StreamRecord, Change, UserRecord, CloserRecord, SweeperRecord

(* A function on 1 .. n is a sequence of length n.                          *)
LEMMA FunctionIsSeq ==
  ASSUME NEW S, NEW n \in Nat, NEW f \in [1 .. n -> S]
  PROVE  f \in Seq(S) /\ Len(f) = n
  OBVIOUS

(* The streams made, as a function from their numbers.                      *)
LEMMA MadeFacts ==
  ASSUME Named
  PROVE  /\ made \in Seq(StreamRecord)
         /\ Len(made) \in Nat /\ DOMAIN made = 1 .. Len(made)
         /\ made \in [1 .. Len(made) -> StreamRecord]
         /\ \A s \in 1 .. Len(made) : made[s] \in StreamRecord /\ made[s].name \in Names
  <1>1. made \in Seq(StreamRecord)
    BY DEF Named
  <1>2. Len(made) \in Nat /\ DOMAIN made = 1 .. Len(made) /\ made \in [1 .. Len(made) -> StreamRecord]
    BY <1>1, LenProperties
  <1> QED BY <1>1, <1>2 DEF StreamRecord

(* The step makes no stream, and leaves each one its name.                  *)
SameStreams ==
  /\ made' \in Seq(StreamRecord) /\ Len(made') = Len(made)
  /\ \A s \in 1 .. Len(made) : made'[s].name = made[s].name

(* Closing streams closes them and nothing else.                            *)
LEMMA ClosingStreams ==
  ASSUME Named, NEW S, made' = ClosedStreams(S)
  PROVE  /\ SameStreams
         /\ \A s \in 1 .. Len(made) : made'[s].closed <=> made[s].closed \/ s \in S
  <1>1. made' = [s \in 1 .. Len(made) |-> [made[s] EXCEPT !.closed = made[s].closed \/ s \in S]]
    BY MadeFacts DEF ClosedStreams
  <1>2. \A s \in 1 .. Len(made) :
          /\ [made[s] EXCEPT !.closed = made[s].closed \/ s \in S] \in StreamRecord
          /\ made'[s].name = made[s].name
          /\ made'[s].closed <=> made[s].closed \/ s \in S
    BY <1>1, MadeFacts DEF StreamRecord
  <1>3. made' \in [1 .. Len(made) -> StreamRecord]
    BY <1>1, <1>2
  <1> QED BY <1>2, <1>3, FunctionIsSeq, MadeFacts DEF SameStreams

(* Marking a stream idle or busy neither closes it nor renames it.          *)
LEMMA MarkingIdle ==
  ASSUME Named, NEW s \in 1 .. Len(made), NEW b \in BOOLEAN,
         made' = [made EXCEPT ![s].idle = b]
  PROVE  SameStreams /\ \A t \in 1 .. Len(made) : made'[t].closed = made[t].closed
  <1>1. made' \in [1 .. Len(made) -> StreamRecord]
    BY MadeFacts DEF StreamRecord
  <1>2. \A t \in 1 .. Len(made) : made'[t].name = made[t].name /\ made'[t].closed = made[t].closed
    BY MadeFacts DEF StreamRecord
  <1> QED BY <1>1, <1>2, FunctionIsSeq, MadeFacts DEF SameStreams

(* Leaving the streams as they are is a case of it.                         *)
LEMMA LeavingStreams ==
  ASSUME Named, made' = made
  PROVE  SameStreams
  BY MadeFacts DEF SameStreams

(* What the changefeed is told has the type of a change.                    *)
LEMMA AnnounceType ==
  ASSUME Named, NEW kind \in {"added", "removed"}, NEW n \in Names, Announce(kind, n)
  PROVE  feed' \in Seq(Change)
  <1>1. feed \in Seq(Change) /\ [kind |-> kind, name |-> n] \in Change
    BY DEF Named, Change
  <1> QED BY <1>1, AppendProperties DEF Announce, Publish

(* A goroutine keeps its stream's name.                                     *)
LEMMA NameKept ==
  ASSUME SameStreams, NEW g, g.stream \in 0 .. Len(made), NamesItsStream(g, made)
  PROVE  NamesItsStream(g, made')
  BY DEF SameStreams, NamesItsStream, Nil

(* Those who do nothing keep their types while no stream is made.           *)
LEMMA OthersKept ==
  ASSUME Named, SameStreams
  PROVE  /\ UNCHANGED streams => StreamsOK'
         /\ UNCHANGED user => UsersOK'
         /\ UNCHANGED closer => ClosersOK'
         /\ UNCHANGED sweeper => SweeperOK'
  <1> USE DEF Named, SameStreams, Nil
  <1>1. UNCHANGED streams => StreamsOK'
    BY DEF StreamsOK
  <1>2. UNCHANGED user => UsersOK'
    BY NameKept DEF UsersOK, UserRecord
  <1>3. UNCHANGED closer => ClosersOK'
    BY NameKept DEF ClosersOK, CloserRecord
  <1>4. UNCHANGED sweeper => SweeperOK'
    BY NameKept DEF SweeperOK, SweeperRecord
  <1> QED BY <1>1, <1>2, <1>3, <1>4

(* One user moves.                                                          *)
LEMMA UserMoves ==
  ASSUME Named, SameStreams, NEW u \in Users, NEW g \in UserRecord(Len(made)),
         user' = [user EXCEPT ![u] = g], NamesItsStream(g, made')
  PROVE  UsersOK'
  <1>1. Len(made') = Len(made)
    BY DEF SameStreams
  <1>2. user \in [Users -> UserRecord(Len(made))]
    BY DEF Named, UsersOK
  <1>3. user' \in [Users -> UserRecord(Len(made'))]
    BY <1>1, <1>2
  <1>4. \A v \in Users : NamesItsStream(user[v], made) /\ user[v].stream \in 0 .. Len(made)
    BY <1>2 DEF Named, UsersOK, UserRecord
  <1>5. \A v \in Users : NamesItsStream(user'[v], made')
    BY <1>2, <1>4, NameKept
  <1> QED BY <1>3, <1>5 DEF UsersOK

(* One closer moves.                                                        *)
LEMMA CloserMoves ==
  ASSUME Named, SameStreams, NEW c \in Closers, NEW g \in CloserRecord(Len(made)),
         closer' = [closer EXCEPT ![c] = g], NamesItsStream(g, made')
  PROVE  ClosersOK'
  <1>1. Len(made') = Len(made)
    BY DEF SameStreams
  <1>2. closer \in [Closers -> CloserRecord(Len(made))]
    BY DEF Named, ClosersOK
  <1>3. closer' \in [Closers -> CloserRecord(Len(made'))]
    BY <1>1, <1>2
  <1>4. \A d \in Closers : NamesItsStream(closer[d], made) /\ closer[d].stream \in 0 .. Len(made)
    BY <1>2 DEF Named, ClosersOK, CloserRecord
  <1>5. \A d \in Closers : NamesItsStream(closer'[d], made')
    BY <1>2, <1>4, NameKept
  <1> QED BY <1>3, <1>5 DEF ClosersOK

(* In the first state nobody holds anything.                                *)
LEMMA InitTypes == Init => Named
  <1> SUFFICES ASSUME Init PROVE Named
    OBVIOUS
  <1> USE DEF Init, Nil
  <1>1. << >> \in Seq(StreamRecord) /\ << >> \in Seq(Change) /\ Len(<< >>) = 0
    OBVIOUS
  <1>2. StreamsOK
    BY DEF StreamsOK
  <1>3. UsersOK
    BY DEF UsersOK, UserRecord, NamesItsStream
  <1>4. ClosersOK
    BY DEF ClosersOK, CloserRecord, NamesItsStream
  <1>5. SweeperOK
    BY DEF SweeperOK, SweeperRecord, NamesItsStream
  <1> QED BY <1>1, <1>2, <1>3, <1>4, <1>5 DEF Named

(* A new stream is the one its name stands for.                             *)
LEMMA CreationTypes ==
  ASSUME Named, NEW u \in Users, UserCreates(u)
  PROVE  Named'
  <1> USE DEF Nil
  <1>1. PICK n \in Names :
          /\ streams[n] = Nil
          /\ made' = Append(made, [name |-> n, closed |-> FALSE, idle |-> FALSE])
          /\ streams' = [streams EXCEPT ![n] = Len(made) + 1]
          /\ user' = [user EXCEPT ![u] = [pc |-> "adding", name |-> n, stream |-> Len(made) + 1]]
    BY DEF UserCreates
  <1>2. /\ made' \in Seq(StreamRecord) /\ Len(made') = Len(made) + 1
        /\ \A s \in 1 .. Len(made) : made'[s] = made[s]
        /\ made'[Len(made) + 1].name = n
    BY <1>1, MadeFacts, AppendProperties DEF StreamRecord
  <1>3. Len(made) \in Nat
    BY MadeFacts
  <1>4. \A g : g.stream \in 0 .. Len(made) /\ NamesItsStream(g, made) => NamesItsStream(g, made')
    BY <1>2, <1>3 DEF NamesItsStream
  <1>5. StreamsOK'
    <2>1. streams \in [Names -> 0 .. Len(made)]
      BY DEF Named, StreamsOK
    <2>2. streams' \in [Names -> 0 .. Len(made) + 1]
      BY <1>1, <1>3, <2>1
    <2>3. \A m \in Names : streams'[m] # Nil => made'[streams'[m]].name = m
      BY <1>1, <1>2, <1>3, <2>1 DEF Named, StreamsOK
    <2> QED BY <1>2, <2>2, <2>3 DEF StreamsOK
  <1>6. UsersOK'
    <2>1. user \in [Users -> UserRecord(Len(made))]
      BY DEF Named, UsersOK
    <2>2. user' \in [Users -> UserRecord(Len(made) + 1)]
      BY <1>1, <1>3, <2>1 DEF UserRecord
    <2>3. \A v \in Users : user[v].stream \in 0 .. Len(made) /\ NamesItsStream(user[v], made)
      BY <2>1 DEF Named, UsersOK, UserRecord
    <2>4. \A v \in Users \ {u} : NamesItsStream(user'[v], made')
      BY <1>1, <1>4, <2>1, <2>3
    <2>5. NamesItsStream(user'[u], made')
      BY <1>1, <1>2, <1>3, <2>1 DEF NamesItsStream
    <2> QED BY <1>2, <2>2, <2>4, <2>5 DEF UsersOK
  <1>7. ClosersOK'
    <2>1. closer' = closer
      BY DEF UserCreates
    <2>2. closer \in [Closers -> CloserRecord(Len(made))]
      BY DEF Named, ClosersOK
    <2>3. closer' \in [Closers -> CloserRecord(Len(made) + 1)]
      BY <1>3, <2>1, <2>2 DEF CloserRecord
    <2>4. \A c \in Closers : NamesItsStream(closer'[c], made')
      BY <1>4, <2>1, <2>2 DEF Named, ClosersOK, CloserRecord
    <2> QED BY <1>2, <2>3, <2>4 DEF ClosersOK
  <1>8. SweeperOK'
    <2>1. sweeper' = sweeper /\ sweeper \in SweeperRecord(Len(made))
      BY DEF UserCreates, Named, SweeperOK
    <2>2. sweeper' \in SweeperRecord(Len(made) + 1)
      BY <1>3, <2>1 DEF SweeperRecord
    <2>3. NamesItsStream(sweeper', made')
      BY <1>4, <2>1 DEF Named, SweeperOK, SweeperRecord
    <2> QED BY <1>2, <2>2, <2>3 DEF SweeperOK
  <1>9. feed' \in Seq(Change)
    BY DEF UserCreates, Named
  <1> QED BY <1>2, <1>5, <1>6, <1>7, <1>8, <1>9 DEF Named

(* Taking a name off the map leaves the others.                             *)
LEMMA UnlistTypes ==
  ASSUME Named, NEW n \in Names, Unlist(n), made' = made
  PROVE  StreamsOK'
  BY MadeFacts DEF Named, StreamsOK, Unlist, Without, Nil

(* The other steps of a user.                                               *)
LEMMA UserTypes ==
  ASSUME Named, NEW u \in Users, User(u)
  PROVE  Named'
  <1>1. user \in [Users -> UserRecord(Len(made))] /\ user[u] \in UserRecord(Len(made))
    BY DEF Named, UsersOK
  <1>2. NamesItsStream(user[u], made)
    BY DEF Named, UsersOK
  <1>3. CASE UserFinds(u)
    <2>1. PICK n \in Names :
            /\ streams[n] # Nil
            /\ user' = [user EXCEPT ![u] = [pc |-> "using", name |-> n, stream |-> streams[n]]]
      BY <1>3 DEF UserFinds
    <2> DEFINE g == [pc |-> "using", name |-> n, stream |-> streams[n]]
    <2>2. g \in UserRecord(Len(made)) /\ NamesItsStream(g, made)
      BY <2>1 DEF Named, StreamsOK, UserRecord, NamesItsStream
    <2>3. SameStreams /\ made' = made
      BY <1>3, LeavingStreams DEF UserFinds
    <2> HIDE DEF g
    <2>4. UsersOK'
      BY <2>1, <2>2, <2>3, UserMoves DEF g
    <2> QED BY <1>3, <2>3, <2>4, OthersKept DEF UserFinds, Named, SameStreams
  <1>4. CASE UserRefused(u)
    <2> DEFINE g == [user[u] EXCEPT !.pc = "done"]
    <2>1. g \in UserRecord(Len(made)) /\ NamesItsStream(g, made)
      BY <1>1, <1>2 DEF UserRecord, NamesItsStream
    <2>2. SameStreams /\ made' = made /\ user' = [user EXCEPT ![u] = g]
      BY <1>4, LeavingStreams DEF UserRefused
    <2> HIDE DEF g
    <2>3. UsersOK'
      BY <2>1, <2>2, UserMoves
    <2> QED BY <1>4, <2>2, <2>3, OthersKept DEF UserRefused, Named, SameStreams
  <1>5. CASE UserCreates(u)
    BY <1>5, CreationTypes
  <1>6. CASE UserAnnounces(u)
    <2> DEFINE g == [user[u] EXCEPT !.pc = "using"]
    <2>1. g \in UserRecord(Len(made)) /\ NamesItsStream(g, made) /\ user[u].name \in Names
      BY <1>1, <1>2, <1>6 DEF UserRecord, NamesItsStream, UserAnnounces
    <2>2. SameStreams /\ made' = made /\ user' = [user EXCEPT ![u] = g] /\ feed' \in Seq(Change)
      BY <1>6, <2>1, LeavingStreams, AnnounceType DEF UserAnnounces
    <2> HIDE DEF g
    <2>3. UsersOK'
      BY <2>1, <2>2, UserMoves
    <2> QED BY <1>6, <2>2, <2>3, OthersKept DEF UserAnnounces, Named, SameStreams
  <1>7. CASE UserWrites(u) \/ UserLeaves(u)
    <2> DEFINE g == [pc |-> "idle", name |-> Nil, stream |-> Nil]
    <2>1. user[u].stream \in 1 .. Len(made)
      BY <1>1, <1>2, <1>7, MadeFacts DEF UserRecord, NamesItsStream, UserWrites, UserLeaves, Nil
    <2>2. SameStreams /\ user' = [user EXCEPT ![u] = g]
      BY <1>7, <2>1, MarkingIdle, LeavingStreams DEF UserWrites, UserLeaves
    <2>3. g \in UserRecord(Len(made)) /\ NamesItsStream(g, made')
      BY MadeFacts DEF UserRecord, NamesItsStream, Nil
    <2> HIDE DEF g
    <2>4. UsersOK'
      BY <2>2, <2>3, UserMoves
    <2> QED BY <1>7, <2>2, <2>4, OthersKept DEF UserWrites, UserLeaves, Named, SameStreams
  <1> QED BY <1>3, <1>4, <1>5, <1>6, <1>7 DEF User

(* A closer goes from the stream it finds to the change it tells.           *)
LEMMA CloserTypes ==
  ASSUME Named, NEW c \in Closers, Closer(c)
  PROVE  Named'
  <1>1. closer \in [Closers -> CloserRecord(Len(made))] /\ closer[c] \in CloserRecord(Len(made))
    BY DEF Named, ClosersOK
  <1>2. NamesItsStream(closer[c], made) /\ closer[c].stream \in 0 .. Len(made)
    BY <1>1 DEF Named, ClosersOK, CloserRecord
  <1>3. CASE CloserFinds(c)
    <2>1. PICK n \in Names :
            /\ streams[n] # Nil
            /\ closer' = [closer EXCEPT ![c] = [pc |-> "found", name |-> n, stream |-> streams[n]]]
      BY <1>3 DEF CloserFinds
    <2> DEFINE g == [pc |-> "found", name |-> n, stream |-> streams[n]]
    <2>2. g \in CloserRecord(Len(made)) /\ NamesItsStream(g, made)
      BY <2>1 DEF Named, StreamsOK, CloserRecord, NamesItsStream
    <2>3. SameStreams /\ made' = made
      BY <1>3, LeavingStreams DEF CloserFinds
    <2> HIDE DEF g
    <2>4. ClosersOK'
      BY <2>1, <2>2, <2>3, CloserMoves DEF g
    <2> QED BY <1>3, <2>3, <2>4, OthersKept DEF CloserFinds, Named, SameStreams
  <1>4. CASE CloserCloses(c)
    <2> DEFINE g == [closer[c] EXCEPT !.pc = "closed"]
    <2>1. SameStreams /\ closer' = [closer EXCEPT ![c] = g]
      BY <1>4, ClosingStreams DEF CloserCloses
    <2>2. NamesItsStream(closer[c], made')
      BY <1>2, <2>1, NameKept
    <2>3. g \in CloserRecord(Len(made)) /\ NamesItsStream(g, made')
      BY <1>1, <1>4, <2>2 DEF CloserRecord, NamesItsStream, CloserCloses
    <2> HIDE DEF g
    <2>4. ClosersOK'
      BY <2>1, <2>3, CloserMoves
    <2> QED BY <1>4, <2>1, <2>4, OthersKept DEF CloserCloses, Named, SameStreams
  <1>5. CASE CloserUnlists(c)
    <2> DEFINE g == [closer[c] EXCEPT !.pc = "removing"]
    <2>1. g \in CloserRecord(Len(made)) /\ NamesItsStream(g, made) /\ closer[c].name \in Names
      BY <1>1, <1>2, <1>5 DEF CloserRecord, NamesItsStream, CloserUnlists
    <2>2. SameStreams /\ made' = made /\ closer' = [closer EXCEPT ![c] = g] /\ StreamsOK'
      BY <1>5, <2>1, LeavingStreams, UnlistTypes DEF CloserUnlists
    <2> HIDE DEF g
    <2>3. ClosersOK'
      BY <2>1, <2>2, CloserMoves
    <2> QED BY <1>5, <2>2, <2>3, OthersKept DEF CloserUnlists, Named, SameStreams
  <1>6. CASE CloserAnnounces(c)
    <2> DEFINE g == [closer[c] EXCEPT !.pc = "done"]
    <2>1. g \in CloserRecord(Len(made)) /\ NamesItsStream(g, made) /\ closer[c].name \in Names
      BY <1>1, <1>2, <1>6 DEF CloserRecord, NamesItsStream, CloserAnnounces
    <2>2. SameStreams /\ made' = made /\ closer' = [closer EXCEPT ![c] = g] /\ feed' \in Seq(Change)
      BY <1>6, <2>1, LeavingStreams, AnnounceType DEF CloserAnnounces
    <2> HIDE DEF g
    <2>3. ClosersOK'
      BY <2>1, <2>2, CloserMoves
    <2> QED BY <1>6, <2>2, <2>3, OthersKept DEF CloserAnnounces, Named, SameStreams
  <1> QED BY <1>3, <1>4, <1>5, <1>6 DEF Closer

(* The sweeper goes through the streams it copied, as a closer does.        *)
LEMMA SweepTypes ==
  ASSUME Named, Sweep
  PROVE  Named'
  <1>1. sweeper \in SweeperRecord(Len(made)) /\ NamesItsStream(sweeper, made)
        /\ sweeper.stream \in 0 .. Len(made)
    BY DEF Named, SweeperOK, SweeperRecord
  <1>2. ASSUME made' = made, sweeper' \in SweeperRecord(Len(made)), NamesItsStream(sweeper', made),
               UNCHANGED <<streams, feed, user, closer>>
        PROVE  Named'
    <2>1. SameStreams
      BY <1>2, LeavingStreams
    <2>2. SweeperOK'
      BY <1>2 DEF SweeperOK
    <2> QED BY <1>2, <2>1, <2>2, OthersKept DEF Named, SameStreams
  <1>3. CASE SweepStarts
    <2>1. {streams[n] : n \in Names} \ {Nil} \subseteq 1 .. Len(made)
      BY MadeFacts DEF Named, StreamsOK, Nil
    <2>2. sweeper' \in SweeperRecord(Len(made)) /\ NamesItsStream(sweeper', made)
      BY <1>1, <1>3, <2>1 DEF SweeperRecord, NamesItsStream, SweepStarts
    <2> QED BY <1>2, <1>3, <2>2 DEF SweepStarts
  <1>4. CASE SweepCloses
    <2>1. SameStreams
      BY <1>4, ClosingStreams DEF SweepCloses
    <2>2. NamesItsStream(sweeper, made')
      BY <1>1, <2>1, NameKept
    <2>3. sweeper' \in SweeperRecord(Len(made)) /\ NamesItsStream(sweeper', made')
      BY <1>1, <1>4, <2>2 DEF SweeperRecord, NamesItsStream, SweepCloses
    <2>4. SweeperOK'
      BY <2>1, <2>3 DEF SweeperOK, SameStreams
    <2> QED BY <1>4, <2>1, <2>4, OthersKept DEF SweepCloses, Named, SameStreams
  <1>5. CASE SweepUnlists
    <2>1. sweeper' \in SweeperRecord(Len(made)) /\ NamesItsStream(sweeper', made) /\ sweeper.name \in Names
      BY <1>1, <1>5 DEF SweeperRecord, NamesItsStream, SweepUnlists
    <2>2. SameStreams /\ made' = made /\ StreamsOK'
      BY <1>5, <2>1, LeavingStreams, UnlistTypes DEF SweepUnlists
    <2>3. SweeperOK'
      BY <2>1, <2>2 DEF SweeperOK
    <2> QED BY <1>5, <2>2, <2>3, OthersKept DEF SweepUnlists, Named, SameStreams
  <1>6. CASE SweepAnnounces
    <2>1. sweeper' \in SweeperRecord(Len(made)) /\ NamesItsStream(sweeper', made) /\ sweeper.name \in Names
      BY <1>1, <1>6 DEF SweeperRecord, NamesItsStream, SweepAnnounces
    <2>2. SameStreams /\ made' = made /\ feed' \in Seq(Change)
      BY <1>6, <2>1, LeavingStreams, AnnounceType DEF SweepAnnounces
    <2>3. SweeperOK'
      BY <2>1, <2>2 DEF SweeperOK
    <2> QED BY <1>6, <2>2, <2>3, OthersKept DEF SweepAnnounces, Named, SameStreams
  <1>7. CASE SweepEnds
    <2>1. Nil \in 0 .. Len(made)
      BY MadeFacts DEF Nil
    <2>2. sweeper' \in SweeperRecord(Len(made)) /\ NamesItsStream(sweeper', made)
      BY <1>1, <1>7, <2>1 DEF SweeperRecord, NamesItsStream, SweepEnds
    <2> QED BY <1>2, <1>7, <2>2 DEF SweepEnds
  <1>8. ASSUME NEW s \in DOMAIN made, SweepSkips(s) PROVE Named'
    <2>1. sweeper' \in SweeperRecord(Len(made)) /\ NamesItsStream(sweeper', made)
      BY <1>1, <1>8 DEF SweeperRecord, NamesItsStream, SweepSkips
    <2> QED BY <1>2, <1>8, <2>1 DEF SweepSkips
  <1>9. ASSUME NEW s \in DOMAIN made, SweepFinds(s) PROVE Named'
    <2> DEFINE n == made[s].name
    <2>1. n \in Names
      BY MadeFacts
    <2>2. sweeper' = [sweeper EXCEPT !.todo = sweeper.todo \ {s}, !.name = n, !.stream = streams[n],
                                     !.pc = IF Exists(streams[n]) THEN "found" ELSE "sweeping"]
      BY <1>9 DEF SweepFinds
    <2> HIDE DEF n
    <2>3. streams[n] \in 0 .. Len(made) /\ (Exists(streams[n]) => made[streams[n]].name = n)
      BY <2>1 DEF Named, StreamsOK, Exists
    <2>4. sweeper' \in SweeperRecord(Len(made)) /\ NamesItsStream(sweeper', made)
      BY <1>1, <2>1, <2>2, <2>3 DEF SweeperRecord, NamesItsStream, Exists
    <2> QED BY <1>2, <1>9, <2>4 DEF SweepFinds
  <1> QED BY <1>3, <1>4, <1>5, <1>6, <1>7, <1>8, <1>9 DEF Sweep

(* A channel goes idle, or everything is cleared.                           *)
LEMMA OtherTypes ==
  ASSUME Named, Stop \/ \E s \in DOMAIN made : GoesIdle(s)
  PROVE  Named'
  <1>1. SameStreams
    BY ClosingStreams, MarkingIdle, MadeFacts DEF Stop, GoesIdle
  <1>2. CASE Stop
    <2>1. StreamsOK'
      BY <1>1, <1>2, MadeFacts DEF Stop, StreamsOK, SameStreams, Nil
    <2>2. SweeperOK'
      BY <1>1, <1>2 DEF Stop, Named, SweeperOK, SweeperRecord, NamesItsStream, SameStreams
    <2> QED BY <1>1, <1>2, <2>1, <2>2, OthersKept DEF Stop, Named, SameStreams
  <1>3. CASE \E s \in DOMAIN made : GoesIdle(s)
    BY <1>1, <1>3, OthersKept DEF GoesIdle, Named, SameStreams
  <1> QED BY <1>2, <1>3

(* Every step keeps the types.                                              *)
LEMMA NamedStep == Named /\ [Next]_vars => Named'
  <1> SUFFICES ASSUME Named, [Next]_vars PROVE Named'
    OBVIOUS
  <1>1. CASE UNCHANGED vars
    BY <1>1 DEF vars, Named, StreamsOK, UsersOK, ClosersOK, SweeperOK
  <1>2. CASE Next
    BY <1>2, UserTypes, CloserTypes, SweepTypes, OtherTypes DEF Next
  <1> QED BY <1>1, <1>2

-----------------------------------------------------------------------------
(* ClosedIsLeaving                                                          *)

(* The one that closes the stream of a name takes that name off next.       *)
Leaving(n) ==
  \/ \E c \in Closers : closer[c].pc = "closed" /\ closer[c].name = n
  \/ sweeper.pc = "closed" /\ sweeper.name = n

(* What closes and unlists nothing leaves those who are about to unlist.    *)
LEMMA LeavingKept ==
  ASSUME Named, ClosedIsLeaving,
         \A n \in Names : streams'[n] # Nil /\ made'[streams'[n]].closed =>
           /\ streams'[n] = streams[n] /\ made[streams[n]].closed
           /\ Leaving(n) => Leaving(n)'
  PROVE  ClosedIsLeaving'
  BY DEF ClosedIsLeaving, Leaving

LEMMA ClosedIsLeavingStep == Named /\ ClosedIsLeaving /\ [Next]_vars => ClosedIsLeaving'
  <1> SUFFICES ASSUME Named, ClosedIsLeaving, [Next]_vars PROVE ClosedIsLeaving'
    OBVIOUS
  <1> DEFINE Stay(n) == streams'[n] = streams[n] /\ made[streams[n]].closed /\ (Leaving(n) => Leaving(n)')
             Shut(n) == streams'[n] # Nil /\ made'[streams'[n]].closed
  <1>1. /\ streams \in [Names -> 0 .. Len(made)]
        /\ \A n \in Names : streams[n] # Nil => streams[n] \in 1 .. Len(made)
        /\ \A n \in Names : streams[n] # Nil => made[streams[n]].name = n
    BY MadeFacts DEF Named, StreamsOK, Nil
  <1>2. closer \in [Closers -> CloserRecord(Len(made))]
    BY DEF Named, ClosersOK
  <1>3. sweeper \in SweeperRecord(Len(made))
    BY DEF Named, SweeperOK
  <1>4. ASSUME UNCHANGED <<streams, made>>, \A n \in Names : Leaving(n) => Leaving(n)'
        PROVE  ClosedIsLeaving'
    BY <1>4 DEF ClosedIsLeaving, Leaving
  <1>5. ASSUME NEW u \in Users, User(u) PROVE ClosedIsLeaving'
    <2>1. UNCHANGED <<closer, sweeper>> /\ \A n \in Names : Leaving(n)' <=> Leaving(n)
      BY <1>5 DEF User, UserFinds, UserRefused, UserCreates, UserAnnounces, UserWrites, UserLeaves, Leaving
    <2>2. CASE UserCreates(u)
      <3>1. PICK m \in Names :
              /\ made' = Append(made, [name |-> m, closed |-> FALSE, idle |-> FALSE])
              /\ streams' = [streams EXCEPT ![m] = Len(made) + 1]
        BY <2>2 DEF UserCreates
      <3>2. /\ \A s \in 1 .. Len(made) : made'[s] = made[s]
            /\ made'[Len(made) + 1].closed = FALSE
        BY <3>1, MadeFacts, AppendProperties DEF StreamRecord
      <3>3. \A n \in Names : Shut(n) => Stay(n)
        BY <1>1, <2>1, <3>1, <3>2
      <3> QED BY <3>3, LeavingKept
    <2>3. CASE UserWrites(u)
      <3>1. user[u].stream \in 1 .. Len(made)
        BY <2>3, MadeFacts DEF Named, UsersOK, UserRecord, NamesItsStream, UserWrites, Nil
      <3>2. streams' = streams /\ \A s \in 1 .. Len(made) : made'[s].closed = made[s].closed
        BY <2>3, <3>1, MarkingIdle DEF UserWrites
      <3>3. \A n \in Names : Shut(n) => Stay(n)
        BY <1>1, <2>1, <3>2
      <3> QED BY <3>3, LeavingKept
    <2>4. CASE UserFinds(u) \/ UserRefused(u) \/ UserAnnounces(u) \/ UserLeaves(u)
      BY <1>4, <2>1, <2>4 DEF UserFinds, UserRefused, UserAnnounces, UserLeaves
    <2> QED BY <1>5, <2>2, <2>3, <2>4 DEF User
  <1>6. ASSUME NEW c \in Closers, Closer(c) PROVE ClosedIsLeaving'
    <2>1. sweeper' = sweeper
      BY <1>6 DEF Closer, CloserFinds, CloserCloses, CloserUnlists, CloserAnnounces
    <2>2. CASE CloserFinds(c) \/ CloserAnnounces(c)
      <3>1. \A n \in Names : Leaving(n) => Leaving(n)'
        BY <1>2, <2>1, <2>2 DEF CloserFinds, CloserAnnounces, Leaving, CloserRecord
      <3> QED BY <1>4, <2>2, <3>1 DEF CloserFinds, CloserAnnounces
    <2>3. CASE CloserCloses(c)
      <3> DEFINE s == closer[c].stream
      <3>1. s \in 1 .. Len(made) /\ made[s].name = closer[c].name
        BY <2>3, MadeFacts DEF Named, ClosersOK, CloserRecord, NamesItsStream, CloserCloses, Nil
      <3>2. \A t \in 1 .. Len(made) : made'[t].closed <=> made[t].closed \/ t \in {s}
        BY <2>3, ClosingStreams DEF CloserCloses
      <3>3. \A n \in Names : Leaving(n) \/ n = closer[c].name => Leaving(n)'
        BY <1>2, <2>1, <2>3 DEF CloserCloses, Leaving, CloserRecord
      <3>4. streams' = streams
        BY <2>3 DEF CloserCloses
      <3> HIDE DEF s
      <3>5. ASSUME NEW n \in Names, Shut(n) PROVE Leaving(n)'
        <4>1. streams[n] # Nil /\ (made[streams[n]].closed \/ streams[n] = s)
          BY <1>1, <3>2, <3>4, <3>5
        <4>2. CASE made[streams[n]].closed
          BY <3>3, <4>1, <4>2 DEF ClosedIsLeaving, Leaving
        <4>3. CASE streams[n] = s
          BY <1>1, <3>1, <3>3, <4>1, <4>3
        <4> QED BY <4>1, <4>2, <4>3
      <3> QED BY <3>5 DEF ClosedIsLeaving, Leaving
    <2>4. CASE CloserUnlists(c)
      <3> DEFINE m == closer[c].name
      <3>1. m \in Names /\ streams' = [streams EXCEPT ![m] = Nil] /\ made' = made
        BY <2>4 DEF Named, ClosersOK, NamesItsStream, CloserUnlists, Unlist, Without
      <3>2. \A n \in Names : n # m /\ Leaving(n) => Leaving(n)'
        BY <1>2, <2>1, <2>4 DEF CloserUnlists, Leaving, CloserRecord
      <3> HIDE DEF m
      <3>3. \A n \in Names : Shut(n) => Stay(n)
        BY <1>1, <3>1, <3>2
      <3> QED BY <3>3, LeavingKept
    <2> QED BY <1>6, <2>2, <2>3, <2>4 DEF Closer
  <1>7. ASSUME Sweep PROVE ClosedIsLeaving'
    <2>1. closer' = closer
      BY <1>7 DEF Sweep, SweepStarts, SweepCloses, SweepUnlists, SweepAnnounces, SweepEnds, SweepSkips,
                  SweepFinds
    <2>2. CASE SweepCloses
      <3> DEFINE s == sweeper.stream
      <3>1. s \in 1 .. Len(made) /\ made[s].name = sweeper.name
        BY <2>2, MadeFacts DEF Named, SweeperOK, SweeperRecord, NamesItsStream, SweepCloses, Nil
      <3>2. \A t \in 1 .. Len(made) : made'[t].closed <=> made[t].closed \/ t \in {s}
        BY <2>2, ClosingStreams DEF SweepCloses
      <3>3. \A n \in Names : Leaving(n) \/ n = sweeper.name => Leaving(n)'
        BY <1>3, <2>1, <2>2 DEF SweepCloses, Leaving, SweeperRecord
      <3>4. streams' = streams
        BY <2>2 DEF SweepCloses
      <3> HIDE DEF s
      <3>5. ASSUME NEW n \in Names, Shut(n) PROVE Leaving(n)'
        <4>1. streams[n] # Nil /\ (made[streams[n]].closed \/ streams[n] = s)
          BY <1>1, <3>2, <3>4, <3>5
        <4>2. CASE made[streams[n]].closed
          BY <3>3, <4>1, <4>2 DEF ClosedIsLeaving, Leaving
        <4>3. CASE streams[n] = s
          BY <1>1, <3>1, <3>3, <4>1, <4>3
        <4> QED BY <4>1, <4>2, <4>3
      <3> QED BY <3>5 DEF ClosedIsLeaving, Leaving
    <2>3. CASE SweepUnlists
      <3> DEFINE m == sweeper.name
      <3>1. m \in Names /\ streams' = [streams EXCEPT ![m] = Nil] /\ made' = made
        BY <2>3 DEF Named, SweeperOK, NamesItsStream, SweepUnlists, Unlist, Without
      <3>2. \A n \in Names : n # m /\ Leaving(n) => Leaving(n)'
        BY <1>3, <2>1, <2>3 DEF SweepUnlists, Leaving, SweeperRecord
      <3> HIDE DEF m
      <3>3. \A n \in Names : Shut(n) => Stay(n)
        BY <1>1, <3>1, <3>2
      <3> QED BY <3>3, LeavingKept
    <2>4. CASE sweeper.pc # "closed" /\ UNCHANGED <<made, streams>>
      BY <1>4, <2>1, <2>4 DEF Leaving
    <2> QED BY <1>7, <2>2, <2>3, <2>4 DEF Sweep, SweepStarts, SweepAnnounces, SweepEnds, SweepSkips, SweepFinds
  <1>8. CASE Stop
    BY <1>8 DEF Stop, ClosedIsLeaving
  <1>9. ASSUME NEW s \in DOMAIN made, GoesIdle(s) PROVE ClosedIsLeaving'
    <2>1. \A t \in 1 .. Len(made) : made'[t].closed = made[t].closed
      BY <1>9, MarkingIdle, MadeFacts DEF GoesIdle
    <2>2. \A n \in Names : Shut(n) => Stay(n)
      BY <1>1, <1>9, <2>1 DEF GoesIdle, Leaving
    <2> QED BY <2>2, LeavingKept
  <1>10. CASE UNCHANGED vars
    BY <1>4, <1>10 DEF vars, Leaving
  <1> QED BY <1>5, <1>6, <1>7, <1>8, <1>9, <1>10 DEF Next

-----------------------------------------------------------------------------
(* EveryChangeIsTold                                                        *)

MadeAs(n) == {s \in DOMAIN made : made[s].name = n}

Gone(n) == {s \in DOMAIN made : made[s].name = n /\ ~Listed(s)}

Adding(n) == {u \in Users : user[u].pc = "adding" /\ user[u].name = n}

Removing(n) == {c \in Closers : closer[c].pc = "removing" /\ closer[c].name = n}

SweepRemoving(n) == IF sweeper.pc = "removing" /\ sweeper.name = n THEN 1 ELSE 0

(* What is counted is finite.                                               *)
LEMMA Counted ==
  ASSUME Named, NEW n, NEW kind
  PROVE  /\ IsFiniteSet(MadeAs(n)) /\ Cardinality(MadeAs(n)) \in Nat
         /\ IsFiniteSet(Gone(n)) /\ Cardinality(Gone(n)) \in Nat
         /\ IsFiniteSet(Adding(n)) /\ Cardinality(Adding(n)) \in Nat
         /\ IsFiniteSet(Removing(n)) /\ Cardinality(Removing(n)) \in Nat
         /\ IsFiniteSet(Entries(kind, n)) /\ Cardinality(Entries(kind, n)) \in Nat
         /\ SweepRemoving(n) \in Nat
  <1>1. IsFiniteSet(DOMAIN made)
    BY LenProperties, FS_Interval DEF Named
  <1>2. IsFiniteSet(DOMAIN feed)
    BY LenProperties, FS_Interval DEF Named
  <1>3. IsFiniteSet(MadeAs(n)) /\ IsFiniteSet(Gone(n))
    BY <1>1, FS_Subset DEF MadeAs, Gone
  <1>4. IsFiniteSet(Adding(n)) /\ IsFiniteSet(Removing(n))
    BY FS_Subset, ServerAssumption DEF Adding, Removing
  <1>5. IsFiniteSet(Entries(kind, n))
    BY <1>2, FS_Subset DEF Entries
  <1> QED BY <1>3, <1>4, <1>5, FS_CardinalityType DEF SweepRemoving

LEMMA GoneCounted == Named => \A k : Cardinality(Gone(k)) \in Nat
  BY Counted

(* One more, and one less.                                                  *)
LEMMA OneMore ==
  ASSUME NEW S, IsFiniteSet(S), NEW x, x \notin S
  PROVE  Cardinality(S \cup {x}) = Cardinality(S) + 1
  BY FS_AddElement

LEMMA OneLess ==
  ASSUME NEW S, IsFiniteSet(S), NEW x, x \in S
  PROVE  Cardinality(S \ {x}) = Cardinality(S) - 1
  BY FS_RemoveElement

(* A change that is announced is one more entry of the changefeed.          *)
LEMMA AnnounceAdds ==
  ASSUME Named, Changefeed, NEW kind \in {"added", "removed"}, NEW n \in Names, Announce(kind, n)
  PROVE  /\ Cardinality(Entries(kind, n)') = Cardinality(Entries(kind, n)) + 1
         /\ \A k, m : <<k, m>> # <<kind, n>> => Entries(k, m)' = Entries(k, m)
  <1> DEFINE e == [kind |-> kind, name |-> n]
  <1>1. feed \in Seq(Change) /\ e \in Change /\ feed' = Append(feed, e)
    BY DEF Named, Change, Announce, Publish
  <1>2. /\ Len(feed) \in Nat /\ DOMAIN feed = 1 .. Len(feed) /\ DOMAIN feed' = 1 .. Len(feed) + 1
        /\ \A i \in 1 .. Len(feed) : feed'[i] = feed[i]
        /\ feed'[Len(feed) + 1] = e
    BY <1>1, LenProperties, AppendProperties
  <1>3. Entries(kind, n)' = Entries(kind, n) \cup {Len(feed) + 1}
    BY <1>2 DEF Entries
  <1>4. Len(feed) + 1 \notin Entries(kind, n)
    BY <1>2 DEF Entries
  <1>5. Cardinality(Entries(kind, n)') = Cardinality(Entries(kind, n)) + 1
    BY <1>3, <1>4, Counted, OneMore
  <1>6. ASSUME NEW k, NEW m, <<k, m>> # <<kind, n>> PROVE Entries(k, m)' = Entries(k, m)
    <2>1. e # [kind |-> k, name |-> m]
      BY <1>6
    <2> QED BY <1>2, <2>1 DEF Entries
  <1> QED BY <1>5, <1>6

(* EveryCreationIsTold, of one name.                                        *)
Told(n) == Cardinality(MadeAs(n)) = Cardinality(Entries("added", n)) + Cardinality(Adding(n))

LEMMA CreationStep ==
  ASSUME Named, [Next]_vars, Changefeed, NEW n \in Names, Told(n)
  PROVE  Told(n)'
  <1>1. user \in [Users -> UserRecord(Len(made))]
    BY DEF Named, UsersOK
  <1>2. ASSUME NEW u \in Users, UserCreates(u) PROVE Told(n)'
    <2>1. PICK m \in Names :
            /\ made' = Append(made, [name |-> m, closed |-> FALSE, idle |-> FALSE])
            /\ user' = [user EXCEPT ![u] = [pc |-> "adding", name |-> m, stream |-> Len(made) + 1]]
      BY <1>2 DEF UserCreates
    <2>2. user[u].pc = "idle" /\ feed' = feed
      BY <1>2 DEF UserCreates
    <2>3. /\ DOMAIN made' = 1 .. Len(made) + 1
          /\ \A s \in 1 .. Len(made) : made'[s] = made[s]
          /\ made'[Len(made) + 1].name = m
      BY <2>1, MadeFacts, AppendProperties, LenProperties DEF StreamRecord
    <2>4. Entries("added", n)' = Entries("added", n)
      BY <2>2 DEF Entries
    <2>5. CASE n = m
      <3>1. MadeAs(n)' = MadeAs(n) \cup {Len(made) + 1} /\ Len(made) + 1 \notin MadeAs(n)
        BY <2>3, <2>5, MadeFacts DEF MadeAs
      <3>2. Adding(n)' = Adding(n) \cup {u} /\ u \notin Adding(n)
        BY <1>1, <2>1, <2>2, <2>5 DEF Adding
      <3>3. Cardinality(MadeAs(n)') = Cardinality(MadeAs(n)) + 1
        BY <3>1, Counted, OneMore
      <3>4. Cardinality(Adding(n)') = Cardinality(Adding(n)) + 1
        BY <3>2, Counted, OneMore
      <3> QED BY <2>4, <3>3, <3>4, Counted DEF Told
    <2>6. CASE n # m
      <3>1. MadeAs(n)' = MadeAs(n)
        BY <2>3, <2>6, MadeFacts DEF MadeAs
      <3>2. Adding(n)' = Adding(n)
        BY <1>1, <2>1, <2>2, <2>6 DEF Adding
      <3> QED BY <2>4, <3>1, <3>2 DEF Told
    <2> QED BY <2>5, <2>6
  <1>3. ASSUME NEW u \in Users, UserAnnounces(u) PROVE Told(n)'
    <2>1. user[u].name \in Names
      BY <1>3 DEF Named, UsersOK, NamesItsStream, UserAnnounces
    <2>2. MadeAs(n)' = MadeAs(n)
      BY <1>3 DEF UserAnnounces, MadeAs
    <2>3. CASE n = user[u].name
      <3>1. Adding(n)' = Adding(n) \ {u} /\ u \in Adding(n)
        BY <1>1, <1>3, <2>3 DEF UserAnnounces, Adding, UserRecord
      <3>2. Cardinality(Adding(n)') = Cardinality(Adding(n)) - 1
        BY <3>1, Counted, OneLess
      <3>3. Cardinality(Entries("added", n)') = Cardinality(Entries("added", n)) + 1
        BY <1>3, <2>3, AnnounceAdds DEF UserAnnounces
      <3> QED BY <2>2, <3>2, <3>3, Counted DEF Told
    <2>4. CASE n # user[u].name
      <3>1. Adding(n)' = Adding(n)
        BY <1>1, <1>3, <2>4 DEF UserAnnounces, Adding, UserRecord
      <3>2. Entries("added", n)' = Entries("added", n)
        BY <1>3, <2>1, <2>4, AnnounceAdds DEF UserAnnounces
      <3> QED BY <2>2, <3>1, <3>2 DEF Told
    <2> QED BY <2>3, <2>4
  <1>4. ASSUME SameStreams, Adding(n)' = Adding(n), Entries("added", n)' = Entries("added", n)
        PROVE  Told(n)'
    <2>1. DOMAIN made' = DOMAIN made
      BY <1>4, MadeFacts, LenProperties DEF SameStreams
    <2>2. MadeAs(n)' = MadeAs(n)
      BY <1>4, <2>1, MadeFacts DEF SameStreams, MadeAs
    <2> QED BY <1>4, <2>2 DEF Told
  <1>5. ASSUME NEW u \in Users, UserFinds(u) \/ UserRefused(u) \/ UserWrites(u) \/ UserLeaves(u)
        PROVE  Told(n)'
    <2>1. SameStreams
      <3>1. user[u].pc = "using" => user[u].stream \in 1 .. Len(made)
        BY MadeFacts DEF Named, UsersOK, UserRecord, NamesItsStream, Nil
      <3> QED BY <1>5, <3>1, MarkingIdle, LeavingStreams DEF UserFinds, UserRefused, UserWrites, UserLeaves
    <2>2. Adding(n)' = Adding(n)
      BY <1>1, <1>5 DEF UserFinds, UserRefused, UserWrites, UserLeaves, Adding, UserRecord
    <2>3. feed' = feed
      BY <1>5 DEF UserFinds, UserRefused, UserWrites, UserLeaves
    <2> QED BY <1>4, <2>1, <2>2, <2>3 DEF Entries
  <1>6. ASSUME Sweep \/ Stop \/ UNCHANGED vars \/ (\E c \in Closers : Closer(c))
                 \/ \E s \in DOMAIN made : GoesIdle(s)
        PROVE  Told(n)'
    <2>1. user' = user
      BY <1>6 DEF Sweep, Stop, vars, Closer, CloserFinds, CloserCloses, CloserUnlists, CloserAnnounces,
                  GoesIdle, SweepStarts, SweepCloses, SweepUnlists, SweepAnnounces, SweepEnds, SweepSkips,
                  SweepFinds
    <2>2. SameStreams
      BY <1>6, ClosingStreams, MarkingIdle, LeavingStreams, MadeFacts
         DEF Sweep, Stop, vars, Closer, CloserFinds, CloserCloses, CloserUnlists, CloserAnnounces,
             GoesIdle, SweepStarts, SweepCloses, SweepUnlists, SweepAnnounces, SweepEnds, SweepSkips,
             SweepFinds
    <2>3. CASE feed' = feed
      BY <1>4, <2>1, <2>2, <2>3 DEF Adding, Entries
    <2>4. CASE \E m \in Names : Announce("removed", m)
      BY <1>4, <2>1, <2>2, <2>4, AnnounceAdds DEF Adding
    <2>5. feed' = feed \/ \E m \in Names : Announce("removed", m)
      <3>1. \A c \in Closers : CloserAnnounces(c) => closer[c].name \in Names
        BY DEF Named, ClosersOK, NamesItsStream, CloserAnnounces
      <3>2. SweepAnnounces => sweeper.name \in Names
        BY DEF Named, SweeperOK, NamesItsStream, SweepAnnounces
      <3> QED BY <1>6, <3>1, <3>2
              DEF Sweep, Stop, vars, Closer, CloserFinds, CloserCloses, CloserUnlists, CloserAnnounces,
                  GoesIdle, SweepStarts, SweepCloses, SweepUnlists, SweepAnnounces, SweepEnds, SweepSkips,
                  SweepFinds
    <2> QED BY <2>3, <2>4, <2>5
  <1> QED BY <1>2, <1>3, <1>5, <1>6 DEF Next, User

(* EveryRemovalIsTold, of one name.                                         *)
ToldGone(n) ==
  Cardinality(Gone(n)) <=
    Cardinality(Entries("removed", n)) + Cardinality(Removing(n)) + SweepRemoving(n)

(* Off the map goes at most one stream of a name, and of no other name.     *)
LEMMA UnlistLosesOne ==
  ASSUME Named, NEW m \in Names, NEW n \in Names, Unlist(m), made' = made
  PROVE  /\ n = m => Cardinality(Gone(n)') <= Cardinality(Gone(n)) + 1
         /\ n # m => Cardinality(Gone(n)') <= Cardinality(Gone(n))
  <1>1. /\ streams \in [Names -> 0 .. Len(made)] /\ streams' = [streams EXCEPT ![m] = Nil]
        /\ \A k \in Names : streams[k] # Nil => made[streams[k]].name = k
        /\ DOMAIN made = 1 .. Len(made)
    BY MadeFacts DEF Named, StreamsOK, Unlist, Without
  <1>2. \A s \in DOMAIN made : Listed(s) /\ ~Listed(s)' => s = streams[m] /\ made[s].name = m
    BY <1>1 DEF Listed, Nil
  <1>3. IsFiniteSet(Gone(n)) /\ IsFiniteSet(Gone(n) \cup {streams[m]})
    BY Counted, FS_AddElement
  <1>4. CASE n = m
    <2>1. Gone(n)' \subseteq Gone(n) \cup {streams[m]}
      BY <1>2 DEF Gone
    <2>2. Cardinality(Gone(n)') <= Cardinality(Gone(n) \cup {streams[m]})
      BY <1>3, <2>1, FS_Subset
    <2>3. IsFiniteSet(Gone(n)')
      BY <1>3, <2>1, FS_Subset
    <2>4. /\ Cardinality(Gone(n)') \in Nat /\ Cardinality(Gone(n)) \in Nat
          /\ Cardinality(Gone(n) \cup {streams[m]}) \in Nat
      BY <1>3, <2>3, FS_CardinalityType
    <2>5. Cardinality(Gone(n) \cup {streams[m]}) <= Cardinality(Gone(n)) + 1
      BY <1>3, <2>4, FS_AddElement
    <2>6. Cardinality(Gone(n)') <= Cardinality(Gone(n)) + 1
      BY <2>2, <2>4, <2>5
    <2> QED BY <1>4, <2>6
  <1>5. CASE n # m
    <2>1. Gone(n)' \subseteq Gone(n)
      BY <1>2, <1>5 DEF Gone
    <2> QED BY <1>3, <1>5, <2>1, FS_Subset
  <1> QED BY <1>4, <1>5

LEMMA RemovalStep ==
  ASSUME Named, Named', [Next]_vars, Changefeed, sweeper'.pc # "stopped", NEW n \in Names, ToldGone(n)
  PROVE  ToldGone(n)'
  <1>1. closer \in [Closers -> CloserRecord(Len(made))] /\ sweeper \in SweeperRecord(Len(made))
    BY DEF Named, ClosersOK, SweeperOK
  <1>2. /\ Cardinality(Gone(n)) \in Nat /\ Cardinality(Gone(n)') \in Nat
        /\ Cardinality(Entries("removed", n)) \in Nat /\ Cardinality(Removing(n)) \in Nat
        /\ SweepRemoving(n) \in Nat
    <2>1. Named' => (\A k : Cardinality(Gone(k)) \in Nat)'
      BY GoneCounted, PTL
    <2> QED BY <2>1, Counted
  <1>3. ASSUME NEW u \in Users, UserCreates(u) PROVE ToldGone(n)'
    <2>1. PICK m \in Names :
            /\ streams[m] = Nil
            /\ made' = Append(made, [name |-> m, closed |-> FALSE, idle |-> FALSE])
            /\ streams' = [streams EXCEPT ![m] = Len(made) + 1]
      BY <1>3 DEF UserCreates
    <2>0. PICK new : new = Len(made) + 1
      OBVIOUS
    <2>2. /\ DOMAIN made' = 1 .. Len(made) + 1 /\ DOMAIN made = 1 .. Len(made) /\ Len(made) \in Nat
          /\ \A s \in 1 .. Len(made) : made'[s] = made[s]
      BY <2>1, MadeFacts, AppendProperties, LenProperties DEF StreamRecord
    <2>3. streams \in [Names -> 0 .. Len(made)]
      BY DEF Named, StreamsOK
    <2>4. Listed(new)' /\ \A s \in 1 .. Len(made) : Listed(s) => Listed(s)'
      BY <2>0, <2>1, <2>2, <2>3 DEF Listed, Nil
    <2>5. Gone(n)' \subseteq Gone(n)
      BY <2>0, <2>2, <2>4 DEF Gone
    <2>6. Cardinality(Gone(n)') <= Cardinality(Gone(n))
      BY <2>5, Counted, FS_Subset
    <2>7. UNCHANGED <<Entries("removed", n), Removing(n), SweepRemoving(n)>>
      BY <1>3 DEF UserCreates, Entries, Removing, SweepRemoving
    <2> QED BY <1>2, <2>6, <2>7 DEF ToldGone
  <1>4. ASSUME SameStreams, streams' = streams PROVE Gone(n)' = Gone(n)
    <2>1. DOMAIN made' = DOMAIN made
      BY <1>4, MadeFacts, LenProperties DEF SameStreams
    <2> QED BY <1>4, <2>1, MadeFacts DEF SameStreams, Gone, Listed
  <1>5. ASSUME SameStreams, streams' = streams, UNCHANGED Removing(n), UNCHANGED SweepRemoving(n),
               UNCHANGED Entries("removed", n)
        PROVE  ToldGone(n)'
    BY <1>4, <1>5 DEF ToldGone
  <1>6. ASSUME NEW u \in Users, UserFinds(u) \/ UserRefused(u) \/ UserAnnounces(u)
                 \/ UserWrites(u) \/ UserLeaves(u)
        PROVE  ToldGone(n)'
    <2>1. SameStreams /\ streams' = streams
      <3>1. user[u].pc = "using" => user[u].stream \in 1 .. Len(made)
        BY MadeFacts DEF Named, UsersOK, UserRecord, NamesItsStream, Nil
      <3> QED BY <1>6, <3>1, MarkingIdle, LeavingStreams
              DEF UserFinds, UserRefused, UserAnnounces, UserWrites, UserLeaves
    <2>2. UNCHANGED Removing(n) /\ UNCHANGED SweepRemoving(n)
      BY <1>6 DEF UserFinds, UserRefused, UserAnnounces, UserWrites, UserLeaves, Removing, SweepRemoving
    <2>3. UNCHANGED Entries("removed", n)
      <3>1. UserAnnounces(u) => user[u].name \in Names
        BY DEF Named, UsersOK, NamesItsStream, UserAnnounces
      <3>2. CASE UserAnnounces(u)
        BY <3>1, <3>2, AnnounceAdds DEF UserAnnounces
      <3>3. CASE feed' = feed
        BY <3>3 DEF Entries
      <3> QED BY <1>6, <3>2, <3>3 DEF UserFinds, UserRefused, UserWrites, UserLeaves
    <2> QED BY <1>5, <2>1, <2>2, <2>3
  <1>7. ASSUME NEW c \in Closers, CloserFinds(c) \/ CloserCloses(c) PROVE ToldGone(n)'
    <2>1. SameStreams /\ streams' = streams
      BY <1>7, ClosingStreams, LeavingStreams DEF CloserFinds, CloserCloses
    <2>2. UNCHANGED Removing(n)
      BY <1>1, <1>7 DEF CloserFinds, CloserCloses, Removing, CloserRecord
    <2>3. UNCHANGED SweepRemoving(n) /\ UNCHANGED Entries("removed", n)
      BY <1>7 DEF CloserFinds, CloserCloses, SweepRemoving, Entries
    <2> QED BY <1>5, <2>1, <2>2, <2>3
  <1>8. ASSUME NEW c \in Closers, CloserUnlists(c) PROVE ToldGone(n)'
    <2> DEFINE m == closer[c].name
    <2>1. m \in Names /\ made' = made /\ Unlist(m)
      BY <1>8 DEF Named, ClosersOK, NamesItsStream, CloserUnlists
    <2>2. UNCHANGED Entries("removed", n) /\ UNCHANGED SweepRemoving(n)
      BY <1>8 DEF CloserUnlists, Entries, SweepRemoving
    <2>3. CASE n = m
      <3>1. Removing(n)' = Removing(n) \cup {c} /\ c \notin Removing(n)
        BY <1>1, <1>8, <2>3 DEF CloserUnlists, Removing, CloserRecord
      <3>2. Cardinality(Removing(n)') = Cardinality(Removing(n)) + 1
        BY <3>1, Counted, OneMore
      <3>3. Cardinality(Gone(n)') <= Cardinality(Gone(n)) + 1
        BY <2>1, <2>3, UnlistLosesOne
      <3> QED BY <1>2, <2>2, <3>2, <3>3 DEF ToldGone
    <2>4. CASE n # m
      <3>1. Removing(n)' = Removing(n)
        BY <1>1, <1>8, <2>4 DEF CloserUnlists, Removing, CloserRecord
      <3>2. Cardinality(Gone(n)') <= Cardinality(Gone(n))
        BY <2>1, <2>4, UnlistLosesOne
      <3> QED BY <1>2, <2>2, <3>1, <3>2 DEF ToldGone
    <2> QED BY <2>3, <2>4
  <1>9. ASSUME NEW c \in Closers, CloserAnnounces(c) PROVE ToldGone(n)'
    <2> DEFINE m == closer[c].name
    <2>1. m \in Names /\ made' = made /\ streams' = streams /\ Announce("removed", m)
      BY <1>9 DEF Named, ClosersOK, NamesItsStream, CloserAnnounces
    <2>2. Gone(n)' = Gone(n)
      BY <1>4, <2>1, LeavingStreams
    <2>3. UNCHANGED SweepRemoving(n)
      BY <1>9 DEF CloserAnnounces, SweepRemoving
    <2>4. CASE n = m
      <3>1. Removing(n)' = Removing(n) \ {c} /\ c \in Removing(n)
        BY <1>1, <1>9, <2>4 DEF CloserAnnounces, Removing, CloserRecord
      <3>2. Cardinality(Removing(n)') = Cardinality(Removing(n)) - 1
        BY <3>1, Counted, OneLess
      <3>3. Cardinality(Entries("removed", n)') = Cardinality(Entries("removed", n)) + 1
        BY <2>1, <2>4, AnnounceAdds
      <3> QED BY <1>2, <2>2, <2>3, <3>2, <3>3 DEF ToldGone
    <2>5. CASE n # m
      <3>1. Removing(n)' = Removing(n)
        BY <1>1, <1>9, <2>5 DEF CloserAnnounces, Removing, CloserRecord
      <3>2. Entries("removed", n)' = Entries("removed", n)
        BY <2>1, <2>5, AnnounceAdds
      <3> QED BY <2>2, <2>3, <3>1, <3>2 DEF ToldGone
    <2> QED BY <2>4, <2>5
  <1>10. CASE SweepUnlists
    <2> DEFINE m == sweeper.name
    <2>1. m \in Names /\ made' = made /\ Unlist(m)
      BY <1>10 DEF Named, SweeperOK, NamesItsStream, SweepUnlists
    <2>2. UNCHANGED Entries("removed", n) /\ UNCHANGED Removing(n)
      BY <1>10 DEF SweepUnlists, Entries, Removing
    <2>3. SweepRemoving(n) = 0 /\ SweepRemoving(n)' = IF n = m THEN 1 ELSE 0
      BY <1>1, <1>10 DEF SweepUnlists, SweepRemoving, SweeperRecord
    <2>4. Cardinality(Gone(n)') <= Cardinality(Gone(n)) + (IF n = m THEN 1 ELSE 0)
      BY <1>2, <2>1, UnlistLosesOne
    <2> QED BY <1>2, <2>2, <2>3, <2>4 DEF ToldGone
  <1>11. CASE SweepAnnounces
    <2> DEFINE m == sweeper.name
    <2>1. m \in Names /\ made' = made /\ streams' = streams /\ Announce("removed", m)
      BY <1>11 DEF Named, SweeperOK, NamesItsStream, SweepAnnounces
    <2>2. Gone(n)' = Gone(n)
      BY <1>4, <2>1, LeavingStreams
    <2>3. UNCHANGED Removing(n)
      BY <1>11 DEF SweepAnnounces, Removing
    <2>4. SweepRemoving(n)' = 0 /\ SweepRemoving(n) = IF n = m THEN 1 ELSE 0
      BY <1>1, <1>11 DEF SweepAnnounces, SweepRemoving, SweeperRecord
    <2>5. Cardinality(Entries("removed", n)') =
            Cardinality(Entries("removed", n)) + (IF n = m THEN 1 ELSE 0)
      BY <1>2, <2>1, AnnounceAdds
    <2> QED BY <1>2, <2>2, <2>3, <2>4, <2>5 DEF ToldGone
  <1>12. ASSUME \/ SweepStarts \/ SweepCloses \/ SweepEnds \/ UNCHANGED vars
                \/ \E s \in DOMAIN made : SweepSkips(s) \/ SweepFinds(s) \/ GoesIdle(s)
         PROVE  ToldGone(n)'
    <2>1. SameStreams /\ streams' = streams
      BY <1>12, ClosingStreams, MarkingIdle, LeavingStreams, MadeFacts
         DEF SweepStarts, SweepCloses, SweepEnds, SweepSkips, SweepFinds, GoesIdle, vars
    <2>2. UNCHANGED Entries("removed", n) /\ UNCHANGED Removing(n)
      BY <1>12 DEF SweepStarts, SweepCloses, SweepEnds, SweepSkips, SweepFinds, GoesIdle, vars,
                   Entries, Removing
    <2>3. UNCHANGED SweepRemoving(n)
      BY <1>1, <1>12 DEF SweepStarts, SweepCloses, SweepEnds, SweepSkips, SweepFinds, GoesIdle, vars,
                         SweepRemoving, SweeperRecord
    <2> QED BY <1>5, <2>1, <2>2, <2>3
  <1>13. CASE Stop
    BY <1>1, <1>13 DEF Stop, SweeperRecord
  <1> QED BY <1>3, <1>6, <1>7, <1>8, <1>9, <1>10, <1>11, <1>12, <1>13 DEF Next, User, Closer, Sweep

(* Once stopped, the sweeper never starts again.                            *)
LEMMA StoppedForGood ==
  ASSUME Named, [Next]_vars, sweeper.pc = "stopped"
  PROVE  sweeper'.pc = "stopped"
  BY DEF Next, vars, User, UserFinds, UserRefused, UserCreates, UserAnnounces, UserWrites, UserLeaves,
         Closer,
         CloserFinds, CloserCloses, CloserUnlists, CloserAnnounces, GoesIdle, Stop, Sweep, SweepStarts,
         SweepCloses, SweepUnlists, SweepAnnounces, SweepEnds, SweepSkips, SweepFinds

-----------------------------------------------------------------------------
(* The theorems                                                             *)

LEMMA Initial == Init => IInv
  <1> SUFFICES ASSUME Init PROVE IInv
    OBVIOUS
  <1>1. Named
    BY InitTypes
  <1>2. ClosedIsLeaving
    BY DEF Init, ClosedIsLeaving
  <1>3. \A n : MadeAs(n) = {} /\ Gone(n) = {} /\ Adding(n) = {} /\ Removing(n) = {}
    BY DEF Init, MadeAs, Gone, Adding, Removing
  <1>4. \A n : Entries("added", n) = {} /\ Entries("removed", n) = {} /\ SweepRemoving(n) = 0
    BY DEF Init, Entries, SweepRemoving
  <1>5. \A n \in Names : Told(n) /\ ToldGone(n)
    BY <1>3, <1>4, FS_EmptySet DEF Told, ToldGone
  <1>6. EveryCreationIsTold
    BY <1>5 DEF EveryCreationIsTold, Told, MadeAs, Adding
  <1>7. EveryRemovalIsTold
    BY <1>5 DEF EveryRemovalIsTold, ToldGone, Gone, Removing, SweepRemoving
  <1> QED BY <1>1, <1>2, <1>6, <1>7 DEF IInv, EveryChangeIsTold

LEMMA Step == IInv /\ [Next]_vars => IInv'
  <1> SUFFICES ASSUME IInv, [Next]_vars PROVE IInv'
    OBVIOUS
  <1>1. Named /\ Named'
    BY NamedStep DEF IInv
  <1>2. ClosedIsLeaving'
    BY ClosedIsLeavingStep DEF IInv
  <1>3. EveryCreationIsTold'
    <2>1. Changefeed => \A n \in Names : Told(n)
      BY DEF IInv, EveryChangeIsTold, EveryCreationIsTold, Told, MadeAs, Adding
    <2>2. Changefeed => \A n \in Names : Told(n)'
      BY <1>1, <2>1, CreationStep
    <2> QED BY <2>2 DEF EveryCreationIsTold, Told, MadeAs, Adding
  <1>4. EveryRemovalIsTold'
    <2>1. Changefeed /\ sweeper.pc # "stopped" => \A n \in Names : ToldGone(n)
      BY DEF IInv, EveryChangeIsTold, EveryRemovalIsTold, ToldGone, Gone, Removing, SweepRemoving
    <2>2. Changefeed /\ sweeper'.pc # "stopped" => \A n \in Names : ToldGone(n)'
      BY <1>1, <2>1, StoppedForGood, RemovalStep
    <2> QED BY <2>2 DEF EveryRemovalIsTold, ToldGone, Gone, Removing, SweepRemoving
  <1> QED BY <1>1, <1>2, <1>3, <1>4 DEF IInv, EveryChangeIsTold

(* Types of the server's map, of its streams and of the goroutines' local   *)
(* variables; a name stands for a stream made under it (getOrCreateStream). *)
THEOREM TypeCorrect == Spec => []TypeOK
  <1> QED BY Initial, Step, NamedTypes, PTL DEF Spec, IInv

(* Nobody is handed a closed stream for ever: whoever closed it, a DELETE,  *)
(* a local publisher or the sweeper, is about to take its name off the map, *)
(* however often the name was re-created in between (closeStream).          *)
THEOREM ClosedStreamsLeave == Spec => []ClosedIsLeaving
  <1> QED BY Initial, Step, PTL DEF Spec, IInv

(* No change of the map goes untold, although the changefeed is written off *)
(* sm.mutex, after the map has changed: a name has an "added" for each      *)
(* stream made under it and no other, and, until the server is stopped, at  *)
(* least as many "removed" as streams of it left the map (a stream that two *)
(* goroutines close has two).  Their order is not stated                    *)
(* (getOrCreateStream, closeStream).                                        *)
THEOREM NoChangeGoesUntold == Spec => []EveryChangeIsTold
  <1> QED BY Initial, Step, PTL DEF Spec, IInv
==============================================================================
