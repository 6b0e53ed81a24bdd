---------------------------- MODULE TrickleServer ----------------------------
(***************************************************************************)
(* trickle_server.go: the Server, its map of streams and its changefeed.    *)
(*   Users      goroutines that get or create a channel, and may then start *)
(*              a segment on it: POST handlers and local publishers         *)
(*   Closers    goroutines in closeStream: DELETE of a channel, Close of a  *)
(*              local publisher                                             *)
(*   sweeper    the goroutine of Start: it sweeps idle channels, and clears *)
(*              everything when it is stopped                               *)
(*                                                                         *)
(* Every Stream ever made has a number; the map, read and written under     *)
(* sm.mutex, gives the one a name stands for.  Creating and closing touch   *)
(* the map, the stream and the changefeed in separate steps.  A stream is   *)
(* seen from outside here: its segments are module StreamHandlers.  The     *)
(* changefeed's own channel is not among the Names: feed is the changes     *)
(* handed to internalPub.Write.  They reach that channel's subscribers      *)
(* while it lives: the sweeper passes it over (its name starts with _), but *)
(* clearAllStreams closes it, and a DELETE of it would.                     *)
(***************************************************************************)
EXTENDS Integers, Sequences, FiniteSets

CONSTANTS
  Names,          \* channels
  Users, Closers,
  Locals,         \* the users that are local publishers
  Autocreate, Changefeed,   \* TrickleServerConfig
  MaxStreams,     \* bound on the streams made
  MayStop         \* whether the server is stopped

ASSUME ServerAssumption ==
  /\ IsFiniteSet(Users)
  /\ IsFiniteSet(Closers)
  /\ Locals \subseteq Users
  /\ Autocreate \in BOOLEAN
  /\ Changefeed \in BOOLEAN
  /\ MaxStreams \in Nat
  /\ MayStop \in BOOLEAN

VARIABLES
  made,           \* every Stream: its name, closed, whether writeTime is older than IdleTimeout
  streams,        \* Server.streams
  feed,           \* what was handed to internalPub.Write, in its order
  user, closer, sweeper

vars == <<made, streams, feed, user, closer, sweeper>>

Nil == 0

Init ==
  /\ made = << >>
  /\ streams = [n \in Names |-> Nil]
  /\ feed = << >>
  /\ user = [u \in Users |-> [pc |-> "idle", name |-> Nil, stream |-> Nil]]
  /\ closer = [c \in Closers |-> [pc |-> "idle", name |-> Nil, stream |-> Nil]]
  /\ sweeper = [pc |-> "ticking", todo |-> {}, name |-> Nil, stream |-> Nil]

-----------------------------------------------------------------------------
Listed(s) == \E n \in Names : streams[n] = s

ClosedStreams(S) == [s \in DOMAIN made |-> [made[s] EXCEPT !.closed = @ \/ s \in S]]

(* sm.internalPub.Write, when there is a changefeed.                        *)
Publish(kind, n) ==
  feed' = IF Changefeed THEN Append(feed, [kind |-> kind, name |-> n]) ELSE feed

(* Plausible bug: the stream is left in the map.                             *)
Kept(n) == streams

Without(n) == [streams EXCEPT ![n] = Nil]

(* delete(sm.streams, name), whatever the name stands for by now.           *)
Unlist(n) == streams' = Without(n)

-----------------------------------------------------------------------------
(* getOrCreateStream, and what its caller does with the stream.             *)

UserFinds(u) ==
  /\ user[u].pc = "idle"
  /\ \E n \in Names :
       /\ streams[n] # Nil
       /\ user' = [user EXCEPT ![u] = [pc |-> "using", name |-> n, stream |-> streams[n]]]
  /\ UNCHANGED <<made, streams, feed, closer, sweeper>>

(* 404: there is no such channel, and this user cannot make one.            *)
UserRefused(u) ==
  /\ user[u].pc = "idle"
  /\ ~Autocreate /\ u \notin Locals
  /\ \E n \in Names : streams[n] = Nil
  /\ user' = [user EXCEPT ![u].pc = "done"]
  /\ UNCHANGED <<made, streams, feed, closer, sweeper>>

UserCreates(u) ==
  /\ user[u].pc = "idle"
  /\ Autocreate \/ u \in Locals
  /\ Len(made) < MaxStreams
  /\ \E n \in Names :
       /\ streams[n] = Nil
       /\ made' = Append(made, [name |-> n, closed |-> FALSE, idle |-> FALSE])
       /\ streams' = [streams EXCEPT ![n] = Len(made) + 1]
       /\ user' = [user EXCEPT ![u] = [pc |-> "adding", name |-> n, stream |-> Len(made) + 1]]
  /\ UNCHANGED <<feed, closer, sweeper>>

(* Plausible bug: the change is not written.                                 *)
Forget(kind, n) == feed' = feed

Announce(kind, n) == Publish(kind, n)

(* Off sm.mutex, the new channel goes to the changefeed.                    *)
UserAnnounces(u) ==
  /\ user[u].pc = "adding"
  /\ Announce("added", user[u].name)
  /\ user' = [user EXCEPT ![u].pc = "using"]
  /\ UNCHANGED <<made, streams, closer, sweeper>>

(* A POST sets writeTime when its first data arrives, on a stream that may  *)
(* be closed by then.                                                       *)
UserWrites(u) ==
  /\ user[u].pc = "using"
  /\ u \notin Locals
  /\ made' = [made EXCEPT ![user[u].stream].idle = FALSE]
  /\ user' = [user EXCEPT ![u] = [pc |-> "idle", name |-> Nil, stream |-> Nil]]
  /\ UNCHANGED <<streams, feed, closer, sweeper>>

(* A POST without data, handleCreate and a local publisher do not.          *)
UserLeaves(u) ==
  /\ user[u].pc = "using"
  /\ user' = [user EXCEPT ![u] = [pc |-> "idle", name |-> Nil, stream |-> Nil]]
  /\ UNCHANGED <<made, streams, feed, closer, sweeper>>

-----------------------------------------------------------------------------
(* closeStream                                                              *)

CloserFinds(c) ==
  /\ closer[c].pc = "idle"
  /\ \E n \in Names :
       /\ streams[n] # Nil
       /\ closer' = [closer EXCEPT ![c] = [pc |-> "found", name |-> n, stream |-> streams[n]]]
  /\ UNCHANGED <<made, streams, feed, user, sweeper>>

CloserCloses(c) ==
  /\ closer[c].pc = "found"
  /\ made' = ClosedStreams({closer[c].stream})
  /\ closer' = [closer EXCEPT ![c].pc = "closed"]
  /\ UNCHANGED <<streams, feed, user, sweeper>>

CloserUnlists(c) ==
  /\ closer[c].pc = "closed"
  /\ Unlist(closer[c].name)
  /\ closer' = [closer EXCEPT ![c].pc = "removing"]
  /\ UNCHANGED <<made, feed, user, sweeper>>

CloserAnnounces(c) ==
  /\ closer[c].pc = "removing"
  /\ Announce("removed", closer[c].name)
  /\ closer' = [closer EXCEPT ![c].pc = "done"]
  /\ UNCHANGED <<made, streams, user, sweeper>>

-----------------------------------------------------------------------------
(* The goroutine of Start.                                                  *)

(* No new segment for longer than IdleTimeout.                              *)
GoesIdle(s) ==
  /\ s \in DOMAIN made
  /\ ~made[s].idle
  /\ made' = [made EXCEPT ![s].idle = TRUE]
  /\ UNCHANGED <<streams, feed, user, closer, sweeper>>

(* sweepIdleChannels copies the streams, and goes through them in any order. *)
SweepStarts ==
  /\ sweeper.pc = "ticking"
  /\ sweeper' = [sweeper EXCEPT !.pc = "sweeping", !.todo = {streams[n] : n \in Names} \ {Nil}]
  /\ UNCHANGED <<made, streams, feed, user, closer>>

(* Plausible bug: the comparison is the wrong way round.                     *)
IsBusy(s) == ~made[s].idle

IsIdle(s) == made[s].idle

SweepSkips(s) ==
  /\ sweeper.pc = "sweeping"
  /\ s \in sweeper.todo
  /\ ~IsIdle(s)
  /\ sweeper' = [sweeper EXCEPT !.todo = @ \ {s}]
  /\ UNCHANGED <<made, streams, feed, user, closer>>

(* Plausible bug: closeStream does not look whether the name is there.       *)
AnyStream(s) == TRUE

Exists(s) == s # Nil

(* An idle stream is closed by its name, which may stand for another stream *)
(* by now, or for none: then closeStream fails.                             *)
SweepFinds(s) ==
  /\ sweeper.pc = "sweeping"
  /\ s \in sweeper.todo
  /\ IsIdle(s)
  /\ LET n == made[s].name IN
       sweeper' = [sweeper EXCEPT !.todo = @ \ {s}, !.name = n, !.stream = streams[n],
                                  !.pc = IF Exists(streams[n]) THEN "found" ELSE "sweeping"]
  /\ UNCHANGED <<made, streams, feed, user, closer>>

SweepCloses ==
  /\ sweeper.pc = "found"
  /\ made' = ClosedStreams({sweeper.stream})
  /\ sweeper' = [sweeper EXCEPT !.pc = "closed"]
  /\ UNCHANGED <<streams, feed, user, closer>>

SweepUnlists ==
  /\ sweeper.pc = "closed"
  /\ Unlist(sweeper.name)
  /\ sweeper' = [sweeper EXCEPT !.pc = "removing"]
  /\ UNCHANGED <<made, feed, user, closer>>

SweepAnnounces ==
  /\ sweeper.pc = "removing"
  /\ Announce("removed", sweeper.name)
  /\ sweeper' = [sweeper EXCEPT !.pc = "sweeping"]
  /\ UNCHANGED <<made, streams, user, closer>>

SweepEnds ==
  /\ sweeper.pc = "sweeping"
  /\ sweeper.todo = {}
  /\ sweeper' = [sweeper EXCEPT !.pc = "ticking", !.name = Nil, !.stream = Nil]
  /\ UNCHANGED <<made, streams, feed, user, closer>>

(* clearAllStreams, sm.mutex held throughout: the changefeed is not told.   *)
Stop ==
  /\ MayStop
  /\ sweeper.pc = "ticking"
  /\ made' = ClosedStreams({streams[n] : n \in Names})
  /\ streams' = [n \in Names |-> Nil]
  /\ sweeper' = [sweeper EXCEPT !.pc = "stopped"]
  /\ UNCHANGED <<feed, user, closer>>

-----------------------------------------------------------------------------
User(u) ==
  \/ UserFinds(u) \/ UserRefused(u) \/ UserCreates(u) \/ UserAnnounces(u)
  \/ UserWrites(u) \/ UserLeaves(u)

Closer(c) == CloserFinds(c) \/ CloserCloses(c) \/ CloserUnlists(c) \/ CloserAnnounces(c)

Sweep ==
  \/ SweepStarts \/ SweepCloses \/ SweepUnlists \/ SweepAnnounces \/ SweepEnds
  \/ \E s \in DOMAIN made : SweepSkips(s) \/ SweepFinds(s)

Next ==
  \/ \E u \in Users : User(u)
  \/ \E c \in Closers : Closer(c)
  \/ \E s \in DOMAIN made : GoesIdle(s)
  \/ Sweep
  \/ Stop

Spec == Init /\ [][Next]_vars

(* The ticker keeps firing; goroutines that are past their lookup go on.    *)
FairSpec ==
  /\ Spec
  /\ WF_vars(Sweep)
  /\ \A c \in Closers : WF_vars(CloserCloses(c) \/ CloserUnlists(c) \/ CloserAnnounces(c))
  /\ \A u \in Users : WF_vars(UserAnnounces(u))

-----------------------------------------------------------------------------
(* Types of the server's map and of the goroutines' local variables; a name *)
(* stands for a stream made under that name, and whoever uses or closes a   *)
(* stream has one.                                                          *)
TypeOK ==
  /\ made \in Seq([name : Names, closed : BOOLEAN, idle : BOOLEAN])
  /\ streams \in [Names -> 0 .. Len(made)]
  /\ \A n \in Names : streams[n] # Nil => made[streams[n]].name = n
  /\ feed \in Seq([kind : {"added", "removed"}, name : Names])
  /\ user \in [Users -> [pc : {"idle", "adding", "using", "done"}, name : Names \cup {Nil},
                         stream : 0 .. Len(made)]]
  /\ closer \in [Closers -> [pc : {"idle", "found", "closed", "removing", "done"},
                             name : Names \cup {Nil}, stream : 0 .. Len(made)]]
  /\ sweeper \in [pc : {"ticking", "sweeping", "found", "closed", "removing", "stopped"},
                  todo : SUBSET (1 .. Len(made)), name : Names \cup {Nil},
                  stream : 0 .. Len(made)]
  /\ \A u \in Users : user[u].pc \in {"adding", "using"} => user[u].stream # Nil
  /\ \A c \in Closers : closer[c].pc \in {"found", "closed"} => closer[c].stream # Nil
  /\ sweeper.pc \in {"found", "closed"} => sweeper.stream # Nil

(* A closed stream is in the map only while whoever closed it is about to   *)
(* take that name off: nobody is handed a closed stream for ever, however   *)
(* closers, the sweeper and re-creations of the name meet (closeStream).    *)
ClosedIsLeaving ==
  \A n \in Names : streams[n] # Nil /\ made[streams[n]].closed =>
    \/ \E c \in Closers : closer[c].pc = "closed" /\ closer[c].name = n
    \/ sweeper.pc = "closed" /\ sweeper.name = n

(* The changefeed misses no creation and makes none up: as many "added" of  *)
(* a name as streams were made under it, counting the ones on their way.    *)
Entries(kind, n) == {k \in DOMAIN feed : feed[k] = [kind |-> kind, name |-> n]}

EveryCreationIsTold ==
  Changefeed =>
    \A n \in Names :
      Cardinality({s \in DOMAIN made : made[s].name = n}) =
        Cardinality(Entries("added", n))
          + Cardinality({u \in Users : user[u].pc = "adding" /\ user[u].name = n})

(* Nor does it miss that a stream left the map, until the server is stopped *)
(* (clearAllStreams tells it nothing): a name has at least as many          *)
(* "removed" as streams of it left.  At least: of two goroutines that close *)
(* one stream each writes one.                                              *)
EveryRemovalIsTold ==
  Changefeed /\ sweeper.pc # "stopped" =>
    \A n \in Names :
      Cardinality({s \in DOMAIN made : made[s].name = n /\ ~Listed(s)}) <=
        Cardinality(Entries("removed", n))
          + Cardinality({c \in Closers : closer[c].pc = "removing" /\ closer[c].name = n})
          + (IF sweeper.pc = "removing" /\ sweeper.name = n THEN 1 ELSE 0)

(* Both at once: no change of the map goes untold, in whatever order the    *)
(* announcements, made off sm.mutex, get there.                             *)
EveryChangeIsTold == EveryCreationIsTold /\ EveryRemovalIsTold

(* A channel that stays without new segments is swept.                      *)
StaysIdle(s) ==
  /\ s \in DOMAIN made
  /\ Listed(s)
  /\ made[s].idle /\ ~made[s].closed
  /\ sweeper.pc # "stopped"

IdleIsSwept ==
  \A s \in 1 .. MaxStreams : StaysIdle(s) ~> ~StaysIdle(s)
==============================================================================
