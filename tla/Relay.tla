-------------------------------- MODULE Relay --------------------------------
(***************************************************************************)
(* What a buffered relay promises: one publication, made of chunks, reaches *)
(* every subscriber in order, from its first chunk, however late the        *)
(* subscriber arrives and however slowly it reads; a subscriber is told the *)
(* publication is over only once it holds all of it.                        *)
(*                                                                         *)
(* drip.go (TrickleWriter, TrickleReader) keeps this promise inside a       *)
(* publisher process; module Drip shows that it does.                       *)
(***************************************************************************)
EXTENDS Naturals, Sequences

CONSTANTS
  Readers,      \* the subscribers
  Chunks        \* what a publication is made of

VARIABLES
  published,    \* the chunks published so far
  sealed,       \* nothing more will be published
  received,     \* the chunks each subscriber holds
  finished      \* the subscribers that were told the publication is over

vars == <<published, sealed, received, finished>>

Init ==
  /\ published = << >>
  /\ sealed = FALSE
  /\ received = [r \in Readers |-> << >>]
  /\ finished = [r \in Readers |-> FALSE]

Publish(c) ==
  /\ ~sealed
  /\ published' = Append(published, c)
  /\ UNCHANGED <<sealed, received, finished>>

Seal ==
  /\ ~sealed
  /\ sealed' = TRUE
  /\ UNCHANGED <<published, received, finished>>

(* A subscriber catches up to the first n chunks, and may be told that this *)
(* is all there is.                                                         *)
Deliver(r) ==
  /\ ~finished[r]
  /\ \E n \in Len(received[r]) .. Len(published), last \in BOOLEAN :
       /\ last => sealed /\ n = Len(published)
       /\ received' = [received EXCEPT ![r] = SubSeq(published, 1, n)]
       /\ finished' = [finished EXCEPT ![r] = last]
  /\ UNCHANGED <<published, sealed>>

Next ==
  \/ \E c \in Chunks : Publish(c)
  \/ Seal
  \/ \E r \in Readers : Deliver(r)

Spec == Init /\ [][Next]_vars
==============================================================================
