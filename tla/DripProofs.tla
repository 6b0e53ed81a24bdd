----------------------------- MODULE DripProofs -----------------------------
(***************************************************************************)
(* Drip, for every set of readers and chunks, every choice of buffer sizes  *)
(* and every length: its invariants hold, and it implements Relay.          *)
(*                                                                         *)
(* ExactPrefix is inductive with TypeOK, the bound on the buffer (readPos   *)
(* is typed by it) and the fact that a reader not yet made has read nothing *)
(* (Clone sets its position to 0 and leaves its copy alone).  Appending to a buffer   *)
(* does not disturb the prefixes already copied; a read extends one of them *)
(* by the next piece of the buffer.                                         *)
(***************************************************************************)
EXTENDS Drip, SequenceTheorems, TLAPS

(* The bound that Write's guard maintains.                                  *)
Bounded == Len(buffer) <= MaxLength

(* A reader that was not made yet has read nothing.                         *)
Unread == \A r \in Readers \ made : readPos[r] = 0 /\ ~eof[r]

IInv == TypeOK /\ Bounded /\ Unread /\ NoLostWakeup /\ ExactPrefix

-----------------------------------------------------------------------------
(* The first n chunks of a sequence.                                        *)
LEMMA PrefixProperties ==
  ASSUME NEW S, NEW s \in Seq(S), NEW n \in 0 .. Len(s)
  PROVE  /\ SubSeq(s, 1, n) \in Seq(S)
         /\ Len(SubSeq(s, 1, n)) = n
         /\ \A i \in 1 .. n : SubSeq(s, 1, n)[i] = s[i]
  <1>1. 1 \in Int /\ n \in Int /\ \A i \in 1 .. n : s[i] \in S
    OBVIOUS
  <1>2. /\ SubSeq(s, 1, n) \in Seq(S)
        /\ Len(SubSeq(s, 1, n)) = IF 1 <= n THEN n - 1 + 1 ELSE 0
        /\ \A i \in 1 .. n - 1 + 1 : SubSeq(s, 1, n)[i] = s[1 + i - 1]
    BY <1>1, SubSeqProperties
  <1> QED BY <1>2

(* Appending leaves every prefix of a sequence as it was (what Write does   *)
(* to the readers' prefixes).                                               *)
LEMMA PrefixOfAppend ==
  ASSUME NEW S, NEW s \in Seq(S), NEW c \in S, NEW n \in 0 .. Len(s)
  PROVE  SubSeq(Append(s, c), 1, n) = SubSeq(s, 1, n)
  <1>1. /\ Append(s, c) \in Seq(S)
        /\ Len(Append(s, c)) = Len(s) + 1
        /\ \A i \in 1 .. Len(s) : Append(s, c)[i] = s[i]
    BY AppendProperties
  <1> DEFINE u == SubSeq(s, 1, n)
             t == SubSeq(Append(s, c), 1, n)
  <1>2. u \in Seq(S) /\ Len(u) = n /\ \A i \in 1 .. n : u[i] = s[i]
    BY PrefixProperties
  <1>3. t \in Seq(S) /\ Len(t) = n /\ \A i \in 1 .. n : t[i] = Append(s, c)[i]
    <2>1. n \in 0 .. Len(Append(s, c))
      BY <1>1
    <2> QED BY <1>1, <2>1, PrefixProperties
  <1>4. Len(t) = Len(u) /\ \A i \in 1 .. Len(t) : t[i] = u[i]
    BY <1>1, <1>2, <1>3
  <1> HIDE DEF u, t
  <1>5. t = u
    BY <1>2, <1>3, <1>4, SeqEqual
  <1> QED BY <1>5 DEF u, t

(* Copying the next k chunks extends the prefix held (what Read does).      *)
LEMMA ExtendPrefix ==
  ASSUME NEW S, NEW s \in Seq(S), NEW m \in 0 .. Len(s), NEW k \in 0 .. (Len(s) - m)
  PROVE  SubSeq(s, 1, m) \o SubSeq(s, m + 1, m + k) = SubSeq(s, 1, m + k)
  <1>1. 1 \in 1 .. Len(s) + 1 /\ m \in (1 - 1) .. Len(s) /\ m + k \in m .. Len(s)
    OBVIOUS
  <1> QED BY <1>1, ConcatAdjacentSubSeq

(* How much a Read takes: something, no more than is waiting, and all of it *)
(* when it reports the end.                                                 *)
LEMMA TakenBounds ==
  ASSUME NEW waiting \in Nat \ {0}, NEW n \in Nat \ {0}
  PROVE  /\ Taken(waiting, n) \in 1 .. waiting
         /\ LastRead(waiting, n) => closed /\ Taken(waiting, n) = waiting
  BY DEF Taken, LastRead

-----------------------------------------------------------------------------
(* The invariant holds initially.                                           *)
LEMMA InitInv == Init => IInv
  <1> SUFFICES ASSUME Init PROVE IInv
    OBVIOUS
  <1> DEFINE none == << >>
  <1>0. /\ buffer = none /\ got = [r \in Readers |-> none]
        /\ readPos = [r \in Readers |-> 0] /\ eof = [r \in Readers |-> FALSE]
        /\ closed = FALSE /\ made = {} /\ parked = {}
    BY DEF Init
  <1>1. none \in Seq(Chunks) /\ Len(none) = 0 /\ SubSeq(none, 1, 0) = none
    OBVIOUS
  <1> HIDE DEF none
  <1>2. TypeOK /\ Bounded
    <2>1. buffer \in Seq(Chunks) /\ Bounded
      BY <1>0, <1>1, DripAssumption DEF Bounded
    <2>2. readPos \in [Readers -> 0 .. MaxLength]
      BY <1>0, DripAssumption
    <2>3. got \in [Readers -> Seq(Chunks)]
      BY <1>0, <1>1
    <2>4. closed \in BOOLEAN /\ eof \in [Readers -> BOOLEAN]
      BY <1>0
    <2> QED BY <1>0, <2>1, <2>2, <2>3, <2>4 DEF TypeOK
  <1>3. Unread /\ NoLostWakeup
    BY DEF Init, Unread, NoLostWakeup
  <1>4. ExactPrefix
    <2>1. ASSUME NEW r \in Readers
          PROVE  readPos[r] = 0 /\ got[r] = none /\ ~eof[r]
      BY <1>0
    <2>2. Len(buffer) = 0 /\ SubSeq(buffer, 1, 0) = none
      BY <1>0, <1>1
    <2>3. ASSUME NEW r \in Readers
          PROVE  readPos[r] <= Len(buffer) /\ got[r] = SubSeq(buffer, 1, readPos[r])
      <3>1. readPos[r] = 0 /\ got[r] = none
        BY <2>1
      <3>2. readPos[r] <= Len(buffer)
        BY <3>1, <2>2
      <3> QED BY <3>1, <3>2, <2>2, Zenon
    <2> QED BY <2>1, <2>3 DEF ExactPrefix
  <1> QED BY <1>2, <1>3, <1>4 DEF IInv

(* One Read that finds data, stated on its own because the refinement needs *)
(* it again.                                                                *)
LEMMA ReadSomeExtends ==
  ASSUME IInv, NEW r \in Readers, NEW n \in BufferSizes, ReadSome(r, n)
  PROVE  /\ readPos'[r] \in readPos[r] .. Len(buffer)
         /\ readPos' = [readPos EXCEPT ![r] = readPos'[r]]
         /\ got' = [got EXCEPT ![r] = SubSeq(buffer, 1, readPos'[r])]
         /\ eof' = [eof EXCEPT ![r] = eof'[r]]
         /\ eof'[r] \in BOOLEAN
         /\ eof'[r] => closed /\ readPos'[r] = Len(buffer)
  <1> DEFINE waiting == Len(buffer) - readPos[r]
             k == Taken(waiting, n)
  <1> USE DEF IInv
  <1>1. /\ buffer \in Seq(Chunks)
        /\ Len(buffer) \in Nat
        /\ readPos[r] \in 0 .. Len(buffer)
        /\ got[r] = SubSeq(buffer, 1, readPos[r])
    BY DripAssumption DEF TypeOK, ExactPrefix
  <1>2. waiting \in Nat \ {0} /\ n \in Nat \ {0}
    BY <1>1, DripAssumption DEF ReadSome
  <1>3. k \in 1 .. waiting /\ (LastRead(waiting, n) => closed /\ k = waiting)
    BY <1>2, TakenBounds
  <1>4. /\ got' = [got EXCEPT ![r] = @ \o SubSeq(buffer, readPos[r] + 1, readPos[r] + k)]
        /\ readPos' = [readPos EXCEPT ![r] = @ + k]
        /\ eof' = [eof EXCEPT ![r] = LastRead(waiting, n)]
    BY DEF ReadSome
  <1>5. readPos'[r] = readPos[r] + k /\ eof'[r] = LastRead(waiting, n)
    BY <1>4 DEF TypeOK
  <1>6. got[r] \o SubSeq(buffer, readPos[r] + 1, readPos[r] + k) = SubSeq(buffer, 1, readPos[r] + k)
    <2>1. k \in 0 .. (Len(buffer) - readPos[r])
      BY <1>2, <1>3
    <2> QED BY <2>1, <1>1, ExtendPrefix
  <1>7. LastRead(waiting, n) \in BOOLEAN
    BY <1>2 DEF LastRead, TypeOK
  <1> QED
    <2> HIDE DEF k, waiting
    <2>1. got' = [got EXCEPT ![r] = SubSeq(buffer, 1, readPos'[r])]
      BY <1>4, <1>5, <1>6
    <2>2. waiting = Len(buffer) - readPos[r]
      BY DEF waiting
    <2>3. readPos'[r] \in readPos[r] .. Len(buffer)
      BY <2>2, <1>1, <1>2, <1>3, <1>5
    <2>4. eof'[r] => closed /\ readPos'[r] = Len(buffer)
      BY <2>2, <1>1, <1>2, <1>3, <1>5
    <2> QED BY <2>1, <2>3, <2>4, <1>4, <1>5, <1>7

(* Every step keeps it.                                                     *)
LEMMA InductiveStep == IInv /\ [Next]_vars => IInv'
  <1> SUFFICES ASSUME IInv, [Next]_vars PROVE IInv'
    OBVIOUS
  <1> USE DEF IInv
  <1>1. ASSUME NEW c \in Chunks, Write(c) PROVE IInv'
    <2>1. /\ buffer' \in Seq(Chunks)
          /\ Len(buffer') = Len(buffer) + 1
          /\ Len(buffer) \in Nat
      BY <1>1, AppendProperties DEF Write, TypeOK
    <2>2. \A r \in Readers : readPos[r] \in 0 .. Len(buffer)
      BY <2>1, DripAssumption DEF TypeOK, ExactPrefix
    <2>3. \A r \in Readers : SubSeq(buffer', 1, readPos[r]) = SubSeq(buffer, 1, readPos[r])
      BY <1>1, <2>2, PrefixOfAppend DEF Write, TypeOK
    <2>4. TypeOK' /\ Bounded' /\ Unread' /\ NoLostWakeup'
      BY <1>1, <2>1, DripAssumption DEF Write, Broadcast, TypeOK, Bounded, Unread, NoLostWakeup
    <2>5. ExactPrefix'
      BY <1>1, <2>1, <2>2, <2>3 DEF Write, ExactPrefix
    <2> QED BY <2>4, <2>5
  <1>2. CASE Close
    BY <1>2 DEF Close, Broadcast, TypeOK, Bounded, Unread, NoLostWakeup, ExactPrefix
  <1>3. ASSUME NEW r \in Readers, MakeReader(r) PROVE IInv'
    BY <1>3 DEF MakeReader, TypeOK, Bounded, Unread, NoLostWakeup, ExactPrefix
  <1>4. ASSUME NEW q \in Readers, NEW r \in Readers, Clone(q, r) PROVE IInv'
    BY <1>4 DEF Clone, TypeOK, Bounded, Unread, NoLostWakeup, ExactPrefix
  <1>5. ASSUME NEW r \in Readers, NEW n \in BufferSizes, ReadSome(r, n) PROVE IInv'
    <2>1. /\ buffer' = buffer /\ closed' = closed /\ made' = made /\ parked' = parked
          /\ Reading(r)
      BY <1>5 DEF ReadSome
    <2>2. readPos'[r] \in 0 .. MaxLength /\ SubSeq(buffer, 1, readPos'[r]) \in Seq(Chunks)
      <3>1. readPos'[r] \in 0 .. Len(buffer) /\ readPos'[r] \in 0 .. MaxLength
        BY <1>5, ReadSomeExtends, DripAssumption DEF TypeOK, Bounded
      <3> QED BY <3>1, PrefixProperties DEF TypeOK
    <2>3. TypeOK'
      BY <2>1, <2>2, <1>5, ReadSomeExtends DEF TypeOK
    <2>4. Bounded' /\ Unread' /\ NoLostWakeup'
      <3>1. r \in made /\ r \notin parked
        BY <2>1 DEF Reading
      <3>2. \A q \in Readers \ {r} : readPos'[q] = readPos[q] /\ eof'[q] = eof[q]
        BY <1>5, ReadSomeExtends DEF TypeOK
      <3>3. parked \subseteq Readers
        BY DEF TypeOK
      <3> QED BY <2>1, <3>1, <3>2, <3>3 DEF Bounded, Unread, NoLostWakeup
    <2>5. ASSUME NEW q \in Readers
          PROVE  /\ readPos'[q] <= Len(buffer)
                 /\ got'[q] = SubSeq(buffer, 1, readPos'[q])
                 /\ eof'[q] => closed /\ readPos'[q] = Len(buffer)
      <3>1. /\ readPos[q] <= Len(buffer)
            /\ got[q] = SubSeq(buffer, 1, readPos[q])
            /\ eof[q] => closed /\ readPos[q] = Len(buffer)
        BY DEF ExactPrefix
      <3>2. CASE q = r
        <4>1. got'[r] = SubSeq(buffer, 1, readPos'[r])
          BY <1>5, ReadSomeExtends DEF TypeOK
        <4>2. readPos'[r] <= Len(buffer)
          BY <1>5, ReadSomeExtends DEF TypeOK
        <4> QED BY <4>1, <4>2, <3>2, <1>5, ReadSomeExtends
      <3>3. CASE q # r
        BY <3>1, <3>3, <1>5, ReadSomeExtends DEF TypeOK
      <3> QED BY <3>2, <3>3
    <2>6. ExactPrefix'
      BY <2>1, <2>5 DEF ExactPrefix
    <2> QED BY <2>3, <2>4, <2>6
  <1>6. ASSUME NEW r \in Readers, ReadEnd(r) PROVE IInv'
    BY <1>6, DripAssumption DEF ReadEnd, Reading, TypeOK, Bounded, Unread, NoLostWakeup, ExactPrefix
  <1>7. ASSUME NEW r \in Readers, ReadWait(r) PROVE IInv'
    BY <1>7 DEF ReadWait, Reading, TypeOK, Bounded, Unread, NoLostWakeup, ExactPrefix
  <1>8. CASE UNCHANGED vars
    BY <1>8 DEF vars, TypeOK, Bounded, Unread, NoLostWakeup, ExactPrefix
  <1> QED BY <1>1, <1>2, <1>3, <1>4, <1>5, <1>6, <1>7, <1>8 DEF Next, Read

-----------------------------------------------------------------------------
(* So it always holds.                                                      *)
LEMMA Invariance == Spec => []IInv
  BY InitInv, InductiveStep, PTL DEF Spec

(* The types of the TrickleWriter's and TrickleReaders' fields.              *)
THEOREM TypeCorrect == Spec => []TypeOK
  BY Invariance, PTL DEF IInv

(* No reader of a TrickleWriter sleeps while there is data it has not       *)
(* copied, or after Close.                                                  *)
THEOREM NoReaderSleepsInVain == Spec => []NoLostWakeup
  BY Invariance, PTL DEF IInv

(* Whatever sizes a reader reads with, what it has copied is the start of   *)
(* the segment, and it hears io.EOF only with all of a closed segment.      *)
THEOREM ReadersHoldPrefixes == Spec => []ExactPrefix
  BY Invariance, PTL DEF IInv

(* drip.go implements the relay: an initial state is an initial state of    *)
(* Relay, and every step is a step of Relay or leaves it unchanged.         *)
THEOREM DripImplementsRelay == Spec => ImplementsRelay
  <1>1. Init => Promise!Init
    BY DEF Init, Promise!Init
  <1>2. IInv /\ [Next]_vars => [Promise!Next]_(Promise!vars)
    <2> SUFFICES ASSUME IInv, [Next]_vars PROVE [Promise!Next]_(Promise!vars)
      OBVIOUS
    <2> USE DEF IInv
    <2>1. ASSUME NEW c \in Chunks, Write(c) PROVE Promise!Publish(c)
      BY <2>1 DEF Write, Promise!Publish
    <2>2. CASE Close
      BY <2>2 DEF Close, Promise!Seal, Promise!Next
    <2>3. ASSUME NEW r \in Readers, NEW n \in BufferSizes, ReadSome(r, n) PROVE Promise!Deliver(r)
      <3>1. Len(got[r]) = readPos[r]
        BY PrefixProperties, DripAssumption DEF TypeOK, ExactPrefix
      <3>2. ~eof[r] /\ buffer' = buffer /\ closed' = closed
        BY <2>3 DEF ReadSome, Reading
      <3> DEFINE p == readPos'[r]
                 e == eof'[r]
      <3>3. /\ p \in Len(got[r]) .. Len(buffer) /\ e \in BOOLEAN
            /\ e => closed /\ p = Len(buffer)
            /\ got' = [got EXCEPT ![r] = SubSeq(buffer, 1, p)]
            /\ eof' = [eof EXCEPT ![r] = e]
        BY <2>3, <3>1, ReadSomeExtends
      <3> HIDE DEF p, e
      <3> QED BY <3>2, <3>3 DEF Promise!Deliver
    <2>4. ASSUME NEW r \in Readers, ReadEnd(r) PROVE Promise!Deliver(r)
      <3>1. Len(got[r]) = readPos[r] /\ Len(buffer) \in Nat
        BY PrefixProperties, DripAssumption DEF TypeOK, ExactPrefix
      <3>2. closed /\ readPos[r] = Len(buffer) /\ ~eof[r]
        BY <2>4, <3>1, DripAssumption DEF ReadEnd, Reading, TypeOK, ExactPrefix
      <3>3. got[r] = SubSeq(buffer, 1, Len(buffer)) /\ got' = [got EXCEPT ![r] = SubSeq(buffer, 1, Len(buffer))]
        BY <2>4, <3>2 DEF ReadEnd, TypeOK, ExactPrefix
      <3>4. Len(buffer) \in Len(got[r]) .. Len(buffer)
        BY <3>1, <3>2
      <3> QED BY <2>4, <3>2, <3>3, <3>4 DEF ReadEnd, Promise!Deliver
    <2>5. ASSUME \/ \E r \in Readers : MakeReader(r) \/ ReadWait(r)
                 \/ \E q, r \in Readers : Clone(q, r)
                 \/ UNCHANGED vars
          PROVE  UNCHANGED Promise!vars
      BY <2>5 DEF MakeReader, ReadWait, Clone, vars, Promise!vars
    <2> QED BY <2>1, <2>2, <2>3, <2>4, <2>5 DEF Next, Read, Promise!Next
  <1> QED BY <1>1, <1>2, Invariance, PTL DEF Spec, ImplementsRelay, Promise!Spec
==============================================================================
