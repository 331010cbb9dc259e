------------------------ MODULE OfflineBufferProofs ------------------------
(***************************************************************************)
(* The promises of OfflineBuffer hold for every size of the buffer and any number of *)
(* events.                                                                 *)
(***************************************************************************)
EXTENDS OfflineBuffer, SequenceTheorems, TLAPS

\* A tail of a sequence, by its length and its elements.
LEMMA SuffixFacts ==
  ASSUME NEW S, NEW s \in Seq(S), NEW k \in 0..Len(s)
  PROVE  /\ SubSeq(s, k + 1, Len(s)) \in Seq(S)
         /\ Len(SubSeq(s, k + 1, Len(s))) = Len(s) - k
         /\ \A i \in 1..(Len(s) - k) : SubSeq(s, k + 1, Len(s))[i] = s[k + i]
<1>1. Len(s) \in Nat
  BY LenProperties
<1>2. \A i \in (k + 1)..Len(s) : s[i] \in S
  BY <1>1, ElementOfSeq
<1> QED
  BY <1>1, <1>2, SubSeqProperties

\* Tail is the suffix after one element.
LEMMA TailFacts ==
  ASSUME NEW S, NEW s \in Seq(S), s # <<>>
  PROVE  /\ Tail(s) \in Seq(S)
         /\ Len(Tail(s)) = Len(s) - 1
         /\ \A i \in 1..(Len(s) - 1) : Tail(s)[i] = s[i + 1]
  BY HeadTailProperties

LEMMA AppendFacts ==
  ASSUME NEW S, NEW s \in Seq(S), NEW e \in S
  PROVE  /\ Append(s, e) \in Seq(S)
         /\ Len(Append(s, e)) = Len(s) + 1
         /\ \A i \in 1..Len(s) : Append(s, e)[i] = s[i]
         /\ Append(s, e)[Len(s) + 1] = e
  BY AppendProperties
-----------------------------------------------------------------------------
(***************************************************************************)
(* The invariant as a predicate on values, so that a step that changes     *)
(* both sequences is a composition of changes to one of them.              *)
(***************************************************************************)
Typed(p, r, n) == /\ p \in Seq(Nat) /\ Len(p) <= MaxQueueSize
                  /\ r \in Seq(Delivery)
                  /\ n \in Nat
Once(r) == \A i, j \in 1..Len(r) : r[i].id = r[j].id => i = j
InOrder(r) ==
  \A i, j \in 1..Len(r) :
    i < j /\ r[i].via = "queue" /\ r[j].via = "queue" => r[i].id < r[j].id
Ascending(p) == \A i, j \in 1..Len(p) : i < j => p[i] < p[j]
Known(p, r, n) == /\ \A i \in 1..Len(p) : p[i] \in 1..n
                  /\ \A i \in 1..Len(r) : r[i].id \in 1..n
Ahead(p, r) ==
  \A i \in 1..Len(r) : \A j \in 1..Len(p) :
    /\ r[i].id # p[j]
    /\ r[i].via = "queue" => r[i].id < p[j]

Sound(p, r, n) == /\ Typed(p, r, n) /\ Once(r) /\ InOrder(r)
                  /\ Ascending(p) /\ Known(p, r, n) /\ Ahead(p, r)

\* Inv says of the variables what Sound says of their values.
LEMMA InvIsSound == /\ Inv <=> Sound(pending, received, submitted)
                    /\ Inv' <=> Sound(pending', received', submitted')
<1> USE DEF Inv, TypeOK, AtMostOnce, ReplayInOrder, PendingAhead, Sound, Typed,
            Once, InOrder, Ascending, Known, Ahead
<1>1. Inv <=> Sound(pending, received, submitted)
  OBVIOUS
<1>2. Inv' <=> Sound(pending', received', submitted')
  OBVIOUS
<1> QED
  BY <1>1, <1>2

\* Giving up the k oldest pending events: what is left is still in order and
\* ahead of everything replayed.
LEMMA SuffixSound ==
  ASSUME NEW p, NEW r, NEW n, Sound(p, r, n), NEW k \in 0..Len(p)
  PROVE  Sound(SubSeq(p, k + 1, Len(p)), r, n)
<1> DEFINE s == SubSeq(p, k + 1, Len(p))
<1>1. /\ s \in Seq(Nat)
      /\ Len(s) = Len(p) - k
      /\ \A i \in 1..(Len(p) - k) : s[i] = p[k + i]
  BY SuffixFacts DEF Sound, Typed
<1>2. Len(p) \in Nat
  BY LenProperties DEF Sound, Typed
<1>3. \A i \in 1..Len(s) : k + i \in 1..Len(p) /\ s[i] = p[k + i]
  BY <1>1, <1>2
<1> HIDE DEF s
<1>4. Typed(s, r, n)
  BY <1>1, <1>2, QueueAssumption DEF Sound, Typed
<1>5. Ascending(s)
  BY <1>1, <1>2, <1>3 DEF Sound, Ascending
<1>6. Known(s, r, n) /\ Ahead(s, r)
  BY <1>3 DEF Sound, Known, Ahead
<1> QED
  BY <1>4, <1>5, <1>6 DEF Sound, s

\* An event is received that is newer than all replayed ones, was not received
\* before and is not pending.
LEMMA ReceiveSound ==
  ASSUME NEW p, NEW r, NEW n, Sound(p, r, n),
         NEW e \in Delivery, e.id \in 1..n,
         \A i \in 1..Len(r) :
           r[i].id # e.id /\ (r[i].via = "queue" => r[i].id < e.id),
         \A j \in 1..Len(p) :
           e.id # p[j] /\ (e.via = "queue" => e.id < p[j])
  PROVE  Sound(p, Append(r, e), n)
<1> DEFINE s == Append(r, e)
<1>1. /\ s \in Seq(Delivery)
      /\ Len(s) = Len(r) + 1
      /\ \A i \in 1..Len(r) : s[i] = r[i]
      /\ s[Len(r) + 1] = e
  BY AppendFacts DEF Sound, Typed
<1>2. Len(r) \in Nat
  BY LenProperties DEF Sound, Typed
<1>3. \A i \in 1..Len(s) :
        \/ i \in 1..Len(r) /\ s[i] = r[i]
        \/ i = Len(r) + 1 /\ s[i] = e
  BY <1>1, <1>2
<1> HIDE DEF s
<1>4. Typed(p, s, n)
  BY <1>1 DEF Sound, Typed
<1>5. Once(s)
  BY <1>1, <1>2, <1>3 DEF Sound, Once
<1>6. InOrder(s)
  BY <1>1, <1>2, <1>3 DEF Sound, InOrder
<1>7. Known(p, s, n) /\ Ahead(p, s)
  BY <1>3 DEF Sound, Known, Ahead
<1> QED
  BY <1>4, <1>5, <1>6, <1>7 DEF Sound, s

\* The next event happens and is not kept.
LEMMA CountSound ==
  ASSUME NEW p, NEW r, NEW n, Sound(p, r, n)
  PROVE  Sound(p, r, n + 1)
  BY DEF Sound, Typed, Known

\* The next event is newer than all others.
LEMMA NextIsNew ==
  ASSUME NEW p, NEW r, NEW n, Sound(p, r, n)
  PROVE  /\ n + 1 \in Nat
         /\ \A i \in 1..Len(p) : p[i] < n + 1 /\ p[i] # n + 1
         /\ \A i \in 1..Len(r) : r[i].id < n + 1 /\ r[i].id # n + 1
<1>1. n \in Nat /\ \A i \in 1..n : i < n + 1 /\ i # n + 1
  BY DEF Sound, Typed
<1> QED
  BY <1>1 DEF Sound, Known

\* The next event happens and is kept, there being room for it.
LEMMA KeepSound ==
  ASSUME NEW p, NEW r, NEW n, Sound(p, r, n), Len(p) < MaxQueueSize
  PROVE  Sound(Append(p, n + 1), r, n + 1)
<1> DEFINE s == Append(p, n + 1)
<1>1. /\ s \in Seq(Nat)
      /\ Len(s) = Len(p) + 1
      /\ \A i \in 1..Len(p) : s[i] = p[i]
      /\ s[Len(p) + 1] = n + 1
  BY AppendFacts, NextIsNew DEF Sound, Typed
<1>2. Len(p) \in Nat
  BY LenProperties DEF Sound, Typed
<1>3. \A i \in 1..Len(s) :
        \/ i \in 1..Len(p) /\ s[i] = p[i]
        \/ i = Len(p) + 1 /\ s[i] = n + 1
  BY <1>1, <1>2
<1> HIDE DEF s
<1>4. Typed(s, r, n + 1)
  BY <1>1, <1>2, QueueAssumption DEF Sound, Typed
<1>5. Ascending(s)
  <2>1. SUFFICES ASSUME NEW i \in 1..Len(s), NEW j \in 1..Len(s), i < j
                 PROVE  s[i] < s[j]
    BY DEF Ascending
  <2>2. i \in 1..Len(p) /\ s[i] = p[i]
    BY <1>1, <1>2, <1>3, <2>1
  <2> QED
    BY <1>3, <2>1, <2>2, NextIsNew DEF Sound, Ascending
<1>6. Known(s, r, n + 1)
  <2>1. Known(p, r, n + 1)
    BY CountSound DEF Sound
  <2>2. n + 1 \in 1..(n + 1)
    BY DEF Sound, Typed
  <2> QED
    BY <1>3, <2>1, <2>2 DEF Known
<1>7. Ahead(s, r)
  BY <1>3, NextIsNew DEF Sound, Ahead
<1> QED
  BY <1>4, <1>5, <1>6, <1>7 DEF Sound, s
-----------------------------------------------------------------------------
LEMMA InitSound == Init => Inv
<1> SUFFICES ASSUME Init PROVE Inv
  OBVIOUS
<1>1. /\ <<>> \in Seq(Nat) /\ Len(<<>>) = 0
      /\ <<>> \in Seq(Delivery)
  BY EmptySeq
<1> QED
  BY <1>1, QueueAssumption
  DEF Init, Inv, TypeOK, AtMostOnce, ReplayInOrder, PendingAhead

LEMMA StepSound == Inv /\ [Next]_vars => Inv'
<1> SUFFICES ASSUME Inv, [Next]_vars PROVE Inv'
  OBVIOUS
<1>1. Sound(pending, received, submitted)
  BY InvIsSound
<1>2. SUFFICES Sound(pending', received', submitted')
  BY InvIsSound
<1>3. CASE Pass
  <2>1. Sound(pending, received, submitted + 1)
    BY <1>1, CountSound
  <2>2. CASE received' = received
    BY <1>3, <2>1, <2>2 DEF Pass
  <2>3. CASE received' = Append(received, [id |-> submitted + 1, via |-> "live"])
    <3> DEFINE e == [id |-> submitted + 1, via |-> "live"]
    <3>1. e \in Delivery /\ e.id = submitted + 1 /\ e.via = "live"
      BY <1>1, NextIsNew DEF Delivery
    <3>2. submitted + 1 \in 1..(submitted + 1)
      BY <1>1 DEF Sound, Typed
    <3> HIDE DEF e
    <3>3. Sound(pending, Append(received, e), submitted + 1)
      BY <1>1, <2>1, <3>1, <3>2, NextIsNew, ReceiveSound
    <3> QED
      BY <1>3, <2>3, <3>3 DEF Pass, e
  <2> QED
    BY <1>3, <2>2, <2>3 DEF Pass
<1>4. CASE Keep
  <2>1. CASE Len(pending) >= MaxQueueSize
    <3>1. pending # <<>> /\ Len(pending) \in Nat /\ Len(pending) = MaxQueueSize
      BY <1>1, <2>1, QueueAssumption, LenProperties, EmptySeq DEF Sound, Typed
    <3>2. Tail(pending) = SubSeq(pending, 2, Len(pending))
      BY <1>1, <3>1, TailIsSubSeq DEF Sound, Typed
    <3>3. Sound(Tail(pending), received, submitted)
      BY <1>1, <3>1, <3>2, QueueAssumption, SuffixSound, 1 + 1 = 2, 1 \in 0..Len(pending)
    <3>4. Len(Tail(pending)) < MaxQueueSize
      BY <1>1, <3>1, TailFacts DEF Sound, Typed
    <3> QED
      BY <1>4, <2>1, <3>3, <3>4, KeepSound DEF Keep
  <2>2. CASE ~(Len(pending) >= MaxQueueSize)
    <3>1. Len(pending) < MaxQueueSize
      BY <1>1, <2>2, QueueAssumption, LenProperties DEF Sound, Typed
    <3> QED
      BY <1>1, <1>4, <2>2, <3>1, KeepSound DEF Keep
  <2> QED
    BY <2>1, <2>2
<1>5. CASE Replay
  <2>1. PICK k \in 1..Len(pending) :
          /\ pending' = SubSeq(pending, k + 1, Len(pending))
          /\ received' = Append(received, [id |-> pending[k], via |-> "queue"])
          /\ submitted' = submitted
    BY <1>5 DEF Replay, DropFirst
  <2> DEFINE e == [id |-> pending[k], via |-> "queue"]
  <2>2. Len(pending) \in Nat /\ k \in 0..Len(pending)
    BY <1>1, LenProperties DEF Sound, Typed
  <2>3. Sound(pending', received, submitted)
    BY <1>1, <2>1, <2>2, SuffixSound
  <2>4. e \in Delivery /\ e.id = pending[k] /\ e.via = "queue"
    BY <1>1, ElementOfSeq DEF Delivery, Sound, Typed
  <2>5. e.id \in 1..submitted
    BY <1>1, <2>4 DEF Sound, Known
  <2>6. \A i \in 1..Len(received) :
          received[i].id # e.id /\ (received[i].via = "queue" => received[i].id < e.id)
    BY <1>1, <2>4 DEF Sound, Ahead
  <2>7. \A j \in 1..Len(pending') : e.id # pending'[j] /\ e.id < pending'[j]
    <3>1. SUFFICES ASSUME NEW j \in 1..Len(pending')
                   PROVE  e.id # pending'[j] /\ e.id < pending'[j]
      OBVIOUS
    <3>2. k + j \in 1..Len(pending) /\ pending'[j] = pending[k + j] /\ k < k + j
      BY <1>1, <2>1, <2>2, SuffixFacts DEF Sound, Typed
    <3>3. pending[k] \in Nat /\ pending[k + j] \in Nat
      BY <1>1, <3>2, ElementOfSeq DEF Sound, Typed
    <3> QED
      BY <1>1, <2>4, <3>2, <3>3 DEF Sound, Ascending
  <2> HIDE DEF e
  <2>8. Sound(pending', Append(received, e), submitted)
    BY <2>3, <2>4, <2>5, <2>6, <2>7, ReceiveSound
  <2> QED
    BY <2>1, <2>8 DEF e
<1>6. CASE Forget
  <2>1. PICK k \in 1..Len(pending) :
          /\ pending' = SubSeq(pending, k + 1, Len(pending))
          /\ received' = received /\ submitted' = submitted
    BY <1>6 DEF Forget, DropFirst
  <2>2. k \in 0..Len(pending)
    BY <1>1, LenProperties DEF Sound, Typed
  <2> QED
    BY <1>1, <2>1, <2>2, SuffixSound
<1>7. CASE UNCHANGED vars
  BY <1>1, <1>7 DEF vars
<1> QED
  BY <1>3, <1>4, <1>5, <1>6, <1>7 DEF Next

\* The buffer keeps both promises, for every size of the buffer and however many events
\* happen: nothing is received twice, and what is replayed keeps its order.
THEOREM BufferSound == Spec => [](AtMostOnce /\ ReplayInOrder)
<1>1. Spec => []Inv
  BY InitSound, StepSound, PTL DEF Spec
<1>2. Inv => AtMostOnce /\ ReplayInOrder
  BY DEF Inv
<1> QED
  BY <1>1, <1>2, PTL
=============================================================================
