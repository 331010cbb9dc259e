------------------------- MODULE GatewayBufferProofs -------------------------
(***************************************************************************)
(* GatewayClient implements OfflineBuffer, and so keeps its promises, for  *)
(* every size of the buffer, any age limit, any gateway and any bounds.    *)
(***************************************************************************)
EXTENDS GatewayClientProofs

-----------------------------------------------------------------------------
(***************************************************************************)
(* The ids of a sequence of entries.                                       *)
(***************************************************************************)
LEMMA IdsFacts ==
  ASSUME NEW q \in Seq(Entry)
  PROVE  /\ Ids(q) \in Seq(Nat)
         /\ Len(Ids(q)) = Len(q)
         /\ \A i \in 1..Len(q) : Ids(q)[i] = q[i].id
<1>1. Len(q) \in Nat
  BY LenProperties
<1>2. \A i \in 1..Len(q) : q[i].id \in Nat
  <2>1. \A i \in 1..Len(q) : q[i] \in Entry
    BY ElementOfSeq
  <2> QED
    BY <2>1 DEF Entry
<1>3. Ids(q) \in [1..Len(q) -> Nat]
  BY <1>2 DEF Ids
<1>4. Ids(q) \in Seq(Nat)
  BY <1>1, <1>3, SeqDef
<1>5. DOMAIN Ids(q) = 1..Len(Ids(q)) /\ Len(Ids(q)) \in Nat
  BY <1>4, LenProperties
<1>6. DOMAIN Ids(q) = 1..Len(q)
  BY DEF Ids
<1>7. Len(Ids(q)) = Len(q)
  BY <1>1, <1>5, <1>6
<1> QED
  BY <1>4, <1>7 DEF Ids

LEMMA IdsOfSuffix ==
  ASSUME NEW q \in Seq(Entry), NEW k \in 0..Len(q)
  PROVE  Ids(SubSeq(q, k + 1, Len(q))) = SubSeq(Ids(q), k + 1, Len(Ids(q)))
<1> DEFINE s == SubSeq(q, k + 1, Len(q))
           t == SubSeq(Ids(q), k + 1, Len(Ids(q)))
<1>1. /\ s \in Seq(Entry) /\ Len(s) = Len(q) - k
      /\ \A i \in 1..(Len(q) - k) : s[i] = q[k + i]
  BY SuffixOf
<1>2. Ids(q) \in Seq(Nat) /\ Len(Ids(q)) = Len(q)
  BY IdsFacts
<1>3. /\ t \in Seq(Nat) /\ Len(t) = Len(q) - k
      /\ \A i \in 1..(Len(q) - k) : t[i] = Ids(q)[k + i]
  BY <1>2, SuffixOf
<1>4. Len(q) \in Nat /\ \A i \in 1..(Len(q) - k) : k + i \in 1..Len(q)
  BY LenProperties
<1> HIDE DEF s, t
<1>5. Ids(s) \in Seq(Nat) /\ Len(Ids(s)) = Len(s)
      /\ \A i \in 1..Len(s) : Ids(s)[i] = s[i].id
  BY <1>1, IdsFacts
<1>6. \A i \in 1..Len(Ids(s)) : Ids(s)[i] = t[i]
  <2>1. SUFFICES ASSUME NEW i \in 1..Len(Ids(s)) PROVE Ids(s)[i] = t[i]
    OBVIOUS
  <2>2. i \in 1..(Len(q) - k) /\ k + i \in 1..Len(q)
    BY <1>1, <1>4, <1>5
  <2>3. Ids(s)[i] = q[k + i].id
    BY <1>1, <1>5, <2>2
  <2>4. t[i] = q[k + i].id
    BY <1>3, <2>2, IdsFacts
  <2> QED
    BY <2>3, <2>4
<1>7. Ids(s) = t
  BY <1>1, <1>3, <1>5, <1>6, SeqEqual
<1> QED
  BY <1>7 DEF s, t

LEMMA IdsOfTail ==
  ASSUME NEW q \in Seq(Entry), q # <<>>
  PROVE  /\ Ids(Tail(q)) = Tail(Ids(q))
         /\ Ids(q) # <<>>
<1>1. Len(q) \in Nat \ {0}
  BY EmptySeq
<1>2. Ids(q) \in Seq(Nat) /\ Len(Ids(q)) = Len(q) /\ Ids(q) # <<>>
  BY <1>1, IdsFacts, EmptySeq
<1>3. Tail(q) = SubSeq(q, 2, Len(q)) /\ Tail(Ids(q)) = SubSeq(Ids(q), 2, Len(Ids(q)))
  BY <1>2, TailIsSubSeq
<1>4. Ids(SubSeq(q, 2, Len(q))) = SubSeq(Ids(q), 2, Len(Ids(q)))
  BY <1>1, IdsOfSuffix, 1 \in 0..Len(q), 1 + 1 = 2
<1> QED
  BY <1>2, <1>3, <1>4

LEMMA IdsOfAppend ==
  ASSUME NEW q \in Seq(Entry), NEW e \in Entry
  PROVE  Ids(Append(q, e)) = Append(Ids(q), e.id)
<1> DEFINE s == Append(q, e)
           t == Append(Ids(q), e.id)
<1>1. /\ s \in Seq(Entry) /\ Len(s) = Len(q) + 1
      /\ \A i \in 1..Len(q) : s[i] = q[i]
      /\ s[Len(q) + 1] = e
  BY AppendProperties
<1>2. /\ Ids(q) \in Seq(Nat) /\ Len(Ids(q)) = Len(q)
      /\ \A i \in 1..Len(q) : Ids(q)[i] = q[i].id
  BY IdsFacts
<1>3. e.id \in Nat /\ Len(q) \in Nat
  BY LenProperties DEF Entry
<1>4. /\ t \in Seq(Nat) /\ Len(t) = Len(q) + 1
      /\ \A i \in 1..Len(q) : t[i] = q[i].id
      /\ t[Len(q) + 1] = e.id
  BY <1>2, <1>3, AppendProperties
<1> HIDE DEF s, t
<1>5. /\ Ids(s) \in Seq(Nat) /\ Len(Ids(s)) = Len(s)
      /\ \A i \in 1..Len(s) : Ids(s)[i] = s[i].id
  BY <1>1, IdsFacts
<1>6. \A i \in 1..Len(Ids(s)) : Ids(s)[i] = t[i]
  <2>1. SUFFICES ASSUME NEW i \in 1..Len(Ids(s)) PROVE Ids(s)[i] = t[i]
    OBVIOUS
  <2>2. i \in 1..Len(q) \/ i = Len(q) + 1
    BY <1>1, <1>3, <1>5
  <2> QED
    BY <1>1, <1>4, <1>5, <2>2
<1>7. Ids(s) = t
  BY <1>1, <1>4, <1>5, <1>6, SeqEqual
<1> QED
  BY <1>7 DEF s, t

LEMMA EmptyIds == Ids(<<>>) = <<>>
<1>1. <<>> \in Seq(Entry) /\ Len(<<>>) = 0
  BY EmptySeq
<1> QED
  BY <1>1, IdsFacts, EmptySeq
-----------------------------------------------------------------------------
(***************************************************************************)
(* Why an entry being sent can be told from the others: ids ascend along   *)
(* the queue and none is behind the one being sent.                        *)
(***************************************************************************)
Numbered(q, n) ==
  /\ \A i \in 1..Len(q) : q[i].id \in 1..n
  /\ \A i, j \in 1..Len(q) : i < j => q[i].id < q[j].id

QueueInv ==
  /\ Numbered(queue, events)
  /\ inflight <= events
  /\ \A i \in 1..Len(queue) : inflight <= queue[i].id
  /\ loop \notin {"draining", "ended"} => inflight = 0

LEMMA NumberedSuffix ==
  ASSUME NEW q \in Seq(Entry), NEW n \in Nat, Numbered(q, n), NEW k \in 0..Len(q)
  PROVE  Numbered(SubSeq(q, k + 1, Len(q)), n)
<1> DEFINE s == SubSeq(q, k + 1, Len(q))
<1>1. /\ Len(s) = Len(q) - k
      /\ \A i \in 1..(Len(q) - k) : s[i] = q[k + i]
  BY SuffixOf
<1>2. Len(q) \in Nat
  BY LenProperties
<1>3. \A i \in 1..Len(s) : k + i \in 1..Len(q) /\ s[i] = q[k + i]
  BY <1>1, <1>2
<1> HIDE DEF s
<1>4. \A i \in 1..Len(s) : s[i].id \in 1..n
  BY <1>3 DEF Numbered
<1>5. \A i, j \in 1..Len(s) : i < j => s[i].id < s[j].id
  <2>1. SUFFICES ASSUME NEW i \in 1..Len(s), NEW j \in 1..Len(s), i < j
                 PROVE  s[i].id < s[j].id
    OBVIOUS
  <2>2. k + i \in 1..Len(q) /\ k + j \in 1..Len(q) /\ k + i < k + j
    BY <1>2, <1>3, <2>1
  <2> QED
    BY <1>3, <2>2 DEF Numbered
<1>6. Numbered(s, n)
  BY <1>4, <1>5 DEF Numbered
<1> QED
  BY <1>6 DEF s

LEMMA NumberedTail ==
  ASSUME NEW q \in Seq(Entry), NEW n \in Nat, Numbered(q, n), q # <<>>
  PROVE  /\ Numbered(Tail(q), n)
         /\ \A i \in 1..Len(Tail(q)) : Head(q).id < Tail(q)[i].id
<1>1. Len(q) \in Nat \ {0}
  BY EmptySeq
<1>2. Tail(q) = SubSeq(q, 2, Len(q)) /\ Head(q) = q[1]
  BY TailIsSubSeq
<1>3. Numbered(Tail(q), n)
  BY <1>1, <1>2, NumberedSuffix, 1 \in 0..Len(q), 1 + 1 = 2
<1>4. Len(Tail(q)) = Len(q) - 1 /\ \A i \in 1..Len(Tail(q)) : Tail(q)[i] = q[i + 1]
  BY HeadTailProperties
<1>5. \A i \in 1..Len(Tail(q)) : i + 1 \in 1..Len(q) /\ 1 < i + 1 /\ 1 \in 1..Len(q)
  BY <1>1, <1>4
<1> QED
  BY <1>2, <1>3, <1>4, <1>5 DEF Numbered

LEMMA NumberedAppend ==
  ASSUME NEW q \in Seq(Entry), NEW n \in Nat, Numbered(q, n),
         NEW e \in Entry, e.id = n + 1
  PROVE  Numbered(Append(q, e), n + 1)
<1> DEFINE s == Append(q, e)
<1>1. /\ Len(s) = Len(q) + 1
      /\ \A i \in 1..Len(q) : s[i] = q[i]
      /\ s[Len(q) + 1] = e
  BY AppendProperties
<1>2. Len(q) \in Nat
  BY LenProperties
<1>3. \A i \in 1..Len(s) :
        \/ i \in 1..Len(q) /\ s[i] = q[i]
        \/ i = Len(q) + 1 /\ s[i] = e
  BY <1>1, <1>2
<1> HIDE DEF s
<1>4. \A i \in 1..Len(q) : q[i].id \in 1..(n + 1) /\ q[i].id < n + 1
  <2>1. \A i \in 1..n : i \in 1..(n + 1) /\ i < n + 1
    OBVIOUS
  <2> QED
    BY <2>1 DEF Numbered
<1>5. \A i \in 1..Len(s) : s[i].id \in 1..(n + 1)
  <2>1. n + 1 \in 1..(n + 1)
    OBVIOUS
  <2> QED
    BY <1>3, <1>4, <2>1
<1>6. \A i, j \in 1..Len(s) : i < j => s[i].id < s[j].id
  <2>1. SUFFICES ASSUME NEW i \in 1..Len(s), NEW j \in 1..Len(s), i < j
                 PROVE  s[i].id < s[j].id
    OBVIOUS
  <2>2. i \in 1..Len(q) /\ s[i] = q[i]
    BY <1>1, <1>2, <1>3, <2>1
  <2> QED
    BY <1>3, <1>4, <2>1, <2>2 DEF Numbered
<1>7. Numbered(s, n + 1)
  BY <1>5, <1>6 DEF Numbered
<1> QED
  BY <1>7 DEF s

LEMMA InitQueue == Init => QueueInv
<1> SUFFICES ASSUME Init PROVE QueueInv
  OBVIOUS
<1>1. queue = <<>> /\ events = 0 /\ inflight = 0
  BY DEF Init
<1>2. Len(queue) = 0
  BY <1>1, EmptySeq
<1> QED
  BY <1>1, <1>2 DEF QueueInv, Numbered

LEMMA DrainQueue ==
  ASSUME TypeOK, NEW q \in Seq(Entry), Numbered(q, events), NEW now,
         DrainFrom(q, now), events' = events
  PROVE  QueueInv'
<1> DEFINE fresh == FromFresh(q, now)
<1>1. fresh \in Seq(Entry) /\ Numbered(fresh, events)
  <2>1. PICK k \in 0..Len(q) : fresh = SubSeq(q, k + 1, Len(q))
    BY FromFreshFacts
  <2> HIDE DEF fresh
  <2> QED
    BY <2>1, SuffixOf, NumberedSuffix DEF TypeOK
<1> HIDE DEF fresh
<1>2. CASE fresh = <<>> \/ ~Connected
  <2>1. queue' = <<>> /\ inflight' = 0
    BY <1>2 DEF DrainFrom, fresh
  <2>2. Len(queue') = 0
    BY <2>1, EmptySeq
  <2> QED
    BY <2>1, <2>2 DEF QueueInv, Numbered, TypeOK
<1>3. CASE ~(fresh = <<>> \/ ~Connected)
  <2>1. queue' = fresh /\ inflight' = Head(fresh).id /\ loop' = "draining"
    BY <1>3 DEF DrainFrom, fresh
  <2>2. Len(fresh) \in Nat \ {0} /\ Head(fresh) = fresh[1]
    BY <1>1, <1>3, EmptySeq
  <2>3. \A i \in 1..Len(fresh) : fresh[1].id <= fresh[i].id
    <3>1. SUFFICES ASSUME NEW i \in 1..Len(fresh) PROVE fresh[1].id <= fresh[i].id
      OBVIOUS
    <3>2. 1 \in 1..Len(fresh) /\ (i = 1 \/ 1 < i)
      BY <2>2
    <3>3. fresh[1].id \in 1..events /\ fresh[i].id \in 1..events
      BY <1>1, <3>2 DEF Numbered
    <3> QED
      BY <1>1, <3>2, <3>3 DEF Numbered, TypeOK
  <2>4. fresh[1].id <= events
    BY <1>1, <2>2 DEF Numbered, TypeOK
  <2> QED
    BY <1>1, <2>1, <2>2, <2>3, <2>4 DEF QueueInv
<1> QED
  BY <1>2, <1>3

\* What is left after a pop is numbered too.
LEMMA PoppedNumbered ==
  ASSUME TypeOK, QueueInv, queue # <<>>
  PROVE  Popped(queue) \in Seq(Entry) /\ Numbered(Popped(queue), events)
  BY NumberedTail, HeadTailProperties DEF TypeOK, QueueInv, Popped

\* The bound makes way: what is appended to is the queue or its tail.
LEMMA EnqueuedNumbered ==
  ASSUME TypeOK, QueueInv, NEW e \in Entry, e.id = events + 1
  PROVE  /\ Numbered(Enqueued(queue, e), events + 1)
         /\ \A i \in 1..Len(Enqueued(queue, e)) : inflight <= Enqueued(queue, e)[i].id
<1> DEFINE base == IF IsFull(queue) THEN Tail(queue) ELSE queue
<1>1. base \in Seq(Entry) /\ Numbered(base, events)
      /\ \A i \in 1..Len(base) : inflight <= base[i].id
  <2>1. CASE IsFull(queue)
    <3>1. queue # <<>>
      BY <2>1, QueueAssumption, EmptySeq DEF IsFull
    <3>2. Tail(queue) \in Seq(Entry) /\ Len(Tail(queue)) = Len(queue) - 1
          /\ \A i \in 1..Len(Tail(queue)) : Tail(queue)[i] = queue[i + 1]
      BY <3>1, HeadTailProperties DEF TypeOK
    <3>3. \A i \in 1..Len(Tail(queue)) : i + 1 \in 1..Len(queue)
      BY <3>2, LenProperties DEF TypeOK
    <3>4. Numbered(Tail(queue), events)
      BY <3>1, NumberedTail DEF TypeOK, QueueInv
    <3> QED
      BY <2>1, <3>2, <3>3, <3>4 DEF QueueInv
  <2>2. CASE ~IsFull(queue)
    BY <2>2 DEF TypeOK, QueueInv
  <2> QED
    BY <2>1, <2>2
<1>2. Enqueued(queue, e) = Append(base, e)
  BY DEF Enqueued
<1> HIDE DEF base
<1>3. Numbered(Append(base, e), events + 1)
  BY <1>1, NumberedAppend DEF TypeOK
<1>4. /\ Len(Append(base, e)) = Len(base) + 1
      /\ \A i \in 1..Len(base) : Append(base, e)[i] = base[i]
      /\ Append(base, e)[Len(base) + 1] = e
  BY <1>1, AppendProperties
<1>5. \A i \in 1..Len(Append(base, e)) : inflight <= Append(base, e)[i].id
  <2>1. SUFFICES ASSUME NEW i \in 1..Len(Append(base, e))
                 PROVE  inflight <= Append(base, e)[i].id
    OBVIOUS
  <2>2. i \in 1..Len(base) \/ i = Len(base) + 1
    BY <1>1, <1>4, LenProperties
  <2>3. inflight <= e.id
    BY DEF TypeOK, QueueInv
  <2> QED
    BY <1>1, <1>4, <2>2, <2>3
<1> QED
  BY <1>2, <1>3, <1>5

\* Sending, queueing and draining keep the numbering.
LEMMA StepQueue == TypeInv /\ QueueInv /\ [Next]_vars => QueueInv'
<1> SUFFICES ASSUME TypeOK, HeadPresent, QueueInv, [Next]_vars PROVE QueueInv'
  BY DEF TypeInv
<1> USE DEF otherVars, envVars, clientVars, queueVars, tokenVars, worldVars
<1>0. ASSUME UNCHANGED <<queue, inflight, events>>, loop' # loop => inflight = 0 \/ loop' = "ended"
      PROVE  QueueInv'
  BY <1>0 DEF QueueInv, Numbered
<1>1. CASE start
  BY <1>0, <1>1 DEF start, QueueInv
<1>2. CASE LoopStep
  <2>1. CASE AnnounceOk
    <3>1. CASE queue = <<>>
      BY <1>0, <2>1, <3>1 DEF AnnounceOk, QueueInv
    <3>2. CASE queue # <<>>
      BY <2>1, <3>2, DrainQueue DEF AnnounceOk, TypeOK, QueueInv
    <3> QED
      BY <3>1, <3>2
  <2>2. CASE DrainResume
    <3>1. queue # <<>> /\ events' = events
      BY <2>2 DEF DrainResume, HeadPresent
    <3> QED
      BY <2>2, <3>1, PoppedNumbered, DrainQueue DEF DrainResume
  <2>3. CASE LoopStep /\ ~AnnounceOk /\ ~DrainResume
    <3>1. UNCHANGED <<queue, inflight, events>> /\ loop # "draining" /\ loop # "ended"
      BY <2>3 DEF LoopStep, ConnectFails, ConnectOk, AuthReply, SendRaises,
         ListenEnds, CloseDone, Wake
    <3> QED
      BY <1>0, <3>1 DEF QueueInv
  <2> QED
    BY <1>2, <2>1, <2>2, <2>3
<1>3. CASE Cancelled
  BY <1>0, <1>3 DEF Cancelled
<1>4. CASE MessageRaises
  BY <1>0, <1>4 DEF MessageRaises, CloseWs, QueueInv
<1>5. CASE SendLive
  <2>1. /\ UNCHANGED <<queue, inflight, loop>>
        /\ events' = events + 1
    BY <1>5 DEF SendLive
  <2>2. events \in Nat /\ \A i \in 1..events : i \in 1..(events + 1)
    BY DEF TypeOK
  <2>3. Numbered(queue', events')
    BY <2>1, <2>2 DEF QueueInv, Numbered
  <2>4. inflight' <= events'
    BY <2>1, <2>2 DEF QueueInv, TypeOK
  <2> QED
    BY <2>1, <2>3, <2>4 DEF QueueInv
<1>6. CASE EnqueueEvent
  <2> DEFINE e == [id |-> events + 1, at |-> clock]
  <2>1. e \in Entry /\ e.id = events + 1
    BY DEF Entry, TypeOK
  <2>2. /\ queue' = Enqueued(queue, e) /\ events' = events + 1
        /\ inflight' = inflight /\ loop' = loop
    BY <1>6 DEF EnqueueEvent
  <2> HIDE DEF e
  <2>3. Numbered(queue', events') /\ \A i \in 1..Len(queue') : inflight' <= queue'[i].id
    BY <2>1, <2>2, EnqueuedNumbered
  <2>4. inflight' <= events'
    BY <2>2 DEF QueueInv, TypeOK
  <2> QED
    BY <2>2, <2>3, <2>4 DEF QueueInv
<1>7. CASE Reload
  <2>1. queue' = <<>> /\ inflight' = 0 /\ events' = events
    BY <1>7 DEF Reload
  <2>2. Len(queue') = 0
    BY <2>1, EmptySeq
  <2> QED
    BY <2>1, <2>2 DEF QueueInv, Numbered, TypeOK
<1>8. CASE stop \/ StopCloses \/ StopDone \/ AnswerPrompt \/ DismissPrompt
  BY <1>0, <1>8 DEF stop, StopCloses, StopDone, AnswerPrompt, BeginStop, DismissPrompt
<1>9. CASE LinkDrops \/ DropDetected \/ MoodChanges \/ Tick
  BY <1>0, <1>9 DEF LinkDrops, DropDetected, MoodChanges, Tick
<1>10. CASE UNCHANGED vars
  BY <1>0, <1>10 DEF vars
<1> QED
  BY <1>1, <1>2, <1>3, <1>4, <1>5, <1>6, <1>7, <1>8, <1>9, <1>10 DEF Next
-----------------------------------------------------------------------------
(***************************************************************************)
(* The refinement.  Pending are the ids of Waiting, what is queued without *)
(* the entry being sent.                                                   *)
(***************************************************************************)
LEMMA WaitingFacts ==
  ASSUME TypeOK
  PROVE  Waiting \in Seq(Entry)
  BY HeadTailProperties DEF TypeOK, Waiting

\* A sequence whose elements are those of p from the m-th on.
LEMMA SuffixEqual ==
  ASSUME NEW p \in Seq(Nat), NEW t \in Seq(Nat), NEW m \in 0..Len(p),
         Len(t) = Len(p) - m, \A i \in 1..Len(t) : t[i] = p[m + i]
  PROVE  t = SubSeq(p, m + 1, Len(p))
<1> DEFINE s == SubSeq(p, m + 1, Len(p))
<1>1. /\ s \in Seq(Nat) /\ Len(s) = Len(p) - m
      /\ \A i \in 1..(Len(p) - m) : s[i] = p[m + i]
  BY SuffixOf
<1> HIDE DEF s
<1>2. t = s
  BY <1>1, SeqEqual
<1> QED
  BY <1>2 DEF s

\* Draining from a suffix of what waits forgets its stale part and replays the
\* next entry, or forgets everything.
LEMMA DrainImplements ==
  ASSUME TypeOK, QueueInv, NEW j \in 0..Len(Waiting), NEW q \in Seq(Entry),
         Len(q) = Len(Waiting) - j,
         \A i \in 1..Len(q) : q[i] = Waiting[j + i],
         NEW now, DrainFrom(q, now), events' = events
  PROVE  [Buffer!Next]_(Buffer!vars)
<1> DEFINE P == Ids(Waiting)
           fresh == FromFresh(q, now)
<1>1. /\ P \in Seq(Nat) /\ Len(P) = Len(Waiting) /\ Len(P) \in Nat
      /\ \A i \in 1..Len(P) : P[i] = Waiting[i].id
  BY WaitingFacts, IdsFacts, LenProperties
<1>2. PICK k \in 0..Len(q) : fresh = SubSeq(q, k + 1, Len(q))
  BY FromFreshFacts
<1> HIDE DEF fresh
<1>3. /\ fresh \in Seq(Entry) /\ Len(fresh) = Len(q) - k
      /\ \A i \in 1..(Len(q) - k) : fresh[i] = q[k + i]
  BY <1>2, SuffixOf
<1> HIDE DEF P
<1>0. j \in Nat /\ k \in Nat /\ Len(q) \in Nat /\ Len(P) = j + Len(q)
  BY <1>1
<1>4. CASE fresh = <<>> \/ ~Connected
  <2>1. queue' = <<>> /\ inflight' = 0 /\ delivered' = delivered
    BY <1>4 DEF DrainFrom, fresh
  <2>2. Ids(Waiting)' = <<>>
    BY <2>1, EmptyIds DEF Waiting
  <2>3. CASE Len(P) = 0
    <3>1. P = <<>>
      BY <1>1, <2>3, EmptySeq
    <3> QED
      BY <2>1, <2>2, <3>1 DEF Buffer!vars, P
  <2>4. CASE Len(P) # 0
    <3>1. Len(P) \in 1..Len(P)
      BY <1>1, <2>4
    <3>2. SubSeq(P, Len(P) + 1, Len(P)) = <<>>
      BY <1>1, SubSeqEmpty
    <3>3. Buffer!Forget
      BY <2>1, <2>2, <3>1, <3>2 DEF Buffer!Forget, Buffer!DropFirst, P
    <3> QED
      BY <3>3 DEF Buffer!Next
  <2> QED
    BY <2>3, <2>4
<1>5. CASE ~(fresh = <<>> \/ ~Connected)
  <2>1. /\ queue' = fresh /\ inflight' = Head(fresh).id
        /\ delivered' = Received(Head(fresh).id, "queue")
    BY <1>5 DEF DrainFrom, fresh
  <2>2. Waiting' = Tail(fresh)
    BY <1>5, <2>1 DEF Waiting
  <2> DEFINE m == j + k + 1
  <2>3. Len(fresh) \in Nat \ {0}
    BY <1>3, <1>5, EmptySeq
  <2>4. m \in 1..Len(P) /\ j + (k + 1) = m /\ k + 1 \in 1..Len(q)
    <3>1. k + 1 <= Len(q)
      <4>1. Len(fresh) >= 1
        BY <2>3
      <4>2. Len(q) - k >= 1
        BY <1>3, <4>1
      <4> QED
        BY <1>0, <4>2
    <3>2. m <= j + Len(q)
      BY <1>0, <3>1
    <3> QED
      BY <1>0, <3>1, <3>2
  <2>5. Head(fresh) = fresh[1] /\ fresh[1] = q[k + 1] /\ q[k + 1] = Waiting[m]
    BY <1>3, <2>3, <2>4
  <2>6. Head(fresh).id = P[m]
    BY <1>1, <2>4, <2>5
  <2>7. Ids(Tail(fresh)) = SubSeq(P, m + 1, Len(P))
    <3>1. Tail(fresh) \in Seq(Entry) /\ Len(Tail(fresh)) = Len(fresh) - 1
          /\ \A i \in 1..Len(Tail(fresh)) : Tail(fresh)[i] = fresh[i + 1]
      BY <1>3, <1>5, HeadTailProperties
    <3>2. /\ Ids(Tail(fresh)) \in Seq(Nat)
          /\ Len(Ids(Tail(fresh))) = Len(Tail(fresh))
          /\ \A i \in 1..Len(Tail(fresh)) : Ids(Tail(fresh))[i] = Tail(fresh)[i].id
      BY <3>1, IdsFacts
    <3>3. Len(Ids(Tail(fresh))) = Len(P) - m
      <4>1. Len(fresh) - 1 = (j + Len(q)) - m
        BY <1>0, <1>3
      <4> QED
        BY <1>0, <3>1, <3>2, <4>1
    <3>4. \A i \in 1..Len(Ids(Tail(fresh))) : Ids(Tail(fresh))[i] = P[m + i]
      <4>1. SUFFICES ASSUME NEW i \in 1..Len(Tail(fresh))
                     PROVE  Ids(Tail(fresh))[i] = P[m + i]
        BY <3>2
      <4>2. /\ i + 1 \in 1..(Len(q) - k) /\ k + (i + 1) \in 1..Len(q)
            /\ j + (k + (i + 1)) = m + i /\ m + i \in 1..Len(P)
        BY <1>0, <1>3, <3>1
      <4>3. Tail(fresh)[i] = q[k + (i + 1)]
        BY <1>3, <3>1, <4>2
      <4>4. q[k + (i + 1)] = Waiting[m + i]
        BY <4>2
      <4> QED
        BY <1>1, <3>2, <4>2, <4>3, <4>4
    <3> HIDE DEF m
    <3>5. m \in 0..Len(P)
      BY <2>4
    <3> QED
      BY <1>1, <3>2, <3>3, <3>4, <3>5, SuffixEqual
  <2> HIDE DEF m
  <2>8. Ids(Waiting)' = SubSeq(P, m + 1, Len(P))
    BY <2>2, <2>7
  <2>9. CASE delivered' = delivered
    <3>1. Buffer!Forget
      BY <2>4, <2>8, <2>9 DEF Buffer!Forget, Buffer!DropFirst, P
    <3> QED
      BY <3>1 DEF Buffer!Next
  <2>10. CASE delivered' = Append(delivered, [id |-> P[m], via |-> "queue"])
    <3>1. Buffer!Replay
      BY <2>4, <2>8, <2>10 DEF Buffer!Replay, Buffer!DropFirst, P
    <3> QED
      BY <3>1 DEF Buffer!Next
  <2> QED
    BY <2>1, <2>6, <2>9, <2>10 DEF Received
<1> QED
  BY <1>4, <1>5

\* A queued event is kept: the oldest waiting one makes way if the queue is
\* full, unless what is evicted is the entry already being sent.
LEMMA EnqueueImplements ==
  ASSUME TypeOK, QueueInv, EnqueueEvent
  PROVE  Buffer!Keep
<1> DEFINE e == [id |-> events + 1, at |-> clock]
           P == Ids(Waiting)
<1>1. e \in Entry /\ e.id = events + 1
  BY DEF Entry, TypeOK
<1>2. /\ queue' = Enqueued(queue, e) /\ events' = events + 1
      /\ inflight' = inflight /\ delivered' = delivered
  BY DEF EnqueueEvent, worldVars
<1> HIDE DEF e
<1>3. e.id # inflight
  BY <1>1 DEF QueueInv, TypeOK
<1>4. Len(queue) \in Nat /\ queue \in Seq(Entry) /\ Len(queue) <= MaxQueueSize
  BY LenProperties DEF TypeOK
<1>5. SUFFICES Ids(Waiting)' = Append(IF Len(P) >= MaxQueueSize THEN Tail(P) ELSE P,
                                      events')
  BY <1>2 DEF Buffer!Keep
<1>6. CASE queue = <<>>
  <2>1. Len(queue) = 0 /\ ~IsFull(queue)
    BY <1>6, EmptySeq, QueueAssumption DEF IsFull
  <2>2. queue' = Append(queue, e) /\ queue' # <<>> /\ queue'[1] = e
    BY <1>1, <1>2, <1>4, <2>1, AppendProperties DEF Enqueued
  <2>3. Waiting' = queue' /\ Waiting = queue
    BY <1>2, <1>3, <1>6, <2>2 DEF Waiting
  <2>4. Ids(Waiting)' = Append(P, events')
    BY <1>1, <1>2, <1>4, <2>2, <2>3, IdsOfAppend
  <2>5. Len(P) = 0
    BY <1>4, <2>1, <2>3, IdsFacts
  <2> HIDE DEF P
  <2>6. ~(Len(P) >= MaxQueueSize)
    BY <2>5, QueueAssumption
  <2> QED
    BY <2>4, <2>6
<1>7. CASE queue # <<>>
  <2> DEFINE tail == Tail(queue)
  <2>1. /\ Len(queue) \in Nat \ {0} /\ Head(queue) = queue[1]
        /\ tail \in Seq(Entry) /\ Len(tail) = Len(queue) - 1
        /\ \A i \in 1..Len(tail) : tail[i] = queue[i + 1]
    BY <1>4, <1>7, EmptySeq, HeadTailProperties
  <2>2. \A i \in 1..Len(tail) : Head(queue).id < tail[i].id
    BY <1>4, <1>7, NumberedTail DEF QueueInv, TypeOK
  <2>3. inflight <= Head(queue).id
    BY <2>1 DEF QueueInv
  <2>4. Head(queue).id \in Nat /\ \A i \in 1..Len(tail) : tail[i].id \in Nat
    <3>1. Head(queue) \in Entry /\ \A i \in 1..Len(tail) : tail[i] \in Entry
      BY <1>4, <1>7, <2>1, HeadTailProperties, ElementOfSeq
    <3> QED
      BY <3>1 DEF Entry
  <2>5. \A i \in 1..Len(tail) : tail[i].id # inflight
    BY <2>2, <2>3, <2>4 DEF TypeOK
  <2>6. Append(tail, e) # <<>> /\ Append(tail, e)[1].id # inflight
    <3>1. CASE Len(tail) = 0
      <4>1. /\ Append(tail, e) \in Seq(Entry) /\ Len(Append(tail, e)) = Len(tail) + 1
            /\ Append(tail, e)[Len(tail) + 1] = e
        BY <1>1, <2>1, AppendProperties
      <4> HIDE DEF tail
      <4>2. Append(tail, e)[1] = e /\ Len(Append(tail, e)) = 1
        BY <3>1, <4>1
      <4>3. Append(tail, e) # <<>>
        BY <4>1, <4>2, EmptySeq
      <4> QED
        BY <1>3, <4>2, <4>3
    <3>2. CASE Len(tail) # 0
      <4>1. 1 \in 1..Len(tail)
        BY <2>1, <3>2, LenProperties
      <4>2. Append(tail, e) # <<>> /\ Append(tail, e)[1] = tail[1]
        BY <1>1, <2>1, <4>1, AppendProperties
      <4> QED
        BY <2>5, <4>1, <4>2
    <3> QED
      BY <3>1, <3>2
  <2> HIDE DEF tail
  <2>7. CASE IsFull(queue)
    <3>1. queue' = Append(tail, e) /\ Len(queue) = MaxQueueSize
      BY <1>2, <1>4, <2>7, QueueAssumption DEF Enqueued, IsFull, tail
    <3>2. Waiting' = Append(tail, e)
      BY <1>2, <2>6, <3>1 DEF Waiting
    <3>3. Ids(Waiting)' = Append(Ids(tail), events')
      BY <1>1, <1>2, <2>1, <3>2, IdsOfAppend
    <3>4. CASE Head(queue).id = inflight
      <4>1. P = Ids(tail)
        BY <1>7, <3>4 DEF Waiting, tail
      <4>2. ~(Len(P) >= MaxQueueSize)
        BY <2>1, <3>1, <4>1, IdsFacts, QueueAssumption
      <4> QED
        BY <3>3, <4>1, <4>2
    <3>5. CASE Head(queue).id # inflight
      <4>1. P = Ids(queue)
        BY <3>5 DEF Waiting
      <4>2. Len(P) >= MaxQueueSize
        BY <1>4, <3>1, <4>1, IdsFacts, QueueAssumption
      <4>3. Tail(P) = Ids(tail)
        BY <1>4, <1>7, <4>1, IdsOfTail DEF tail
      <4> QED
        BY <3>3, <4>2, <4>3
    <3> QED
      BY <3>4, <3>5
  <2>8. CASE ~IsFull(queue)
    <3>1. /\ queue' = Append(queue, e) /\ queue' # <<>>
          /\ Head(queue') = Head(queue) /\ Tail(queue') = Append(tail, e)
      BY <1>1, <1>2, <1>4, <1>7, <2>8, HeadTailAppend, AppendProperties DEF Enqueued, tail
    <3>2. Len(queue) < MaxQueueSize
      BY <1>4, <2>8, QueueAssumption DEF IsFull
    <3>3. CASE Head(queue).id = inflight
      <4>1. P = Ids(tail) /\ Waiting' = Append(tail, e)
        BY <1>2, <1>7, <3>1, <3>3 DEF Waiting, tail
      <4>2. Ids(Waiting)' = Append(P, events')
        BY <1>1, <1>2, <2>1, <4>1, IdsOfAppend
      <4>3. ~(Len(P) >= MaxQueueSize)
        BY <2>1, <3>2, <4>1, IdsFacts, QueueAssumption
      <4> QED
        BY <4>2, <4>3
    <3>4. CASE Head(queue).id # inflight
      <4>1. P = Ids(queue) /\ Waiting' = Append(queue, e)
        BY <1>2, <3>1, <3>4 DEF Waiting
      <4>2. Ids(Waiting)' = Append(P, events')
        BY <1>1, <1>2, <1>4, <4>1, IdsOfAppend
      <4>3. ~(Len(P) >= MaxQueueSize)
        BY <1>4, <3>2, <4>1, IdsFacts, QueueAssumption
      <4> QED
        BY <4>2, <4>3
    <3> QED
      BY <3>3, <3>4
  <2> QED
    BY <2>7, <2>8
<1> QED
  BY <1>6, <1>7

\* What waits is the queue itself when nothing is being sent.
LEMMA WaitingIsQueue ==
  ASSUME TypeOK, QueueInv, inflight = 0
  PROVE  Waiting = queue
<1>1. CASE queue = <<>>
  BY <1>1 DEF Waiting
<1>2. CASE queue # <<>>
  <2>1. 1 \in 1..Len(queue) /\ Head(queue) = queue[1]
    BY <1>2, EmptySeq DEF TypeOK
  <2>2. Head(queue).id # 0
    BY <2>1 DEF QueueInv, Numbered, TypeOK
  <2> QED
    BY <2>2 DEF Waiting
<1> QED
  BY <1>1, <1>2

LEMMA InitImplements == Init => Buffer!Init
<1> SUFFICES ASSUME Init PROVE Buffer!Init
  OBVIOUS
<1>1. queue = <<>> /\ delivered = <<>> /\ events = 0
  BY DEF Init
<1>2. Ids(Waiting) = <<>>
  BY <1>1, EmptyIds DEF Waiting
<1> QED
  BY <1>1, <1>2 DEF Buffer!Init

LEMMA StepImplements ==
  TypeInv /\ QueueInv /\ [Next]_vars => [Buffer!Next]_(Buffer!vars)
<1> SUFFICES ASSUME TypeOK, HeadPresent, QueueInv, [Next]_vars
             PROVE  [Buffer!Next]_(Buffer!vars)
  BY DEF TypeInv
<1> USE DEF otherVars, envVars, clientVars, queueVars, tokenVars, worldVars
<1>0. ASSUME UNCHANGED <<queue, inflight, delivered, events>>
      PROVE  [Buffer!Next]_(Buffer!vars)
  <2>1. Ids(Waiting)' = Ids(Waiting)
    BY <1>0 DEF Waiting, Ids
  <2> QED
    BY <1>0, <2>1 DEF Buffer!vars
<1>1. CASE LoopStep /\ AnnounceOk
  <2>1. CASE queue = <<>>
    BY <1>0, <1>1, <2>1 DEF AnnounceOk
  <2>2. CASE queue # <<>>
    <3>1. inflight = 0 /\ events' = events /\ DrainFrom(queue, clock)
      BY <1>1, <2>2 DEF AnnounceOk, QueueInv
    <3>2. Waiting = queue /\ Len(queue) \in Nat
      BY <3>1, WaitingIsQueue, LenProperties DEF TypeOK
    <3>3. /\ 0 \in 0..Len(Waiting) /\ Len(queue) = Len(Waiting) - 0
          /\ \A i \in 1..Len(queue) : queue[i] = Waiting[0 + i]
      BY <3>2
    <3>4. queue \in Seq(Entry)
      BY DEF TypeOK
    <3> QED
      BY <3>1, <3>3, <3>4, DrainImplements
  <2> QED
    BY <2>1, <2>2
<1>2. CASE LoopStep /\ DrainResume
  <2>1. queue # <<>> /\ events' = events /\ DrainFrom(Tail(queue), drainStart)
    BY <1>2 DEF DrainResume, HeadPresent, Popped
  <2>2. /\ Tail(queue) \in Seq(Entry) /\ Len(Tail(queue)) = Len(queue) - 1
        /\ \A i \in 1..Len(Tail(queue)) : Tail(queue)[i] = queue[i + 1]
        /\ Len(queue) \in Nat \ {0}
    BY <2>1, HeadTailProperties, EmptySeq DEF TypeOK
  <2>3. CASE Head(queue).id = inflight
    <3>1. Waiting = Tail(queue)
      BY <2>1, <2>3 DEF Waiting
    <3>2. /\ 0 \in 0..Len(Waiting) /\ Len(Tail(queue)) = Len(Waiting) - 0
          /\ \A i \in 1..Len(Tail(queue)) : Tail(queue)[i] = Waiting[0 + i]
      BY <2>2, <3>1
    <3> QED
      BY <2>1, <2>2, <3>2, DrainImplements
  <2>4. CASE Head(queue).id # inflight
    <3>1. Waiting = queue
      BY <2>4 DEF Waiting
    <3>2. /\ 1 \in 0..Len(Waiting) /\ Len(Tail(queue)) = Len(Waiting) - 1
          /\ \A i \in 1..Len(Tail(queue)) : Tail(queue)[i] = Waiting[1 + i]
      BY <2>2, <3>1
    <3> QED
      BY <2>1, <2>2, <3>2, DrainImplements
  <2> QED
    BY <2>3, <2>4
<1>3. CASE LoopStep /\ ~AnnounceOk /\ ~DrainResume
  BY <1>0, <1>3 DEF LoopStep, ConnectFails, ConnectOk, AuthReply, SendRaises,
     ListenEnds, CloseDone, Wake
<1>4. CASE SendLive
  <2>1. UNCHANGED <<queue, inflight>> /\ events' = events + 1
        /\ delivered' \in {delivered, Append(delivered, [id |-> events + 1, via |-> "live"])}
    BY <1>4 DEF SendLive, Received
  <2>2. Ids(Waiting)' = Ids(Waiting)
    BY <2>1 DEF Waiting, Ids
  <2>3. Buffer!Pass
    BY <2>1, <2>2 DEF Buffer!Pass
  <2> QED
    BY <2>3 DEF Buffer!Next
<1>5. CASE EnqueueEvent
  BY <1>5, EnqueueImplements DEF Buffer!Next
<1>6. CASE Reload
  <2> DEFINE P == Ids(Waiting)
  <2>1. queue' = <<>> /\ UNCHANGED <<delivered, events>>
    BY <1>6 DEF Reload
  <2>2. Ids(Waiting)' = <<>>
    BY <2>1, EmptyIds DEF Waiting
  <2>3. P \in Seq(Nat)
    BY WaitingFacts, IdsFacts
  <2>4. CASE P = <<>>
    BY <2>1, <2>2, <2>4 DEF Buffer!vars
  <2>5. CASE P # <<>>
    <3>1. Len(P) \in 1..Len(P) /\ Len(P) \in Nat
      BY <2>3, <2>5, EmptySeq
    <3>2. SubSeq(P, Len(P) + 1, Len(P)) = <<>>
      BY <3>1, SubSeqEmpty
    <3>3. Buffer!Forget
      BY <2>1, <2>2, <3>1, <3>2 DEF Buffer!Forget, Buffer!DropFirst
    <3> QED
      BY <3>3 DEF Buffer!Next
  <2> QED
    BY <2>4, <2>5
<1>7. CASE start \/ Cancelled \/ MessageRaises
  BY <1>0, <1>7 DEF start, Cancelled, MessageRaises
<1>8. CASE stop \/ StopCloses \/ StopDone \/ AnswerPrompt \/ DismissPrompt
  BY <1>0, <1>8 DEF stop, StopCloses, StopDone, AnswerPrompt, BeginStop, DismissPrompt
<1>9. CASE LinkDrops \/ DropDetected \/ MoodChanges \/ Tick
  BY <1>0, <1>9 DEF LinkDrops, DropDetected, MoodChanges, Tick
<1>10. CASE UNCHANGED vars
  BY <1>0, <1>10 DEF vars
<1> QED
  BY <1>1, <1>2, <1>3, <1>4, <1>5, <1>6, <1>7, <1>8, <1>9, <1>10 DEF Next

\* The client with its queue implements the abstract buffer.
THEOREM ImplementsOfflineBuffer == Spec => ImplementsBuffer
<1>1. Spec => [](TypeInv /\ QueueInv)
  BY InitTyped, StepTyped, InitQueue, StepQueue, PTL DEF Spec
<1> QED
  BY <1>1, InitImplements, StepImplements, PTL DEF Spec, ImplementsBuffer, Buffer!Spec

Abstract == INSTANCE OfflineBufferProofs
              WITH pending <- Ids(Waiting),
                   received <- delivered,
                   submitted <- events

\* So the gateway receives no event twice, and replayed events in the order
\* in which they happened, through any lost links, evictions, stops and
\* reloads.
THEOREM EventsOnceInOrder == Spec => [](AtMostOnce /\ ReplayInOrder)
<1>1. Init => Abstract!Inv
  <2>1. Init => Abstract!Init
    BY InitImplements DEF Buffer!Init, Abstract!Init
  <2> QED
    BY <2>1, Abstract!InitSound, QueueAssumption
<1>2. Abstract!Inv /\ [Buffer!Next]_(Buffer!vars) => Abstract!Inv'
  <2>1. [Buffer!Next]_(Buffer!vars) => [Abstract!Next]_(Abstract!vars)
    BY DEF Buffer!Next, Buffer!vars, Buffer!Pass, Buffer!Keep, Buffer!Replay,
           Buffer!Forget, Buffer!DropFirst, Abstract!Next, Abstract!vars,
           Abstract!Pass, Abstract!Keep, Abstract!Replay, Abstract!Forget,
           Abstract!DropFirst
  <2> QED
    BY <2>1, Abstract!StepSound, QueueAssumption
<1>3. Spec => [](TypeInv /\ QueueInv)
  BY InitTyped, StepTyped, InitQueue, StepQueue, PTL DEF Spec
<1>4. Abstract!Inv => AtMostOnce /\ ReplayInOrder
  BY DEF Abstract!Inv, Abstract!AtMostOnce, Abstract!ReplayInOrder,
         AtMostOnce, ReplayInOrder, Buffer!AtMostOnce, Buffer!ReplayInOrder
<1> QED
  BY <1>1, <1>2, <1>3, <1>4, StepImplements, PTL DEF Spec

\* The second of these on its own.
THEOREM ReplayedInOrder == Spec => []ReplayInOrder
BY EventsOnceInOrder, PTL
-----------------------------------------------------------------------------
(***************************************************************************)
(* Where entries go.  As long as the socket is open, the entry being sent  *)
(* is the one drain pops next.                                             *)
(***************************************************************************)
DrainInv ==
  /\ drainStart <= clock
  /\ loop = "draining" /\ Connected => Head(queue).id = inflight

LEMMA InitDrain == Init => DrainInv
  BY DEF Init, DrainInv

LEMMA StepDrain == TypeInv /\ DrainInv /\ [Next]_vars => DrainInv'
<1> SUFFICES ASSUME TypeOK, DrainInv, [Next]_vars PROVE DrainInv'
  BY DEF TypeInv
<1> USE DEF otherVars, envVars, clientVars, queueVars, tokenVars, worldVars
<1>0. ASSUME UNCHANGED <<queue, inflight, drainStart, clock>>,
             loop' = "draining" /\ Connected' => loop = "draining" /\ Connected
      PROVE  DrainInv'
  BY <1>0 DEF DrainInv
<1>1. CASE start
  BY <1>0, <1>1 DEF start
<1>2. CASE LoopStep /\ ~AnnounceOk /\ ~DrainResume
  BY <1>0, <1>2 DEF LoopStep, ConnectFails, ConnectOk, AuthReply, CloseWs, SendRaises,
     ListenEnds, CloseDone, Wake
<1>3. CASE AnnounceOk
  <2>1. CASE queue = <<>>
    BY <1>0, <1>3, <2>1 DEF AnnounceOk
  <2>2. CASE queue # <<>>
    <3>1. drainStart' = clock /\ clock' = clock /\ ws' = ws /\ DrainFrom(queue, clock)
      BY <1>3, <2>2 DEF AnnounceOk
    <3>2. loop' = "draining" => Head(queue').id = inflight'
      BY <3>1 DEF DrainFrom
    <3> QED
      BY <3>1, <3>2 DEF DrainInv, TypeOK
  <2> QED
    BY <2>1, <2>2
<1>4. CASE DrainResume
  <2>1. UNCHANGED <<drainStart, clock, ws>> /\ DrainFrom(Popped(queue), drainStart)
    BY <1>4 DEF DrainResume
  <2>2. loop' = "draining" => Head(queue').id = inflight'
    BY <2>1 DEF DrainFrom
  <2> QED
    BY <2>1, <2>2 DEF DrainInv
<1>5. CASE Cancelled
  BY <1>0, <1>5 DEF Cancelled
<1>6. CASE MessageRaises
  BY <1>0, <1>6 DEF MessageRaises, CloseWs
<1>7. CASE SendLive
  BY <1>0, <1>7 DEF SendLive, Connected
<1>8. CASE EnqueueEvent
  <2>1. UNCHANGED <<loop, ws, drainStart, clock>> /\ ~Connected
    BY <1>8 DEF EnqueueEvent
  <2> QED
    BY <2>1 DEF DrainInv, Connected
<1>9. CASE stop \/ StopCloses \/ StopDone \/ AnswerPrompt \/ DismissPrompt
  BY <1>0, <1>9 DEF stop, StopCloses, StopWs, StopDone, AnswerPrompt, BeginStop, DismissPrompt,
     Connected
<1>10. CASE Reload
  <2>1. drainStart' = 0 /\ loop' = "off" /\ clock' = clock
    BY <1>10 DEF Reload
  <2> QED
    BY <2>1 DEF DrainInv, TypeOK
<1>11. CASE LinkDrops \/ DropDetected \/ MoodChanges
  BY <1>0, <1>11 DEF LinkDrops, DropDetected, MoodChanges, Connected
<1>12. CASE Tick
  <2>1. clock' = clock + 1 /\ UNCHANGED <<drainStart, queue, inflight, loop, ws>>
    BY <1>12 DEF Tick
  <2> QED
    BY <2>1 DEF DrainInv, Connected, TypeOK
<1>13. CASE UNCHANGED vars
  BY <1>0, <1>13 DEF vars, Connected
<1> QED
  BY <1>1, <1>2, <1>3, <1>4, <1>5, <1>6, <1>7, <1>8, <1>9, <1>10, <1>11, <1>12, <1>13
     DEF Next, LoopStep

\* On an open socket a drain leaves out nothing but stale entries.
LEMMA DrainLeavesStale ==
  ASSUME NEW q \in Seq(Entry), NEW now, DrainFrom(q, now), Connected,
         NEW i \in 1..Len(q), q[i] \notin Entries(queue')
  PROVE  Stale(q[i], now)
<1>1. PICK k \in 0..Len(q) :
        /\ FromFresh(q, now) = SubSeq(q, k + 1, Len(q))
        /\ \A j \in 1..k : Stale(q[j], now)
  BY FromFreshFacts
<1>2. /\ Len(FromFresh(q, now)) = Len(q) - k
      /\ \A j \in 1..(Len(q) - k) : FromFresh(q, now)[j] = q[k + j]
  BY <1>1, SuffixOf
<1>3. queue' = FromFresh(q, now)
  BY DEF DrainFrom
<1>4. Len(q) \in Nat
  BY LenProperties
<1>5. CASE i > k
  <2>1. i - k \in 1..Len(queue') /\ queue'[i - k] = q[i]
    <3>1. i - k \in 1..(Len(q) - k) /\ k + (i - k) = i
      BY <1>4, <1>5
    <3> QED
      BY <1>2, <1>3, <3>1
  <2> QED
    BY <2>1 DEF Entries
<1>6. CASE ~(i > k)
  BY <1>1, <1>4, <1>6
<1> QED
  BY <1>5, <1>6

LEMMA StepAccounted ==
  ASSUME TypeInv, DrainInv, Next, NEW e \in Leaving
  PROVE  \/ e.id = inflight
         \/ clock - e.at > MaxEventAge
         \/ Len(queue) = MaxQueueSize /\ e = Head(queue) /\ events' > events
         \/ loop \in {"announcing", "draining"} /\ ~Connected
         \/ reloads' > reloads
<1> USE DEF TypeInv
<1>0. queue' # queue
  BY DEF Leaving
<1>1. PICK i \in 1..Len(queue) : e = queue[i]
  BY DEF Leaving, Entries
<1>2. e \notin Entries(queue')
  BY DEF Leaving
<1>3. queue \in Seq(Entry) /\ Len(queue) \in Nat /\ queue # <<>>
  BY <1>1, LenProperties, EmptySeq DEF TypeOK
<1>4. e \in Entry
  BY <1>1, <1>3, ElementOfSeq
<1>5. CASE LoopStep /\ AnnounceOk
  <2>1. DrainFrom(queue, clock) /\ loop = "announcing"
    BY <1>3, <1>5 DEF AnnounceOk
  <2>2. CASE Connected
    <3>1. Stale(queue[i], clock)
      BY <1>1, <1>2, <1>3, <2>1, <2>2, DrainLeavesStale
    <3> QED
      BY <1>1, <3>1 DEF Stale
  <2> QED
    BY <2>1, <2>2
<1>6. CASE LoopStep /\ DrainResume
  <2>1. DrainFrom(Tail(queue), drainStart) /\ loop = "draining"
    BY <1>6 DEF DrainResume, Popped
  <2>2. CASE Connected /\ i = 1
    <3>1. Head(queue) = queue[1] /\ Head(queue).id = inflight
      BY <1>3, <2>1, <2>2, HeadTailProperties DEF DrainInv
    <3> QED
      BY <1>1, <2>2, <3>1
  <2>3. CASE Connected /\ i # 1
    <3>1. /\ Tail(queue) \in Seq(Entry) /\ Len(Tail(queue)) = Len(queue) - 1
          /\ \A j \in 1..Len(Tail(queue)) : Tail(queue)[j] = queue[j + 1]
      BY <1>3, HeadTailProperties
    <3>2. i - 1 \in 1..Len(Tail(queue)) /\ (i - 1) + 1 = i
      BY <1>3, <2>3, <3>1
    <3>3. Tail(queue)[i - 1] = e
      BY <1>1, <3>1, <3>2
    <3>4. Stale(Tail(queue)[i - 1], drainStart)
      BY <1>2, <2>1, <2>3, <3>1, <3>2, <3>3, DrainLeavesStale
    <3>5. drainStart - e.at > MaxEventAge /\ e.at \in Nat /\ drainStart <= clock
      BY <1>4, <3>3, <3>4 DEF Stale, Entry, DrainInv
    <3> QED
      BY <3>5, QueueAssumption DEF TypeOK
  <2> QED
    BY <2>1, <2>2, <2>3
<1>7. CASE LoopStep /\ ~AnnounceOk /\ ~DrainResume
  BY <1>0, <1>7 DEF LoopStep, ConnectFails, ConnectOk, AuthReply, SendRaises, ListenEnds,
     CloseDone, Wake, otherVars, queueVars
<1>8. CASE EnqueueEvent
  <2> DEFINE new == [id |-> events + 1, at |-> clock]
  <2>1. queue' = Enqueued(queue, new) /\ events' = events + 1 /\ new \in Entry
    BY <1>8 DEF EnqueueEvent, Entry, TypeOK
  <2> HIDE DEF new
  <2>2. CASE ~IsFull(queue)
    <3>1. queue' = Append(queue, new)
      BY <2>1, <2>2 DEF Enqueued
    <3>2. i \in 1..Len(queue') /\ queue'[i] = queue[i]
      BY <1>1, <1>3, <2>1, <3>1, AppendProperties
    <3> QED
      BY <1>1, <1>2, <3>2 DEF Entries
  <2>3. CASE IsFull(queue) /\ i # 1
    <3>1. queue' = Append(Tail(queue), new)
      BY <2>1, <2>3 DEF Enqueued
    <3>2. /\ Tail(queue) \in Seq(Entry) /\ Len(Tail(queue)) = Len(queue) - 1
          /\ \A j \in 1..Len(Tail(queue)) : Tail(queue)[j] = queue[j + 1]
      BY <1>3, HeadTailProperties
    <3>3. i - 1 \in 1..Len(Tail(queue)) /\ (i - 1) + 1 = i
      BY <1>3, <2>3, <3>2
    <3>4. i - 1 \in 1..Len(queue') /\ queue'[i - 1] = Tail(queue)[i - 1]
      BY <2>1, <3>1, <3>2, <3>3, AppendProperties
    <3> QED
      BY <1>1, <1>2, <3>2, <3>3, <3>4 DEF Entries
  <2>4. CASE IsFull(queue) /\ i = 1
    <3>1. e = Head(queue)
      BY <1>1, <1>3, <2>4, HeadTailProperties
    <3>2. Len(queue) = MaxQueueSize
      BY <1>3, <2>4, QueueAssumption DEF TypeOK, IsFull
    <3>3. events' > events
      BY <2>1 DEF TypeOK
    <3> QED
      BY <3>1, <3>2, <3>3
  <2> QED
    BY <2>2, <2>3, <2>4
<1>9. CASE Reload
  BY <1>9 DEF Reload, TypeOK
<1>10. CASE start \/ Cancelled \/ MessageRaises \/ SendLive
  BY <1>0, <1>10 DEF start, Cancelled, MessageRaises, SendLive, otherVars, queueVars,
     clientVars, envVars
<1>12. CASE stop \/ StopCloses \/ StopDone
  BY <1>0, <1>12 DEF stop, StopCloses, StopDone, BeginStop, otherVars, queueVars,
     clientVars, envVars
<1>11. CASE \/ AnswerPrompt \/ DismissPrompt \/ LinkDrops \/ DropDetected
            \/ MoodChanges \/ Tick
  BY <1>0, <1>11 DEF AnswerPrompt, BeginStop, DismissPrompt, LinkDrops, DropDetected,
     MoodChanges, Tick, otherVars, queueVars, clientVars, envVars
<1> QED
  BY <1>5, <1>6, <1>7, <1>8, <1>9, <1>10, <1>11, <1>12 DEF Next

\* Every entry that leaves the buffer leaves for one of five reasons, for every
\* size, age limit, gateway and any order of drains, evictions and lost links.
THEOREM LossesKnown == Spec => LossesAccounted
<1>1. Spec => [](TypeInv /\ DrainInv)
  BY InitTyped, StepTyped, InitDrain, StepDrain, PTL DEF Spec
<1>2. TypeInv /\ DrainInv /\ [Next]_vars =>
        [\A e \in Leaving :
           \/ e.id = inflight
           \/ clock - e.at > MaxEventAge
           \/ Len(queue) = MaxQueueSize /\ e = Head(queue) /\ events' > events
           \/ loop \in {"announcing", "draining"} /\ ~Connected
           \/ reloads' > reloads]_vars
  BY StepAccounted
<1> QED
  BY <1>1, <1>2, PTL DEF Spec, LossesAccounted
=============================================================================
