------------------------- MODULE GatewayClientProofs -------------------------
(***************************************************************************)
(* What is proved of GatewayClient for every size of the buffer, any age   *)
(* limit, any backoff, any gateway and any bounds.                         *)
(***************************************************************************)
EXTENDS GatewayClient, SequenceTheorems, WellFoundedInduction, TLAPS

-----------------------------------------------------------------------------
(***************************************************************************)
(* What the operators of EventQueue return, for every queue.               *)
(***************************************************************************)

\* A non-empty set of naturals has a least element.
LEMMA LeastNat ==
  ASSUME NEW T, T \subseteq Nat, T # {}
  PROVE  \E x \in T : \A y \in T : x <= y
<1>1. PICK x \in T : \A y \in T : ~(<<y, x>> \in OpToRel(<, Nat))
  BY NatLessThanWellFounded, WFMin
<1>2. \A y \in T : ~(y < x)
  BY <1>1 DEF OpToRel
<1> QED
  BY <1>2

\* A suffix of a sequence, by its length and its elements.
LEMMA SuffixOf ==
  ASSUME NEW S, NEW s \in Seq(S), NEW k \in 0..Len(s)
  PROVE  /\ SubSeq(s, k + 1, Len(s)) \in Seq(S)
         /\ Len(SubSeq(s, k + 1, Len(s))) = Len(s) - k
         /\ \A i \in 1..(Len(s) - k) : SubSeq(s, k + 1, Len(s))[i] = s[k + i]
<1>1. Len(s) \in Nat
  BY LenProperties
<1>2. \A i \in (k + 1)..Len(s) : s[i] \in S
  BY <1>1, ElementOfSeq
<1> QED
  BY <1>1, <1>2, SubSeqProperties

\* Dropping the stale entries at the head leaves a suffix of the queue: only
\* stale entries are gone, and the one now at the head is fresh.
LEMMA FromFreshFacts ==
  ASSUME NEW S, NEW q \in Seq(S), NEW now
  PROVE  \E k \in 0..Len(q) :
           /\ FromFresh(q, now) = SubSeq(q, k + 1, Len(q))
           /\ \A i \in 1..k : Stale(q[i], now)
           /\ k = Len(q) \/ ~Stale(q[k + 1], now)
<1>1. Len(q) \in Nat
  BY LenProperties
<1> DEFINE T == {k \in 0..Len(q) : k = Len(q) \/ ~Stale(q[k + 1], now)}
           Good(k) == /\ \A i \in 1..k : Stale(q[i], now)
                      /\ k = Len(q) \/ ~Stale(q[k + 1], now)
<1>2. T \subseteq Nat /\ Len(q) \in T
  BY <1>1
<1>3. PICK x \in T : \A y \in T : x <= y
  <2> HIDE DEF T
  <2> QED
    BY <1>2, LeastNat
<1>4. \A i \in 1..x : Stale(q[i], now)
  <2>1. SUFFICES ASSUME NEW i \in 1..x, ~Stale(q[i], now) PROVE FALSE
    OBVIOUS
  <2>2. i - 1 \in 0..Len(q) /\ (i - 1) + 1 = i /\ ~(x <= i - 1)
    BY <1>1, <1>3
  <2>3. i - 1 \in T
    BY <2>1, <2>2
  <2> QED
    BY <1>3, <2>2, <2>3
<1>5. \E k \in 0..Len(q) : Good(k)
  BY <1>3, <1>4
<1> DEFINE c == CHOOSE k \in 0..Len(q) : Good(k)
<1>6. c \in 0..Len(q) /\ Good(c)
  <2> HIDE DEF Good
  <2> QED
    BY <1>5
<1>7. FromFresh(q, now) = SubSeq(q, c + 1, Len(q))
  BY DEF FromFresh
<1> HIDE DEF c
<1> QED
  BY <1>6, <1>7

\* An append to the queue, at its bound or below it.
LEMMA Enqueuing ==
  ASSUME NEW q \in Seq(Entry), Len(q) <= MaxQueueSize, NEW e \in Entry
  PROVE  Enqueued(q, e) \in Seq(Entry) /\ Len(Enqueued(q, e)) <= MaxQueueSize
<1>1. Len(q) \in Nat
  BY LenProperties
<1>2. CASE IsFull(q)
  <2>1. q # <<>>
    BY <1>2, QueueAssumption, EmptySeq DEF IsFull
  <2>2. Tail(q) \in Seq(Entry) /\ Len(Tail(q)) = Len(q) - 1
    BY <2>1, HeadTailProperties
  <2>3. Append(Tail(q), e) \in Seq(Entry) /\ Len(Append(Tail(q), e)) = Len(q)
    BY <1>1, <2>2, AppendProperties
  <2> QED
    BY <1>2, <2>3 DEF Enqueued
<1>3. CASE ~IsFull(q)
  <2>1. Append(q, e) \in Seq(Entry) /\ Len(Append(q, e)) = Len(q) + 1
    BY AppendProperties
  <2>2. Len(q) + 1 <= MaxQueueSize
    BY <1>1, <1>3, QueueAssumption DEF IsFull
  <2> QED
    BY <1>3, <2>1, <2>2 DEF Enqueued
<1> QED
  BY <1>2, <1>3

\* An append leaves something in the queue.
LEMMA EnqueuedNotEmpty ==
  ASSUME NEW q \in Seq(Entry), NEW e \in Entry
  PROVE  Enqueued(q, e) # <<>>
<1>1. CASE IsFull(q)
  <2>1. q # <<>>
    BY <1>1, QueueAssumption, EmptySeq DEF IsFull
  <2>2. Tail(q) \in Seq(Entry)
    BY <2>1, HeadTailProperties
  <2>3. Append(Tail(q), e) # <<>>
    BY <2>2, AppendProperties
  <2> QED
    BY <1>1, <2>3 DEF Enqueued
<1>2. CASE ~IsFull(q)
  BY <1>2, AppendProperties DEF Enqueued
<1> QED
  BY <1>1, <1>2

\* What is left once the stale entries at the head are gone.
LEMMA Freshening ==
  ASSUME NEW q \in Seq(Entry), Len(q) <= MaxQueueSize, NEW now
  PROVE  FromFresh(q, now) \in Seq(Entry) /\ Len(FromFresh(q, now)) <= MaxQueueSize
<1>1. PICK k \in 0..Len(q) : FromFresh(q, now) = SubSeq(q, k + 1, Len(q))
  BY FromFreshFacts
<1>2. Len(q) \in Nat
  BY LenProperties
<1> QED
  BY <1>1, <1>2, SuffixOf, QueueAssumption

\* Whatever the gateway receives, delivered stays a sequence of deliveries.
LEMMA Receiving ==
  ASSUME TypeOK, NEW id \in Nat, NEW via \in {"live", "queue"}
  PROVE  Received(id, via) \in Seq(Delivery)
<1>1. [id |-> id, via |-> via] \in Delivery
  BY DEF Delivery
<1> QED
  BY <1>1, AppendProperties DEF TypeOK, Received

\* The part of the state drain works on.
DrainOK == /\ queue \in Seq(Entry) /\ Len(queue) <= MaxQueueSize
           /\ dropped \in Nat
           /\ inflight \in Nat
           /\ loop \in LoopPlaces
           /\ delivered \in Seq(Delivery)

\* drain pops the head after a send: there is one for as long as it is sent.
HeadPresent == loop = "draining" => queue # <<>>

\* Typing is inductive only together with that fact: popping an empty queue
\* would raise.
TypeInv == TypeOK /\ HeadPresent

LEMMA Draining ==
  ASSUME TypeOK, NEW q \in Seq(Entry), Len(q) <= MaxQueueSize, NEW now,
         DrainFrom(q, now)
  PROVE  DrainOK' /\ HeadPresent'
<1> DEFINE fresh == FromFresh(q, now)
<1>1. fresh \in Seq(Entry) /\ Len(fresh) <= MaxQueueSize
  BY Freshening
<1> HIDE DEF fresh
<1>2. CASE fresh = <<>> \/ ~Connected
  <2>1. queue' = <<>> /\ dropped' = 0 /\ inflight' = 0 /\ loop' = "listening"
        /\ delivered' = delivered
    BY <1>2 DEF DrainFrom, fresh
  <2> QED
    BY <2>1, EmptySeq, QueueAssumption DEF DrainOK, HeadPresent, TypeOK, LoopPlaces
<1>3. CASE ~(fresh = <<>> \/ ~Connected)
  <2>1. /\ queue' = fresh /\ inflight' = Head(fresh).id /\ loop' = "draining"
        /\ delivered' = Received(Head(fresh).id, "queue") /\ dropped' = dropped
    BY <1>3 DEF DrainFrom, fresh
  <2>2. Head(fresh).id \in Nat
    <3>1. Head(fresh) \in Entry
      BY <1>1, <1>3, HeadTailProperties
    <3> QED
      BY <3>1 DEF Entry
  <2>3. delivered' \in Seq(Delivery)
    BY <2>1, <2>2, Receiving
  <2> QED
    BY <1>1, <1>3, <2>1, <2>2, <2>3 DEF DrainOK, HeadPresent, TypeOK, LoopPlaces
<1> QED
  BY <1>2, <1>3

\* Every answer ends the token check in one of the four outcomes.
LEMMA Classifying == \A reply : Authenticate(reply) \in Outcomes
<1>1. \A message : Refusal(message) \in Outcomes
  BY DEF Refusal, Outcomes
<1>2. \A body : ClassifyText(body) \in Outcomes
  BY <1>1 DEF ClassifyText, Outcomes
<1>3. \A code, body : ClassifyClose(code, body) \in Outcomes
  BY <1>1 DEF ClassifyClose, Outcomes
<1> QED
  BY <1>2, <1>3 DEF Authenticate, Outcomes

LEMMA BackoffRange ==
  ASSUME NEW b \in InitialBackoff..MaxBackoff
  PROVE  /\ DoubleUpTo(b, MaxBackoff) \in InitialBackoff..MaxBackoff
         /\ DoubleUpTo(b, MaxBackoff) >= b
  BY BackoffAssumption DEF DoubleUpTo
-----------------------------------------------------------------------------
LEMMA InitTyped == Init => TypeInv
<1> SUFFICES ASSUME Init PROVE TypeInv
  OBVIOUS
<1>1. /\ <<>> \in Seq(Entry) /\ Len(<<>>) = 0
      /\ <<>> \in Seq(Delivery)
  BY EmptySeq
<1>2. InitialBackoff \in InitialBackoff..MaxBackoff /\ 0 <= MaxQueueSize
  BY BackoffAssumption, QueueAssumption
<1> QED
  BY <1>1, <1>2
  DEF Init, TypeInv, TypeOK, HeadPresent, LoopPlaces

LEMMA StepTyped == TypeInv /\ [Next]_vars => TypeInv'
<1> SUFFICES ASSUME TypeOK, HeadPresent, [Next]_vars PROVE TypeOK' /\ HeadPresent'
  BY DEF TypeInv
<1> USE DEF TypeOK, HeadPresent, otherVars, envVars, clientVars, queueVars, tokenVars,
            worldVars, LoopPlaces
<1>1. CASE start
  BY <1>1 DEF start
<1>2. CASE LoopStep
  <2>1. CASE ConnectFails
    BY <2>1 DEF ConnectFails, Outcomes
  <2>2. CASE ConnectOk
    BY <2>2 DEF ConnectOk
  <2>3. CASE AuthReply
    <3>1. authOutcome' \in Outcomes
      BY <2>3, Classifying DEF AuthReply
    <3> QED
      BY <2>3, <3>1 DEF AuthReply, CloseWs
  <2>4. CASE SendRaises
    BY <2>4 DEF SendRaises, CloseWs
  <2>5. CASE AnnounceOk
    <3>1. DrainOK' /\ HeadPresent' /\ drainStart' \in Nat
      <4>1. CASE queue = <<>>
        BY <2>5, <4>1 DEF AnnounceOk, DrainOK
      <4>2. CASE queue # <<>>
        BY <2>5, <4>2, Draining DEF AnnounceOk
      <4> QED
        BY <4>1, <4>2
    <3>2. backoff' \in InitialBackoff..MaxBackoff
      BY <2>5, BackoffAssumption DEF AnnounceOk
    <3> QED
      BY <2>5, <3>1, <3>2 DEF AnnounceOk, DrainOK, TokenAccepted
  <2>6. CASE DrainResume
    <3>1. Popped(queue) \in Seq(Entry) /\ Len(Popped(queue)) <= MaxQueueSize
      <4>1. queue # <<>>
        BY <2>6 DEF DrainResume
      <4>2. Tail(queue) \in Seq(Entry) /\ Len(Tail(queue)) = Len(queue) - 1
        BY <4>1, HeadTailProperties
      <4> QED
        BY <4>2, LenProperties, QueueAssumption DEF Popped
    <3>2. DrainOK' /\ HeadPresent'
      BY <2>6, <3>1, Draining DEF DrainResume
    <3> QED
      BY <2>6, <3>2 DEF DrainResume, DrainOK
  <2>7. CASE ListenEnds
    BY <2>7 DEF ListenEnds, CloseWs
  <2>8. CASE CloseDone
    BY <2>8 DEF CloseDone, TokenRefused
  <2>9. CASE Wake
    BY <2>9, BackoffRange DEF Wake
  <2> QED
    BY <1>2, <2>1, <2>2, <2>3, <2>4, <2>5, <2>6, <2>7, <2>8, <2>9 DEF LoopStep
<1>3. CASE Cancelled
  BY <1>3 DEF Cancelled
<1>4. CASE MessageRaises
  BY <1>4 DEF MessageRaises, CloseWs
<1>5. CASE SendLive
  BY <1>5, Receiving DEF SendLive
<1>6. CASE EnqueueEvent
  <2>1. [id |-> events + 1, at |-> clock] \in Entry
    BY DEF Entry
  <2>2. queue' \in Seq(Entry) /\ Len(queue') <= MaxQueueSize
    BY <1>6, <2>1, Enqueuing DEF EnqueueEvent
  <2>3. HeadPresent'
    BY <1>6, <2>1, EnqueuedNotEmpty DEF EnqueueEvent
  <2> QED
    BY <1>6, <2>2, <2>3 DEF EnqueueEvent
<1>7. CASE stop
  BY <1>7 DEF stop, BeginStop, StopWs
<1>8. CASE StopCloses \/ StopDone
  BY <1>8 DEF StopCloses, StopWs, StopDone
<1>9. CASE AnswerPrompt
  BY <1>9 DEF AnswerPrompt, BeginStop, StopWs
<1>10. CASE DismissPrompt
  BY <1>10 DEF DismissPrompt
<1>11. CASE Reload
  <2>1. queue' \in Seq(Entry) /\ Len(queue') <= MaxQueueSize
    BY <1>11, EmptySeq, QueueAssumption DEF Reload
  <2>2. backoff' \in InitialBackoff..MaxBackoff
    BY <1>11, BackoffAssumption DEF Reload
  <2>3. reloads' \in Nat /\ dropped' \in Nat /\ drainStart' \in Nat /\ inflight' \in Nat
    BY <1>11 DEF Reload
  <2>4. /\ running' = FALSE /\ tokenRejected' = FALSE
        /\ loop' = "off" /\ stopping' = "no" /\ ws' = "none" /\ authOutcome' = "none"
        /\ UNCHANGED <<prompt, gateway, clock, events, delivered, faults>>
    BY <1>11 DEF Reload
  <2> QED
    BY <2>1, <2>2, <2>3, <2>4
<1>12. CASE LinkDrops
  BY <1>12 DEF LinkDrops
<1>13. CASE DropDetected
  BY <1>13 DEF DropDetected
<1>14. CASE MoodChanges
  BY <1>14 DEF MoodChanges
<1>15. CASE Tick
  BY <1>15 DEF Tick
<1>16. CASE UNCHANGED vars
  BY <1>16 DEF vars
<1> QED
  BY <1>1, <1>2, <1>3, <1>4, <1>5, <1>6, <1>7, <1>8, <1>9, <1>10, <1>11,
     <1>12, <1>13, <1>14, <1>15, <1>16 DEF Next

\* Every variable keeps its type: in particular the buffer never exceeds its
\* bound and the reconnect delay stays between its two limits.
THEOREM TypeCorrect == Spec => []TypeOK
<1>1. TypeInv => TypeOK
  BY DEF TypeInv
<1> QED
  BY <1>1, InitTyped, StepTyped, PTL DEF Spec
-----------------------------------------------------------------------------
(***************************************************************************)
(* Sockets, stop() and the prompt.                                         *)
(***************************************************************************)

\* A client that has not started, or is between attempts, holds no socket;
\* one that runs is not being stopped.
Sockets == /\ OneSocketAtATime
           /\ loop = "off" => ws = "none" /\ ~running /\ stopping = "no"
           /\ loop # "off" => (running <=> stopping = "no")

\* While stop() waits the socket is closed, and no task is left to reopen it.
Stopped == /\ stopping = "closing" => ws = "closed"
           /\ StoppedIsQuiet

\* Without a reload, a prompt means that this client has recorded a rejection.
Prompted == reloads = 0 /\ prompt => tokenRejected

ConnInv == /\ TypeOK /\ Sockets /\ Stopped
           /\ RejectionRecorded /\ Prompted /\ PromptClearsInOneRun

LEMMA InitConn == Init => ConnInv
<1> SUFFICES ASSUME Init PROVE ConnInv
  OBVIOUS
<1>1. TypeOK
  BY InitTyped DEF TypeInv
<1>2. loop = "off" /\ ws = "none" /\ running = FALSE /\ stopping = "no" /\ prompt = FALSE
  BY DEF Init
<1> QED
  BY <1>1, <1>2 DEF ConnInv, Sockets, OneSocketAtATime, Stopped, StoppedIsQuiet,
     RejectionRecorded, Prompted, PromptClearsInOneRun, PromptClears

\* What drain does besides the buffer: the loop ends up draining or listening.
LEMMA DrainPlaces ==
  ASSUME NEW q, NEW now, DrainFrom(q, now)
  PROVE  loop' \in {"draining", "listening"}
  BY DEF DrainFrom

LEMMA StepConn == ConnInv /\ TypeOK' /\ [Next]_vars => ConnInv'
<1> SUFFICES ASSUME ConnInv, TypeOK', [Next]_vars PROVE ConnInv'
  OBVIOUS
<1> USE DEF ConnInv, Sockets, OneSocketAtATime, Stopped, StoppedIsQuiet,
            RejectionRecorded, Prompted, PromptClearsInOneRun, PromptClears,
            Connected, otherVars, envVars, clientVars, queueVars, tokenVars,
            worldVars
<1>0. ASSUME UNCHANGED <<running, loop, stopping, ws, authOutcome,
                         tokenRejected, prompt, reloads>>
      PROVE  ConnInv'
  BY <1>0
<1>1. CASE start
  BY <1>1 DEF start
<1>2. CASE LoopStep
  <2>0. running /\ stopping = "no"
    BY <1>2 DEF LoopStep, Alive
  <2>1. CASE ConnectFails
    BY <2>0, <2>1 DEF ConnectFails, AUTH_CANNOT_CONNECT, AUTH_INVALID
  <2>2. CASE ConnectOk
    BY <2>0, <2>2 DEF ConnectOk
  <2>3. CASE AuthReply
    <3>1. loop' \in {"announcing", "closing"}
          /\ UNCHANGED <<running, stopping, tokenRejected, prompt, reloads>>
      BY <2>3 DEF AuthReply, CloseWs
    <3> QED
      BY <2>0, <3>1
  <2>4. CASE SendRaises
    BY <2>0, <2>4 DEF SendRaises, CloseWs
  <2>5. CASE AnnounceOk
    <3>1. loop' \in {"draining", "listening"}
      BY <2>5, DrainPlaces DEF AnnounceOk
    <3>2. /\ UNCHANGED <<running, stopping, ws, authOutcome, reloads>>
          /\ TokenAccepted
      BY <2>5 DEF AnnounceOk
    <3> QED
      BY <2>0, <3>1, <3>2 DEF TokenAccepted
  <2>6. CASE DrainResume
    <3>1. loop = "draining" /\ loop' \in {"draining", "listening"}
      BY <2>6, DrainPlaces DEF DrainResume
    <3>2. UNCHANGED <<running, stopping, ws, authOutcome, tokenRejected, prompt, reloads>>
      BY <2>6 DEF DrainResume
    <3> QED
      BY <2>0, <3>1, <3>2
  <2>7. CASE ListenEnds
    BY <2>0, <2>7 DEF ListenEnds, CloseWs
  <2>8. CASE CloseDone
    BY <2>0, <2>8 DEF CloseDone, TokenRefused
  <2>9. CASE Wake
    BY <2>0, <2>9 DEF Wake, AUTH_INVALID
  <2> QED
    BY <1>2, <2>1, <2>2, <2>3, <2>4, <2>5, <2>6, <2>7, <2>8, <2>9 DEF LoopStep
<1>3. CASE Cancelled
  BY <1>3 DEF Cancelled
<1>4. CASE MessageRaises
  BY <1>4 DEF MessageRaises, CloseWs, Alive
<1>5. CASE SendLive
  BY <1>0, <1>5 DEF SendLive
<1>6. CASE EnqueueEvent
  BY <1>0, <1>6 DEF EnqueueEvent
<1>7. CASE stop
  BY <1>7 DEF stop, BeginStop, StopWs
<1>8. CASE StopCloses \/ StopDone
  BY <1>8 DEF StopCloses, StopWs, StopDone
<1>9. CASE AnswerPrompt
  BY <1>9 DEF AnswerPrompt, BeginStop, StopWs
<1>10. CASE DismissPrompt
  BY <1>10 DEF DismissPrompt
<1>11. CASE Reload
  <2>1. reloads' # 0
    BY <1>11 DEF Reload, TypeOK
  <2> QED
    BY <1>11, <2>1 DEF Reload
<1>12. CASE LinkDrops
  BY <1>12 DEF LinkDrops
<1>13. CASE DropDetected
  BY <1>13 DEF DropDetected
<1>14. CASE MoodChanges
  BY <1>0, <1>14 DEF MoodChanges
<1>15. CASE Tick
  BY <1>0, <1>15 DEF Tick
<1>16. CASE UNCHANGED vars
  BY <1>0, <1>16 DEF vars
<1> QED
  BY <1>1, <1>2, <1>3, <1>4, <1>5, <1>6, <1>7, <1>8, <1>9, <1>10, <1>11,
     <1>12, <1>13, <1>14, <1>15, <1>16 DEF Next

THEOREM ConnectionInvariance == Spec => []ConnInv
BY TypeCorrect, InitConn, StepConn, PTL DEF Spec

\* Every rejection is on record, and the record is wiped by an acceptance, in
\* every run, whatever the gateway answers and whenever links break.
THEOREM ConnectionSound == Spec => []RejectionRecorded
<1>1. ConnInv => RejectionRecorded
  BY DEF ConnInv
<1> QED
  BY <1>1, ConnectionInvariance, PTL

\* No attempt or delay begins with a socket still held.
THEOREM OneSocket == Spec => []OneSocketAtATime
<1>1. ConnInv => OneSocketAtATime
  BY DEF ConnInv, Sockets
<1> QED
  BY <1>1, ConnectionInvariance, PTL

\* stop(), at whatever await of the loop it runs, leaves no socket.
THEOREM StoppedQuiet == Spec => []StoppedIsQuiet
<1>1. ConnInv => StoppedIsQuiet
  BY DEF ConnInv, Stopped
<1> QED
  BY <1>1, ConnectionInvariance, PTL

\* A working connection has no prompt open, before the entry is reloaded.
THEOREM PromptCleared == Spec => []PromptClearsInOneRun
<1>1. ConnInv => PromptClearsInOneRun
  BY DEF ConnInv
<1> QED
  BY <1>1, ConnectionInvariance, PTL

\* What still reaches the gateway once stop() is called: a send of a task that
\* was under way, while stop() waits for the loop to leave its receive on a
\* socket that is open.  Nothing queued is replayed, and nothing at all comes
\* through once stop() closes the socket, or returns.
LastWords ==
  [][~running /\ delivered' # delivered => stopping = "waiting" /\ SendLive]_vars

\* stop() silences the client, at whatever await of the loop it runs and
\* whatever tasks are under way.
THEOREM SilentAfterStop == Spec => LastWords
<1>1. ConnInv /\ [Next]_vars =>
        [~running /\ delivered' # delivered => stopping = "waiting" /\ SendLive]_vars
  <2> SUFFICES ASSUME ConnInv, Next, ~running, delivered' # delivered
               PROVE  stopping = "waiting" /\ SendLive
    OBVIOUS
  <2>1. ~LoopStep
    BY DEF LoopStep, Alive
  <2>2. SendLive
    BY <2>1 DEF Next, start, Cancelled, MessageRaises, EnqueueEvent, stop, StopCloses,
       StopDone, AnswerPrompt, DismissPrompt, Reload, LinkDrops, DropDetected, MoodChanges,
       Tick, otherVars, envVars
  <2>3. loop # "off" /\ Connected
    BY <2>2 DEF SendLive
  <2> QED
    BY <2>2, <2>3 DEF ConnInv, Sockets, Stopped, StoppedIsQuiet, Connected, TypeOK
<1> QED
  BY <1>1, ConnectionInvariance, PTL DEF Spec, LastWords

\* The token is held against the owner only on an answer about it, whatever
\* else the gateway may answer.
THEOREM TokenBlamed == Spec => OnlyTheTokenIsBlamed
<1> DEFINE About == {Text(AuthFailed("Invalid token")),
                     Close(REFUSED_CLOSE_CODE, AuthFailed("Invalid token")),
                     Close(REFUSED_CLOSE_CODE, Unreadable)}
<1>1. ASSUME NEW reply \in Replies \cup {Down}, Authenticate(reply) = AUTH_INVALID
      PROVE  reply \in About
  <2> USE DEF AUTH_OK, AUTH_INVALID, AUTH_INTEGRATION_DISABLED, AUTH_CANNOT_CONNECT
  <2>1. ASSUME NEW message, Refusal(message) = AUTH_INVALID
        PROVE  message = "Invalid token"
    BY <2>1 DEF Refusal
  <2>2. ASSUME NEW body \in Bodies, body.type = "auth_failed", body.message = "Invalid token"
        PROVE  body = AuthFailed("Invalid token")
    <3>1. body # Unreadable /\ body # AuthOkBody /\ body # OtherBody
      <4>1. Unreadable.type # "auth_failed"
        BY DEF Unreadable
      <4>2. AuthOkBody.type # "auth_failed"
        BY DEF AuthOkBody
      <4>3. OtherBody.type # "auth_failed"
        BY DEF OtherBody
      <4> QED
        BY <2>2, <4>1, <4>2, <4>3
    <3>2. PICK message \in Messages : body = AuthFailed(message)
      BY <3>1 DEF Bodies
    <3> QED
      BY <2>2, <3>2 DEF AuthFailed
  <2>3. ASSUME NEW body \in Bodies, ClassifyText(body) = AUTH_INVALID
        PROVE  body = AuthFailed("Invalid token")
    BY <2>1, <2>2, <2>3 DEF ClassifyText
  <2>4. ASSUME NEW code, NEW body \in Bodies, ClassifyClose(code, body) = AUTH_INVALID
        PROVE  code = REFUSED_CLOSE_CODE /\ body \in {AuthFailed("Invalid token"), Unreadable}
    BY <2>1, <2>2, <2>4 DEF ClassifyClose
  <2>5. CASE reply \in {OtherFrame, Silence, Down}
    <3>1. reply.frame \notin {"TEXT", "CLOSE"}
      BY <2>5 DEF OtherFrame, Silence, Down
    <3> QED
      BY <1>1, <3>1 DEF Authenticate
  <2>6. ASSUME NEW body \in Bodies, reply = Text(body) PROVE reply \in About
    <3>1. reply.frame = "TEXT" /\ reply.body = body
      BY <2>6 DEF Text
    <3>2. ClassifyText(body) = AUTH_INVALID
      BY <1>1, <3>1 DEF Authenticate
    <3> QED
      BY <2>3, <2>6, <3>2
  <2>7. ASSUME NEW code, NEW body \in Bodies, reply = Close(code, body) PROVE reply \in About
    <3>1. reply.frame = "CLOSE" /\ reply.code = code /\ reply.body = body
      BY <2>7 DEF Close
    <3>2. ClassifyClose(code, body) = AUTH_INVALID
      BY <1>1, <3>1 DEF Authenticate
    <3>3. code = REFUSED_CLOSE_CODE /\ body \in {AuthFailed("Invalid token"), Unreadable}
      BY <2>4, <3>2
    <3>4. CASE body = Unreadable
      BY <2>7, <3>3, <3>4
    <3>5. CASE body = AuthFailed("Invalid token")
      BY <2>7, <3>3, <3>5
    <3> QED
      BY <3>3, <3>4, <3>5
  <2>8. \/ reply \in {Text(body) : body \in Bodies}
        \/ reply \in {Close(code, body) : code \in {REFUSED_CLOSE_CODE, OtherCloseCode},
                                         body \in Bodies}
        \/ reply \in {OtherFrame, Silence, Down}
    BY DEF Replies
  <2> HIDE DEF About
  <2>9. CASE reply \in {Text(body) : body \in Bodies}
    <3>1. PICK body \in Bodies : reply = Text(body)
      BY <2>9
    <3> QED
      BY <2>6, <3>1
  <2>10. CASE reply \in {Close(code, body) : code \in {REFUSED_CLOSE_CODE, OtherCloseCode},
                                            body \in Bodies}
    <3>1. PICK code \in {REFUSED_CLOSE_CODE, OtherCloseCode}, body \in Bodies :
             reply = Close(code, body)
      BY <2>10
    <3> QED
      BY <2>7, <3>1
  <2> QED
    BY <2>5, <2>8, <2>9, <2>10
<1> HIDE DEF About
<1>2. TypeOK /\ [Next]_vars =>
        [authOutcome # AUTH_INVALID /\ authOutcome' = AUTH_INVALID => gateway \in About]_vars
  <2> SUFFICES ASSUME TypeOK, Next, authOutcome # AUTH_INVALID, authOutcome' = AUTH_INVALID
               PROVE  gateway \in About
    OBVIOUS
  <2> USE DEF otherVars, envVars, clientVars, tokenVars
  <2>1. AuthReply
    BY DEF Next, LoopStep, start, Cancelled, MessageRaises, SendLive, EnqueueEvent, stop,
       BeginStop, StopWs, StopCloses, StopDone, AnswerPrompt, DismissPrompt, Reload, LinkDrops,
       DropDetected, MoodChanges, Tick, ConnectFails, ConnectOk, SendRaises, AnnounceOk,
       DrainResume, ListenEnds, CloseDone, Wake, AUTH_INVALID, AUTH_CANNOT_CONNECT
  <2>2. Authenticate(Silence) # AUTH_INVALID
    BY DEF Silence, Authenticate, AUTH_INVALID, AUTH_CANNOT_CONNECT
  <2>3. gateway \in Replies \cup {Down}
    BY MoodAssumption DEF TypeOK
  <2> QED
    BY <1>1, <2>1, <2>2, <2>3 DEF AuthReply
<1> QED
  BY <1>2, TypeCorrect, PTL DEF Spec, OnlyTheTokenIsBlamed, About

\* The reconnect delay comes down only with an accepted token (or with a new
\* client), for every initial and maximal delay.
THEOREM BackoffNeverEases == Spec => BackoffHolds
<1>1. TypeOK /\ [Next]_vars => [backoff' < backoff => AnnounceOk \/ Reload]_vars
  <2> SUFFICES ASSUME TypeOK, Next, ~AnnounceOk, ~Reload
               PROVE  ~(backoff' < backoff)
    BY DEF TypeOK
  <2> USE DEF otherVars, envVars, clientVars
  <2>1. CASE backoff' = backoff
    BY <2>1 DEF TypeOK
  <2>2. CASE LoopStep /\ Wake
    BY <2>2, BackoffRange, BackoffAssumption DEF Wake, TypeOK
  <2>3. CASE LoopStep /\ ~Wake
    BY <2>1, <2>3 DEF LoopStep, ConnectFails, ConnectOk, AuthReply, SendRaises,
       DrainResume, ListenEnds, CloseDone
  <2>4. CASE ~LoopStep
    BY <2>1, <2>4 DEF Next, start, Cancelled, MessageRaises, SendLive, EnqueueEvent,
       stop, StopCloses, StopDone, AnswerPrompt, BeginStop, DismissPrompt, LinkDrops,
       DropDetected, MoodChanges, Tick
  <2> QED
    BY <2>2, <2>3, <2>4
<1> QED
  BY <1>1, TypeCorrect, PTL DEF Spec, BackoffHolds

\* The owner is asked only on an answer about the token, once per run of
\* rejections.
THEOREM AskedOnce == Spec => PromptOncePerRun
<1>1. [Next]_vars => [~prompt /\ prompt' => /\ authOutcome = AUTH_INVALID
                                            /\ ~tokenRejected /\ tokenRejected']_vars
  <2> SUFFICES ASSUME Next, ~prompt, prompt'
               PROVE  /\ authOutcome = AUTH_INVALID
                      /\ ~tokenRejected /\ tokenRejected'
    OBVIOUS
  <2> USE DEF otherVars, envVars, clientVars, tokenVars
  <2>1. LoopStep
    BY DEF Next, start, Cancelled, MessageRaises, SendLive, EnqueueEvent, stop,
       StopCloses, StopDone, AnswerPrompt, DismissPrompt, Reload, LinkDrops, DropDetected,
       MoodChanges, Tick
  <2>2. CloseDone
    BY <2>1 DEF LoopStep, ConnectFails, ConnectOk, AuthReply, SendRaises, AnnounceOk,
       TokenAccepted, DrainResume, ListenEnds, Wake
  <2> QED
    BY <2>2 DEF CloseDone, TokenRefused
<1> QED
  BY <1>1, PTL DEF Spec, PromptOncePerRun

-----------------------------------------------------------------------------
(***************************************************************************)
(* The way back to a connection.                                           *)
(***************************************************************************)

\* Nothing stays queued over a connection in use: drain leaves no entry behind,
\* and as long as the socket is open no event is queued.
Drained == loop = "listening" /\ Connected => queue = <<>>

\* Where the loop of a running client is, and the socket it closes.
Underway ==
  running => /\ loop \notin {"off", "ended"}
             /\ loop = "closing" => ws = "closed"

UseInv == Drained /\ Underway

LEMMA DrainEmpties ==
  ASSUME NEW q, NEW now, DrainFrom(q, now)
  PROVE  /\ loop' \in {"draining", "listening"}
         /\ loop' = "listening" => queue' = <<>>
BY DEF DrainFrom

LEMMA StepUse == ConnInv /\ UseInv /\ [Next]_vars => UseInv'
<1> SUFFICES ASSUME ConnInv, UseInv, [Next]_vars PROVE UseInv'
  OBVIOUS
<1> USE DEF UseInv, Drained, Underway, Connected, otherVars, envVars, clientVars,
            queueVars, tokenVars, worldVars
<1>1. ASSUME LoopStep PROVE UseInv'
  <2>1. CASE ConnectFails \/ ConnectOk \/ CloseDone \/ Wake
    BY <2>1 DEF ConnectFails, ConnectOk, CloseDone, Wake
  <2>2. CASE AuthReply \/ SendRaises \/ ListenEnds
    BY <2>2 DEF AuthReply, SendRaises, ListenEnds, CloseWs
  <2>3. CASE AnnounceOk
    <3>1. loop' \in {"draining", "listening"} /\ (loop' = "listening" => queue' = <<>>)
      BY <2>3, DrainEmpties DEF AnnounceOk
    <3> QED
      BY <3>1
  <2>4. CASE DrainResume
    <3>1. loop' \in {"draining", "listening"} /\ (loop' = "listening" => queue' = <<>>)
      BY <2>4, DrainEmpties DEF DrainResume
    <3> QED
      BY <3>1
  <2> QED
    BY <1>1, <2>1, <2>2, <2>3, <2>4 DEF LoopStep
<1>2. CASE start \/ Cancelled \/ MessageRaises
  BY <1>2 DEF start, Cancelled, MessageRaises, CloseWs
<1>3. CASE SendLive \/ EnqueueEvent
  BY <1>3 DEF SendLive, EnqueueEvent
<1>4. CASE stop \/ StopCloses \/ StopDone \/ AnswerPrompt
  <2>1. loop # "off" => (running <=> stopping = "no")
    BY DEF ConnInv, Sockets
  <2> QED
    BY <1>4, <2>1 DEF stop, StopCloses, StopWs, StopDone, AnswerPrompt, BeginStop
<1>5. CASE Reload
  BY <1>5 DEF Reload
<1>6. CASE DismissPrompt \/ LinkDrops \/ DropDetected \/ MoodChanges \/ Tick
  BY <1>6 DEF DismissPrompt, LinkDrops, DropDetected, MoodChanges, Tick
<1>7. CASE UNCHANGED vars
  BY <1>7 DEF vars
<1> QED
  BY <1>1, <1>2, <1>3, <1>4, <1>5, <1>6, <1>7 DEF Next

LEMMA InitUse == Init => UseInv
BY DEF Init, UseInv, Drained, Underway

\* Over a connection in use, events never wait in the queue for the next one.
THEOREM NothingLeftQueued == Spec => []Drained
<1>1. UseInv => Drained
  BY DEF UseInv
<1> QED
  BY <1>1, InitUse, StepUse, ConnectionInvariance, PTL DEF Spec

\* Steps from a place of the loop to listening, on a link that holds.
Ahead(place) ==
  CASE place = "authing" -> 3 [] place = "announcing" -> 2 [] place = "draining" -> 1
    [] OTHER -> 0

\* How far the loop is from listening on an open socket.  A connection that is
\* lost has to go on to its end before the next one is made.
Standing(place, socket) ==
  CASE place = "connecting" -> 4
    [] place = "sleeping" -> 5
    [] place = "closing" -> 6
    [] place \in {"authing", "announcing", "draining", "listening"} /\ socket = "open" ->
         Ahead(place)
    [] OTHER -> 7 + 2 * Ahead(place) + (IF socket = "half_open" THEN 1 ELSE 0)

Stage == Standing(loop, ws)

\* Entries that drain still has to send.
ToSend == IF loop = "draining" /\ Connected THEN Len(queue) ELSE 0

\* While the gateway accepts the token, every step of the loop and every lost
\* link that is found brings a running client nearer to listening, and nothing
\* but another fault takes it back.
AttemptNears ==
  [][running /\ running' /\ gateway = Text(AuthOkBody) =>
       \/ faults' > faults
       \/ Stage' < Stage
       \/ Stage' = Stage /\ ToSend' < ToSend
       \/ Stage' = Stage /\ ToSend' = ToSend /\ ~LoopStep /\ ~DropDetected]_vars

\* The measure is a natural number for every state, and is least in a connection
\* that is in use and has nothing queued.
LEMMA StageIs ==
  ASSUME TypeOK
  PROVE  /\ Stage \in 0..14 /\ ToSend \in Nat
         /\ Stage = 0 <=> loop = "listening" /\ ws = "open"
<1>1. Ahead(loop) \in 0..3
  BY DEF Ahead
<1>2. Stage \in 0..14
  BY <1>1 DEF Stage, Standing
<1>3. ToSend \in Nat
  BY LenProperties DEF TypeOK, ToSend
<1>4. Stage = 0 <=> loop = "listening" /\ ws = "open"
  BY <1>1 DEF Stage, Standing, Ahead
<1> QED
  BY <1>2, <1>3, <1>4

\* drain shortens the queue it is given, or is done with it.
LEMMA DrainShortens ==
  ASSUME NEW q \in Seq(Entry), NEW now, DrainFrom(q, now), UNCHANGED ws
  PROVE  \/ loop' = "listening"
         \/ loop' = "draining" /\ Connected /\ Len(queue') <= Len(q)
<1>1. PICK k \in 0..Len(q) : FromFresh(q, now) = SubSeq(q, k + 1, Len(q))
  BY FromFreshFacts
<1>2. Len(q) \in Nat /\ Len(FromFresh(q, now)) = Len(q) - k
  BY <1>1, SuffixOf, LenProperties
<1> QED
  BY <1>2 DEF DrainFrom

LEMMA AcceptingIs == Text(AuthOkBody) # Down /\ Authenticate(Text(AuthOkBody)) = AUTH_OK
BY DEF Text, AuthOkBody, Down, Authenticate, ClassifyText

\* A step of the loop.
LEMMA LoopNears ==
  ASSUME TypeInv, ConnInv, Underway, LoopStep, gateway = Text(AuthOkBody)
  PROVE  Stage' < Stage \/ (Stage' = Stage /\ ToSend' < ToSend)
<1> USE DEF Stage, Standing, Ahead
<1>1. CASE ConnectFails
  BY <1>1, AcceptingIs DEF ConnectFails
<1>2. CASE ConnectOk
  <2>1. loop = "connecting" /\ loop' = "authing" /\ ws' = "open"
    BY <1>2 DEF ConnectOk
  <2> QED
    BY <2>1
<1>3. CASE AuthReply
  <2>1. CASE ws = "open"
    <3>1. loop = "authing" /\ loop' = "announcing" /\ ws' = "open"
      BY <1>3, <2>1, AcceptingIs DEF AuthReply
    <3> QED
      BY <2>1, <3>1
  <2>2. CASE ws # "open"
    <3>1. loop = "authing" /\ loop' = "closing"
      <4>1. Authenticate(Silence) # AUTH_OK
        BY DEF Authenticate, Silence, AUTH_OK, AUTH_CANNOT_CONNECT
      <4> QED
        BY <1>3, <2>2, <4>1 DEF AuthReply, CloseWs
    <3> QED
      BY <2>2, <3>1
  <2> QED
    BY <2>1, <2>2
<1>4. CASE SendRaises
  <2>1. loop \in {"authing", "announcing"} /\ ws # "open" /\ loop' = "closing"
    BY <1>4 DEF SendRaises, CloseWs
  <2> QED
    BY <2>1
<1>5. CASE AnnounceOk
  <2>1. loop = "announcing" /\ loop' \in {"draining", "listening"} /\ ws' = ws
    BY <1>5, DrainEmpties DEF AnnounceOk
  <2> QED
    BY <2>1
<1>6. CASE DrainResume
  <2>1. loop = "draining" /\ ws' = ws /\ DrainFrom(Popped(queue), drainStart)
    BY <1>6 DEF DrainResume
  <2>2. /\ queue \in Seq(Entry) /\ queue # <<>>
    BY <2>1 DEF TypeInv, TypeOK, HeadPresent
  <2>3. Popped(queue) \in Seq(Entry) /\ Len(Popped(queue)) = Len(queue) - 1
    BY <2>2, HeadTailProperties DEF Popped
  <2>4. \/ loop' = "listening"
        \/ loop' = "draining" /\ Connected /\ Len(queue') <= Len(queue) - 1
    BY <2>1, <2>3, DrainShortens
  <2>5. CASE loop' = "listening"
    BY <2>1, <2>5
  <2>6. CASE loop' = "draining" /\ Connected /\ Len(queue') <= Len(queue) - 1
    <3>1. Connected'
      BY <2>1, <2>6 DEF Connected
    <3>2. ToSend' = Len(queue') /\ ToSend = Len(queue) /\ Stage' = Stage
      BY <2>1, <2>6, <3>1 DEF ToSend
    <3>3. Len(queue) \in Nat /\ Len(queue') \in Nat
      <4>1. queue' = FromFresh(Popped(queue), drainStart)
        BY <2>1, <2>6 DEF DrainFrom
      <4>2. queue' \in Seq(Entry)
        <5>1. PICK k \in 0..Len(Popped(queue)) :
                queue' = SubSeq(Popped(queue), k + 1, Len(Popped(queue)))
          BY <2>3, <4>1, FromFreshFacts
        <5> QED
          BY <2>3, <5>1, SuffixOf
      <4> QED
        BY <2>2, <4>2, LenProperties
    <3> QED
      BY <2>6, <3>2, <3>3
  <2> QED
    BY <2>4, <2>5, <2>6
<1>7. CASE ListenEnds
  <2>1. loop = "listening" /\ ws # "open" /\ loop' = "closing"
    BY <1>7 DEF ListenEnds, CloseWs, Connected
  <2> QED
    BY <2>1
<1>8. CASE CloseDone
  <2>1. loop = "closing" /\ loop' = "sleeping"
    BY <1>8 DEF CloseDone
  <2> QED
    BY <2>1
<1>9. CASE Wake
  <2>1. loop = "sleeping" /\ loop' = "connecting"
    BY <1>9 DEF Wake
  <2> QED
    BY <2>1
<1> QED
  BY <1>1, <1>2, <1>3, <1>4, <1>5, <1>6, <1>7, <1>8, <1>9 DEF LoopStep

\* A lost link is found.
LEMMA DetectNears ==
  ASSUME ConnInv, Underway, running, DropDetected
  PROVE  Stage' < Stage
<1>1. ws = "half_open" /\ ws' = "closed" /\ loop' = loop
  BY DEF DropDetected, otherVars
<1>2. loop \in {"authing", "announcing", "draining", "listening"}
  BY <1>1 DEF ConnInv, Sockets, OneSocketAtATime, TypeOK, LoopPlaces, Underway
<1> QED
  BY <1>1, <1>2 DEF Stage, Standing, Ahead

\* Any other step.
LEMMA OthersLeaveStage ==
  ASSUME TypeInv, ConnInv, [Next]_vars, running, running', ~LoopStep, ~DropDetected
  PROVE  faults' > faults \/ (Stage' = Stage /\ ToSend' = ToSend)
<1> USE DEF otherVars, envVars, clientVars, queueVars, worldVars, tokenVars
<1>1. ASSUME UNCHANGED <<loop, ws>>, Connected => queue' = queue
      PROVE  Stage' = Stage /\ ToSend' = ToSend
  BY <1>1 DEF Stage, ToSend, Connected
<1>2. CASE SendLive \/ EnqueueEvent \/ DismissPrompt \/ MoodChanges \/ Tick
  BY <1>1, <1>2 DEF SendLive, EnqueueEvent, DismissPrompt, MoodChanges, Tick
<1>3. CASE MessageRaises \/ LinkDrops
  BY <1>3 DEF MessageRaises, LinkDrops, TypeInv, TypeOK
<1>4. ~start /\ ~Cancelled /\ ~stop /\ ~StopCloses /\ ~StopDone /\ ~AnswerPrompt /\ ~Reload
  <2>1. loop # "off" /\ stopping = "no"
    BY DEF ConnInv, Sockets
  <2> QED
    BY <2>1 DEF start, Cancelled, stop, StopCloses, StopDone, AnswerPrompt, BeginStop, Reload
<1>5. CASE UNCHANGED vars
  BY <1>1, <1>5 DEF vars
<1> QED
  BY <1>2, <1>3, <1>4, <1>5 DEF Next

\* The way back is finite: Stage and ToSend, in this order, fall with every step
\* of the client that no fault takes back.
THEOREM AttemptsNear == Spec => AttemptNears
<1>1. TypeInv /\ ConnInv /\ UseInv /\ [Next]_vars =>
        [running /\ running' /\ gateway = Text(AuthOkBody) =>
           \/ faults' > faults
           \/ Stage' < Stage
           \/ Stage' = Stage /\ ToSend' < ToSend
           \/ Stage' = Stage /\ ToSend' = ToSend /\ ~LoopStep /\ ~DropDetected]_vars
  <2> SUFFICES ASSUME TypeInv, ConnInv, UseInv, [Next]_vars,
                      running, running', gateway = Text(AuthOkBody)
               PROVE  \/ faults' > faults
                      \/ Stage' < Stage
                      \/ Stage' = Stage /\ ToSend' < ToSend
                      \/ Stage' = Stage /\ ToSend' = ToSend /\ ~LoopStep /\ ~DropDetected
    OBVIOUS
  <2>1. CASE LoopStep
    BY <2>1, LoopNears DEF UseInv
  <2>2. CASE DropDetected
    BY <2>2, DetectNears DEF UseInv
  <2>3. CASE ~LoopStep /\ ~DropDetected
    BY <2>3, OthersLeaveStage
  <2> QED
    BY <2>1, <2>2, <2>3
<1>2. Spec => []TypeInv
  BY InitTyped, StepTyped, PTL DEF Spec
<1> QED
  BY <1>1, <1>2, ConnectionInvariance, InitUse, StepUse, PTL DEF Spec, AttemptNears
=============================================================================
