---------------------------- MODULE GatewayClient ----------------------------
(***************************************************************************)
(* The persistent connection of one config entry to the Staykey gateway:   *)
(* GatewayClient of gateway/client.py with its EventQueue, the part of     *)
(* __init__.py that starts, feeds and stops it, and the prompt for a new   *)
(* token that Home Assistant shows for the entry.                          *)
(*                                                                         *)
(* asyncio runs one callback at a time, so an action is the code between   *)
(* two awaits that can suspend.  The connection loop is one task; "loop"   *)
(* says at which await it is suspended:                                    *)
(*                                                                         *)
(*   connecting  ws_connect              draining   a send in drain        *)
(*   authing     the auth answer         listening  the next message       *)
(*   announcing  sending capabilities    closing    ws.close()             *)
(*   sleeping    the reconnect delay                                       *)
(*                                                                         *)
(* Bus listeners and drift tasks (SendLive, EnqueueEvent) and stop() run   *)
(* in other tasks, between any two of these steps.  The environment is the *)
(* network, the gateway's willingness to accept the token, the owner and   *)
(* the clock.                                                              *)
(***************************************************************************)
EXTENDS EventQueue, TokenCheck

CONSTANTS InitialBackoff,   \* INITIAL_BACKOFF_S
          MaxBackoff,       \* MAX_BACKOFF_S
          Moods,            \* the answers the gateway may give (or Down)
          MaxEvents,        \* bound: events that happen
          MaxClock,         \* bound: ticks of the monotonic clock
          MaxFaults,        \* bound: lost links and messages that raise
          MaxReloads        \* bound: reloads of the config entry

\* A gateway that cannot be reached: ws_connect raises.
Down == [frame |-> "DOWN", code |-> 0, body |-> Unreadable]

ASSUME BackoffAssumption == /\ InitialBackoff \in Nat
                            /\ MaxBackoff \in Nat
                            /\ InitialBackoff <= MaxBackoff
ASSUME MoodAssumption == Moods \subseteq Replies \cup {Down}
ASSUME BoundAssumption == {MaxEvents, MaxClock, MaxFaults, MaxReloads} \subseteq Nat

VARIABLES
  running,        \* _running
  loop,           \* where the task of _connection_loop is suspended
  stopping,       \* how far stop() has come
  ws,             \* _ws: "none", or a socket: "open", "closed", or
                  \*   "half_open" (the link is gone, not noticed yet)
  authOutcome,    \* _auth_outcome
  tokenRejected,  \* _token_rejected
  backoff,        \* the loop's local variable of that name
  queue,          \* _event_queue._queue
  dropped,        \* _event_queue._dropped
  drainStart,     \* drain's local variable "now"
  inflight,       \* id of the entry drain is sending, 0 if none
  prompt,         \* a re-authentication flow is open for the entry
  gateway,        \* how the gateway would answer now
  clock,          \* time.monotonic()
  events,         \* events that have happened; the last one's id
  delivered,      \* what the gateway has received, in order
  faults,
  reloads

clientVars == <<running, loop, stopping, ws, authOutcome, tokenRejected,
                backoff, queue, dropped, drainStart, inflight>>
envVars == <<prompt, gateway, clock, events, delivered, faults, reloads>>
vars == <<running, loop, stopping, ws, authOutcome, tokenRejected, backoff,
          queue, dropped, drainStart, inflight, prompt, gateway, clock, events,
          delivered, faults, reloads>>
queueVars == <<queue, dropped, drainStart, inflight>>
tokenVars == <<authOutcome, tokenRejected, prompt>>
worldVars == <<gateway, clock, faults, reloads>>
\* All but what an attempt to connect changes: loop, ws and authOutcome.
otherVars == <<running, stopping, tokenRejected, backoff, queueVars, envVars>>

LoopPlaces == {"off", "connecting", "authing", "announcing", "draining",
               "listening", "closing", "sleeping", "ended"}
Delivery == [id : Nat, via : {"live", "queue"}]

TypeOK ==
  /\ running \in BOOLEAN
  /\ loop \in LoopPlaces
  /\ stopping \in {"no", "waiting", "closing", "done"}
  /\ ws \in {"none", "open", "half_open", "closed"}
  /\ authOutcome \in Outcomes \cup {"none"}
  /\ tokenRejected \in BOOLEAN
  /\ backoff \in InitialBackoff..MaxBackoff
  /\ queue \in Seq(Entry) /\ Len(queue) <= MaxQueueSize
  /\ dropped \in Nat
  /\ drainStart \in Nat
  /\ inflight \in Nat
  /\ prompt \in BOOLEAN
  /\ gateway \in Moods
  /\ clock \in Nat
  /\ events \in Nat
  /\ delivered \in Seq(Delivery)
  /\ faults \in Nat
  /\ reloads \in Nat
-----------------------------------------------------------------------------
Init ==
  /\ running = FALSE
  /\ loop = "off"
  /\ stopping = "no"
  /\ ws = "none"
  /\ authOutcome = "none"
  /\ tokenRejected = FALSE
  /\ backoff = InitialBackoff
  /\ queue = <<>>
  /\ dropped = 0
  /\ drainStart = 0
  /\ inflight = 0
  /\ prompt = FALSE
  /\ gateway \in Moods
  /\ clock = 0
  /\ events = 0
  /\ delivered = <<>>
  /\ faults = 0
  /\ reloads = 0

\* _ws is set and the socket does not know itself closed.
Connected == ws \in {"open", "half_open"}

\* The gateway has accepted the token of this connection.
Accepted == authOutcome = AUTH_OK

\* What a send on the socket adds to what the gateway has received: nothing
\* if the link is gone, or if the gateway has not accepted the token.
Received(id, via) ==
  IF ws = "open" /\ Accepted
  THEN Append(delivered, [id |-> id, via |-> via])
  ELSE delivered

\* Slips a change to the code could make, each of which breaks a property:
\* the socket is forgotten, or the loop ends with the connection ...
CloseForgotten == loop' = "sleeping" /\ UNCHANGED ws
LoopDies == ws' = "closed" /\ loop' = "ended"
\* ... or stop() leaves the loop running.
AliveAfterStop == loop # "ended"

\* The loop closes the socket, up to its await.
CloseWs ==
  /\ ws' = "closed"
  /\ loop' = "closing"

\* stop() cancels the loop: no step of it runs once _running is cleared.
Alive == running

start ==
  /\ loop = "off"
  /\ running' = TRUE
  /\ loop' = "connecting"
  /\ UNCHANGED <<stopping, ws, authOutcome, tokenRejected, backoff, queue,
                 dropped, drainStart, inflight, envVars>>
-----------------------------------------------------------------------------
(***************************************************************************)
(* The connection loop.                                                    *)
(***************************************************************************)

ConnectFails ==
  /\ loop = "connecting"
  /\ gateway = Down
  /\ authOutcome' = AUTH_CANNOT_CONNECT
  /\ loop' = "sleeping"
  /\ UNCHANGED <<ws, otherVars>>

\* The socket is open and the token is sent on it.
ConnectOk ==
  /\ loop = "connecting"
  /\ gateway # Down
  /\ ws' = "open"
  /\ loop' = "authing"
  /\ UNCHANGED <<authOutcome, otherVars>>

\* The answer, or none before the timeout.  Unless the token is accepted the
\* socket is closed; accepted, the capabilities are sent at once.
AuthReply ==
  /\ loop = "authing"
  /\ LET reply == IF ws = "open" THEN gateway ELSE Silence
     IN  authOutcome' = Authenticate(reply)
  /\ IF authOutcome' = AUTH_OK
     THEN loop' = "announcing" /\ UNCHANGED ws
     ELSE CloseWs
  /\ UNCHANGED otherVars

\* Sending the token or the capabilities raises: the loop catches it.
SendRaises ==
  /\ loop \in {"authing", "announcing"}
  /\ ws # "open"
  /\ CloseWs
  /\ UNCHANGED <<authOutcome, otherVars>>

\* Slips: the prompt stays; the owner is asked at every rejection; a rejection
\* is recorded only if no prompt is open yet.
PromptStays == tokenRejected' = FALSE /\ UNCHANGED prompt
AskAgain == tokenRejected' = TRUE /\ prompt' = TRUE
RecordIfAsked == tokenRejected' = (tokenRejected \/ ~prompt) /\ prompt' = TRUE

\* After a run of rejections, the open prompts are closed.
TokenAccepted ==
  /\ tokenRejected' = FALSE
  /\ prompt' = (prompt /\ ~tokenRejected)

\* The first rejection of a run asks for a new token.
TokenRefused ==
  /\ tokenRejected' = TRUE
  /\ prompt' = (prompt \/ ~tokenRejected)

\* drain's loop from its top, with the entries q still queued.  Stale entries
\* are popped; the next one is handed to send.  send neither fails nor waits
\* on a closed socket, so then all that is left is popped in one go.
DrainFrom(q, now) ==
  LET fresh == FromFresh(q, now)
  IN  IF fresh = <<>> \/ ~Connected
      THEN /\ queue' = <<>>
           /\ dropped' = 0
           /\ inflight' = 0
           /\ loop' = "listening"
           /\ UNCHANGED delivered
      ELSE /\ queue' = fresh
           /\ inflight' = Head(fresh).id
           /\ loop' = "draining"
           /\ delivered' = Received(Head(fresh).id, "queue")
           /\ UNCHANGED dropped

\* The capabilities are out: the connection counts as made.
AnnounceOk ==
  /\ loop = "announcing"
  /\ backoff' = InitialBackoff
  /\ TokenAccepted
  /\ IF queue = <<>>
     THEN /\ loop' = "listening"
          /\ UNCHANGED <<queueVars, delivered>>
     ELSE /\ drainStart' = clock
          /\ DrainFrom(queue, clock)
  /\ UNCHANGED <<running, stopping, ws, authOutcome, worldVars, events>>

\* The send of drain returns, and whatever is at the head then is popped.
DrainResume ==
  /\ loop = "draining"
  /\ DrainFrom(Popped(queue), drainStart)
  /\ UNCHANGED <<running, stopping, ws, tokenVars, backoff, drainStart,
                 worldVars, events>>

\* The socket is closed under _listen.
ListenEnds ==
  /\ loop = "listening"
  /\ ~Connected
  /\ CloseWs
  /\ UNCHANGED <<authOutcome, otherVars>>

\* A message makes _handle_message raise (JSON that is not an object, a
\* device without its id): the exception ends _listen.
MessageRaises ==
  /\ Alive
  /\ loop = "listening"
  /\ ws = "open"
  /\ faults < MaxFaults
  /\ faults' = faults + 1
  /\ CloseWs
  /\ UNCHANGED <<running, stopping, authOutcome, tokenRejected, backoff,
                 queueVars, prompt, gateway, clock, events, delivered,
                 reloads>>

CloseDone ==
  /\ loop = "closing"
  /\ ws' = "none"
  /\ IF authOutcome = AUTH_INVALID
     THEN TokenRefused
     ELSE UNCHANGED <<tokenRejected, prompt>>
  /\ loop' = "sleeping"
  /\ UNCHANGED <<running, stopping, authOutcome, backoff, queueVars,
                 worldVars, events, delivered>>

\* Slips: no upper bound, or a wrap-around at it.
DoubleFreely(b, max) == 2 * b
DoubleOrRestart(b, max) == IF 2 * b <= max THEN 2 * b ELSE InitialBackoff

DoubleUpTo(b, max) == IF 2 * b < max THEN 2 * b ELSE max

\* The reconnect delay is over; the next attempt starts.
Wake ==
  /\ loop = "sleeping"
  /\ backoff' = DoubleUpTo(backoff, MaxBackoff)
  /\ authOutcome' = "none"
  /\ loop' = "connecting"
  /\ UNCHANGED <<running, stopping, ws, tokenRejected, queueVars, envVars>>

\* Slip: the loop swallows the cancellation and retries.
CancelSwallowed ==
  /\ ~running
  /\ loop \notin {"off", "ended"}
  /\ loop' = "sleeping"
  /\ UNCHANGED <<ws, authOutcome, otherVars>>

\* stop() has cancelled the task: its next step is its last.
Cancelled ==
  /\ ~running
  /\ loop \notin {"off", "ended"}
  /\ loop' = "ended"
  /\ UNCHANGED <<ws, authOutcome, otherVars>>

LoopStep ==
  /\ Alive
  /\ \/ ConnectFails \/ ConnectOk \/ AuthReply \/ SendRaises
     \/ AnnounceOk \/ DrainResume \/ ListenEnds \/ CloseDone \/ Wake
-----------------------------------------------------------------------------
(***************************************************************************)
(* The other tasks: bus listeners pushing an event, stop(), a reload.      *)
(***************************************************************************)

\* send_or_queue on a socket that looks open; a failing send is logged only.
\* A task that is under way may get here after stop() was called, too.
SendLive ==
  /\ loop # "off" /\ Connected
  /\ events < MaxEvents
  /\ events' = events + 1
  /\ delivered' = Received(events + 1, "live")
  /\ UNCHANGED <<clientVars, prompt, gateway, clock, faults, reloads>>

\* send_or_queue with no open socket.
EnqueueEvent ==
  /\ loop # "off" /\ ~Connected
  /\ events < MaxEvents
  /\ events' = events + 1
  /\ queue' = Enqueued(queue, [id |-> events + 1, at |-> clock])
  /\ dropped' = IF IsFull(queue) THEN dropped + 1 ELSE dropped
  /\ UNCHANGED <<running, loop, stopping, ws, tokenVars, backoff, drainStart,
                 inflight, worldVars, delivered>>

\* _close_ws of stop(): an open socket starts closing.
StopWs ==
  IF Connected
  THEN ws' = "closed" /\ stopping' = "closing"
  ELSE ws' = "none" /\ stopping' = "done"

\* stop() up to its await: the listeners are gone, the loop is cancelled.  A
\* socket on which the loop is receiving does not close before the receive
\* has ended; it looks open until then.
BeginStop ==
  /\ running
  /\ running' = FALSE
  /\ \/ StopWs
     \/ /\ Connected /\ loop \in {"authing", "listening"}
        /\ stopping' = "waiting"
        /\ UNCHANGED ws
  /\ UNCHANGED <<loop, authOutcome, tokenRejected, backoff, queueVars>>

\* The entry is unloaded.
stop ==
  /\ BeginStop
  /\ UNCHANGED envVars

\* The cancelled loop has left its receive.
StopCloses ==
  /\ stopping = "waiting"
  /\ loop = "ended"
  /\ StopWs
  /\ UNCHANGED <<running, loop, authOutcome, tokenRejected, backoff, queueVars,
                 envVars>>

StopDone ==
  /\ stopping = "closing"
  /\ ws' = "none"
  /\ stopping' = "done"
  /\ UNCHANGED <<running, loop, authOutcome, tokenRejected, backoff, queueVars,
                 envVars>>

\* The owner answers the prompt: the flow ends and the entry is reloaded.
AnswerPrompt ==
  /\ prompt
  /\ reloads < MaxReloads
  /\ BeginStop
  /\ prompt' = FALSE
  /\ UNCHANGED <<gateway, clock, events, delivered, faults, reloads>>

\* The owner closes the prompt without an answer.
DismissPrompt ==
  /\ prompt
  /\ prompt' = FALSE
  /\ UNCHANGED <<clientVars, gateway, clock, events, delivered, faults,
                 reloads>>

\* The unloaded entry is set up again, with a client of its own: the
\* client's state is again what Init says.
Reload ==
  /\ stopping = "done"
  /\ reloads < MaxReloads
  /\ reloads' = reloads + 1
  /\ running' = FALSE
  /\ loop' = "off"
  /\ stopping' = "no"
  /\ ws' = "none"
  /\ authOutcome' = "none"
  /\ tokenRejected' = FALSE
  /\ backoff' = InitialBackoff
  /\ queue' = <<>>
  /\ dropped' = 0
  /\ drainStart' = 0
  /\ inflight' = 0
  /\ UNCHANGED <<prompt, gateway, clock, events, delivered, faults>>
-----------------------------------------------------------------------------
(***************************************************************************)
(* The environment.                                                        *)
(***************************************************************************)

LinkDrops ==
  /\ ws = "open"
  /\ faults < MaxFaults
  /\ ws' = "half_open"
  /\ faults' = faults + 1
  /\ UNCHANGED <<running, loop, stopping, authOutcome, tokenRejected, backoff,
                 queueVars, prompt, gateway, clock, events, delivered, reloads>>

\* The transport or the missed heartbeat reveals it: the socket is closed.
DropDetected ==
  /\ ws = "half_open"
  /\ ws' = "closed"
  /\ UNCHANGED <<loop, authOutcome, otherVars>>

MoodChanges ==
  /\ gateway' \in Moods \ {gateway}
  /\ UNCHANGED <<clientVars, prompt, clock, events, delivered, faults,
                 reloads>>

Tick ==
  /\ clock < MaxClock
  /\ clock' = clock + 1
  /\ UNCHANGED <<clientVars, prompt, gateway, events, delivered, faults,
                 reloads>>

Next ==
  \/ start \/ LoopStep \/ Cancelled \/ MessageRaises
  \/ SendLive \/ EnqueueEvent
  \/ stop \/ StopCloses \/ StopDone \/ AnswerPrompt \/ DismissPrompt \/ Reload
  \/ LinkDrops \/ DropDetected \/ MoodChanges \/ Tick

\* asyncio runs every task that is ready, the awaits of the loop end (answer,
\* timeout, delay), a closing handshake is bounded and a dead link is found
\* by the heartbeat.  Nothing is assumed of the owner, the gateway or events.
Fairness ==
  /\ WF_vars(start)
  /\ WF_vars(LoopStep)
  /\ WF_vars(Cancelled)
  /\ WF_vars(StopCloses)
  /\ WF_vars(StopDone)
  /\ WF_vars(DropDetected)

Spec == Init /\ [][Next]_vars /\ Fairness
-----------------------------------------------------------------------------
(***************************************************************************)
(* Sockets, backoff and stop().                                            *)
(***************************************************************************)

\* No attempt is started, and no reconnect delay spent, with an earlier
\* socket still held (client.py: every way out of the try ends in _close_ws,
\* _token_refused and _listen included).
OneSocketAtATime == loop \in {"connecting", "sleeping"} => ws = "none"

\* Once stop() has returned no socket is left, whichever step the loop was at.
StoppedIsQuiet == stopping = "done" => ws = "none"

\* Only an accepted token whose capabilities went out, or a new client, brings
\* the reconnect delay down: an attempt that gets less far never does.
BackoffHolds ==
  [][backoff' < backoff => AnnounceOk \/ Reload]_vars

\* stop() ends: the task of the loop is gone and so is the socket.
StopEnds == (~running /\ loop # "off") ~> (ws = "none" /\ loop \in {"off", "ended"})

(***************************************************************************)
(* The token and the prompt.                                               *)
(***************************************************************************)

\* The owner is asked once per run of rejections: a prompt opens only on an
\* answer about the token, and not again before an acceptance, even when the
\* owner has dismissed it (client.py _token_refused).
PromptOncePerRun ==
  [][~prompt /\ prompt' =>
       /\ authOutcome = AUTH_INVALID
       /\ ~tokenRejected /\ tokenRejected']_vars

\* A rejection is on record before the loop waits for its next attempt, and
\* the record is wiped by nothing but an acceptance.
RejectionRecorded ==
  /\ loop = "sleeping" /\ authOutcome = AUTH_INVALID => tokenRejected
  /\ loop \in {"draining", "listening"} => ~tokenRejected

\* The token is held against the owner only when the gateway said "Invalid
\* token" or closed with the refusal code and no readable reason: never for a
\* time-out, a disabled integration or a broken connection.
OnlyTheTokenIsBlamed ==
  [][authOutcome # AUTH_INVALID /\ authOutcome' = AUTH_INVALID =>
       gateway \in {Text(AuthFailed("Invalid token")),
                    Close(REFUSED_CLOSE_CODE, AuthFailed("Invalid token")),
                    Close(REFUSED_CLOSE_CODE, Unreadable)}]_vars

\* No prompt is open over a connection that is in use.
PromptClears == loop \in {"draining", "listening"} => ~prompt

\* "the prompt clears itself if the token starts working again"
\* (README.md:51), for the entry's first client: the client a reload creates
\* does not know of an earlier one's prompt.
PromptClearsInOneRun == reloads = 0 => PromptClears

(***************************************************************************)
(* Events.                                                                 *)
(***************************************************************************)

Entries(q) == {q[i] : i \in 1..Len(q)}
Leaving == Entries(queue) \ Entries(queue')

\* An entry leaves the buffer only because its send returned, it is too old,
\* it was the oldest of a full buffer when another came, the socket was
\* closed while the buffer was drained, or its client was replaced.
LossesAccounted ==
  [][\A e \in Leaving :
       \/ e.id = inflight
       \/ clock - e.at > MaxEventAge
       \/ Len(queue) = MaxQueueSize /\ e = Head(queue) /\ events' > events
       \/ loop \in {"announcing", "draining"} /\ ~Connected
       \/ reloads' > reloads]_vars

\* "Failed to send queued event, stopping drain" (event_queue.py:62): an entry
\* that is fresh and was not handed to an open socket survives a drain.
DrainKeepsUnsent ==
  [][\A e \in Leaving :
       loop = "draining" /\ running /\ events' = events =>
         e.id = inflight \/ drainStart - e.at > MaxEventAge]_vars

\* If the gateway comes to accept the token for good and the entry stays
\* loaded, the connection ends up listening and the buffer empty for good.
Reconnects ==
  <>[](running /\ gateway = Text(AuthOkBody))
    => <>[](loop = "listening" /\ ws = "open" /\ queue = <<>>)

(***************************************************************************)
(* The buffer as the gateway sees it.  An entry whose send has begun is no *)
(* longer pending although drain pops it only afterwards.                  *)
(***************************************************************************)
Waiting ==
  IF queue # <<>> /\ Head(queue).id = inflight THEN Tail(queue) ELSE queue

Ids(q) == [i \in 1..Len(q) |-> q[i].id]

Buffer == INSTANCE OfflineBuffer
            WITH pending <- Ids(Waiting),
                 received <- delivered,
                 submitted <- events

\* The client implements the abstract buffer, with its two promises: no event
\* is received twice, and replayed events keep their order, across lost
\* links, evictions during a drain, stops and reloads.
ImplementsBuffer == Buffer!Spec
AtMostOnce == Buffer!AtMostOnce
ReplayInOrder == Buffer!ReplayInOrder
=============================================================================
