---------------------------- MODULE OfflineBuffer ----------------------------
(***************************************************************************)
(* What the offline buffer promises the gateway, without sockets, tokens   *)
(* or tasks.  Events are numbered as they happen.  Each is received at     *)
(* once, lost, or kept pending.  Pending events are replayed oldest first; *)
(* some at the old end may be given up, at once or just before a replay.   *)
(* GatewayClient implements this specification.                            *)
(***************************************************************************)
EXTENDS EventQueue

VARIABLES pending,      \* ids of the events kept for later, oldest first
          received,     \* what the gateway has received, in order
          submitted     \* number of events that have happened

vars == <<pending, received, submitted>>

Init ==
  /\ pending = <<>>
  /\ received = <<>>
  /\ submitted = 0

\* An event happens: it is received at once, or lost ...
Pass ==
  /\ submitted' = submitted + 1
  /\ received' \in {received, Append(received, [id |-> submitted', via |-> "live"])}
  /\ UNCHANGED pending

\* ... or kept, at the cost of the oldest one if the buffer is full.
Keep ==
  /\ submitted' = submitted + 1
  /\ pending' = Append(IF Len(pending) >= MaxQueueSize THEN Tail(pending) ELSE pending,
                       submitted')
  /\ UNCHANGED received

DropFirst(k) == pending' = SubSeq(pending, k + 1, Len(pending))

\* The k-th oldest is replayed, the ones before it having been given up.
Replay ==
  \E k \in 1..Len(pending) :
    /\ DropFirst(k)
    /\ received' = Append(received, [id |-> pending[k], via |-> "queue"])
    /\ UNCHANGED submitted

Forget ==
  \E k \in 1..Len(pending) :
    /\ DropFirst(k)
    /\ UNCHANGED <<received, submitted>>

Next == Pass \/ Keep \/ Replay \/ Forget

Spec == Init /\ [][Next]_vars
-----------------------------------------------------------------------------
Delivery == [id : Nat, via : {"live", "queue"}]

TypeOK ==
  /\ pending \in Seq(Nat) /\ Len(pending) <= MaxQueueSize
  /\ received \in Seq(Delivery)
  /\ submitted \in Nat

\* The gateway receives no event twice (client.py send_or_queue sends or
\* queues, never both; event_queue.py drain pops what it has sent).
AtMostOnce ==
  \A i, j \in 1..Len(received) : received[i].id = received[j].id => i = j

\* Replayed events arrive in the order in which they happened.
ReplayInOrder ==
  \A i, j \in 1..Len(received) :
    i < j /\ received[i].via = "queue" /\ received[j].via = "queue"
      => received[i].id < received[j].id

\* Why both hold: pending is in order, ahead of everything replayed, and
\* apart from everything received.
PendingAhead ==
  /\ \A i \in 1..Len(pending) : pending[i] \in 1..submitted
  /\ \A i, j \in 1..Len(pending) : i < j => pending[i] < pending[j]
  /\ \A i \in 1..Len(received) :
       /\ received[i].id \in 1..submitted
       /\ \A j \in 1..Len(pending) :
            /\ received[i].id # pending[j]
            /\ received[i].via = "queue" => received[i].id < pending[j]

Inv == TypeOK /\ AtMostOnce /\ ReplayInOrder /\ PendingAhead
=============================================================================
