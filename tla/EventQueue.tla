----------------------------- MODULE EventQueue -----------------------------
(***************************************************************************)
(* The in-memory buffer of gateway/event_queue.py as operators on its      *)
(* state: a sequence of entries [id, at], "at" being the monotonic clock   *)
(* when the message was queued.  The deque has a maximal length: appending *)
(* to a full one discards the entry at its head.                           *)
(*                                                                         *)
(* The loop of drain awaits the send of every entry, so it is not an       *)
(* operator here but the steps AnnounceOk and DrainResume of GatewayClient,*)
(* built from FromFresh.                                                   *)
(***************************************************************************)
EXTENDS Integers, Sequences

CONSTANTS MaxQueueSize,     \* MAX_QUEUE_SIZE
          MaxEventAge       \* MAX_EVENT_AGE_S, in ticks of the clock

ASSUME QueueAssumption == /\ MaxQueueSize \in Nat \ {0}
                          /\ MaxEventAge \in Nat

Entry == [id : Nat, at : Nat]

\* Slips: a bound that is off by one, an append at the wrong end, an entry
\* left in place after its send.
FullOneEarly(q) == Len(q) >= MaxQueueSize - 1
EnqueuedFirst(q, entry) == <<entry>> \o (IF Len(q) >= MaxQueueSize THEN Tail(q) ELSE q)
NotPopped(q) == q

IsFull(q) == Len(q) >= MaxQueueSize

\* deque.append: the head of a full deque makes room.
Enqueued(q, entry) == Append(IF IsFull(q) THEN Tail(q) ELSE q, entry)

\* popleft after a send, whatever the head is by then.
Popped(q) == Tail(q)

Stale(entry, now) == now - entry.at > MaxEventAge

\* The entries left when drain has popped the stale ones at the head.
FromFresh(q, now) ==
  LET k == CHOOSE k \in 0..Len(q) :
             /\ \A i \in 1..k : Stale(q[i], now)
             /\ k = Len(q) \/ ~Stale(q[k + 1], now)
  IN  SubSeq(q, k + 1, Len(q))
=============================================================================
