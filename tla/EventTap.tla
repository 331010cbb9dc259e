------------------------------ MODULE EventTap -------------------------------
(***************************************************************************)
(* handlers/event_tap.py, as operators on a tap.                           *)
(*                                                                         *)
(* _record is a plain function, so Home Assistant does not call it on its  *)
(* loop: each listener that hears an event has a thread of the pool carry  *)
(* it out, at any later time.  Such a recording is <<n, i>>, of the n-th   *)
(* event by listener i.  It waits until a thread has looked for room, and  *)
(* is being written while that thread serializes the event.                *)
(*                                                                         *)
(* types is the list that was asked for and listens its listeners, none    *)
(* before and after the window.  fired is auxiliary: how many events that  *)
(* were asked for have fired in the window.                                *)
(***************************************************************************)
EXTENDS Naturals, Sequences, FiniteSets

CONSTANTS MATCH_ALL,        \* "*", the type of a listener for every event
          MaxDuration,      \* _MAX_DURATION_SECONDS
          MaxTapEvents,     \* _MAX_EVENTS
          Workers           \* threads in Home Assistant's pool

ASSUME TapAssumption ==
  MaxDuration \in Nat \ {0} /\ MaxTapEvents \in Nat \ {0} /\ Workers \in Nat \ {0}

AtMost(value, bound) == IF value > bound THEN bound ELSE value

\* _coerce_duration and _coerce_max_events, for positive numbers.
TapDuration(d) == AtMost(d, MaxDuration)
TapMaxEvents(n) == AtMost(n, MaxTapEvents)

NoTap == [types |-> <<>>, listens |-> <<>>, max |-> 0, fired |-> 0, waiting |-> {},
          writing |-> {}, captured |-> <<>>, truncated |-> FALSE]

\* A listener for each type of the list, repeated ones included; without a
\* type, one for every event.
Listeners(types) == IF types = <<>> THEN <<MATCH_ALL>> ELSE types

Opened(c) == [NoTap EXCEPT !.types = c.types, !.listens = Listeners(c.types),
                           !.max = TapMaxEvents(c.max)]

\* The way out, a return or not: recordings that are under way are left alone.
Closed(t) == [t EXCEPT !.listens = <<>>]

Hears(listener, type) == listener \in {MATCH_ALL, type}

\* What is asked for: the types of the list, or everything.
AskedFor(types, type) ==
  types = <<>> \/ \E i \in DOMAIN types : types[i] \in {MATCH_ALL, type}

\* The recordings of the n-th event.
Heard(listens, type, n) == {<<n, i>> : i \in {k \in DOMAIN listens : Hears(listens[k], type)}}

\* An event fires: each listener that hears it hands a recording to the pool.
Tapped(t, type) ==
  LET n == IF AskedFor(t.types, type) THEN t.fired + 1 ELSE t.fired
  IN  IF t.listens = <<>> THEN t
      ELSE [t EXCEPT !.fired = n, !.waiting = @ \cup Heard(t.listens, type, n)]

\* Slip: one event more than the bound.
HasRoomLate(t) == Len(t.captured) <= t.max

HasRoom(t) == Len(t.captured) < t.max

\* Slip: the bound drops events without a word.
CheckedMute(t, row) ==
  [t EXCEPT !.waiting = @ \ {row},
            !.writing = IF HasRoom(t) THEN @ \cup {row} ELSE @]

\* A thread begins _record: it looks for room ...
Checked(t, row) ==
  [t EXCEPT !.waiting = @ \ {row},
            !.writing = IF HasRoom(t) THEN @ \cup {row} ELSE @,
            !.truncated = @ \/ ~HasRoom(t)]

\* ... and, once the event is serialized, appends it.
Written(t, row) == [t EXCEPT !.writing = @ \ {row}, !.captured = Append(@, row)]

\* Recordings that are made or under way.
Recordings(t) == {t.captured[i] : i \in DOMAIN t.captured} \cup t.waiting \cup t.writing
=============================================================================
