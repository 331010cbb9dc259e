---------------------------- MODULE WaitForState -----------------------------
(***************************************************************************)
(* handlers/utils.py: wait_for_state, as operators on a wait.              *)
(*                                                                         *)
(* A wait is the part of a command's record that it uses: what it is       *)
(* suspended in (place), the time left of that (timer) and to the deadline *)
(* (left), the time since the last pulse (pulse), and the state it read    *)
(* last (seen).  Time goes in ticks.                                       *)
(***************************************************************************)
EXTENDS Naturals

CONSTANTS PollInterval,     \* poll_interval
          PulseInterval,    \* PULSE_INTERVAL_S
          StateTimeout,     \* timeout
          MaxStall          \* longest that the sending of a message stays suspended

ASSUME WaitAssumption ==
  /\ PollInterval \in Nat \ {0} /\ PulseInterval \in Nat /\ StateTimeout \in Nat \ {0}
  /\ MaxStall \in Nat

Monus(a, b) == IF a > b THEN a - b ELSE 0

\* The wait has begun and the entity is not in the target state.
WaitBegun(w, s) ==
  [w EXCEPT !.place = "polling", !.timer = PollInterval, !.left = StateTimeout,
            !.pulse = 0, !.seen = s]

\* Slip: the deadline is set anew in every round.
AgainAfresh(w) ==
  [w EXCEPT !.place = "polling", !.timer = PollInterval, !.left = StateTimeout]

\* The loop goes round again before the deadline.
Again(w) == [w EXCEPT !.place = "polling", !.timer = PollInterval]
TimedOut(w) == w.left = 0

PulseDue(w, progress) == progress /\ w.pulse >= PulseInterval

\* Slip: the time of the last pulse is set at every poll.
PolledFresh(w, s, progress) ==
  IF PulseDue(w, progress)
    THEN [w EXCEPT !.place = "pulsing", !.timer = MaxStall, !.pulse = 0, !.seen = s]
    ELSE [w EXCEPT !.pulse = 0, !.seen = s]

\* Another state than the target is read; a pulse is sent if it is time.
Polled(w, s, progress) ==
  IF PulseDue(w, progress)
    THEN [w EXCEPT !.place = "pulsing", !.timer = MaxStall, !.pulse = 0, !.seen = s]
    ELSE [w EXCEPT !.seen = s]

\* A tick passes.
Ticked(w) ==
  [w EXCEPT !.timer = Monus(@, 1), !.left = Monus(@, 1),
            !.pulse = IF @ < PulseInterval THEN @ + 1 ELSE @]
=============================================================================
