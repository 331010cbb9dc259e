------------------------------ MODULE Commands -------------------------------
(***************************************************************************)
(* The gateway's requests: client.py (_handle_request), ha_bridge.py       *)
(* (handle_command), the handlers, batch.py, with the waits and taps of    *)
(* WaitForState and EventTap.                                              *)
(*                                                                         *)
(* Every command that is carried out is a job.  Job <<r, 0>> is request r  *)
(* itself; <<r, 1>>, <<r, 2>>, ... are the commands of a batch it asks     *)
(* for.  A step is what a task does between two awaits; time passes only   *)
(* when every task waits for something.  What operations on access codes   *)
(* do is in MatterLock and ZwaveLock.                                      *)
(***************************************************************************)
EXTENDS WaitForState, EventTap
LOCAL INSTANCE Functions

CONSTANTS None,             \* no value
          Requests,
          Entities,
          States,           \* states of an entity
          Targets,          \* those that are waited for
          Gone,             \* the entity has no state, or another id by now: "unknown"
          EventTypes,       \* other event types than state_changed
          TypeLists,        \* lists of event types that taps are asked for
          MaxCommands,      \* commands in a batch
          Limits,           \* values of max_concurrency that are asked for
          MaxConcurrency,   \* 10, the most a batch gets
          Durations,        \* durations that are asked for
          MaxWanted,        \* bound of max_events that is asked for
          ServiceTime,      \* longest service call
          SilenceLimit,     \* silence after which a request counts as unanswered
          MaxFired          \* bound: events that open taps see

\* The kinds of a job.
Kinds == {"bad", "read", "call", "wait", "tap", "batch"}

Types == EventTypes \cup {"state_changed"}

ASSUME CommandsAssumption ==
  /\ Targets \subseteq States /\ Gone \notin States /\ None \notin Entities \cup Kinds
  /\ "state_changed" \notin EventTypes /\ MATCH_ALL \notin Types
  /\ TypeLists \subseteq Seq(Types \cup {MATCH_ALL})
  /\ MaxCommands \in Nat \ {0} /\ Limits \subseteq Nat /\ MaxConcurrency \in Nat \ {0}
  /\ Durations \subseteq Nat \ {0} /\ MaxWanted \in Nat \ {0} /\ MaxFired \in Nat
  /\ ServiceTime \in Nat /\ SilenceLimit \in Nat

VARIABLES
  job,          \* what each job does
  tap,          \* the tap of each job
  limit,        \* max_concurrency of each request's batch
  free,         \* slots its semaphore has left
  quiet,        \* ticks since the gateway heard of each open request
  state,        \* the entities' states
  allowed       \* allow_support_actions of the entry

vars == <<job, tap, limit, free, quiet, state, allowed>>

Jobs == Requests \X (0..MaxCommands)
Own(r) == <<r, 0>>
Members(r) == {r} \X (1..MaxCommands)
IsMember(j) == j[2] # 0

\* What a command may be: one that is refused or fails at once (an unknown
\* action or device, a parameter that is no good, a support action that is not
\* allowed), one without an await, one service call, a wait, or a tap.
Plain == [kind : {"bad", "read", "call"}]
Waits == [kind : {"wait"}, entity : Entities, target : Targets]
Taps == [kind : {"tap"}, types : TypeLists, max : 1..MaxWanted, duration : Durations]

NoJob == [kind |-> None, place |-> "none", entity |-> None, target |-> None,
          timer |-> 0, left |-> 0, pulse |-> 0, seen |-> None, result |-> None]

Places == {"none", "queued", "calling", "polling", "pulsing", "tapping",
           "gathering", "ended", "cancelled"}

TypeOK ==
  /\ job \in [Jobs -> [kind : Kinds \cup {None},
                       place : Places, entity : Entities \cup {None},
                       target : States \cup {None}, timer : Nat, left : Nat,
                       pulse : 0..PulseInterval, seen : States \cup {Gone, None},
                       result : States \cup {Gone, None, "ok", "error", "raised"}]]
  /\ tap \in [Jobs -> [types : Seq(Types \cup {MATCH_ALL}),
                       listens : Seq(Types \cup {MATCH_ALL}), max : 0..MaxTapEvents,
                       fired : Nat, waiting : SUBSET (Nat \X Nat),
                       writing : SUBSET (Nat \X Nat), captured : Seq(Nat \X Nat),
                       truncated : BOOLEAN]]
  /\ limit \in [Requests -> 0..MaxConcurrency]
  /\ free \in [Requests -> 0..MaxConcurrency]
  /\ quiet \in [Requests -> Nat]
  /\ state \in [Entities -> States \cup {Gone}]
  /\ allowed \in BOOLEAN

Init ==
  /\ job = [j \in Jobs |-> NoJob]
  /\ tap = [j \in Jobs |-> NoTap]
  /\ limit = [r \in Requests |-> 0]
  /\ free = [r \in Requests |-> 0]
  /\ quiet = [r \in Requests |-> 0]
  /\ state \in [Entities -> States \cup {Gone}]
  /\ allowed \in BOOLEAN
-----------------------------------------------------------------------------
Suspended(j) == job[j].place \in {"calling", "polling", "pulsing", "tapping"}
Running(r) == {j \in Members(r) : Suspended(j)}
UnderWay(j) == job[j].place \notin {"none", "ended", "cancelled"}
Open(r) == UnderWay(Own(r))

\* A request whose job is asked for, or a command of a batch that is next to get
\* a slot: asyncio.Semaphore lets them in in their order.
Ready(j) ==
  IF IsMember(j)
    THEN /\ job[j].place = "queued" /\ free[j[1]] > 0
         /\ \A k \in 1..(j[2] - 1) : job[<<j[1], k>>].place # "queued"
    ELSE job[j].place = "none"

\* Slots of the semaphore, when j takes one and when it gives it back.
Taken(j) == IF IsMember(j) THEN [free EXCEPT ![j[1]] = @ - 1] ELSE free

\* Slip: a command that raised keeps its slot.
GivenIfOk(j, result) ==
  IF IsMember(j) /\ result # "error" THEN [free EXCEPT ![j[1]] = @ + 1] ELSE free

Given(j, result) == IF IsMember(j) THEN [free EXCEPT ![j[1]] = @ + 1] ELSE free

\* The job returns, or raises: a row of the batch, or the request's answer.
Ended(j, result) == [NoJob EXCEPT !.kind = job[j].kind, !.place = "ended",
                                  !.entity = job[j].entity, !.target = job[j].target,
                                  !.result = result]
Ends(j, result) ==
  /\ job' = [job EXCEPT ![j] = Ended(j, result)]
  /\ free' = Given(j, result)
  /\ UNCHANGED <<limit, quiet, state, allowed>>

\* handle_command ends without an await; the slot is taken and given back.
Immediate(j, c) ==
  /\ Ready(j)
  /\ job' = [job EXCEPT ![j] = [NoJob EXCEPT !.kind = c.kind, !.place = "ended",
                                  !.result = IF c.kind = "bad" THEN "error" ELSE "ok"]]
  /\ UNCHANGED <<tap, limit, free, quiet, state, allowed>>

\* The handler awaits its service call.
Calls(j, c) ==
  /\ Ready(j)
  /\ job' = [job EXCEPT ![j] =
       [NoJob EXCEPT !.kind = c.kind, !.place = "calling", !.timer = ServiceTime,
                     !.entity = IF c.kind = "wait" THEN c.entity ELSE None,
                     !.target = IF c.kind = "wait" THEN c.target ELSE None]]
  /\ free' = Taken(j)
  /\ UNCHANGED <<tap, limit, quiet, state, allowed>>

\* handle_tap_events up to its sleep.
TapOpens(j, c) ==
  /\ Ready(j) /\ allowed
  /\ job' = [job EXCEPT ![j] = [NoJob EXCEPT !.kind = "tap", !.place = "tapping",
                                             !.timer = TapDuration(c.duration)]]
  /\ tap' = [tap EXCEPT ![j] = Opened(c)]
  /\ free' = Taken(j)
  /\ UNCHANGED <<limit, quiet, state, allowed>>

\* handle_batch of n commands: a task for each, all after a slot, but for the
\* odd ones that are no dict: they raise before they ask for one.
BatchBegins(r, n, wanted, odd) ==
  /\ Ready(Own(r)) /\ allowed
  /\ job' = [j \in Jobs |->
       IF j = Own(r) THEN [NoJob EXCEPT !.kind = "batch", !.place = "gathering"]
       ELSE IF j \in Members(r) /\ j[2] \in odd
         THEN [NoJob EXCEPT !.kind = "bad", !.place = "ended", !.result = "raised"]
       ELSE IF j \in Members(r) /\ j[2] <= n THEN [NoJob EXCEPT !.place = "queued"]
       ELSE job[j]]
  /\ limit' = [limit EXCEPT ![r] = AtMost(wanted, MaxConcurrency)]
  /\ free' = [free EXCEPT ![r] = AtMost(wanted, MaxConcurrency)]
  /\ UNCHANGED <<tap, quiet, state, allowed>>

-----------------------------------------------------------------------------
\* The service call raises, or the answer holds what JSON cannot.
CallFails(j) ==
  /\ job[j].place = "calling"
  /\ Ends(j, "error")
  /\ UNCHANGED tap

CallReturns(j) ==
  /\ job[j].place = "calling" /\ job[j].kind = "call"
  /\ Ends(j, "ok")
  /\ UNCHANGED tap

Read(j) == state[job[j].entity]

\* wait_for_state looks once before its loop ...
WaitBegins(j) ==
  /\ job[j].place = "calling" /\ job[j].kind = "wait"
  /\ Read(j) # job[j].target
  /\ job' = [job EXCEPT ![j] = WaitBegun(@, Read(j))]
  /\ UNCHANGED <<tap, limit, free, quiet, state, allowed>>

\* ... and after each sleep.
Reached(j) ==
  /\ \/ job[j].place = "calling" /\ job[j].kind = "wait"
     \/ job[j].place = "polling" /\ job[j].timer = 0
  /\ Read(j) = job[j].target
  /\ Ends(j, job[j].target)
  /\ UNCHANGED tap

\* Only the wait of a request of its own is given progress_fn.
PolledJob(j) == Polled(job[j], Read(j), ~IsMember(j))

Polls(j) ==
  /\ job[j].place = "polling" /\ job[j].timer = 0
  /\ Read(j) # job[j].target

SendsPulse(j) ==
  /\ Polls(j)
  /\ PolledJob(j).place = "pulsing"
  /\ job' = [job EXCEPT ![j] = PolledJob(j)]
  /\ UNCHANGED <<tap, limit, free, quiet, state, allowed>>

PollsOn(j) ==
  /\ Polls(j)
  /\ PolledJob(j).place = "polling" /\ ~TimedOut(job[j])
  /\ job' = [job EXCEPT ![j] = Again(PolledJob(j))]
  /\ UNCHANGED <<tap, limit, free, quiet, state, allowed>>

\* The pulse is out, over a connection that holds, and the gateway hears it.
PulseSent(j) ==
  /\ job[j].place = "pulsing" /\ ~TimedOut(job[j])
  /\ job' = [job EXCEPT ![j] = Again(@)]
  /\ quiet' = [quiet EXCEPT ![j[1]] = 0]
  /\ UNCHANGED <<tap, limit, free, state, allowed>>

\* Slip: the state is the one read before the last sleep.
GivesUpStale(j) ==
  /\ Polls(j) \/ job[j].place = "pulsing"
  /\ PolledJob(j).place = "polling" \/ job[j].place = "pulsing"
  /\ TimedOut(job[j])
  /\ Ends(j, job[j].seen)
  /\ UNCHANGED tap

\* The deadline has passed: the state read last is the result.
GivesUp(j) ==
  /\ TimedOut(job[j])
  /\ \/ Polls(j) /\ PolledJob(j).place = "polling" /\ Ends(j, Read(j))
     \/ job[j].place = "pulsing" /\ Ends(j, job[j].seen)
  /\ UNCHANGED tap

TapEnds(j) ==
  /\ job[j].place = "tapping" /\ job[j].timer = 0
  /\ tap' = [tap EXCEPT ![j] = Closed(@)]
  /\ Ends(j, "ok")

\* A thread of the pool goes on with a recording, whatever became of the tap.
Checks(j) ==
  /\ Cardinality(tap[j].writing) < Workers
  /\ \E row \in tap[j].waiting : tap' = [tap EXCEPT ![j] = Checked(@, row)]
  /\ UNCHANGED <<job, limit, free, quiet, state, allowed>>

Appends(j) ==
  /\ \E row \in tap[j].writing : tap' = [tap EXCEPT ![j] = Written(@, row)]
  /\ UNCHANGED <<job, limit, free, quiet, state, allowed>>

SomeRaised(r) == \E j \in Members(r) : job[j].result = "raised"
AllDone(r) == \A j \in Members(r) : job[j].place \in {"none", "ended"}

\* gather returns with the last row, or raises with the first command that did
\* and leaves the others running.
BatchEnds(r) ==
  /\ job[Own(r)].place = "gathering"
  /\ \/ SomeRaised(r) /\ Ends(Own(r), "error")
     \/ ~SomeRaised(r) /\ AllDone(r) /\ Ends(Own(r), "ok")
  /\ UNCHANGED tap

\* Slip: the listeners are removed only when the sleep ends well.
TapsKept(r) == tap

\* Taps of a request that is cancelled.
TapsCancelled(r) ==
  [j \in Jobs |-> IF j[1] = r THEN Closed(tap[j]) ELSE tap[j]]

\* Home Assistant shuts down and cancels the tasks that are left.
Cancelled(r) ==
  /\ \E j \in Jobs : j[1] = r /\ UnderWay(j)
  /\ job' = [j \in Jobs |->
       IF j[1] = r /\ job[j].place \notin {"none", "ended"}
         THEN [NoJob EXCEPT !.kind = job[j].kind, !.place = "cancelled"] ELSE job[j]]
  /\ tap' = TapsCancelled(r)
  /\ free' = [free EXCEPT ![r] = @ + Cardinality(Running(r))]
  /\ UNCHANGED <<limit, quiet, state, allowed>>
-----------------------------------------------------------------------------
\* An event fires on the bus; the bound is on what taps see of them, summed up.
Fires(type) ==
  /\ \/ \A j \in Jobs : tap[j].listens = <<>>
     \/ SumFunction([j \in Jobs |-> tap[j].fired]) < MaxFired
  /\ tap' = [j \in Jobs |-> Tapped(tap[j], type)]

StateChanges(entity, s) ==
  /\ s # state[entity]
  /\ state' = [state EXCEPT ![entity] = s]
  /\ Fires("state_changed")
  /\ UNCHANGED <<job, limit, free, quiet, allowed>>

OtherEvent(type) ==
  /\ Fires(type)
  /\ UNCHANGED <<job, limit, free, quiet, state, allowed>>

\* A task that waits for nothing, or for nothing any more.
Due(j) ==
  \/ Suspended(j) /\ job[j].timer = 0
  \/ job[j].place = "queued" /\ Ready(j)
  \/ job[j].place = "gathering" /\ (SomeRaised(j[1]) \/ AllDone(j[1]))

\* A tick of time; quiet stops counting beyond the limit.
Tick ==
  /\ \A j \in Jobs : ~Due(j)
  /\ job' = [j \in Jobs |-> IF Suspended(j) THEN Ticked(job[j]) ELSE job[j]]
  /\ quiet' = [r \in Requests |->
       IF Open(r) THEN AtMost(quiet[r] + 1, SilenceLimit + 1) ELSE quiet[r]]
  /\ \E j \in Jobs : UnderWay(j)
  /\ UNCHANGED <<tap, limit, free, state, allowed>>

Starts(j) == \/ \E c \in Plain : \/ c.kind \in {"bad", "read"} /\ Immediate(j, c)
                                 \/ c.kind = "call" /\ Calls(j, c)
             \/ \E c \in Waits : Calls(j, c)
             \/ \E c \in Taps : TapOpens(j, c)

Proceeds(j) == \/ CallFails(j) \/ CallReturns(j) \/ WaitBegins(j) \/ Reached(j)
               \/ SendsPulse(j) \/ PollsOn(j) \/ PulseSent(j) \/ GivesUp(j) \/ TapEnds(j)

Next ==
  \/ \E j \in Jobs : Starts(j) \/ Proceeds(j) \/ Checks(j) \/ Appends(j)
  \/ \E r \in Requests :
       \/ \E n \in 1..MaxCommands, wanted \in Limits :
            \E odd \in SUBSET (1..n) : BatchBegins(r, n, wanted, odd)
       \/ BatchEnds(r) \/ Cancelled(r)
  \/ \E entity \in Entities, s \in States \cup {Gone} : StateChanges(entity, s)
  \/ \E type \in EventTypes : OtherEvent(type)
  \/ Tick

\* Calls, sends and sleeps end, a command that can have a slot begins, and time
\* passes.  Nothing forces requests, events or states.
Fairness ==
  /\ WF_vars(Tick)
  /\ \A j \in Jobs : WF_vars(Proceeds(j)) /\ (IsMember(j) => WF_vars(Starts(j)))
  /\ \A r \in Requests : WF_vars(BatchEnds(r))

Spec == Init /\ [][Next]_vars /\ Fairness
-----------------------------------------------------------------------------
\* A slot is free or some command has it, so a batch never runs more commands
\* at once than max_concurrency, nor loses a slot to one that raises.
SlotsAccounted ==
  \A r \in Requests : job[Own(r)].kind = "batch" =>
    free[r] + Cardinality(Running(r)) = limit[r]

\* "whatever the current state is when the deadline is reached" (utils.py:36): a
\* wait returns the target only if the entity is in it, and another state only
\* after the whole timeout, and only the state the entity is in, unless the
\* deadline went by while a progress message was being sent.
WaitTellsNow ==
  [][\A j \in Jobs :
       job[j].kind = "wait" /\ Suspended(j) /\ job'[j].place = "ended"
         /\ job'[j].result # "error" =>
       /\ job'[j].result # job[j].target => job[j].left = 0
       /\ job'[j].result # Read(j) =>
            job[j].place = "pulsing" /\ job'[j].result # job[j].target]_vars

\* "return events" (event_tap.py:54): each event that was asked for and fired
\* in the window is recorded by a row of its own, or a thread still has it, or
\* the tap says that it is full.  What the threads have when the window ends
\* is in no answer.
TapTells ==
  \A j \in Jobs :
    LET t == tap[j]
    IN  /\ \A a, b \in DOMAIN t.captured : t.captured[a] = t.captured[b] => a = b
        /\ IF t.truncated
           THEN Len(t.captured) >= t.max
           ELSE \A n \in 1..t.fired : \E row \in Recordings(t) : row[1] = n

\* "Hard caps" (event_tap.py:38): threads that look for room before another has
\* appended take a tap beyond max_events, by one less than there are threads
\* at the most.
TapBounded ==
  \A j \in Jobs : Len(tap[j].captured) <= tap[j].max + (Workers - 1)

\* "cannot leave listeners attached indefinitely" (event_tap.py:17): a tap that
\* has ended, in whatever way, has none.
ListenersGone ==
  \A j \in Jobs : job[j].place # "tapping" => tap[j].listens = <<>>

\* "a request that sends nothing back for 30 seconds is treated as unanswered, so
\* the window stops at 25 seconds" (event_tap.py:40); the pulse "keeps the
\* gateway's inactivity timer alive" (utils.py:32): as long as service calls are
\* quick, no tap and no request of one service call, with or without a wait, lets
\* the gateway wait beyond its limit.  A batch may: its commands send no pulses.
QuickRequestsHeard ==
  \A r \in Requests : job[Own(r)].kind # "batch" => quiet[r] <= SilenceLimit

\* Every request ends, but for a batch whose semaphore has no slot.
RequestsEnd ==
  \A r \in Requests :
    Open(r) /\ ~(job[Own(r)].kind = "batch" /\ limit[r] = 0) ~> ~Open(r)
=============================================================================
