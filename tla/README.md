# Verification of the Staykey integration for Home Assistant

TLA+ models of `custom_components/staykey`, checked with TLC and proved about
with TLAPS. Paths below are relative to `custom_components/staykey` unless
they start with a directory of the repository's root.

## 1. The system

A Home Assistant config entry runs one **gateway client**: a WebSocket kept
open to Staykey, over which events go out and commands come in. Nearly
everything runs on one asyncio loop, so a model step is the code between two
awaits that can suspend, and concurrency is between tasks at those awaits. The
exception is the recorder of an event tap, a plain function that Home Assistant
runs in the threads of its pool.

| Component | State | Operations | Interacts with |
|---|---|---|---|
| `gateway/client.py` connection loop | `_ws`, `_running`, `_auth_outcome`, `_token_rejected`, local `backoff` | start, stop, connect, token check, announce, drain, listen, close, sleep | event queue, prompt, device map, the request tasks |
| `gateway/client.py` messages | none of its own | `_handle_message`, `_handle_request`, `_detect_drift` (tasks) | device map, dispatcher, `send` |
| `gateway/event_queue.py` | deque of (time, message), dropped count | enqueue, drain, clear (no caller) | `GatewayClient.send` |
| `device_map.py` | forward, reverse, two more indices | load_sync, apply_update, update_entity_id, look-ups | messages, drift, registry listener, all handlers |
| `__init__.py` | one store per entry | set-up, unload, bus listeners | all of the above |
| `config_flow.py` | Home Assistant's entries, forms at an await | add, options, re-authentication | `probe_token`, reload of the entry |
| `services/providers/matter.py` | a lock per entity id | set, clear, read a code | the physical lock, through services |
| `services/providers/zwave.py` | none | set with verify and retry, clear, read | the physical lock and the Z-Wave cache |
| `services/ha_bridge.py` | `allow_support_actions` of the entry | routes a command, refuses support actions | handlers |
| `handlers/utils.py` | deadline and last pulse of one wait | `wait_for_state` | Home Assistant's states, `send` for pulses |
| `handlers/batch.py` | a semaphore and a task per command, during one request | batch | the dispatcher, once per command |
| `handlers/event_tap.py` | listeners and captured events, during one request | tap_events | Home Assistant's bus |
| other `handlers/*` | none between calls | one command each | device map, providers, services |
| `state_filter.py`, `events.py`, `lock_capability_heuristics.py`, `services/registry.py`, `protocol.py` | none | pure functions | |

What is hard: `stop()` or a lost link at any await of the loop; `drain`
looking at the head, awaiting, then popping; a socket that is open but not
accepted yet, or dead but not found so; the prompt for a new token against
rejections, dismissals and reloads; map messages, drift tasks, renames and
reconnects in any order; waits, taps and batches of many requests at once,
each against the gateway's limit on silence; recorder threads of a tap that race
with each other and with its end; provider retries and preflights with a physical
lock that answers late; forms that check, await and then save. `PROJECT.json` lists
each of these at its line.

What makes each part correct:

- connection loop: one socket at a time, none after `stop()`, backoff that
  grows until a connection is complete, reconnection as long as it runs;
- token check and prompt: only the token is blamed for the token, one prompt
  per run of rejections, closed when the token works again;
- queue: no event twice, replay in order, every loss has a named cause;
- device map: no event credited to a device that does not have the entity;
  commands and events of a device on the entity with its unique id;
- providers: an operation takes effect at one moment and is verified only if
  it did, an add does not land on an occupied slot, every call ends;
- requests: each ends, waits tell the state of the moment, slots and listeners
  are given back on every way out, and the gateway is not kept waiting in silence;
- forms: no two entries with one token, no check of a token that an entry runs
  on, a new token takes effect.

## 2. Modules

| Module | What it is |
|---|---|
| `TokenCheck` | the answer to the token and its classification, as operators |
| `EventQueue` | the deque: enqueue, eviction, ageing, pop, as operators |
| `GatewayClient` | the client as a state machine; extends the two above |
| `OfflineBuffer` | abstract: what the client promises about events; extends `EventQueue` for the size |
| `DeviceMap` | the map's operations, as operators |
| `DeviceTracking` | map, messages, drift tasks, registry, gateway; extends `DeviceMap` |
| `LockTable` | a Matter lock's credentials, as operators (external) |
| `CodeStore` | abstract: what a provider promises about set and clear; extends `LockTable` |
| `MatterLock` | the Matter provider beside other calls of itself; extends `LockTable` |
| `MatterReads` | `read_codes` added; extends `MatterLock` |
| `ZwaveLock` | the Z-Wave provider, the cache and the lock |
| `ConfigFlow` | the forms that set up entries and change their tokens |
| `WaitForState` | a wait for a state: deadline, poll, pulse, as operators |
| `EventTap` | a tap: listeners, recordings, bound, as operators |
| `Commands` | the gateway's requests, batches, waits and taps; extends the two above |
| `MCGatewayClient`, `MCDeviceTracking`, `MCCommands` | instances for TLC; the other modules are run as they are |
| `OfflineBufferProofs`, `GatewayClientProofs`, `GatewayBufferProofs`, `DeviceTrackingProofs`, `MatterLockProofs`, `ZwaveLockProofs`, `ConfigFlowProofs`, `CommandsProofs` | the theorems |

### GatewayClient

`loop` is the await at which the task of `_connection_loop` is suspended;
`ws` is `_ws` with what the socket knows of the link; the other client
variables have the names of the fields. `stopping` is how far `stop()` is.
`queue` holds entries `[id, at]`, an id being the event's number.

| Action | Code |
|---|---|
| `start` | `GatewayClient.start`, from set-up |
| `ConnectFails`, `ConnectOk` | `_connect_and_auth` up to and past `ws_connect` |
| `AuthReply` | `_authenticate`, and what follows up to sending the capabilities |
| `SendRaises` | the token or the capabilities cannot be sent; the loop's `except` |
| `AnnounceOk`, `DrainResume` | the loop after a good connect, `_token_accepted`, and `drain` from one send to the next |
| `ListenEnds`, `MessageRaises` | `_listen` ends, by the socket or by an exception in `_handle_message` |
| `CloseDone`, `Wake` | after `_close_ws`, `_token_refused` if the token was rejected, and the sleep |
| `Cancelled` | the loop's last step once `stop()` cancelled it |
| `SendLive`, `EnqueueEvent` | `send_or_queue` |
| `stop`, `StopCloses`, `StopDone`, `Reload` | unload of the entry and its set-up with a new client |
| `AnswerPrompt`, `DismissPrompt` | the owner |
| `LinkDrops`, `DropDetected`, `MoodChanges`, `Tick` | network, gateway, clock |

`stop()` goes one of three ways from its `_close_ws`: there is no open socket; it
closes at once; or, when the loop is in a receive on it, aiohttp's `close()` waits
for that receive first, and the socket looks open until the cancelled loop has
left it (`stopping = "waiting"`, ended by `StopCloses`). `send` and
`send_or_queue` do not look at `_running`: `SendLive` and `EnqueueEvent` ask only
that there is a client (`loop # "off"`), as a drift task or a request may be under
way when `stop()` runs. So a send does get through while `stop()` waits, and an
event may be queued in a client that is stopped.

Abstractions. A message is its number. An answer to the token is a record of
frame type, close code and the two fields the code looks at. The title update
on connect, logging and pings are left out; the requests of the gateway are in
`Commands`.
`_on_loop_done` only acts when the loop ends while running, which the loop's
own handlers exclude (there is no path to it to model). Of two coroutines
waiting to close the same socket, the model's `closing` step covers both
orders. Sends of tasks whose client has been replaced by a reload are left out: they
go to a socket that is closed for good, or to a queue nobody drains. Taken from
outside the repository: a send on a closed socket raises
something `send` swallows; the heartbeat finds a dead link; a reauth flow of an
entry survives its reload and Home Assistant keeps at most one.

### OfflineBuffer and the refinement

The abstract buffer has three variables: the ids pending, what was received,
how many events happened. An event is received, lost, or kept (at the cost of
the oldest when full); pending events are replayed oldest first, or given up
from the old end. `GatewayClient` implements it with `pending` = the ids of
the queue without the entry whose send has begun: that entry is received, or
lost, before `drain` pops it. This mapping is what shows that an eviction of
the entry in flight, followed by the pop of another, neither repeats nor
reorders anything: the other entry is popped unsent, a `Forget`.

### DeviceMap and DeviceTracking

The map's indices are functions with a finite domain, `Put` and `Pop` their
assignments. `load_sync` is stated in closed form (the last row of a key wins),
and its loop, `AddedInTurn`, is what the closed form is checked and proved
against (`SyncIsLoop`). `DeviceTracking` adds what moves the map: rows
kept by the gateway, the messages of a connection in order, drift tasks that
visit one device per step (the await of a send lies between visits) and live
through reconnects, and the registry with its listener, which runs as the event
fires. The order in which a drift task visits devices is left open. The gateway
is external: it sends its rows on every connect (`device_map.py:14`), adds only
devices it does not have, and takes over an id it is told. Rows may lack a
unique id.

### MatterLock, CodeStore and MatterReads

Each task is one command from the gateway; `place` is the service call it
awaits, `waiting` the entity's `asyncio.Lock` as a queue whose head holds it.
A service call to the lock has two steps: its arrival (`CredentialSet`,
`CredentialDuplicate`, `UserCleared`, `CallRejected`), where the table changes,
and its reply (`ReplyConfirms`, `ReplyFails`, `ReplyMute`), which may be an
error although the lock did the write. `Preflight` is the first status
request, `Check` the one after a mute reply. A status may be without data,
which the code takes for an empty slot.

The lock, in `LockTable`, is external: it refuses a PIN it has (`duplicate`),
gives an added credential a free user, and ClearUser takes every credential of
the user. Nobody writes to it but these tasks.

`CodeStore` has no locks, calls or replies. An operation is asked, takes effect
at one moment or not at all, and ends `verified`, `failed` or `assumed`. The
last stands for a success the code reports as verified on less than the lock's
word: a clear whose status had no data, and a set confirmed by a read that
only says that the slot is occupied. In `MatterLock` all are told apart in
`result`, and `CodeStore` demands an effect of `verified` alone. The look-up of
the lock's capacity after a refusal changes an error's text and is part of
`ReplyFails`; `handle_read_codes` shapes rows and is part of `ReadBegins`.

`MatterReads` adds readers. `moments`, a history variable, is the set of
occupancies the lock has gone through while the reader read. `RowsHeld` is
what holds of a read where `ReadIsSnapshot` fails: each row by itself.

### ZwaveLock

One slot of one lock. `pending` holds the commands Z-Wave JS has accepted, in
order; they reach the lock late, or are refused or lost. `cache` is what the
lock last reported; it changes only with a report, asked for (`Ask`) or not
(`Report`). `KeypadEdit` puts the slot in any state at any time, and so stands
also for sets and clears of other tasks. A task of `set_code` goes round
`Write`, `Ask`, `ReadBack`; each of these may fail, which is the next attempt or
the end (`Fails`). A write or a clear that raises may have been queued. `atCall` and
`wasHeld` are history variables: the cache when the call began, and whether
the lock has held its code since. A slot that is not in use may carry a code,
as `_SlotState` says.

### ConfigFlow

`entry` has the data token, options token and unique ID of each entry; `form`
what a form to add an entry, or to answer a prompt, checks with `probe_token`
and for which entry. `UserSubmits` and `ReauthSubmits` are the handlers up to
that await, `EntryCreated`, `ReauthDone` and `ProbeFails` what follows;
`OptionsSaved` is one step. A token is its text without the spaces around it,
except `Blank`, the token of spaces that the options form keeps, and
that `_current_token` strips to none. Entries begin with anything
older versions may have left, as long as no two share a token or a unique ID.

Home Assistant is external: it does not let two forms add the same unique ID
at once, keeps one prompt per entry, replaces an entry by a new one of the same
unique ID, and ends the prompt of a removed entry. The outcome of the probe is
open; why a token is refused is `TokenCheck`'s matter, and what the reload does
to the client `GatewayClient`'s.

The code does not look at the other entries again after `probe_token`. `crossed`,
a history variable, holds the tokens that were saved while another form checked
them: the properties say that this is the only way two entries come to share
a token. It does happen (without `crossed` both invariants fail).

### WaitForState, EventTap and Commands

A job is a command that is carried out: `<<r, 0>>` for request `r` itself,
`<<r, 1>>`, `<<r, 2>>`, ... for the commands of its batch. Its `place` is the
await it is suspended in, or how it stands with its batch:

| Place | Await |
|---|---|
| `queued` | `async with semaphore` (`batch.py:35`) |
| `calling` | the handler's service call |
| `polling`, `pulsing` | the sleep of `wait_for_state`, and the send of its progress message |
| `tapping` | the sleep of `handle_tap_events` |
| `gathering` | `asyncio.gather` of the batch |

| Action | Code |
|---|---|
| `Immediate` | a command that is refused, fails or is answered without an await |
| `Calls`, `CallReturns`, `CallFails` | a handler up to its service call, and its end |
| `WaitBegins`, `Reached`, `PollsOn`, `SendsPulse`, `PulseSent`, `GivesUp` | `wait_for_state` from one await to the next |
| `TapOpens`, `TapEnds` | `handle_tap_events` up to its sleep and from it |
| `BatchBegins`, `BatchEnds` | `handle_batch` up to `gather` and from it |
| `Checks`, `Appends` | `_record` of a tap, in a thread: the look for room, and the append once the event is serialized |
| `Cancelled` | a shutdown cancels the task of `_handle_request` |
| `StateChanges`, `OtherEvent`, `Tick` | Home Assistant, the clock |

Time goes in ticks, and only when no task can go on: the code between two
awaits takes none. The numbers in the run are the code's in another unit, each
kept in its order to the others (poll 0.5 s, pulse 5 s, timeouts 15 s and 30 s,
the gateway's limit 30 s), but for the tap's 25 s, which are one tick: no more is
needed for the events and threads that matter. The theorems take any. A state
is the state a wait looks for, another one, or `Gone`: no state at all, which is
also what an entity id reads as after a rename. `quiet` counts the ticks since the
gateway heard of a request.

A tap has a listener for each type of the list, a type named twice included, and
one for everything if the list is empty. Each listener that hears an event hands
a recording `<<event, listener>>` to the pool, where it is `waiting`, then
`writing`, then a row of `captured`: at any time, in any order, up to `Workers`
at once, and whether or not the tap has ended by then. `fired`, a history
variable, counts the events that were asked for and fired while the tap listened.
The answer is what `captured` and `truncated` are when the window ends (`TapEnds`).

`PolledJob` is where a command of a batch differs from the same command as a
request of its own: `handle_batch` calls the dispatcher without `progress_fn`, so
no pulse is sent. Support actions need `allowed`, but for the refusal, which is
an `Immediate` with an error. `ha_service_call` answers a `HomeAssistantError`
and raises any other, `CallReturns` and `CallFails`. A connection is not part
of the model: `send` takes what socket there is and returns when there is none.

A command of a batch that is no dict raises before it asks for a slot
(`batch.py:31`): `gather` raises with it, the batch is answered with an error, and
its other commands go on, and take and give back their slots (`BatchEnds`). The
pulse of a wait counts as heard when its send is over (`PulseSent`), given a
connection that holds; what a request does while there is none is not looked at.

Left out: a batch as a command of a batch; the entity filter of a tap, a selection
from what was captured; the shape of answers; the operations on access codes, which are
several service calls each and have modules of their own (their silence is not
looked at).

## 3. Runs

| Run | Question | Size |
|---|---|---|
| `gateway_tokens` | sockets, backoff and the prompt, with every kind of answer to the token; reconnection and the end of `stop()` | 132 000 states |
| `gateway_buffer` | stops, losses, and the refinement: four events, queue of two, ageing, two faults, one reload, sends beside `stop()` | 1.9 million |
| `tracking_index` | reverse index, everything may happen; `load_sync` against its closed form (`SyncIsLoop`) | 401 000 |
| `tracking_settles` | the map is right at rest and the gateway learns every new id, when ids are not reused | 294 000 |
| `matter_lock` | exclusion, the refinement of `CodeStore`, and the end of every operation: two calls, two slots, two codes, two users, every initial table | 269 000 |
| `zwave_lock` | what a set's result says, and that it ends: the code's own two retries, two codes | 43 000 |
| `commands` | slots, taps and their threads, listeners, waits, silence, and the end of requests: one request of each kind, batches of two commands with zero, one or two slots or no commands at all among them, an entity, two bus events | 433 000 |
| `config_flow` | tokens and unique IDs under two forms and the options form: two entries, three tokens, every initial pair | 452 000 |
| `drain_loses_unsent`, `drift_misses_reuse`, `removal_untracks`, `read_sees_half` | statements of the documentation the code does not keep (section 6) | violated |

Bounds. A queue of two with four events has the queue fill, evict during a
drain, and fill again; the age limit of one tick with two ticks has entries
on both sides of it, and `gateway_tokens` has the boundary itself
(`MaxEventAge = 0`). Two faults give a second lost link during the reconnect
from the first. Backoff 2 with a ceiling of 5 has a doubling below, and a
doubling cut off at, the ceiling. Two devices and three entity ids let two
devices meet on one id; one lost connection lets a second drift task start
beside the first. Two slots and two users let a user have both slots, so that
a clear of one takes the other; a third call would only wait behind the two. In
`zwave_lock` one call is enough: calls share nothing but the lock and its cache,
which `KeypadEdit` and `Report` change at will; the theorems hold for any
number. In `commands` one request is enough, since requests share nothing but the
states and the bus; two commands meet at one slot; a tap
bounded at one event with two that fire, each heard by one listener or (a type
named twice) by two, and with two threads, is full, is not, and is overrun;
`MaxFired` bounds what open taps see, summed over the taps. A timeout of 7 with a
poll of 2, pulse of 3 and stall of 2 has the deadline in a poll and in a pulse, and
a tap of 7 is cut. Waits are for one state, as the two are alike. In `config_flow`
two entries and two forms have each form cross the other and the options; the
third token lets a token become free again. Symmetry is used in `tracking_index`
alone, which checks
invariants and a step property only. What the instances leave open the theorems close, where there
are any.

Fairness. `LoopStep` is weakly fair because each await of the loop ends:
connecting and closing have time-outs in aiohttp, the answer has
`AUTH_TIMEOUT_S`, the delay is a sleep; asyncio runs what is ready. `Cancelled`
and `StopDone` are the same for cancellation and `stop()`. `DropDetected` is
the heartbeat of 25 s. Nothing forces events, owner or gateway, and a listening
client listens on until the socket ends; `Reconnects` assumes in its own premise
that the gateway accepts for good. In `DeviceTracking`, messages get handled,
tasks go on, and a lost connection is made again, which is what `Reconnects`
establishes. `StopCloses` is fair because the receive ends with the cancelled loop. In
the lock modules the service calls and pauses of a task end
(`Steps`), by answer or error; the lock itself owes nothing, not even
`CommandArrives`.

In `Commands` time passes, service calls, sends and sleeps end, and a command that
can have a slot begins (`RequestsEnd` excepts the batch whose semaphore has none);
nothing forces a request, an event or a state, nor a thread of the pool to get on
with a recording.

`CHECK_DEADLOCK FALSE` stands where a stop is legal: an entry that is unloaded
and not set up again, a bounded environment that has used up its events, calls that have all ended.

## 4. Properties, in words

- `OneSocketAtATime`: no attempt or delay begins with a socket still held.
- `StoppedIsQuiet`, `StopEnds`: `stop()` ends, and leaves no socket.
- `BackoffHolds`: only a completed connection or a new client eases the delay.
- `PromptOncePerRun`, `RejectionRecorded`, `OnlyTheTokenIsBlamed`,
  `PromptClearsInOneRun`: the prompt.
- `AtMostOnce`, `ReplayInOrder`, `ImplementsBuffer`, `LossesAccounted`: events.
- `Reconnects`: from any state the client gets back to listening, its queue
  empty, if the gateway lets it.
- `ReverseSound`: an event is credited to no device that does not have its entity.
- `SettledRight`, `SettledTracked`: when nothing is under way, each device is on
  the entity with its unique id; map and gateway have the same devices, on the
  same entities unless an entity is gone. `GatewayLearns`: a new id gets there.
- `SyncIsLoop`: `load_sync` does what its loop does, for any rows.
- `AddOnlyToEmpty`: what the preflight found is so when the write arrives.
- `ImplementsCodeStore`: one moment of effect, honest results, nobody but the
  slot's user touched. `RequestsEnd`: the entity's lock is always given back.
- `VerifiedWasHeld`: a verified code was in use on the lock during the call, or
  in the cache before it. `UnconfirmedUnchanged`: "not confirmed" means that the
  slot reads as before the first write. `SetsEnd`: `set_code` gives up.
- `SlotsAccounted`: slots of a batch are free or in use, so the limit holds and no
  slot is lost. `RequestsEnd` of `Commands`: every request ends, but for a batch
  without a slot (`max_concurrency` 0, which nothing refuses).
- `WaitTellsNow`: a wait tells the target only if it was reached, and another
  state only at the deadline and as it is by then, but for a deadline that
  passes while a pulse is sent.
- `TapTells`, `ListenersGone`: each event that was asked for has a row of its own,
  or a thread still has it, or the tap says that it is full; a tap leaves no
  listener.
- `TapBounded`: threads take a tap beyond `max_events` by one less than there
  are of them, and no further.
- `QuickRequestsHeard`: as long as service calls are quick, no tap and no command of
  one service call, with or without a wait, goes beyond the gateway's limit on
  silence. The run takes a service call of one tick, and the theorem assumes a bound
  (`Quick`); nothing in the code bounds a blocking call (`handlers/lock.py:37`,
  `handlers/passthrough.py:96`), so with a slow one the gateway may wait longer.
- `OneEntryPerToken`, `ChecksSpareEntries`: entries stay apart, and no check cuts
  one off, but for a save during the check. `ReauthTakesEffect`,
  `UniqueFollows`: the token saved is the token used, and the unique ID follows.

## 5. Theorems

All hold for every value of the constants under the named assumptions: the
queue has a positive size, `InitialBackoff <= MaxBackoff`, the gateway's
answers are replies a socket can yield, bounds are naturals, `None` and
`Blank` are no code, user, token, entry or form, and devices are finitely many.

| Theorem | Argument |
|---|---|
| `TypeCorrect` (of the client) | `TypeInv` = `TypeOK` and `HeadPresent` (a drain suspended in a send has a queue to pop): typing needs the latter, since `Tail` of an empty queue is untyped |
| `ConnectionSound`, `OneSocket`, `StoppedQuiet`, `PromptCleared` | `ConnInv`: the four connection invariants are not inductive alone; the strengthening ties `ws`, `authOutcome` and the prompt to the place of the loop |
| `NothingLeftQueued` | `UseInv`: `drain` ends on an empty queue, nothing is queued while the socket is open, and a socket never opens under a loop that listens |
| `AttemptsNear` | `Stage` (0 to 14, 0 in a connection in use) and `ToSend`, in this order: while the gateway accepts, every step of the loop and every lost link that is found lowers them, and nothing but a fault raises them |
| `SilentAfterStop` | `LastWords`: once `stop()` has been called, what still reaches the gateway is a send that finds the socket open, which it is only while `stop()` waits for the loop to leave its receive (`Sockets`, `StoppedIsQuiet` of `ConnInv`). The send is not the loop's, so nothing queued is replayed |
| `TokenBlamed`, `BackoffNeverEases`, `AskedOnce` | action properties from the same invariant, action by action |
| `BufferSound` | `Inv` of `OfflineBuffer`: pending ids ascend and lie above everything replayed (`PendingAhead`), without which neither promise is inductive |
| `ImplementsOfflineBuffer` | `QueueInv`: queue ids ascend, none exceeds the last event, and the entry in flight is at the head or already evicted; then a step of the client is a step of the buffer or a stutter. One lemma for what `drain` does to the pending ids (`DrainImplements`), one for an enqueue (`EnqueueImplements`) |
| `EventsOnceInOrder`, `ReplayedInOrder` | the refinement with the lemmas behind `BufferSound`, instantiated |
| `LossesKnown` | `DrainInv`: as long as the socket is open, the entry in flight is the head, so that what `drain` pops is what was sent; an eviction needs a full queue, and a drop at the beginning of a drain an old entry |
| `TypeCorrect`, `ReverseIndexSound` (of the tracking) | The messages under way are a walk (`Leads`) from the devices the map has to those the gateway has, each a sync or an edit that is legal where it stands. So an add that arrives is of a device untracked by then, and no reverse entry outlives what it was made for. `DevicesAssumption` is what gives a sync a row per device |
| `SameDevices` | the same walk, at its end: map and gateway have the same devices, in every environment |
| `SettlesOnRight`, `SettlesOnTracked` | assume `Orderly`: entities are renamed to ids nobody had, or unregistered, and devices removed. `SettlesInv` adds to the above: no two entities or devices have one unique id, now or before (`Distinguished`); the indices agree (`Exact`); a device whose entity has moved on is yet to be visited by a drift task, or to be synced (`DriftsPending`); what the gateway is told last of a device is what the map has (`Agreement`). No other kind of event may be added to `Orderly`: with `register`, `reuse`, `add` or `update` among the events TLC finds `SettledRight` violated |
| `SettlesInTheEnd` | `Work`, a tuple of six: whether the link is up, messages to the client, drift tasks to begin, tasks, their visits, messages to the gateway. Every step of the client, a connect and a change that arrives lower it lexicographically (`Fewer`, proved well-founded) |
| `SyncsInTurn` | by the prefixes of the rows: `LoopLoads` says that after each row the loop has what the closed form says of the rows so far, by a least counterexample (there is no induction rule to cite) |
| `AddsOnlyToEmpty`, and `TypeCorrect` | `IInv` of `MatterLockProofs`: a task beyond its preflight is the head of the queue (`HolderOnly`), so nobody writes between preflight and call, and what was found still holds (`FoundTrue`). Neither is inductive without the other |
| `ProviderImplementsCodeStore` | each action is a step of `CodeStore` or a stutter; `FoundTrue` is what makes the user found the slot's user when the call arrives |
| `LockNeverLost` | `Line`: those in the lock's queue are the calls in progress, each once. So the lock is free when nobody is in progress, and held by one that is otherwise |
| `CallsDrawNear` | `Distance`: four awaits for each place in the queue, and those left of the holder. Each step of a call lowers the distance of every call in the queue from there on; a new call joins behind |
| `ReadsTell` | `MomentsGrow`: the row of a slot is written from the table of that moment, and `moments` only grows |
| `VerifiedSets`, and `TypeCorrect` | `SeenHeld`: as long as a task runs, neither lock nor cache comes to hold its code without `wasHeld`, or `atCall`, telling |
| `UnconfirmedSets` | `BeforeOfCall`: `before` is the cache at the call in every attempt |
| `SetsDrawNear` | `Distance`: three awaits for each attempt left, and those left of this one. A failure goes to the next attempt or the end; the lock, Z-Wave JS and other sets do not touch it |
| `OneEntry`, `SpareChecked`, and `TypeCorrect` | `ChecksSpare`: a check nobody crossed is of a token no other entry has as token or unique ID; with it a save keeps entries apart (`TokenSaved`), without it neither invariant is inductive |
| `ReauthEffective`, `UniqueIdFollows` | from the types: the answer goes where `_current_token` looks first, and every way to save a token sets the unique ID |
| `SlotsKeptInBatch`, `TapsCleared`, and `TypeCorrect` | `IInv` of `CommandsProofs`: what a job's place says of the rest of it (`Fits`), commands only below a batch, and `Slots`, by the cardinality of the running commands: a step takes one in, out, or none, also after the batch's answer |
| `NoLongSilence` | `Hushed`, a budget: the silence so far and the time left in the current await stay below what the kind of await allows. It needs `Quick`: a service call, a pulse interval, a poll and a stalled send fit into the limit together, and so does the longest tap |
| `WaitsTellNow` | `Fits`: a wait that goes on has read another state than its target |
| `TapsTell` | `Faithful`: recordings are of events that have fired, each waits, is written or is a row, in one of these places only, and a tap that is not marked truncated has one of every event. A thread moves a recording on; the only way to lose one marks the tap |
| `TapsBounded` | `Roomy`: rows and recordings that are being written are together at most `max_events` and one less than the threads. A thread that finds room finds fewer rows than the bound, and leaves with the others at most all threads writing |
| `CommandsEndInTime` | `TimeLeft` in ticks and `StepsLeft` between two ticks: a tick lowers the first, a step of the command the second or the first, nobody else either. At its first await a command has at most `Longest` to go, a service call with a wait or the longest tap. `Timed` bounds the sleeps, without which `TimeLeft` could rise. The time is that of commands, alone or in a batch: how long they queue for a slot is not part of it |

`GatewayClientProofs` also holds the facts on `FromFresh`, the suffix a drain keeps.
`TypeOK` of `Commands` is proved for all constants and checked in no run.

`AttemptsNear`, `SettlesInTheEnd`, `CallsDrawNear`, `SetsDrawNear` and
`CommandsEndInTime` are the well-founded half of the liveness properties
`Reconnects`, `GatewayLearns`, `RequestsEnd` (of both modules) and `SetsEnd`: a
measure that the steps lower and nothing else raises. The other half, that a
step is enabled until the end and then taken, is ENABLED and fairness.

Where the documentation's statement fails, a theorem says what holds instead:
`LossesKnown` for a drain into a broken link, `SettlesOnRight` and
`SettlesOnTracked` for the reuse and removal of entity ids, `ReadsTell` for a read
beside a set.

Only model-checked: the liveness properties (fairness and ENABLED are out of
the prover's reach), and the properties that fail. Every other property of a
passing run is a theorem, for all constants, or under the named assumptions:
`Orderly` (above) and `Quick`.

## 6. Where code and documentation part

1. A drain into a link that breaks pops every queued entry as sent: `send`
   swallows the error that `drain`'s handler waits for (`DrainKeepsUnsent`).
2. The drift check does not notice that an entity id now belongs to another
   entity; commands then reach the wrong lock (`SettledRight`).
3. Removing a device untracks another that was renamed to its entity id
   (`SettledTracked`).
4. A read of a Matter lock's slots is not serialized with sets and clears, as
   the comment on the entity's lock has it (`ReadIsSnapshot`).

Shown by no run of its own:

- an event during the token check goes to a socket that is not accepted yet and
  is not queued, against "events are queued when the connection is temporarily
  unavailable" (README.md:19 of the repository; `SendLive`, a `Pass` of the
  abstract buffer);
- the prompt stays open over a working connection if the entry was reloaded in
  between (the premise of `PromptClearsInOneRun`);
- two entries share a token if one saves it while the other's form checks it
  (`crossed`);
- a lock or cover command within a batch sends no pulse, so that the batch
  can be silent beyond 30 s (the premise of `QuickRequestsHeard`), and one with
  `max_concurrency` 0 never ends (that of `RequestsEnd`);
- a wait whose deadline passes during a pulse returns the state from before it,
  against "whatever the current state is when the deadline is reached"
  (`handlers/utils.py:36`; the exception of `WaitTellsNow`);
- a tap may have more rows than `max_events`, against "Hard caps"
  (`handlers/event_tap.py:38`), by as many as there are threads less one
  (`TapBounded` is tight), and "captured" is counted before the last of them
  append to the list the answer holds (`handlers/event_tap.py:147`);
- an event near the end of a tap's window is not in its answer if its thread is
  late, and `truncated` does not say so (the exception of `TapTells`); nor are the
  rows in the order of the events;
- a send under way when `stop()` is called gets through while `stop()` waits
  (`LastWords`).

## 7. Not modelled

A rename of a Matter lock's entity between two operations, which gives them two
lock objects; people at a Matter lock's keypad, against whom no preflight
helps. `get_capabilities` of both providers, and `read_codes` for Z-Wave: one
read, shaped. Promises about a Z-Wave code once it is verified: a command
queued earlier may still arrive, and nothing in the repository denies it. The
connection a request came by, and a batch within a batch.

No state, nothing to interleave, and within reach of a unit test: message layout,
logging, translations, diagnostics, capabilities, discovery, the choice of a
provider by an entity's platform, the state filter, event payloads and the
number of slots. Battery alerts and the Z-Wave device look-up choose what is
submitted as an event; what becomes of it is `GatewayClient`.

## 8. What could come next

1. A rename in `MatterLock`: the lock per entity id against one physical lock;
   the refinement of `CodeStore` would then be of one entity id at a time.
2. Requests in `GatewayClient`: at most one answer per request, and on which
   connection.
3. Weaker environments than `Orderly` for parts of `SettledRight`, as an `update`
   that keeps the unique id, or an `add` while no rename is under way.
