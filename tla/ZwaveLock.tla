------------------------------ MODULE ZwaveLock ------------------------------
(***************************************************************************)
(* ZwaveLockProvider of services/providers/zwave.py: calls of set_code and *)
(* clear_code, each in a task of its own, on one slot of one lock.         *)
(*                                                                         *)
(* Z-Wave JS queues commands for the lock, which may sleep, and keeps what *)
(* the lock last reported of the slot.  A report arrives as it is made.    *)
(* "place" is what a task of set_code does next:                           *)
(*                                                                         *)
(*   write    set_lock_usercode, on a retry after a pause                  *)
(*   ask      invoke_cc_api, after verify_delay_s                          *)
(*   read     get_lock_usercode, after the report had time to settle       *)
(***************************************************************************)
EXTENDS Integers, Sequences

CONSTANTS Tasks,            \* calls of set_code and clear_code
          Codes, None,
          MaxRetries        \* max_retries

ASSUME RetriesAssumption == MaxRetries \in Nat
ASSUME CodesAssumption == None \notin Codes

VARIABLES
  held,         \* the slot on the lock
  pending,      \* codes to be written, in order; None is a clear
  cache,        \* the slot in Z-Wave JS, None if it was never reported
  place,
  request,      \* the code to set, or None for a clear
  before,       \* the local variables of _set_and_verify_code
  attempt,
  result,
  atCall,       \* auxiliary: the cache when the task was called
  wasHeld       \* auxiliary: the lock has held the task's code since

taskVars == <<place, request, before, attempt, result>>
vars == <<held, pending, cache, taskVars, atCall, wasHeld>>

\* _SlotState: a slot out of use may still have a code.
Slot == [occupied : {TRUE}, code : Codes] \cup [occupied : {FALSE}, code : Codes \cup {None}]
InUse(code) == [occupied |-> TRUE, code |-> code]
Cleared == [occupied |-> FALSE, code |-> None]

Errors == {"none", "unreadable", "unconfirmed", "mismatch", "raised"}

TypeOK ==
  /\ held \in Slot
  /\ pending \in Seq(Codes \cup {None})
  /\ cache \in Slot \cup {None}
  /\ place \in [Tasks -> {"idle", "write", "ask", "read", "ended"}]
  /\ request \in [Tasks -> Codes \cup {None}]
  /\ before \in [Tasks -> Slot \cup {None}]
  /\ attempt \in [Tasks -> 0..MaxRetries]
  /\ result \in [Tasks -> Errors \cup {"verified", "cleared"}]
  /\ atCall \in [Tasks -> Slot \cup {None}]
  /\ wasHeld \in [Tasks -> BOOLEAN]

Init ==
  /\ held \in Slot
  /\ pending = <<>>
  /\ cache \in {held, None}
  /\ place = [task \in Tasks |-> "idle"]
  /\ request = [task \in Tasks |-> None]
  /\ before = [task \in Tasks |-> None]
  /\ attempt = [task \in Tasks |-> 0]
  /\ result = [task \in Tasks |-> "none"]
  /\ atCall = [task \in Tasks |-> None]
  /\ wasHeld = [task \in Tasks |-> FALSE]
-----------------------------------------------------------------------------
Running(task) == place[task] \in {"write", "ask", "read"}

\* get_lock_usercode may fail, as it does on a slot never reported.
Readings == {cache, None}

Ends(task, how) ==
  /\ place' = [place EXCEPT ![task] = "ended"]
  /\ result' = [result EXCEPT ![task] = how]
  /\ UNCHANGED <<before, attempt>>

\* set_code, up to its first write.
SetCode(task) ==
  /\ place[task] = "idle"
  /\ place' = [place EXCEPT ![task] = "write"]
  /\ \E code \in Codes :
       /\ request' = [request EXCEPT ![task] = code]
       /\ wasHeld' = [wasHeld EXCEPT ![task] = held = InUse(code)]
  /\ \E reading \in Readings : before' = [before EXCEPT ![task] = reading]
  /\ atCall' = [atCall EXCEPT ![task] = cache]
  /\ UNCHANGED <<held, pending, cache, attempt, result>>

\* clear_code is one service call: it is taken for done, or it raises, whether or
\* not the clear was queued.
ClearCode(task) ==
  /\ place[task] = "idle"
  /\ \/ pending' = Append(pending, None) /\ Ends(task, "cleared")
     \/ pending' \in {pending, Append(pending, None)} /\ Ends(task, "raised")
  /\ UNCHANGED <<held, cache, request, atCall, wasHeld>>

At(task, where) ==
  /\ place[task] = where
  /\ UNCHANGED <<held, request, atCall, wasHeld>>

GoesTo(task, where) ==
  /\ place' = [place EXCEPT ![task] = where]
  /\ UNCHANGED <<before, attempt, result>>

\* Slip: each attempt is compared with the one before.
ReadsBeforeAgain(task, error) ==
  IF attempt[task] = MaxRetries THEN Ends(task, error)
  ELSE /\ attempt' = [attempt EXCEPT ![task] = @ + 1]
       /\ place' = [place EXCEPT ![task] = "write"]
       /\ before' = [before EXCEPT ![task] = cache]
       /\ UNCHANGED result

\* Slip: the attempts are not counted.
NeverGivesUp(task, error) ==
  /\ place' = [place EXCEPT ![task] = "write"]
  /\ UNCHANGED <<before, attempt, result>>

\* Slip: one attempt too many.
CountsFromOne(task, error) ==
  IF attempt[task] > MaxRetries THEN Ends(task, error)
  ELSE /\ attempt' = [attempt EXCEPT ![task] = @ + 1]
       /\ place' = [place EXCEPT ![task] = "write"]
       /\ UNCHANGED <<before, result>>

\* An attempt ends in an error: the next one, or the end.
Fails(task, error) ==
  IF attempt[task] = MaxRetries THEN Ends(task, error)
  ELSE /\ attempt' = [attempt EXCEPT ![task] = @ + 1]
       /\ place' = [place EXCEPT ![task] = "write"]
       /\ UNCHANGED <<before, result>>

\* set_lock_usercode returns, or raises whether or not the write was queued.
Write(task) ==
  /\ At(task, "write")
  /\ \/ pending' = Append(pending, request[task]) /\ GoesTo(task, "ask")
     \/ pending' \in {pending, Append(pending, request[task])} /\ Fails(task, "raised")
  /\ UNCHANGED cache

\* _request_slot_report: the lock answers, or not, or it cannot be asked.
Ask(task) ==
  /\ At(task, "ask")
  /\ \/ cache' \in {cache, held} /\ GoesTo(task, "read")
     \/ cache' = cache /\ Fails(task, "unreadable")
  /\ UNCHANGED pending

\* Slip: a code in a slot out of use counts.
SameCode(reading, code) == reading.code = code

Confirms(reading, code) == reading.occupied /\ reading.code = code

ReadBack(task) ==
  /\ At(task, "read")
  /\ \E after \in Readings :
       \/ after = None /\ Fails(task, "unreadable")
       \/ after # None /\ Confirms(after, request[task]) /\ Ends(task, "verified")
       \/ /\ after # None /\ ~Confirms(after, request[task])
          /\ Fails(task, IF after = before[task] THEN "unconfirmed" ELSE "mismatch")
  /\ UNCHANGED <<pending, cache>>
-----------------------------------------------------------------------------
(***************************************************************************)
(* The lock and Z-Wave JS.                                                 *)
(***************************************************************************)
Holds(slot) ==
  /\ held' = slot
  /\ wasHeld' = [task \in Tasks |->
                   wasHeld[task] \/ (Running(task) /\ slot = InUse(request[task]))]
  /\ UNCHANGED <<cache, taskVars, atCall>>

\* The next command reaches the lock, which may refuse it, or is lost.
CommandArrives ==
  /\ pending # <<>>
  /\ Holds(IF Head(pending) = None THEN Cleared ELSE InUse(Head(pending)))
  /\ pending' = Tail(pending)

CommandLost ==
  /\ pending # <<>>
  /\ pending' = Tail(pending)
  /\ UNCHANGED <<held, cache, taskVars, atCall, wasHeld>>

\* The lock reports the slot of its own accord, or late.
Report ==
  /\ cache' = held
  /\ UNCHANGED <<held, pending, taskVars, atCall, wasHeld>>

\* Somebody sets, disables or clears the slot at the lock.
KeypadEdit ==
  /\ \E slot \in Slot : Holds(slot)
  /\ UNCHANGED pending

Steps(task) == Write(task) \/ Ask(task) \/ ReadBack(task)

Next ==
  \/ \E task \in Tasks : SetCode(task) \/ ClearCode(task) \/ Steps(task)
  \/ CommandArrives \/ CommandLost \/ Report \/ KeypadEdit

\* Service calls and pauses end.  Nothing is assumed of the lock.
Fairness == \A task \in Tasks : WF_vars(Steps(task))

Spec == Init /\ [][Next]_vars /\ Fairness
-----------------------------------------------------------------------------
\* "A slot that holds the new code was confirmed by the lock" (zwave.py:325):
\* a set is verified only if the lock held its code, in use, while the set ran,
\* or the cache had it at the start, as the next sentences say.
VerifiedWasHeld ==
  \A task \in Tasks : result[task] = "verified" =>
    wasHeld[task] \/ atCall[task] = InUse(request[task])

\* "on a retry, a lock that keeps reporting the same wrong code must still
\* read as a mismatch" (zwave.py:334): "unconfirmed" is said only of a slot
\* that reads as it did at the start.
UnconfirmedUnchanged ==
  [][\A task \in Tasks :
       result'[task] = "unconfirmed" /\ result[task] = "none"
         => cache = atCall[task]]_vars

\* set_code gives up in the end, whatever the lock does.
SetsEnd == \A task \in Tasks : place[task] = "write" ~> place[task] = "ended"
=============================================================================
