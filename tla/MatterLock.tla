----------------------------- MODULE MatterLock -----------------------------
(***************************************************************************)
(* MatterLockProvider of services/providers/matter.py: calls of set_code   *)
(* and clear_code, each in a task of its own, on one lock.                 *)
(*                                                                         *)
(* A task holds the asyncio lock of the entity while it asks for the       *)
(* slot's status, calls the lock, and looks at the reply; "place" says     *)
(* which of these it awaits:                                               *)
(*                                                                         *)
(*   status   the entity's lock, then get_lock_credential_status           *)
(*   call     the call's arrival at the lock                               *)
(*   reply    what the call returns or raises                              *)
(*   check    get_lock_credential_status again, the reply having been mute *)
(***************************************************************************)
EXTENDS LockTable, Sequences

CONSTANT Tasks              \* calls of set_code and clear_code

VARIABLES
  table,        \* the lock's credentials
  waiting,      \* the entity's asyncio.Lock: its holder and those behind it
  place,
  request,
  found,        \* "existing": the status found first
  answer,       \* what the lock did with the call
  result

vars == <<table, waiting, place, request, found, answer, result>>

\* Slip: the code is taken for the user.
CodeAsUser(slot) == [told |-> TRUE, exists |-> slot \in Occupied(table),
                     user |-> table[slot].code]

\* A status dict, or None (told is FALSE): "no data".
Status(slot) == [told |-> TRUE, exists |-> slot \in Occupied(table),
                 user |-> table[slot].user]
NoData == [told |-> FALSE, exists |-> FALSE, user |-> None]

TypeOK ==
  /\ table \in Table
  /\ waiting \in Seq(Tasks)
  /\ place \in [Tasks -> {"idle", "status", "call", "reply", "check", "ended"}]
  /\ request \in [Tasks -> Request \cup {None}]
  /\ found \in [Tasks -> [told : BOOLEAN, exists : BOOLEAN, user : Users \cup {None}]]
  /\ answer \in [Tasks -> {"none", "done", "duplicate", "rejected"}]
  /\ result \in [Tasks -> {"none", "verified", "assumed", "failed"}]

Init ==
  /\ table \in Table /\ NoDuplicates(table)
  /\ waiting = <<>>
  /\ place = [task \in Tasks |-> "idle"]
  /\ request = [task \in Tasks |-> None]
  /\ found = [task \in Tasks |-> NoData]
  /\ answer = [task \in Tasks |-> "none"]
  /\ result = [task \in Tasks |-> "none"]
-----------------------------------------------------------------------------
\* _get_entity_lock: the task is in its "async with", asyncio.Lock being fair.
Holds(task) == waiting # <<>> /\ Head(waiting) = task

\* Slip: the lock stays taken.
NeverReleased(task) == UNCHANGED waiting

Releases(task) == waiting' = Tail(waiting)

At(task, where) ==
  /\ place[task] = where
  /\ Holds(task)
  /\ UNCHANGED request

\* Slip: the lock is taken for each service call alone.
LetsGoBetween(task, where) ==
  /\ place' = [place EXCEPT ![task] = where]
  /\ waiting' = Append(Tail(waiting), task)
  /\ UNCHANGED result

GoesTo(task, where) ==
  /\ place' = [place EXCEPT ![task] = where]
  /\ UNCHANGED <<waiting, result>>

Ends(task, how) ==
  /\ place' = [place EXCEPT ![task] = "ended"]
  /\ result' = [result EXCEPT ![task] = how]
  /\ Releases(task)

\* handle_set_access_code, handle_clear_access_code.
Call(task) ==
  /\ place[task] = "idle"
  /\ \E asked \in Request : request' = [request EXCEPT ![task] = asked]
  /\ waiting' = Append(waiting, task)
  /\ place' = [place EXCEPT ![task] = "status"]
  /\ UNCHANGED <<table, found, answer, result>>

NothingToClear(task, status) == request[task].op = "clear" /\ ~status.exists

\* The preflight.  A clear ends here if there is nothing to clear.
Preflight(task) ==
  /\ At(task, "status")
  /\ \E status \in {Status(request[task].slot), NoData} :
       /\ found' = [found EXCEPT ![task] = status]
       /\ IF NothingToClear(task, status)
            THEN Ends(task, IF status.told THEN "verified" ELSE "assumed")
            ELSE GoesTo(task, "call")
  /\ UNCHANGED <<table, answer>>

\* PreflightUnavailable: neither operation goes on.
PreflightFails(task) ==
  /\ At(task, "status")
  /\ Ends(task, "failed")
  /\ UNCHANGED <<table, found, answer>>

Answers(task, how) ==
  /\ At(task, "call")
  /\ answer' = [answer EXCEPT ![task] = how]
  /\ GoesTo(task, "reply")
  /\ UNCHANGED found

\* set_lock_credential with the user found, if any.
CredentialSet(task) ==
  LET asked == request[task]
  IN  /\ Answers(task, "done")
      /\ asked.op = "set"
      /\ SlotsWith(table, asked.code) \subseteq {asked.slot}
      /\ table' \in Programmed(table, asked.slot, asked.code, found[task].user)

CredentialDuplicate(task) ==
  /\ Answers(task, "duplicate")
  /\ request[task].op = "set"
  /\ SlotsWith(table, request[task].code) # {}
  /\ UNCHANGED table

\* Slip: the slot is taken for the user.
SlotAsUser(task) == request[task].slot

UserToClear(task) == found[task].user

\* clear_lock_user, or clear_lock_credential for an orphan.
UserCleared(task) ==
  /\ Answers(task, "done")
  /\ request[task].op = "clear"
  /\ table' = Cleared(table, request[task].slot, UserToClear(task))

CallRejected(task) ==
  /\ Answers(task, "rejected")
  /\ UNCHANGED table

\* The call returns what the lock did, "duplicate" counting as success.
ReplyConfirms(task) ==
  /\ At(task, "reply")
  /\ answer[task] \in {"done", "duplicate"}
  /\ Ends(task, "verified")
  /\ UNCHANGED <<table, found, answer>>

\* It raises, whatever the lock did; a look-up of the lock's capacity to
\* explain the error may follow, under the entity's lock still.
ReplyFails(task) ==
  /\ At(task, "reply")
  /\ Ends(task, "failed")
  /\ UNCHANGED <<table, found, answer>>

\* set_lock_credential returns no credential_index, which may mean either.
ReplyMute(task) ==
  /\ At(task, "reply")
  /\ request[task].op = "set" /\ answer[task] # "duplicate"
  /\ GoesTo(task, "check")
  /\ UNCHANGED <<table, found, answer>>

\* The active read asks only whether there is a credential.
Check(task) ==
  /\ At(task, "check")
  /\ \/ Status(request[task].slot).exists /\ Ends(task, "assumed")
     \/ Ends(task, "failed")
  /\ UNCHANGED <<table, found, answer>>

Steps(task) ==
  \/ Preflight(task) \/ PreflightFails(task)
  \/ CredentialSet(task) \/ CredentialDuplicate(task) \/ UserCleared(task)
  \/ CallRejected(task)
  \/ ReplyConfirms(task) \/ ReplyFails(task) \/ ReplyMute(task) \/ Check(task)

Next == \E task \in Tasks : Call(task) \/ Steps(task)

\* Service calls end, one way or another.
Fairness == \A task \in Tasks : WF_vars(Steps(task))

Spec == Init /\ [][Next]_vars /\ Fairness
-----------------------------------------------------------------------------
\* "the preflight sees the slot as empty, takes the Add path, but by the time
\* the SetCredential lands the other op has already added a credential at that
\* index" (matter.py:77): no call with a null user reaches an occupied slot,
\* unless its preflight got no data.
AddOnlyToEmpty ==
  [][\A task \in Tasks :
       CredentialSet(task) /\ found[task].told /\ ~found[task].exists
         => request[task].slot \notin Occupied(table)]_vars

\* Every operation takes effect at one moment, or not, and is verified only
\* if it did: a set has its code on the lock, a clear has emptied its slot
\* and touched nobody but that slot's user.
State(task) ==
  IF place[task] = "idle" THEN "idle"
  ELSE IF place[task] = "ended" THEN result[task]
  ELSE IF answer[task] \in {"done", "duplicate"} THEN "done"
  ELSE "asked"

Store == INSTANCE CodeStore WITH state <- [task \in Tasks |-> State(task)]

ImplementsCodeStore == Store!Spec

\* No operation waits for ever behind another one's lock.
RequestsEnd ==
  \A task \in Tasks : place[task] = "status" ~> place[task] = "ended"
=============================================================================
