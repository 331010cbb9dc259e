-------------------------- MODULE MatterLockProofs --------------------------
(***************************************************************************)
(* What is proved of MatterLock for any number of calls, slots, codes and  *)
(* users: calls keep out of each other's way, each draws nearer to its end *)
(* and the provider implements CodeStore; and of MatterReads, what a read  *)
(* beside them is worth.                                                   *)
(***************************************************************************)
EXTENDS MatterReads, SequenceTheorems, TLAPS

\* A task beyond the preflight is the one in the entity's lock.
HolderOnly == \A task \in Tasks :
  place[task] \in {"call", "reply", "check"} => Holds(task)

Asked == \A task \in Tasks : place[task] # "idle" => request[task] \in Request

\* What the preflight found still holds when the lock is called.
FoundTrue == \A task \in Tasks : place[task] = "call" =>
  /\ found[task] \in {Status(request[task].slot), NoData}
  /\ request[task].op = "clear" => found[task].exists

Unanswered == \A task \in Tasks :
  place[task] \in {"idle", "status", "call"} => answer[task] = "none"

IInv == TypeOK /\ HolderOnly /\ Asked /\ FoundTrue /\ Unanswered
-----------------------------------------------------------------------------
LEMMA OccupiedIsCredential ==
  ASSUME NEW t \in Table, NEW slot \in Occupied(t)
  PROVE  t[slot] \in Credential
BY DEF Table, Occupied

LEMMA EmptyHasNobody ==
  ASSUME NEW t \in Table, NEW slot \in Slots, slot \notin Occupied(t)
  PROVE  t[slot].user = None
BY DEF Occupied, Empty

LEMMA UserTyped ==
  ASSUME NEW t \in Table, NEW slot \in Slots
  PROVE  t[slot].user \in Users \cup {None}
BY DEF Table, Credential, Empty

LEMMA ProgrammedTyped ==
  ASSUME NEW t \in Table, NEW slot \in Slots, NEW code \in Codes,
         NEW user \in Users \cup {None},
         NEW new \in Programmed(t, slot, code, user)
  PROVE  new \in Table
<1>1. PICK owner \in IF slot \in Occupied(t) THEN {t[slot].user}
                     ELSE IF user = None THEN FreeUsers(t) ELSE {user} :
        new = [t EXCEPT ![slot] = [code |-> code, user |-> owner]]
  BY DEF Programmed
<1>2. owner \in Users \cup {None}
  BY <1>1, UserTyped DEF FreeUsers
<1>3. [code |-> code, user |-> owner] \in Credential
  BY <1>2 DEF Credential
<1> QED
  BY <1>1, <1>3 DEF Table

LEMMA ClearedTyped ==
  ASSUME NEW t \in Table, NEW slot \in Slots, NEW user
  PROVE  Cleared(t, slot, user) \in Table
BY DEF Cleared, Table

LEMMA RequestTyped ==
  ASSUME NEW asked \in Request
  PROVE  /\ asked.slot \in Slots
         /\ asked.op \in {"set", "clear"}
         /\ asked.op = "set" => asked.code \in Codes
BY DEF Request

LEMMA StatusTyped ==
  ASSUME TypeOK, NEW slot \in Slots
  PROVE  {Status(slot), NoData}
           \subseteq [told : BOOLEAN, exists : BOOLEAN, user : Users \cup {None}]
<1>1. table[slot].user \in Users \cup {None}
  BY UserTyped DEF TypeOK
<1> QED
  BY <1>1 DEF Status, NoData
-----------------------------------------------------------------------------
\* A task's step leaves the others where they are.
LEMMA OthersStay ==
  ASSUME TypeOK, NEW task \in Tasks, Call(task) \/ Steps(task),
         NEW other \in Tasks, other # task
  PROVE  /\ place'[other] = place[other]
         /\ request'[other] = request[other]
         /\ found'[other] = found[other]
         /\ answer'[other] = answer[other]
         /\ State(other)' = State(other)
<1>1. /\ place'[other] = place[other]
      /\ request'[other] = request[other]
      /\ found'[other] = found[other]
      /\ answer'[other] = answer[other]
      /\ result'[other] = result[other]
  BY DEF TypeOK, Call, Steps, Preflight, PreflightFails, CredentialSet,
     CredentialDuplicate, UserCleared, CallRejected, Answers, ReplyConfirms,
     ReplyFails, ReplyMute, Check, At, GoesTo, Ends
<1> QED
  BY <1>1 DEF State

\* Only a task in the entity's lock, at its call, changes the table.
LEMMA OnlyCallsWrite ==
  ASSUME TypeOK, NEW task \in Tasks, Call(task) \/ Steps(task), table' # table
  PROVE  place[task] = "call" /\ place'[task] = "reply" /\ Holds(task)
BY DEF TypeOK, Call, Steps, Preflight, PreflightFails, CredentialSet,
   CredentialDuplicate, UserCleared, CallRejected, Answers, ReplyConfirms,
   ReplyFails, ReplyMute, Check, At, GoesTo

\* The tasks behind the lock, as it is taken, kept and released.
LEMMA WaitingTyped ==
  ASSUME TypeOK, NEW task \in Tasks, Call(task) \/ Steps(task)
  PROVE  waiting' \in Seq(Tasks)
<1>1. CASE Call(task)
  BY <1>1, AppendProperties DEF TypeOK, Call
<1>2. CASE Steps(task)
  <2>1. waiting' = waiting \/ (waiting # <<>> /\ waiting' = Tail(waiting))
    BY <1>2 DEF Steps, Preflight, PreflightFails, CredentialSet,
       CredentialDuplicate, UserCleared, CallRejected, Answers, ReplyConfirms,
       ReplyFails, ReplyMute, Check, At, GoesTo, Ends, Releases, Holds
  <2>2. waiting \in Seq(Tasks)
    BY DEF TypeOK
  <2> QED
    BY <2>1, <2>2, HeadTailProperties
<1> QED
  BY <1>1, <1>2

LEMMA TypeStep ==
  ASSUME TypeOK, Asked, NEW task \in Tasks, Call(task) \/ Steps(task)
  PROVE  TypeOK'
<1>1. waiting' \in Seq(Tasks)
  BY WaitingTyped
<1>2. CASE Call(task)
  BY <1>1, <1>2 DEF TypeOK, Call
<1> DEFINE slot == request[task].slot
<1>3. ASSUME place[task] # "idle"
      PROVE  /\ slot \in Slots
             /\ request[task].op = "set" => request[task].code \in Codes
  BY <1>3, RequestTyped DEF Asked
<1>4. CASE Preflight(task)
  <2>1. {Status(slot), NoData}
          \subseteq [told : BOOLEAN, exists : BOOLEAN, user : Users \cup {None}]
    BY <1>3, <1>4, StatusTyped DEF Preflight, At
  <2>2. PICK status \in {Status(slot), NoData} :
          /\ found' = [found EXCEPT ![task] = status]
          /\ \/ GoesTo(task, "call")
             \/ \E how \in {"verified", "assumed"} : Ends(task, how)
    BY <1>4 DEF Preflight
  <2>3. found' \in [Tasks -> [told : BOOLEAN, exists : BOOLEAN, user : Users \cup {None}]]
    BY <2>1, <2>2 DEF TypeOK
  <2> QED
    BY <1>1, <1>4, <2>2, <2>3 DEF TypeOK, Preflight, At, GoesTo, Ends
<1>5. CASE PreflightFails(task)
  BY <1>1, <1>5 DEF TypeOK, PreflightFails, At, Ends
<1>6. CASE CredentialSet(task)
  <2>1. table' \in Programmed(table, slot, request[task].code, found[task].user)
    BY <1>6 DEF CredentialSet
  <2>2. found[task].user \in Users \cup {None}
    BY DEF TypeOK
  <2>3. table' \in Table
    BY <1>3, <1>6, <2>1, <2>2, ProgrammedTyped DEF TypeOK, CredentialSet, Answers, At
  <2> QED
    BY <1>1, <1>6, <2>3 DEF TypeOK, CredentialSet, Answers, At, GoesTo
<1>7. CASE UserCleared(task)
  <2>1. table' \in Table
    BY <1>3, <1>7, ClearedTyped DEF TypeOK, UserCleared, Answers, At
  <2> QED
    BY <1>1, <1>7, <2>1 DEF TypeOK, UserCleared, Answers, At, GoesTo
<1>8. CASE CredentialDuplicate(task) \/ CallRejected(task)
  BY <1>1, <1>8 DEF TypeOK, CredentialDuplicate, CallRejected, Answers, At, GoesTo
<1>9. CASE ReplyConfirms(task) \/ ReplyFails(task) \/ ReplyMute(task) \/ Check(task)
  BY <1>1, <1>9 DEF TypeOK, ReplyConfirms, ReplyFails, ReplyMute, Check, At, GoesTo, Ends
<1> QED
  BY <1>2, <1>4, <1>5, <1>6, <1>7, <1>8, <1>9 DEF Steps

LEMMA AskedStep ==
  ASSUME TypeOK, Asked, NEW task \in Tasks, Call(task) \/ Steps(task)
  PROVE  Asked'
<1> SUFFICES ASSUME NEW other \in Tasks, place'[other] # "idle"
             PROVE  request'[other] \in Request
  BY DEF Asked
<1>1. CASE other # task
  BY <1>1, OthersStay DEF Asked
<1>2. CASE other = task /\ Call(task)
  BY <1>2 DEF TypeOK, Call
<1>3. CASE other = task /\ Steps(task)
  <2>1. request' = request /\ place[task] # "idle"
    BY <1>3 DEF Steps, Preflight, PreflightFails, CredentialSet,
       CredentialDuplicate, UserCleared, CallRejected, Answers, ReplyConfirms,
       ReplyFails, ReplyMute, Check, At
  <2> QED
    BY <1>3, <2>1 DEF Asked
<1> QED
  BY <1>1, <1>2, <1>3

\* Only the holder moves on or leaves; a call joins behind it.
LEMMA HolderStep ==
  ASSUME TypeOK, HolderOnly, NEW task \in Tasks, Call(task) \/ Steps(task)
  PROVE  HolderOnly'
<1> SUFFICES ASSUME NEW other \in Tasks, place'[other] \in {"call", "reply", "check"}
             PROVE  Holds(other)'
  BY DEF HolderOnly
<1>1. CASE Call(task)
  <2>1. other # task /\ place[other] = place'[other]
    BY <1>1, OthersStay DEF TypeOK, Call
  <2>2. Holds(other)
    BY <2>1 DEF HolderOnly
  <2>3. waiting' # <<>> /\ Head(waiting') = Head(waiting)
    BY <1>1, <2>2, AppendProperties, HeadTailProperties DEF TypeOK, Call, Holds
  <2> QED
    BY <2>2, <2>3 DEF Holds
<1>2. CASE Steps(task)
  <2>1. Holds(task)
    BY <1>2 DEF Steps, Preflight, PreflightFails, CredentialSet,
       CredentialDuplicate, UserCleared, CallRejected, Answers, ReplyConfirms,
       ReplyFails, ReplyMute, Check, At
  <2>2. other = task
    BY <2>1, OthersStay DEF HolderOnly, Holds
  <2>3. place'[task] = "ended" \/ waiting' = waiting
    BY <1>2 DEF TypeOK, Steps, Preflight, PreflightFails, CredentialSet,
       CredentialDuplicate, UserCleared, CallRejected, Answers, ReplyConfirms,
       ReplyFails, ReplyMute, Check, GoesTo, Ends
  <2> QED
    BY <2>1, <2>2, <2>3 DEF Holds
<1> QED
  BY <1>1, <1>2

\* Nobody else writes between a task's preflight and its call.
LEMMA FoundStep ==
  ASSUME TypeOK, HolderOnly, FoundTrue, NEW task \in Tasks, Call(task) \/ Steps(task)
  PROVE  FoundTrue'
<1> SUFFICES ASSUME NEW other \in Tasks, place'[other] = "call"
             PROVE  /\ found'[other] \in {Status(request[other].slot)', NoData}
                    /\ request'[other].op = "clear" => found'[other].exists
  BY DEF FoundTrue, NoData
<1>1. CASE other = task
  <2>1. Preflight(task)
    BY <1>1 DEF TypeOK, Call, Steps, Preflight, PreflightFails, CredentialSet,
       CredentialDuplicate, UserCleared, CallRejected, Answers, ReplyConfirms,
       ReplyFails, ReplyMute, Check, At, GoesTo, Ends
  <2>2. request' = request /\ table' = table
    BY <2>1 DEF Preflight, At
  <2>3. found'[task] \in {Status(request[task].slot), NoData}
    BY <2>1 DEF TypeOK, Preflight
  <2>4. request[task].op = "clear" => found'[task].exists
    BY <1>1, <2>1 DEF TypeOK, Preflight, NothingToClear, Ends
  <2> QED
    BY <1>1, <2>2, <2>3, <2>4 DEF Status, Occupied
<1>2. CASE other # task
  <2>1. /\ place[other] = "call" /\ request'[other] = request[other]
        /\ found'[other] = found[other]
    BY <1>2, OthersStay
  <2>2. table' = table
    BY <1>2, <2>1, OnlyCallsWrite DEF HolderOnly, Holds
  <2> QED
    BY <2>1, <2>2 DEF FoundTrue, Status, Occupied
<1> QED
  BY <1>1, <1>2

LEMMA UnansweredStep ==
  ASSUME TypeOK, Unanswered, NEW task \in Tasks, Call(task) \/ Steps(task)
  PROVE  Unanswered'
<1> SUFFICES ASSUME NEW other \in Tasks, place'[other] \in {"idle", "status", "call"}
             PROVE  answer'[other] = "none"
  BY DEF Unanswered
<1>1. CASE other # task
  BY <1>1, OthersStay DEF Unanswered
<1>2. CASE other = task
  BY <1>2 DEF TypeOK, Unanswered, Call, Steps, Preflight, PreflightFails, CredentialSet,
     CredentialDuplicate, UserCleared, CallRejected, Answers, ReplyConfirms,
     ReplyFails, ReplyMute, Check, At, GoesTo, Ends
<1> QED
  BY <1>1, <1>2

LEMMA InvInit == Init => IInv
BY EmptySeq DEF Init, IInv, TypeOK, HolderOnly, Asked, FoundTrue, Unanswered, NoData

LEMMA InvStep == IInv /\ [Next]_vars => IInv'
<1> SUFFICES ASSUME IInv, [Next]_vars PROVE IInv'
  OBVIOUS
<1>1. CASE UNCHANGED vars
  BY <1>1 DEF vars, IInv, TypeOK, HolderOnly, Holds, Asked, FoundTrue, Unanswered,
     Status, Occupied
<1>2. ASSUME NEW task \in Tasks, Call(task) \/ Steps(task)
      PROVE  IInv'
  BY <1>2, TypeStep, AskedStep, HolderStep, FoundStep, UnansweredStep DEF IInv
<1> QED
  BY <1>1, <1>2 DEF Next

THEOREM Invariance == Spec => []IInv
BY InvInit, InvStep, PTL DEF Spec
-----------------------------------------------------------------------------
\* No set_code that found its slot empty writes over a credential, however
\* many calls there are and in whatever order they run.
THEOREM AddsOnlyToEmpty == Spec => AddOnlyToEmpty
<1>1. ASSUME IInv, NEW task \in Tasks, CredentialSet(task), found[task].told,
             ~found[task].exists
      PROVE  request[task].slot \notin Occupied(table)
  <2>1. found[task] \in {Status(request[task].slot), NoData}
    BY <1>1 DEF IInv, FoundTrue, CredentialSet, Answers, At
  <2>2. ~NoData.told
    BY DEF NoData
  <2>3. found[task] = Status(request[task].slot)
    BY <1>1, <2>1, <2>2
  <2>4. found[task].exists = (request[task].slot \in Occupied(table))
    BY <2>3 DEF Status
  <2> QED
    BY <1>1, <2>4
<1>2. IInv /\ [Next]_vars =>
        [\A task \in Tasks :
           CredentialSet(task) /\ found[task].told /\ ~found[task].exists
             => request[task].slot \notin Occupied(table)]_vars
  BY <1>1
<1> QED
  BY <1>2, Invariance, PTL DEF AddOnlyToEmpty, Spec
-----------------------------------------------------------------------------
(***************************************************************************)
(* The provider implements CodeStore.                                      *)
(***************************************************************************)

\* CodeStore has its own copy of LockTable.
LEMMA SameSlots ==
  /\ Store!Slots = Slots
  /\ Store!Empty = Empty
  /\ Store!Table = Table
  /\ Store!Request = Request
BY DEF Store!Slots, Slots, Store!Empty, Empty, Store!Table, Table,
   Store!Credential, Credential, Store!Request, Request

LEMMA SameTable ==
  ASSUME NEW t, NEW code, NEW slot, NEW user
  PROVE  /\ Store!Occupied(t) = Occupied(t)
         /\ Store!SlotsWith(t, code) = SlotsWith(t, code)
         /\ Store!FreeUsers(t) = FreeUsers(t)
         /\ Store!NoDuplicates(t) <=> NoDuplicates(t)
         /\ Store!Programmed(t, slot, code, user) = Programmed(t, slot, code, user)
         /\ Store!Cleared(t, slot, user) = Cleared(t, slot, user)
<1>1. Store!Occupied(t) = Occupied(t)
  BY SameSlots DEF Store!Occupied, Occupied
<1>2. Store!SlotsWith(t, code) = SlotsWith(t, code)
  BY SameSlots DEF Store!SlotsWith, SlotsWith
<1>3. Store!FreeUsers(t) = FreeUsers(t)
  BY SameSlots DEF Store!FreeUsers, FreeUsers
<1>4. Store!NoDuplicates(t) <=> NoDuplicates(t)
  BY <1>1 DEF Store!NoDuplicates, NoDuplicates
<1>5. Store!Programmed(t, slot, code, user) = Programmed(t, slot, code, user)
  BY <1>1, <1>3 DEF Store!Programmed, Programmed
<1>6. Store!Cleared(t, slot, user) = Cleared(t, slot, user)
  BY SameSlots DEF Store!Cleared, Cleared
<1> QED
  BY <1>1, <1>2, <1>3, <1>4, <1>5, <1>6

\* One task's state moves, the others' stay.
LEMMA StateMoves ==
  ASSUME TypeOK, NEW task \in Tasks, Call(task) \/ Steps(task)
  PROVE  Store!Becomes(task, State(task)')
<1>1. \A other \in Tasks : other # task => State(other)' = State(other)
  BY OthersStay
<1> QED
  BY <1>1 DEF Store!Becomes

LEMMA StoreInit == Init => Store!Init
BY SameSlots, SameTable DEF Init, Store!Init, State

\* A step that moves neither the table nor a state is a stutter.
LEMMA Stutters ==
  ASSUME TypeOK, NEW task \in Tasks, Call(task) \/ Steps(task),
         State(task)' = State(task), table' = table, request' = request
  PROVE  UNCHANGED Store!vars
<1>1. \A other \in Tasks : State(other)' = State(other)
  BY OthersStay
<1> QED
  BY <1>1 DEF Store!vars

\* An operation that ends without the lock's word.
LEMMA EndsUnverified ==
  ASSUME TypeOK, NEW task \in Tasks, Call(task) \/ Steps(task),
         State(task) \in {"asked", "done"}, State(task)' \in {"assumed", "failed"},
         table' = table, request' = request
  PROVE  Store!End(task)
BY StateMoves DEF Store!End

LEMMA PreflightImplements ==
  ASSUME IInv, NEW task \in Tasks, Preflight(task)
  PROVE  Store!End(task) \/ UNCHANGED Store!vars
<1> DEFINE slot == request[task].slot
<1>1. State(task) = "asked" /\ table' = table /\ request' = request /\ Steps(task)
  BY DEF IInv, TypeOK, Unanswered, Preflight, At, Steps, State
<1>2. PICK status \in {Status(slot), NoData} :
        IF NothingToClear(task, status)
        THEN Ends(task, IF status.told THEN "verified" ELSE "assumed")
        ELSE GoesTo(task, "call")
  BY DEF Preflight
<1>3. CASE ~NothingToClear(task, status)
  <2>1. State(task)' = "asked"
    BY <1>2, <1>3 DEF IInv, TypeOK, Unanswered, Preflight, At, GoesTo, State
  <2> QED
    BY <1>1, <2>1, Stutters DEF IInv
<1>4. CASE NothingToClear(task, status) /\ status.told
  <2>1. State(task)' = "verified"
    BY <1>2, <1>4 DEF IInv, TypeOK, Ends, State
  <2>2. request[task].op = "clear" /\ ~status.exists
    BY <1>4 DEF NothingToClear
  <2>3. ~NoData.told
    BY DEF NoData
  <2>4. status = Status(slot)
    BY <1>4, <2>3
  <2>5. status.exists = (slot \in Occupied(table))
    BY <2>4 DEF Status
  <2>6. slot \notin Occupied(table)
    BY <2>2, <2>5
  <2>7. Store!Becomes(task, "verified")
    BY <1>1, <2>1, StateMoves DEF IInv
  <2> QED
    BY <1>1, <2>2, <2>6, <2>7, SameTable DEF Store!End
<1>5. CASE NothingToClear(task, status) /\ ~status.told
  <2>1. State(task)' = "assumed"
    BY <1>2, <1>5 DEF IInv, TypeOK, Ends, State
  <2> QED
    BY <1>1, <2>1, EndsUnverified DEF IInv
<1> QED
  BY <1>3, <1>4, <1>5

\* The user found at the preflight is none on an empty slot.
LEMMA SetImplements ==
  ASSUME IInv, NEW task \in Tasks, CredentialSet(task)
  PROVE  Store!Program(task)
<1> DEFINE slot == request[task].slot
           code == request[task].code
<1>1. State(task) = "asked" /\ State(task)' = "done" /\ request' = request
  BY DEF IInv, TypeOK, Unanswered, CredentialSet, Answers, At, GoesTo, State
<1>2. Store!Becomes(task, "done")
  BY <1>1, StateMoves DEF IInv, Steps
<1>3. slot \in Slots
  BY RequestTyped DEF IInv, Asked, CredentialSet, Answers, At
<1>4. found[task] \in {Status(slot), NoData}
  BY DEF IInv, FoundTrue, CredentialSet, Answers, At
<1>5. slot \in Occupied(table) \/ found[task].user = None
  BY <1>3, <1>4, EmptyHasNobody DEF IInv, TypeOK, Status, NoData
<1>6. Programmed(table, slot, code, found[task].user)
        \subseteq Programmed(table, slot, code, None)
  BY <1>5 DEF Programmed
<1>7. table' \in Programmed(table, slot, code, None) /\ SlotsWith(table, code) \subseteq {slot}
  BY <1>6 DEF CredentialSet
<1>8. request[task].op = "set"
  BY DEF CredentialSet
<1> QED
  BY <1>1, <1>2, <1>7, <1>8, SameTable DEF Store!Program, Store!TakesEffect

LEMMA DuplicateImplements ==
  ASSUME IInv, NEW task \in Tasks, CredentialDuplicate(task)
  PROVE  Store!Duplicate(task)
<1>1. State(task) = "asked" /\ State(task)' = "done" /\ request' = request
  BY DEF IInv, TypeOK, Unanswered, CredentialDuplicate, Answers, At, GoesTo, State
<1>2. Store!Becomes(task, "done")
  BY <1>1, StateMoves DEF IInv, Steps
<1> QED
  BY <1>1, <1>2, SameTable DEF CredentialDuplicate, Store!Duplicate, Store!TakesEffect

\* The user found at the preflight is still the slot's.
LEMMA ClearImplements ==
  ASSUME IInv, NEW task \in Tasks, UserCleared(task)
  PROVE  Store!Erase(task)
<1> DEFINE slot == request[task].slot
<1>1. State(task) = "asked" /\ State(task)' = "done" /\ request' = request
  BY DEF IInv, TypeOK, Unanswered, UserCleared, Answers, At, GoesTo, State
<1>2. Store!Becomes(task, "done")
  BY <1>1, StateMoves DEF IInv, Steps
<1>3. found[task] \in {Status(slot), NoData} /\ found[task].exists
  BY DEF IInv, FoundTrue, UserCleared, Answers, At
<1>4. ~NoData.exists
  BY DEF NoData
<1>5. found[task] = Status(slot)
  BY <1>3, <1>4
<1>6. found[task].user = table[slot].user
      /\ found[task].exists = (slot \in Occupied(table))
  BY <1>5 DEF Status
<1>7. slot \in Occupied(table)
  BY <1>3, <1>6
<1>8. request[task].op = "clear" /\ table' = Cleared(table, slot, table[slot].user)
  BY <1>6 DEF UserCleared, UserToClear
<1> QED
  BY <1>1, <1>2, <1>7, <1>8, SameTable DEF Store!Erase, Store!TakesEffect

LEMMA StoreStep == IInv /\ [Next]_vars => [Store!Next]_Store!vars
<1> SUFFICES ASSUME IInv, [Next]_vars PROVE Store!Next \/ UNCHANGED Store!vars
  OBVIOUS
<1>1. CASE UNCHANGED vars
  BY <1>1 DEF vars, Store!vars, State
<1>2. ASSUME NEW task \in Tasks, Call(task) \/ Steps(task)
      PROVE  \/ Store!Ask(task) \/ Store!Program(task) \/ Store!Duplicate(task)
             \/ Store!Erase(task) \/ Store!End(task) \/ UNCHANGED Store!vars
  <2>1. CASE Call(task)
    <3>1. State(task) = "idle" /\ State(task)' = "asked"
      BY <2>1 DEF IInv, TypeOK, Unanswered, Call, State
    <3>2. Store!Becomes(task, "asked")
      BY <2>1, <3>1, StateMoves DEF IInv
    <3> QED
      BY <2>1, <3>1, <3>2, SameSlots DEF Call, Store!Ask
  <2>2. CASE PreflightFails(task)
    <3>1. State(task) = "asked" /\ State(task)' = "failed"
      BY <2>2 DEF IInv, TypeOK, Unanswered, PreflightFails, At, Ends, State
    <3> QED
      BY <2>2, <3>1, EndsUnverified DEF IInv, Steps, PreflightFails, At
  <2>3. CASE CallRejected(task)
    <3>1. State(task) = "asked" /\ State(task)' = "asked"
      BY <2>3 DEF IInv, TypeOK, Unanswered, CallRejected, Answers, At, GoesTo, State
    <3> QED
      BY <2>3, <3>1, Stutters DEF IInv, Steps, CallRejected, Answers, At
  <2>4. CASE ReplyConfirms(task)
    <3>1. State(task) = "done" /\ State(task)' = "verified"
      BY <2>4 DEF IInv, TypeOK, ReplyConfirms, At, Ends, State
    <3>2. Store!Becomes(task, "verified")
      BY <2>4, <3>1, StateMoves DEF IInv, Steps
    <3> QED
      BY <2>4, <3>1, <3>2 DEF ReplyConfirms, At, Store!End
  <2>5. CASE ReplyMute(task)
    <3>1. State(task)' = State(task)
      BY <2>5 DEF IInv, TypeOK, ReplyMute, At, GoesTo, State
    <3> QED
      BY <2>5, <3>1, Stutters DEF IInv, Steps, ReplyMute, At
  <2>6. CASE ReplyFails(task) \/ Check(task)
    <3>1. State(task) \in {"asked", "done"} /\ State(task)' \in {"assumed", "failed"}
      BY <2>6 DEF IInv, TypeOK, ReplyFails, Check, At, Ends, State
    <3> QED
      BY <2>6, <3>1, EndsUnverified DEF IInv, Steps, ReplyFails, Check, At
  <2> QED
    BY <1>2, <2>1, <2>2, <2>3, <2>4, <2>5, <2>6, PreflightImplements, SetImplements,
       DuplicateImplements, ClearImplements DEF Steps
<1> QED
  BY <1>1, <1>2 DEF Next, Store!Next

\* set_code and clear_code take effect one at a time, and report "verified"
\* only what did, for any calls on a lock with any slots and users.
THEOREM ProviderImplementsCodeStore == Spec => ImplementsCodeStore
BY Invariance, StoreInit, StoreStep, PTL DEF Spec, ImplementsCodeStore, Store!Spec
\* The provider's tasks, the queue for the lock's entity and the table of the
\* lock stay in their types, for any number of calls, slots, codes and users.
THEOREM TypeCorrect == Spec => []TypeOK
<1>1. IInv => TypeOK
  BY DEF IInv
<1> QED
  BY Invariance, <1>1, PTL

-----------------------------------------------------------------------------
(***************************************************************************)
(* The line behind the entity's lock.                                      *)
(***************************************************************************)
InProgress == {"status", "call", "reply", "check"}
Queued(task) == place[task] \in InProgress

\* Those in line are the calls in progress, each of them once.
Line ==
  /\ \A p \in 1..Len(waiting) : Queued(waiting[p])
  /\ \A task \in Tasks : Queued(task) => \E p \in 1..Len(waiting) : waiting[p] = task
  /\ \A p, q \in 1..Len(waiting) : waiting[p] = waiting[q] => p = q

LineInv == IInv /\ Line

LEMMA HeadIsFirst ==
  ASSUME TypeOK, waiting # <<>>
  PROVE  /\ Len(waiting) \in Nat /\ 1 \in 1..Len(waiting)
         /\ Head(waiting) = waiting[1] /\ Head(waiting) \in Tasks
<1>1. waiting \in Seq(Tasks) /\ Len(waiting) \in Nat /\ Len(waiting) # 0
  BY EmptySeq, LenProperties DEF TypeOK
<1> QED
  BY <1>1, HeadTailProperties, ElementOfSeq

\* A call in progress joins the line at its end; others stay where they are.
LEMMA JoinsLine ==
  ASSUME TypeOK, NEW task \in Tasks, Call(task)
  PROVE  /\ Len(waiting') = Len(waiting) + 1 /\ Len(waiting) \in Nat
         /\ \A p \in 1..Len(waiting) : waiting'[p] = waiting[p]
         /\ waiting'[Len(waiting) + 1] = task
         /\ place[task] = "idle" /\ place' = [place EXCEPT ![task] = "status"]
<1>1. waiting \in Seq(Tasks) /\ waiting' = Append(waiting, task)
  BY DEF TypeOK, Call
<1> QED
  BY <1>1, AppendProperties, LenProperties DEF Call

\* What the call in the lock does: its next step, or to leave.
LEMMA HolderMoves ==
  ASSUME TypeOK, NEW task \in Tasks, Steps(task)
  PROVE  /\ waiting # <<>> /\ Head(waiting) = task /\ Queued(task)
         /\ \/ waiting' = waiting /\ place' = [place EXCEPT ![task] = "call"]
               /\ place[task] = "status"
            \/ waiting' = waiting /\ place' = [place EXCEPT ![task] = "reply"]
               /\ place[task] = "call"
            \/ waiting' = waiting /\ place' = [place EXCEPT ![task] = "check"]
               /\ place[task] = "reply"
            \/ waiting' = Tail(waiting) /\ place' = [place EXCEPT ![task] = "ended"]
BY DEF Queued, InProgress, Steps, Preflight, PreflightFails, CredentialSet,
   CredentialDuplicate, UserCleared, CallRejected, Answers, ReplyConfirms,
   ReplyFails, ReplyMute, Check, At, GoesTo, Ends, Releases, Holds

LEMMA LeavesLine ==
  ASSUME TypeOK, waiting # <<>>, waiting' = Tail(waiting)
  PROVE  /\ Len(waiting') = Len(waiting) - 1 /\ Len(waiting) \in Nat
         /\ \A p \in 1..Len(waiting') : p + 1 \in 1..Len(waiting) /\ waiting'[p] = waiting[p + 1]
         /\ \A p \in 1..Len(waiting) : p # 1 => p - 1 \in 1..Len(waiting')
                                             /\ waiting'[p - 1] = waiting[p]
<1>1. waiting \in Seq(Tasks) /\ Len(waiting) \in Nat
  BY LenProperties DEF TypeOK
<1>2. /\ Len(waiting') = Len(waiting) - 1
      /\ \A p \in 1..Len(waiting') : waiting'[p] = waiting[p + 1]
  BY <1>1, HeadTailProperties
<1>3. ASSUME NEW p \in 1..Len(waiting), p # 1
      PROVE  p - 1 \in 1..Len(waiting') /\ waiting'[p - 1] = waiting[p]
  <2>1. p - 1 \in 1..Len(waiting') /\ p - 1 + 1 = p
    BY <1>1, <1>2, <1>3
  <2> QED
    BY <1>2, <2>1
<1> QED
  BY <1>1, <1>2, <1>3

LEMMA LineStep ==
  ASSUME LineInv, NEW task \in Tasks, Call(task) \/ Steps(task)
  PROVE  Line'
<1>1. TypeOK /\ Line
  BY DEF LineInv, IInv
<1>2. CASE Call(task)
  <2>1. /\ Len(waiting') = Len(waiting) + 1 /\ Len(waiting) \in Nat
        /\ \A p \in 1..Len(waiting) : waiting'[p] = waiting[p]
        /\ waiting'[Len(waiting) + 1] = task
        /\ place[task] = "idle" /\ place' = [place EXCEPT ![task] = "status"]
    BY <1>1, <1>2, JoinsLine
  <2>2. /\ 1..Len(waiting') = 1..Len(waiting) \cup {Len(waiting) + 1}
        /\ Len(waiting) + 1 \notin 1..Len(waiting)
    BY <2>1
  <2>3. \A p \in 1..Len(waiting) : waiting[p] # task /\ waiting[p] \in Tasks
    BY <1>1, <2>1, ElementOfSeq DEF Line, Queued, InProgress, TypeOK
  <2>4. \A p \in 1..Len(waiting') : place'[waiting'[p]] \in InProgress
    BY <1>1, <2>1, <2>2, <2>3 DEF Line, Queued, InProgress, TypeOK
  <2>5. \A p, q \in 1..Len(waiting') : waiting'[p] = waiting'[q] => p = q
    BY <1>1, <2>1, <2>2, <2>3 DEF Line
  <2>6. ASSUME NEW other \in Tasks, Queued(other)'
        PROVE  \E p \in 1..Len(waiting') : waiting'[p] = other
    <3>1. CASE other = task
      BY <2>1, <2>2, <3>1
    <3>2. CASE other # task
      <4>1. Queued(other)
        BY <1>1, <2>1, <2>6, <3>2 DEF Queued, InProgress, TypeOK
      <4> QED
        BY <1>1, <2>1, <2>2, <4>1 DEF Line
    <3> QED
      BY <3>1, <3>2
  <2> QED
    BY <2>4, <2>5, <2>6 DEF Line, Queued, InProgress
<1>3. CASE Steps(task)
  <2>1. waiting # <<>> /\ Head(waiting) = task /\ Queued(task)
    BY <1>1, <1>3, HolderMoves
  <2>2. CASE waiting' = waiting
    <3>1. \A other \in Tasks : Queued(other)' <=> Queued(other)
      BY <1>1, <1>3, <2>1, <2>2, HolderMoves, LeavesLine DEF Queued, InProgress, TypeOK
    <3>2. \A p \in 1..Len(waiting) : waiting[p] \in Tasks
      BY <1>1, ElementOfSeq DEF TypeOK
    <3> QED
      BY <1>1, <2>2, <3>1, <3>2 DEF Line, Queued, InProgress
  <2>3. CASE waiting' = Tail(waiting) /\ place' = [place EXCEPT ![task] = "ended"]
    <3>1. /\ Len(waiting') = Len(waiting) - 1 /\ Len(waiting) \in Nat
          /\ \A p \in 1..Len(waiting') : p + 1 \in 1..Len(waiting) /\ waiting'[p] = waiting[p + 1]
          /\ \A p \in 1..Len(waiting) : p # 1 => p - 1 \in 1..Len(waiting')
                                              /\ waiting'[p - 1] = waiting[p]
      BY <1>1, <2>1, <2>3, LeavesLine
    <3>2. 1 \in 1..Len(waiting) /\ waiting[1] = task
      BY <1>1, <2>1, HeadIsFirst
    <3>3. ASSUME NEW p \in 1..Len(waiting') PROVE place'[waiting'[p]] \in InProgress
      <4>1. p + 1 \in 1..Len(waiting) /\ p + 1 # 1 /\ waiting'[p] = waiting[p + 1]
        BY <3>1
      <4>2. waiting[p + 1] \in Tasks /\ Queued(waiting[p + 1])
        BY <1>1, <4>1, ElementOfSeq DEF Line, TypeOK
      <4>3. waiting[p + 1] # task
        BY <1>1, <3>2, <4>1 DEF Line
      <4> QED
        BY <1>1, <2>3, <4>1, <4>2, <4>3 DEF Queued, InProgress, TypeOK
    <3>4. ASSUME NEW p \in 1..Len(waiting'), NEW q \in 1..Len(waiting'),
                 waiting'[p] = waiting'[q]
          PROVE  p = q
      <4>1. p + 1 = q + 1
        BY <1>1, <3>1, <3>4 DEF Line
      <4> QED
        BY <3>1, <4>1
    <3>5. ASSUME NEW other \in Tasks, Queued(other)'
          PROVE  \E p \in 1..Len(waiting') : waiting'[p] = other
      <4>1. other # task /\ Queued(other)
        BY <1>1, <2>3, <3>5 DEF Queued, InProgress, TypeOK
      <4>2. PICK p \in 1..Len(waiting) : waiting[p] = other
        BY <1>1, <4>1 DEF Line
      <4>3. p # 1
        BY <3>2, <4>1, <4>2
      <4> QED
        BY <3>1, <4>2, <4>3
    <3> QED
      BY <3>3, <3>4, <3>5 DEF Line, Queued, InProgress
  <2> QED
    BY <1>1, <1>3, <2>2, <2>3, HolderMoves
<1> QED
  BY <1>2, <1>3

LEMMA LineInitStep ==
  /\ Init => LineInv
  /\ LineInv /\ [Next]_vars => LineInv'
<1>1. Init => LineInv
  BY InvInit DEF Init, LineInv, Line, Queued, InProgress
<1>2. ASSUME LineInv, [Next]_vars PROVE LineInv'
  <2>1. IInv'
    BY <1>2, InvStep DEF LineInv
  <2>2. CASE UNCHANGED vars
    BY <1>2, <2>1, <2>2 DEF vars, LineInv, Line, Queued, InProgress
  <2>3. CASE Next
    BY <1>2, <2>1, <2>3, LineStep DEF Next, LineInv
  <2> QED
    BY <1>2, <2>2, <2>3
<1> QED
  BY <1>1, <1>2

\* The entity's lock is never lost: whenever it is held or waited for, the
\* holder is a call in progress, and nobody is in line twice or left out.
THEOREM LockNeverLost == Spec => []Line
<1>1. LineInv => Line
  BY DEF LineInv
<1> QED
  BY <1>1, LineInitStep, PTL DEF Spec
-----------------------------------------------------------------------------
(***************************************************************************)
(* How far a call is from its end: those before it, and what the one in    *)
(* the lock still has to await.                                            *)
(***************************************************************************)
Position(line, task) == CHOOSE p \in 1..Len(line) : line[p] = task

AwaitsLeft(where) ==
  CASE where = "status" -> 4 [] where = "call" -> 3
    [] where = "reply" -> 2 [] where = "check" -> 1 [] OTHER -> 0

Distance(task) == 4 * Position(waiting, task) + AwaitsLeft(place[Head(waiting)])

\* Every step of anybody's brings a call in progress nearer to its end, but
\* for new calls, which join the line behind it.
DrawsNear ==
  [][\A task \in Tasks : Queued(task) =>
       \/ place'[task] = "ended"
       \/ Distance(task)' \in Nat /\ Distance(task)' < Distance(task)
       \/ Distance(task)' = Distance(task) /\ \E other \in Tasks : Call(other)]_vars

LEMMA PositionIs ==
  ASSUME NEW line, NEW p \in 1..Len(line),
         \A q \in 1..Len(line) : line[q] = line[p] => q = p
  PROVE  Position(line, line[p]) = p
BY DEF Position

LEMMA CallNearer ==
  ASSUME LineInv, LineInv', NEW task \in Tasks, Queued(task),
         NEW other \in Tasks, Call(other)
  PROVE  Distance(task)' = Distance(task)
<1>1. TypeOK /\ Line /\ Line'
  BY DEF LineInv, IInv
<1>2. PICK p \in 1..Len(waiting) : waiting[p] = task
  BY <1>1 DEF Line
<1>3. /\ Len(waiting') = Len(waiting) + 1 /\ Len(waiting) \in Nat
      /\ \A q \in 1..Len(waiting) : waiting'[q] = waiting[q]
      /\ place[other] = "idle" /\ place' = [place EXCEPT ![other] = "status"]
  BY <1>1, JoinsLine
<1>4. p \in 1..Len(waiting') /\ waiting'[p] = task
  BY <1>2, <1>3
<1>5. Position(waiting, task) = p /\ Position(waiting', task) = p
  <2>1. Position(waiting, waiting[p]) = p
    BY <1>1, <1>2, PositionIs DEF Line
  <2>2. \A q \in 1..Len(waiting') : waiting'[q] = waiting'[p] => q = p
    BY <1>1, <1>4 DEF Line
  <2>3. Position(waiting', waiting'[p]) = p
    BY <1>4, <2>2, PositionIs
  <2> QED
    BY <1>2, <1>4, <2>1, <2>3
<1>6. waiting # <<>> /\ waiting' # <<>>
  <2>1. Len(waiting) # 0 /\ Len(waiting') # 0
    BY <1>2, <1>3
  <2> QED
    BY <2>1, EmptySeq
<1>7. Head(waiting) = waiting[1] /\ 1 \in 1..Len(waiting) /\ Head(waiting) \in Tasks
  BY <1>1, <1>6, HeadIsFirst
<1>8. Head(waiting') = Head(waiting)
  <2>1. TypeOK'
    BY DEF LineInv, IInv
  <2>2. Head(waiting') = waiting'[1]
    BY <1>6, <2>1, HeadTailProperties, HeadIsFirst DEF TypeOK
  <2> QED
    BY <1>3, <1>7, <2>2
<1>9. place'[Head(waiting)] = place[Head(waiting)]
  <2>1. Queued(Head(waiting))
    BY <1>1, <1>7 DEF Line
  <2> QED
    BY <1>1, <1>3, <1>7, <2>1 DEF Queued, InProgress, TypeOK
<1> QED
  BY <1>5, <1>8, <1>9 DEF Distance

LEMMA StepNearer ==
  ASSUME LineInv, LineInv', NEW task \in Tasks, Queued(task),
         NEW other \in Tasks, Steps(other), place'[task] # "ended"
  PROVE  Distance(task)' \in Nat /\ Distance(task)' < Distance(task)
<1>1. TypeOK /\ Line /\ Line' /\ HolderOnly
  BY DEF LineInv, IInv
<1>2. PICK p \in 1..Len(waiting) : waiting[p] = task
  BY <1>1 DEF Line
<1>3. waiting # <<>> /\ Head(waiting) = other /\ Queued(other)
  BY <1>1, HolderMoves
<1>4. 1 \in 1..Len(waiting) /\ waiting[1] = other /\ Len(waiting) \in Nat /\ p \in Nat
  BY <1>1, <1>3, HeadIsFirst
<1>5. Position(waiting, task) = p
  BY <1>1, <1>2, PositionIs DEF Line
<1>6. CASE /\ waiting' = waiting
           /\ \/ place' = [place EXCEPT ![other] = "call"] /\ place[other] = "status"
              \/ place' = [place EXCEPT ![other] = "reply"] /\ place[other] = "call"
              \/ place' = [place EXCEPT ![other] = "check"] /\ place[other] = "reply"
  <2>1. /\ AwaitsLeft(place[other]) \in Nat /\ AwaitsLeft(place'[other]) \in Nat
        /\ AwaitsLeft(place'[other]) < AwaitsLeft(place[other])
    BY <1>1, <1>6 DEF TypeOK, AwaitsLeft
  <2>2. Distance(task)' = 4 * p + AwaitsLeft(place'[other])
        /\ Distance(task) = 4 * p + AwaitsLeft(place[other])
    BY <1>3, <1>5, <1>6 DEF Distance
  <2> QED
    BY <1>4, <2>1, <2>2
<1>7. CASE waiting' = Tail(waiting) /\ place' = [place EXCEPT ![other] = "ended"]
  <2>1. /\ Len(waiting') = Len(waiting) - 1
        /\ \A q \in 1..Len(waiting') : q + 1 \in 1..Len(waiting) /\ waiting'[q] = waiting[q + 1]
        /\ \A q \in 1..Len(waiting) : q # 1 => q - 1 \in 1..Len(waiting')
                                            /\ waiting'[q - 1] = waiting[q]
    BY <1>1, <1>3, <1>7, LeavesLine
  <2>2. task # other /\ p # 1
    BY <1>1, <1>2, <1>4, <1>7 DEF TypeOK
  <2>3. p - 1 \in 1..Len(waiting') /\ waiting'[p - 1] = task
    BY <1>2, <2>1, <2>2
  <2>4. Position(waiting', task) = p - 1
    BY <1>1, <2>3, PositionIs DEF Line
  <2>5. waiting' # <<>>
    <3>1. Len(waiting') # 0
      BY <1>4, <2>1, <2>3
    <3> QED
      BY <3>1, EmptySeq
  <2> DEFINE first == Head(waiting')
  <2>6. first \in Tasks /\ first # other /\ place'[first] \in InProgress
    <3>1. TypeOK' /\ waiting' \in Seq(Tasks)
      BY DEF LineInv, IInv, TypeOK
    <3>2. first = waiting'[1] /\ 1 \in 1..Len(waiting') /\ first \in Tasks
      BY <2>5, <3>1, HeadTailProperties, HeadIsFirst, <1>4, <2>1, <2>3
    <3>3. first = waiting[2] /\ 2 \in 1..Len(waiting)
      BY <2>1, <3>2
    <3>4. first # other
      BY <1>1, <1>4, <3>3 DEF Line
    <3> QED
      BY <1>1, <3>2, <3>4 DEF Line, Queued
  <2>7. place'[first] = place[first]
    BY <1>1, <1>7, <2>6 DEF TypeOK
  <2>8. place[first] = "status"
    BY <1>1, <1>3, <2>6, <2>7 DEF HolderOnly, Holds, InProgress
  <2>9. AwaitsLeft(place'[first]) = 4
    BY <2>7, <2>8 DEF AwaitsLeft
  <2>10. AwaitsLeft(place[other]) \in Nat /\ AwaitsLeft(place[other]) > 0
    BY <1>3 DEF Queued, InProgress, AwaitsLeft
  <2>11. Distance(task)' = 4 * (p - 1) + 4
         /\ Distance(task) = 4 * p + AwaitsLeft(place[other])
    BY <1>3, <1>5, <2>4, <2>9 DEF Distance
  <2> QED
    BY <1>4, <2>2, <2>10, <2>11
<1> QED
  BY <1>1, <1>6, <1>7, HolderMoves

\* A call in progress is never put back: at most four awaits for each call
\* before it, and its own, and it is at its end.
THEOREM CallsDrawNear == Spec => DrawsNear
<1>1. ASSUME LineInv, LineInv', [Next]_vars, NEW task \in Tasks, Queued(task)
      PROVE  \/ UNCHANGED vars
             \/ place'[task] = "ended"
             \/ Distance(task)' \in Nat /\ Distance(task)' < Distance(task)
             \/ Distance(task)' = Distance(task) /\ \E other \in Tasks : Call(other)
  <2>1. ASSUME NEW other \in Tasks, Call(other) PROVE Distance(task)' = Distance(task)
    BY <1>1, <2>1, CallNearer
  <2>2. ASSUME NEW other \in Tasks, Steps(other), place'[task] # "ended"
        PROVE  Distance(task)' \in Nat /\ Distance(task)' < Distance(task)
    BY <1>1, <2>2, StepNearer
  <2> HIDE DEF Distance, Call, Steps
  <2> QED
    BY <1>1, <2>1, <2>2 DEF Next
<1>2. LineInv /\ LineInv' /\ [Next]_vars =>
        [\A task \in Tasks : Queued(task) =>
           \/ place'[task] = "ended"
           \/ Distance(task)' \in Nat /\ Distance(task)' < Distance(task)
           \/ Distance(task)' = Distance(task) /\ \E other \in Tasks : Call(other)]_vars
  <2> HIDE DEF Distance, Call
  <2> QED
    BY <1>1
<1> QED
  BY <1>2, LineInitStep, PTL DEF Spec, DrawsNear
-----------------------------------------------------------------------------
(***************************************************************************)
(* A read beside the calls.                                                *)
(***************************************************************************)
Rows == {"skipped", "occupied", "empty"}

\* While a read goes on, the slots as they are now are among its moments.
ReadsInv ==
  /\ next \in [Readers -> Nat]
  /\ reported \in [Readers -> [Slots -> Rows]]
  /\ moments \in [Readers -> SUBSET SUBSET Slots]
  /\ \A reader \in Readers : next[reader] \in Slots => Occupied(table) \in moments[reader]
  /\ RowsHeld

LEMMA MomentsGrow ==
  ASSUME ReadsInv, Watched, next' \in [Readers -> Nat]
  PROVE  /\ moments' \in [Readers -> SUBSET SUBSET Slots]
         /\ \A reader \in Readers : moments[reader] \subseteq moments'[reader]
         /\ \A reader \in Readers : next'[reader] \in Slots =>
              Occupied(table') \in moments'[reader]
<1>1. Occupied(table') \in SUBSET Slots
  BY DEF Occupied
<1> DEFINE now == Occupied(table')
<1> HIDE DEF now
<1>2. moments' = [reader \in Readers |->
                    IF next'[reader] \in Slots THEN moments[reader] \cup {now}
                    ELSE moments[reader]]
  BY DEF Watched, now
<1>3. moments \in [Readers -> SUBSET SUBSET Slots] /\ now \in SUBSET Slots
  BY <1>1 DEF ReadsInv, now
<1>4. now = Occupied(table')
  BY DEF now
<1> QED
  BY <1>2, <1>3, <1>4

LEMMA ReadsStep == ReadsInv /\ [NextReads]_allVars => ReadsInv'
<1> SUFFICES ASSUME ReadsInv, [NextReads]_allVars PROVE ReadsInv'
  OBVIOUS
<1>1. CASE UNCHANGED allVars
  BY <1>1 DEF allVars, readVars, vars, ReadsInv, RowsHeld, Occupied
<1> DEFINE Tells(kind, slot, seen) ==
             kind # "skipped" => \E moment \in seen : kind = "occupied" <=> slot \in moment
<1>2. ASSUME Watched, next' \in [Readers -> Nat],
             reported' \in [Readers -> [Slots -> Rows]],
             \A reader \in Readers, slot \in Slots :
               \/ reported'[reader][slot] = reported[reader][slot]
               \/ /\ Occupied(table) \in moments[reader]
                  /\ reported'[reader][slot] =
                       IF slot \in Occupied(table) THEN "occupied" ELSE "empty"
      PROVE  ReadsInv'
  <2>1. /\ moments' \in [Readers -> SUBSET SUBSET Slots]
        /\ \A reader \in Readers : moments[reader] \subseteq moments'[reader]
        /\ \A reader \in Readers : next'[reader] \in Slots =>
             Occupied(table') \in moments'[reader]
    BY <1>2, MomentsGrow
  <2>2. ASSUME NEW reader \in Readers, NEW slot \in Slots
        PROVE  Tells(reported'[reader][slot], slot, moments'[reader])
    <3>1. Tells(reported[reader][slot], slot, moments[reader])
      BY DEF ReadsInv, RowsHeld
    <3>2. CASE reported'[reader][slot] = reported[reader][slot]
      BY <2>1, <3>1, <3>2
    <3>3. CASE /\ Occupied(table) \in moments[reader]
               /\ reported'[reader][slot] =
                    IF slot \in Occupied(table) THEN "occupied" ELSE "empty"
      BY <2>1, <3>3
    <3> QED
      BY <1>2, <3>2, <3>3
  <2>3. RowsHeld'
    BY <2>2 DEF RowsHeld
  <2>4. \A reader \in Readers : (next'[reader] \in Slots =>
                                   Occupied(table)' \in moments'[reader])
    BY <2>1 DEF Occupied
  <2> QED
    BY <1>2, <2>1, <2>3, <2>4 DEF ReadsInv
<1>3. CASE Next /\ UNCHANGED readVars /\ Watched
  BY <1>2, <1>3 DEF readVars, ReadsInv
<1>4. ASSUME NEW reader \in Readers, ReadBegins(reader), Watched PROVE ReadsInv'
  <2>1. next' = [next EXCEPT ![reader] = 1] /\ reported' = reported
    BY <1>4 DEF ReadBegins
  <2>2. next' \in [Readers -> Nat]
    BY <2>1 DEF ReadsInv
  <2> QED
    BY <1>2, <1>4, <2>1, <2>2 DEF ReadsInv
<1>5. ASSUME NEW reader \in Readers, ReadSlot(reader), Watched PROVE ReadsInv'
  <2> DEFINE slot == next[reader]
             row == IF slot \in Occupied(table) THEN "occupied" ELSE "empty"
  <2>1. /\ slot \in Slots /\ next' = [next EXCEPT ![reader] = slot + 1]
        /\ reported' \in {reported, [reported EXCEPT ![reader][slot] = row]}
    BY <1>5 DEF ReadSlot, Status
  <2>2. next' \in [Readers -> Nat]
    BY <2>1 DEF ReadsInv
  <2>3. Occupied(table) \in moments[reader]
    BY <2>1 DEF ReadsInv
  <2>4. row \in Rows
    BY DEF Rows
  <2> HIDE DEF row
  <2>5. reported' \in [Readers -> [Slots -> Rows]]
    <3>1. reported[reader] \in [Slots -> Rows]
      BY DEF ReadsInv
    <3>2. [reported[reader] EXCEPT ![slot] = row] \in [Slots -> Rows]
      BY <2>4, <3>1
    <3>3. reported' \in {reported,
                       [reported EXCEPT ![reader] = [@ EXCEPT ![slot] = row]]}
      BY <2>1
    <3> QED
      BY <3>2, <3>3 DEF ReadsInv
  <2>6. ASSUME NEW r \in Readers, NEW s \in Slots
        PROVE  \/ reported'[r][s] = reported[r][s]
               \/ r = reader /\ s = slot /\ reported'[r][s] = row
    BY <2>1 DEF ReadsInv
  <2> QED
    BY <1>2, <1>5, <2>2, <2>3, <2>5, <2>6 DEF row
<1> QED
  BY <1>1, <1>3, <1>4, <1>5 DEF NextReads

\* A read takes no lock and is no snapshot (the run read_sees_half), but none of
\* its rows is of a slot that never was so while it ran, whoever sets and clears.
THEOREM ReadsTell == SpecReads => []RowsHeld
<1>1. InitReads => ReadsInv
  BY DEF InitReads, ReadsInv, RowsHeld, Rows, Slots
<1>2. ReadsInv => RowsHeld
  BY DEF ReadsInv
<1> QED
  BY <1>1, <1>2, ReadsStep, PTL DEF SpecReads
=============================================================================
