-------------------------- MODULE ZwaveLockProofs ---------------------------
(***************************************************************************)
(* What is proved of ZwaveLock for any number of calls, codes and retries. *)
(***************************************************************************)
EXTENDS ZwaveLock, SequenceTheorems, TLAPS

\* While a task runs, neither the lock nor the cache comes to its code unseen.
SeenHeld == \A task \in Tasks : Running(task) =>
  /\ held = InUse(request[task]) => wasHeld[task]
  /\ cache = InUse(request[task]) =>
       wasHeld[task] \/ atCall[task] = InUse(request[task])

\* "before" is the cache of the call, unless it could not be read.
BeforeOfCall == \A task \in Tasks : Running(task) =>
  before[task] \in {atCall[task], None}

Requested == \A task \in Tasks : Running(task) => request[task] \in Codes

Unended == \A task \in Tasks : place[task] # "ended" => result[task] = "none"

IInv == TypeOK /\ SeenHeld /\ BeforeOfCall /\ Requested /\ Unended /\ VerifiedWasHeld
-----------------------------------------------------------------------------
LEMMA InUseTyped ==
  ASSUME NEW code \in Codes
  PROVE  InUse(code) \in Slot
BY DEF InUse, Slot

LEMMA ClearedTyped == Cleared \in Slot
BY DEF Cleared, Slot


LEMMA ConfirmedIsInUse ==
  ASSUME NEW reading \in Slot, NEW code, Confirms(reading, code)
  PROVE  reading = InUse(code)
BY DEF Confirms, Slot, InUse

LEMMA InitHolds == Init => IInv
<1> SUFFICES ASSUME Init PROVE IInv
  OBVIOUS
<1>1. TypeOK
  BY RetriesAssumption DEF Init, TypeOK, Errors
<1> QED
  BY <1>1 DEF Init, IInv, SeenHeld, BeforeOfCall, Requested, Unended,
              VerifiedWasHeld, Running

\* A task that fails ends or tries again; its other variables stay.
LEMMA FailsKeeps ==
  ASSUME IInv, NEW task \in Tasks, Running(task), NEW error \in Errors,
         Fails(task, error)
  PROVE  /\ place' \in [Tasks -> {"idle", "write", "ask", "read", "ended"}]
         /\ attempt' \in [Tasks -> 0..MaxRetries]
         /\ result' \in [Tasks -> Errors \cup {"verified", "cleared"}]
         /\ before' = before
         /\ \A other \in Tasks :
              /\ Running(other)' => Running(other)
              /\ place'[other] # "ended" => place[other] # "ended" /\ result'[other] = result[other]
              /\ result'[other] = "verified" => result[other] = "verified"
<1> USE RetriesAssumption
<1>1. CASE attempt[task] = MaxRetries
  BY <1>1 DEF Fails, Ends, IInv, TypeOK, Errors, Running
<1>2. CASE attempt[task] # MaxRetries
  <2>1. /\ attempt' = [attempt EXCEPT ![task] = @ + 1]
        /\ place' = [place EXCEPT ![task] = "write"]
        /\ before' = before /\ result' = result
    BY <1>2 DEF Fails
  <2>2. attempt[task] + 1 \in 0..MaxRetries
    BY <1>2 DEF IInv, TypeOK
  <2>3. attempt' \in [Tasks -> 0..MaxRetries]
    BY <2>1, <2>2 DEF IInv, TypeOK
  <2> QED
    BY <2>1, <2>3 DEF IInv, TypeOK, Running
<1> QED
  BY <1>1, <1>2

\* What a step of a running task owes, given what it leaves alone.
LEMMA CallerKeeps ==
  ASSUME IInv, NEW task \in Tasks, Running(task), NEW where, At(task, where),
         place' \in [Tasks -> {"idle", "write", "ask", "read", "ended"}],
         attempt' \in [Tasks -> 0..MaxRetries],
         result' \in [Tasks -> Errors \cup {"verified", "cleared"}],
         before' = before,
         pending' \in Seq(Codes \cup {None}),
         cache' \in {cache, held},
         \A other \in Tasks :
           /\ Running(other)' => Running(other)
           /\ place'[other] # "ended" => place[other] # "ended" /\ result'[other] = result[other]
           /\ result'[other] = "verified" =>
                \/ result[other] = "verified"
                \/ Running(other) /\ cache = InUse(request[other])
  PROVE  IInv'
<1>1. UNCHANGED <<held, request, atCall, wasHeld>>
  BY DEF At
<1>2. TypeOK'
  BY <1>1 DEF IInv, TypeOK
<1>3. SeenHeld'
  BY <1>1 DEF IInv, SeenHeld, InUse
<1>4. BeforeOfCall' /\ Requested'
  BY <1>1 DEF IInv, BeforeOfCall, Requested
<1>5. Unended'
  BY <1>1 DEF IInv, Unended
<1>6. VerifiedWasHeld'
  BY <1>1 DEF IInv, VerifiedWasHeld, SeenHeld, InUse
<1> QED
  BY <1>2, <1>3, <1>4, <1>5, <1>6 DEF IInv

\* The commands underway stay well typed as one is added or taken.
LEMMA QueueTyped ==
  ASSUME TypeOK
  PROVE  /\ \A code \in Codes \cup {None} : Append(pending, code) \in Seq(Codes \cup {None})
         /\ pending # <<>> => /\ Tail(pending) \in Seq(Codes \cup {None})
                             /\ Head(pending) \in Codes \cup {None}
BY AppendProperties, HeadTailProperties DEF TypeOK

LEMMA HoldsKeeps ==
  ASSUME IInv, NEW slot \in Slot, Holds(slot), pending' \in Seq(Codes \cup {None})
  PROVE  IInv'
<1>1. UNCHANGED <<cache, place, request, before, attempt, result, atCall>> /\ held' = slot
  BY DEF Holds, taskVars
<1>2. wasHeld' = [task \in Tasks |->
                    wasHeld[task] \/ (Running(task) /\ slot = InUse(request[task]))]
  BY DEF Holds
<1>3. wasHeld' \in [Tasks -> BOOLEAN]
  BY <1>2 DEF IInv, TypeOK
<1>4. TypeOK'
  BY <1>1, <1>3 DEF IInv, TypeOK
<1>5. \A task \in Tasks : Running(task)' <=> Running(task)
  BY <1>1 DEF Running
<1>6. \A task \in Tasks : wasHeld[task] => wasHeld'[task]
  BY <1>2
<1>7. SeenHeld'
  BY <1>1, <1>2, <1>5, <1>6 DEF IInv, SeenHeld, InUse
<1>8. BeforeOfCall' /\ Requested' /\ Unended'
  BY <1>1, <1>5 DEF IInv, BeforeOfCall, Requested, Unended
<1>9. VerifiedWasHeld'
  BY <1>1, <1>6 DEF IInv, VerifiedWasHeld, InUse
<1> QED
  BY <1>4, <1>7, <1>8, <1>9 DEF IInv

LEMMA SetCodeKeeps ==
  ASSUME IInv, NEW task \in Tasks, SetCode(task)
  PROVE  IInv'
<1>1. PICK code \in Codes :
        /\ request' = [request EXCEPT ![task] = code]
        /\ wasHeld' = [wasHeld EXCEPT ![task] = held = InUse(code)]
  BY DEF SetCode
<1>2. PICK reading \in Readings : before' = [before EXCEPT ![task] = reading]
  BY DEF SetCode
<1>3. /\ place[task] = "idle" /\ place' = [place EXCEPT ![task] = "write"]
      /\ atCall' = [atCall EXCEPT ![task] = cache]
      /\ UNCHANGED <<held, pending, cache, attempt, result>>
  BY DEF SetCode
<1>4. TypeOK'
  BY <1>1, <1>2, <1>3 DEF IInv, TypeOK, Readings
<1>5. \A other \in Tasks : other # task =>
        /\ Running(other)' <=> Running(other)
        /\ place'[other] = place[other] /\ request'[other] = request[other]
        /\ before'[other] = before[other] /\ atCall'[other] = atCall[other]
        /\ wasHeld'[other] = wasHeld[other]
  BY <1>1, <1>2, <1>3 DEF IInv, TypeOK, Running
<1>6. /\ request'[task] = code /\ wasHeld'[task] = (held = InUse(code))
      /\ before'[task] = reading /\ atCall'[task] = cache
      /\ place'[task] = "write" /\ result'[task] = "none"
  BY <1>1, <1>2, <1>3 DEF IInv, TypeOK, Unended
<1>7. SeenHeld'
  BY <1>3, <1>5, <1>6 DEF IInv, SeenHeld, InUse
<1>8. BeforeOfCall' /\ Requested'
  BY <1>3, <1>5, <1>6 DEF IInv, BeforeOfCall, Requested, Readings
<1>9. Unended'
  BY <1>3, <1>5, <1>6 DEF IInv, Unended
<1>10. VerifiedWasHeld'
  BY <1>3, <1>5, <1>6 DEF IInv, VerifiedWasHeld, InUse
<1> QED
  BY <1>4, <1>7, <1>8, <1>9, <1>10 DEF IInv

LEMMA ClearCodeKeeps ==
  ASSUME IInv, NEW task \in Tasks, ClearCode(task)
  PROVE  IInv'
<1>1. /\ place[task] = "idle" /\ place' = [place EXCEPT ![task] = "ended"]
      /\ UNCHANGED <<held, cache, request, before, attempt, atCall, wasHeld>>
  BY DEF ClearCode, Ends
<1>2. PICK how \in {"cleared", "raised"} : result' = [result EXCEPT ![task] = how]
  BY DEF ClearCode, Ends
<1>3. pending' = pending \/ pending' = Append(pending, None)
  BY DEF ClearCode
<1>4. TypeOK'
  BY <1>1, <1>2, <1>3, QueueTyped DEF IInv, TypeOK, Errors
<1>5. \A other \in Tasks : /\ Running(other)' => Running(other)
                           /\ other # task => place'[other] = place[other]
                                              /\ result'[other] = result[other]
  BY <1>1, <1>2 DEF IInv, TypeOK, Running
<1>6. place'[task] = "ended" /\ result'[task] # "verified"
  BY <1>1, <1>2 DEF IInv, TypeOK
<1>7. SeenHeld' /\ BeforeOfCall' /\ Requested'
  BY <1>1, <1>5 DEF IInv, SeenHeld, BeforeOfCall, Requested, InUse
<1>8. Unended' /\ VerifiedWasHeld'
  BY <1>1, <1>5, <1>6 DEF IInv, Unended, VerifiedWasHeld, InUse
<1> QED
  BY <1>4, <1>7, <1>8 DEF IInv

LEMMA StepsKeep ==
  ASSUME IInv, NEW task \in Tasks, Steps(task)
  PROVE  IInv'
<1> DEFINE Keeps ==
      /\ Running(task)
      /\ place' \in [Tasks -> {"idle", "write", "ask", "read", "ended"}]
      /\ attempt' \in [Tasks -> 0..MaxRetries]
      /\ result' \in [Tasks -> Errors \cup {"verified", "cleared"}]
      /\ before' = before
      /\ \A other \in Tasks :
           /\ Running(other)' => Running(other)
           /\ place'[other] # "ended" => place[other] # "ended" /\ result'[other] = result[other]
           /\ result'[other] = "verified" =>
                \/ result[other] = "verified"
                \/ Running(other) /\ cache = InUse(request[other])
<1>1. ASSUME NEW where \in {"write", "ask", "read"}, place[task] = where,
             \/ \E error \in Errors : Fails(task, error)
             \/ \E next \in {"ask", "read"} : GoesTo(task, next)
      PROVE  Keeps
  <2>1. Running(task)
    BY <1>1 DEF Running
  <2>2. CASE \E error \in Errors : Fails(task, error)
    BY <2>1, <2>2, FailsKeeps
  <2>3. CASE \E next \in {"ask", "read"} : GoesTo(task, next)
    BY <2>1, <2>3 DEF GoesTo, IInv, TypeOK, Running
  <2> QED
    BY <1>1, <2>2, <2>3
<1>2. CASE Write(task)
  <2>1. At(task, "write") /\ place[task] = "write" /\ cache' = cache
    BY <1>2 DEF Write, At
  <2>2. Keeps
    BY <1>1, <1>2, <2>1 DEF Write, Errors
  <2>3. pending' \in Seq(Codes \cup {None})
    BY <1>2, QueueTyped DEF Write, IInv, TypeOK
  <2> QED
    BY <2>1, <2>2, <2>3, CallerKeeps
<1>3. CASE Ask(task)
  <2>1. /\ At(task, "ask") /\ place[task] = "ask" /\ pending' = pending
        /\ cache' \in {cache, held}
    BY <1>3 DEF Ask, At
  <2>2. Keeps
    BY <1>1, <1>3, <2>1 DEF Ask, Errors
  <2> QED
    BY <2>1, <2>2, CallerKeeps DEF IInv, TypeOK
<1>4. CASE ReadBack(task)
  <2>1. /\ At(task, "read") /\ place[task] = "read"
        /\ pending' = pending /\ cache' = cache
    BY <1>4 DEF ReadBack, At
  <2>2. PICK after \in Readings :
          \/ \E error \in Errors : Fails(task, error)
          \/ after # None /\ Confirms(after, request[task]) /\ Ends(task, "verified")
    BY <1>4 DEF ReadBack, Errors
  <2>3. CASE \E error \in Errors : Fails(task, error)
    BY <1>1, <2>1, <2>3, CallerKeeps DEF IInv, TypeOK
  <2>4. CASE after # None /\ Confirms(after, request[task]) /\ Ends(task, "verified")
    <3>1. cache = InUse(request[task])
      BY <2>4, ConfirmedIsInUse DEF Readings, IInv, TypeOK
    <3>2. Keeps
      BY <2>1, <2>4, <3>1 DEF Ends, IInv, TypeOK, Running
    <3> QED
      BY <2>1, <3>2, CallerKeeps DEF IInv, TypeOK
  <2> QED
    BY <2>2, <2>3, <2>4
<1> QED
  BY <1>2, <1>3, <1>4 DEF Steps

LEMMA CommandArrivesKeeps ==
  ASSUME IInv, CommandArrives
  PROVE  IInv'
<1> DEFINE slot == IF Head(pending) = None THEN Cleared ELSE InUse(Head(pending))
<1>1. pending # <<>> /\ Holds(slot) /\ pending' = Tail(pending)
  BY DEF CommandArrives
<1>2. slot \in Slot
  BY <1>1, QueueTyped, InUseTyped, ClearedTyped DEF IInv
<1> HIDE DEF slot
<1> QED
  BY <1>1, <1>2, QueueTyped, HoldsKeeps DEF IInv

\* A report only brings the cache to what the lock was seen to hold.
LEMMA ReportKeeps ==
  ASSUME IInv,
         pending' \in Seq(Codes \cup {None}), cache' \in {cache, held},
         UNCHANGED <<held, taskVars, atCall, wasHeld>>
  PROVE  IInv'
<1>1. TypeOK'
  BY DEF IInv, TypeOK, taskVars
<1>2. SeenHeld'
  BY DEF IInv, SeenHeld, Running, InUse, taskVars
<1>3. BeforeOfCall' /\ Requested' /\ Unended' /\ VerifiedWasHeld'
  BY DEF IInv, BeforeOfCall, Requested, Unended, VerifiedWasHeld, Running, InUse, taskVars
<1> QED
  BY <1>1, <1>2, <1>3 DEF IInv

\* The invariant: what Z-Wave JS and the lock come to hold while a set runs is
\* seen by wasHeld, so that a confirmed code was on the lock.
THEOREM Invariance == Spec => []IInv
<1>1. IInv /\ [Next]_vars => IInv'
  <2> SUFFICES ASSUME IInv, [Next]_vars PROVE IInv'
    OBVIOUS
  <2>1. ASSUME NEW task \in Tasks, SetCode(task) PROVE IInv'
    BY <2>1, SetCodeKeeps
  <2>2. ASSUME NEW task \in Tasks, ClearCode(task) PROVE IInv'
    BY <2>2, ClearCodeKeeps
  <2>3. ASSUME NEW task \in Tasks, Steps(task) PROVE IInv'
    BY <2>3, StepsKeep
  <2>4. CASE CommandArrives
    BY <2>4, CommandArrivesKeeps
  <2>5. CASE CommandLost
    BY <2>5, QueueTyped, ReportKeeps DEF CommandLost, IInv
  <2>6. CASE Report
    BY <2>6, ReportKeeps DEF Report, IInv, TypeOK
  <2>7. CASE KeypadEdit
    BY <2>7, HoldsKeeps DEF KeypadEdit, IInv, TypeOK
  <2>8. CASE UNCHANGED vars
    BY <2>8, ReportKeeps DEF vars, IInv, TypeOK
  <2> QED
    BY <2>1, <2>2, <2>3, <2>4, <2>5, <2>6, <2>7, <2>8 DEF Next
<1> QED
  BY InitHolds, <1>1, PTL DEF Spec

\* "A slot that holds the new code was confirmed by the lock" (zwave.py:325):
\* no set is verified whose code the lock did not hold, in use, while it ran,
\* save by what the cache had at its start.
THEOREM VerifiedSets == Spec => []VerifiedWasHeld
<1>1. IInv => VerifiedWasHeld
  BY DEF IInv
<1> QED
  BY <1>1, Invariance, PTL

LEMMA FailsSays ==
  ASSUME IInv, NEW task \in Tasks, NEW error, Fails(task, error)
  PROVE  \A other \in Tasks :
           result'[other] = result[other] \/ (other = task /\ result'[other] = error)
BY DEF Fails, Ends, IInv, TypeOK

\* "on a retry, a lock that keeps reporting the same wrong code must still
\* read as a mismatch" (zwave.py:334): a set is unconfirmed only if the slot
\* reads as it did before the first write.
THEOREM UnconfirmedSets == Spec => UnconfirmedUnchanged
<1> DEFINE Says(other) == result'[other] = "unconfirmed" /\ result[other] = "none"
                            => cache = atCall[other]
<1>1. IInv /\ [Next]_vars => \A other \in Tasks : Says(other)
  <2> SUFFICES ASSUME IInv, [Next]_vars, NEW other \in Tasks, ~Says(other)
               PROVE  FALSE
    OBVIOUS
  <2>1. result' # result
    OBVIOUS
  <2>2. PICK task \in Tasks : SetCode(task) \/ ClearCode(task) \/ Steps(task)
    BY <2>1 DEF Next, vars, taskVars, CommandArrives, CommandLost, Report, KeypadEdit, Holds
  <2>3. CASE SetCode(task)
    BY <2>1, <2>3 DEF SetCode
  <2>4. CASE ClearCode(task)
    BY <2>4 DEF ClearCode, Ends, IInv, TypeOK
  <2>5. CASE Write(task)
    BY <2>5, FailsSays DEF Write, GoesTo
  <2>6. CASE Ask(task)
    BY <2>6, FailsSays DEF Ask, GoesTo
  <2>7. CASE ReadBack(task)
    <3>1. PICK after \in Readings :
            \/ after # None /\ after = before[task] /\ Fails(task, "unconfirmed")
            \/ \E error \in {"unreadable", "mismatch"} : Fails(task, error)
            \/ Ends(task, "verified")
      BY <2>7 DEF ReadBack
    <3>2. CASE after # None /\ after = before[task] /\ Fails(task, "unconfirmed")
      <4>1. other = task
        BY <3>2, FailsSays
      <4>2. before[task] \in {atCall[task], None}
        BY <2>7 DEF ReadBack, At, Running, IInv, BeforeOfCall
      <4> QED
        BY <3>2, <4>1, <4>2 DEF Readings
    <3>3. CASE \E error \in {"unreadable", "mismatch"} : Fails(task, error)
      BY <3>3, FailsSays
    <3>4. CASE Ends(task, "verified")
      BY <3>4 DEF Ends, IInv, TypeOK
    <3> QED
      BY <3>1, <3>2, <3>3, <3>4
  <2> QED
    BY <2>2, <2>3, <2>4, <2>5, <2>6, <2>7 DEF Steps
<1>2. IInv /\ [Next]_vars =>
        [\A task \in Tasks :
           result'[task] = "unconfirmed" /\ result[task] = "none"
             => cache = atCall[task]]_vars
  BY <1>1
<1> QED
  BY <1>2, Invariance, PTL DEF UnconfirmedUnchanged, Spec

\* Tasks, cache, commands under way and the lock stay in their types, for any
\* number of calls and retries.
THEOREM TypeCorrect == Spec => []TypeOK
<1>1. IInv => TypeOK
  BY DEF IInv
<1> QED
  BY Invariance, <1>1, PTL

-----------------------------------------------------------------------------
(***************************************************************************)
(* How far a set is from its end: the attempts left, and what the current  *)
(* one still has to await.                                                 *)
(***************************************************************************)
AwaitsLeft(where) ==
  CASE where = "write" -> 3 [] where = "ask" -> 2 [] where = "read" -> 1 [] OTHER -> 0

Distance(task) == 3 * (MaxRetries - attempt[task]) + AwaitsLeft(place[task])

\* Each step of a set brings it nearer to its end, and nothing that the lock,
\* Z-Wave JS or another call does takes it back or makes it go on for longer.
DrawsNear ==
  [][\A task \in Tasks :
       /\ SetCode(task) => Distance(task)' = 3 * (MaxRetries + 1)
       /\ Running(task) =>
            \/ Distance(task)' = Distance(task) /\ ~Steps(task)
            \/ place'[task] = "ended"
            \/ Distance(task)' \in Nat /\ Distance(task)' < Distance(task)]_vars

\* A failed attempt has one attempt less to go.
LEMMA FailsNearer ==
  ASSUME TypeOK, NEW task \in Tasks, Running(task), NEW error, Fails(task, error)
  PROVE  \/ place'[task] = "ended"
         \/ Distance(task)' \in Nat /\ Distance(task)' < Distance(task)
<1> USE RetriesAssumption
<1>1. CASE attempt[task] = MaxRetries
  BY <1>1 DEF Fails, Ends, TypeOK
<1>2. CASE attempt[task] # MaxRetries
  <2>1. /\ attempt' = [attempt EXCEPT ![task] = @ + 1]
        /\ place' = [place EXCEPT ![task] = "write"]
    BY <1>2 DEF Fails
  <2>2. attempt[task] \in 0..MaxRetries /\ attempt'[task] = attempt[task] + 1
    BY <2>1 DEF TypeOK
  <2>3. AwaitsLeft(place'[task]) = 3
    BY <2>1 DEF TypeOK, AwaitsLeft
  <2>4. AwaitsLeft(place[task]) \in 1..3
    BY DEF Running, AwaitsLeft
  <2>5. Distance(task)' = 3 * (MaxRetries - (attempt[task] + 1)) + 3
        /\ Distance(task) = 3 * (MaxRetries - attempt[task]) + AwaitsLeft(place[task])
    BY <2>2, <2>3 DEF Distance
  <2> QED
    BY <1>2, <2>2, <2>4, <2>5
<1> QED
  BY <1>1, <1>2

LEMMA StepNearer ==
  ASSUME TypeOK, NEW task \in Tasks, Steps(task)
  PROVE  \/ place'[task] = "ended"
         \/ Distance(task)' \in Nat /\ Distance(task)' < Distance(task)
<1> USE RetriesAssumption
<1>1. PICK from \in {"write", "ask", "read"} :
        /\ place[task] = from
        /\ \/ from = "write" /\ GoesTo(task, "ask")
           \/ from = "ask" /\ GoesTo(task, "read")
           \/ Ends(task, "verified")
           \/ \E error \in Errors : Fails(task, error)
  BY DEF Steps, Write, Ask, ReadBack, At, Errors
<1>2. Running(task)
  BY <1>1 DEF Running
<1>3. ASSUME NEW where \in {"ask", "read"}, GoesTo(task, where),
             AwaitsLeft(where) \in Nat, AwaitsLeft(where) < AwaitsLeft(from)
      PROVE  Distance(task)' \in Nat /\ Distance(task)' < Distance(task)
  <2>1. attempt' = attempt /\ place'[task] = where /\ attempt[task] \in 0..MaxRetries
    BY <1>3 DEF GoesTo, TypeOK
  <2>2. AwaitsLeft(from) \in Nat
    BY DEF AwaitsLeft
  <2>3. Distance(task)' = 3 * (MaxRetries - attempt[task]) + AwaitsLeft(where)
        /\ Distance(task) = 3 * (MaxRetries - attempt[task]) + AwaitsLeft(from)
    BY <1>1, <2>1 DEF Distance
  <2> QED
    BY <1>3, <2>1, <2>2, <2>3
<1>4. CASE from = "write" /\ GoesTo(task, "ask")
  BY <1>3, <1>4 DEF AwaitsLeft
<1>5. CASE from = "ask" /\ GoesTo(task, "read")
  BY <1>3, <1>5 DEF AwaitsLeft
<1>6. CASE Ends(task, "verified")
  BY <1>6 DEF Ends, TypeOK
<1> QED
  BY <1>1, <1>2, <1>4, <1>5, <1>6, FailsNearer

\* Only its own steps move a set that runs.
LEMMA OthersLeaveIt ==
  ASSUME TypeOK, NEW task \in Tasks, Running(task), [Next]_vars, ~Steps(task)
  PROVE  Distance(task)' = Distance(task)
<1>1. attempt'[task] = attempt[task] /\ place'[task] = place[task]
  <2>1. CASE \E other \in Tasks : SetCode(other) \/ ClearCode(other)
    BY <2>1 DEF SetCode, ClearCode, Ends, Running, TypeOK
  <2>2. ASSUME NEW other \in Tasks, Steps(other)
        PROVE  attempt'[task] = attempt[task] /\ place'[task] = place[task]
    BY <2>2 DEF Steps, Write, Ask, ReadBack, GoesTo, Fails, Ends, TypeOK
  <2>3. CASE CommandArrives \/ CommandLost \/ Report \/ KeypadEdit \/ UNCHANGED vars
    BY <2>3 DEF CommandArrives, CommandLost, Report, KeypadEdit, Holds, vars, taskVars
  <2> QED
    BY <2>1, <2>2, <2>3 DEF Next
<1> QED
  BY <1>1 DEF Distance

Fresh == \A task \in Tasks : place[task] = "idle" => attempt[task] = 0

LEMMA FreshStep == IInv /\ Fresh /\ [Next]_vars => Fresh'
<1> SUFFICES ASSUME IInv, Fresh, [Next]_vars, NEW task \in Tasks, place'[task] = "idle"
             PROVE  attempt'[task] = 0
  BY DEF Fresh
<1>1. CASE \E other \in Tasks : SetCode(other) \/ ClearCode(other)
  BY <1>1 DEF SetCode, ClearCode, Ends, Fresh, IInv, TypeOK
<1>2. ASSUME NEW other \in Tasks, Steps(other) PROVE attempt'[task] = 0
  BY <1>2 DEF Steps, Write, Ask, ReadBack, At, GoesTo, Fails, Ends, Fresh, IInv, TypeOK
<1>3. CASE CommandArrives \/ CommandLost \/ Report \/ KeypadEdit \/ UNCHANGED vars
  BY <1>3 DEF CommandArrives, CommandLost, Report, KeypadEdit, Holds, vars, taskVars, Fresh
<1> QED
  BY <1>1, <1>2, <1>3 DEF Next

\* set_code makes at most three service calls per attempt, and one attempt more
\* than max_retries, whatever the lock, Z-Wave JS and other calls do meanwhile.
THEOREM SetsDrawNear == Spec => DrawsNear
<1>1. ASSUME IInv, Fresh, NEW task \in Tasks, SetCode(task)
      PROVE  Distance(task)' = 3 * (MaxRetries + 1)
  <2>1. attempt'[task] = 0 /\ place'[task] = "write"
    BY <1>1 DEF SetCode, Fresh, IInv, TypeOK
  <2> QED
    BY <2>1, RetriesAssumption DEF Distance, AwaitsLeft
<1>2. ASSUME IInv, [Next]_vars, NEW task \in Tasks, Running(task)
      PROVE  \/ Distance(task)' = Distance(task) /\ ~Steps(task)
             \/ place'[task] = "ended"
             \/ Distance(task)' \in Nat /\ Distance(task)' < Distance(task)
  BY <1>2, StepNearer, OthersLeaveIt DEF IInv
<1>3. IInv /\ Fresh /\ [Next]_vars =>
        [\A task \in Tasks :
           /\ SetCode(task) => Distance(task)' = 3 * (MaxRetries + 1)
           /\ Running(task) =>
                \/ Distance(task)' = Distance(task) /\ ~Steps(task)
                \/ place'[task] = "ended"
                \/ Distance(task)' \in Nat /\ Distance(task)' < Distance(task)]_vars
  <2> HIDE DEF Distance, SetCode, Steps, Running
  <2> QED
    BY <1>1, <1>2
<1>4. Init => Fresh
  BY DEF Init, Fresh
<1> QED
  BY <1>3, <1>4, FreshStep, Invariance, PTL DEF Spec, DrawsNear
=============================================================================
