------------------------------ MODULE CodeStore ------------------------------
(***************************************************************************)
(* What a lock provider promises about set_code and clear_code, without    *)
(* service calls, locks or replies.  An operation takes effect at one      *)
(* moment between its call and its end, or not at all.  One that ends      *)
(* "verified" took effect; one that ends "failed" may have, its answer     *)
(* lost; "assumed" is a success reported on less than the lock's word.     *)
(* MatterLock implements this specification.                               *)
(***************************************************************************)
EXTENDS LockTable

CONSTANT Tasks              \* the calls of set_code and clear_code

VARIABLES table,
          request,          \* what each task is asked to do
          state             \* how far it is

vars == <<table, request, state>>

Init ==
  /\ table \in Table /\ NoDuplicates(table)
  /\ request = [task \in Tasks |-> None]
  /\ state = [task \in Tasks |-> "idle"]

Becomes(task, next) == state' = [state EXCEPT ![task] = next]

Ask(task) ==
  /\ state[task] = "idle"
  /\ Becomes(task, "asked")
  /\ \E asked \in Request : request' = [request EXCEPT ![task] = asked]
  /\ UNCHANGED table

TakesEffect(task, op) ==
  /\ state[task] = "asked"
  /\ request[task].op = op
  /\ Becomes(task, "done")
  /\ UNCHANGED request

\* The code is in no other slot, and now in this one ...
Program(task) ==
  /\ TakesEffect(task, "set")
  /\ SlotsWith(table, request[task].code) \subseteq {request[task].slot}
  /\ table' \in Programmed(table, request[task].slot, request[task].code, None)

\* ... or is on the lock already.
Duplicate(task) ==
  /\ TakesEffect(task, "set")
  /\ SlotsWith(table, request[task].code) # {}
  /\ UNCHANGED table

\* The slot's user goes, with the other credentials of that user.
Erase(task) ==
  /\ TakesEffect(task, "clear")
  /\ request[task].slot \in Occupied(table)
  /\ table' = Cleared(table, request[task].slot, table[request[task].slot].user)

End(task) ==
  /\ \/ state[task] = "done" /\ Becomes(task, "verified")
     \/ state[task] \in {"asked", "done"} /\ \E how \in {"assumed", "failed"} : Becomes(task, how)
     \/ /\ state[task] = "asked" /\ Becomes(task, "verified")
        /\ request[task].op = "clear" /\ request[task].slot \notin Occupied(table)
  /\ UNCHANGED <<table, request>>

Next == \E task \in Tasks : \/ Ask(task) \/ Program(task) \/ Duplicate(task)
                            \/ Erase(task) \/ End(task)

Spec == Init /\ [][Next]_vars
=============================================================================
