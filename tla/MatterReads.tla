----------------------------- MODULE MatterReads -----------------------------
(***************************************************************************)
(* read_codes of services/providers/matter.py beside the set_code and      *)
(* clear_code calls of MatterLock: it asks for the status of one slot      *)
(* after the other and does not take the entity's lock.                    *)
(***************************************************************************)
EXTENDS MatterLock

CONSTANT Readers            \* calls of read_codes

VARIABLES
  next,         \* the slot a reader asks for next, 0 before it begins
  reported,     \* the rows of its result
  moments       \* auxiliary: the occupied slots at each moment of the read

readVars == <<next, reported>>
allVars == <<vars, readVars, moments>>

InitReads ==
  /\ Init
  /\ next = [reader \in Readers |-> 0]
  /\ reported = [reader \in Readers |-> [slot \in Slots |-> "skipped"]]
  /\ moments = [reader \in Readers |-> {}]

ReadBegins(reader) ==
  /\ next[reader] = 0
  /\ next' = [next EXCEPT ![reader] = 1]
  /\ UNCHANGED <<vars, reported>>

\* A slot whose status fails, or has no data, is left out of the result.
ReadSlot(reader) ==
  LET slot == next[reader]
  IN  /\ slot \in Slots
      /\ next' = [next EXCEPT ![reader] = slot + 1]
      /\ reported' \in
           {reported,
            [reported EXCEPT ![reader][slot] =
               IF Status(slot).exists THEN "occupied" ELSE "empty"]}
      /\ UNCHANGED vars

Watched ==
  moments' = [reader \in Readers |->
                IF next'[reader] \in Slots THEN moments[reader] \cup {Occupied(table')}
                ELSE moments[reader]]

NextReads ==
  /\ \/ Next /\ UNCHANGED readVars
     \/ \E reader \in Readers : ReadBegins(reader) \/ ReadSlot(reader)
  /\ Watched

SpecReads == InitReads /\ [][NextReads]_allVars
-----------------------------------------------------------------------------
\* "Per-entity asyncio.Lock to serialize Matter set/clear/read operations on a
\* single physical lock" (matter.py:73): a read that is serialized reports the
\* lock as it is at one moment of the read.
ReadIsSnapshot ==
  \A reader \in Readers : next[reader] > MaxSlots =>
    \E moment \in moments[reader] : \A slot \in Slots :
      reported[reader][slot] # "skipped" =>
        (reported[reader][slot] = "occupied" <=> slot \in moment)

\* What does hold of a read beside sets and clears: each row it reports was
\* true at some moment of the read.
RowsHeld ==
  \A reader \in Readers, slot \in Slots :
    reported[reader][slot] # "skipped" =>
      \E moment \in moments[reader] :
        reported[reader][slot] = "occupied" <=> slot \in moment
=============================================================================
