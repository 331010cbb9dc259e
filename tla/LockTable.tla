------------------------------ MODULE LockTable ------------------------------
(***************************************************************************)
(* The credentials of a Matter lock as services/providers/matter.py relies *)
(* on them: a slot (credential index) is empty or holds a code and the     *)
(* user it belongs to, None for an orphan.  The lock itself is external.   *)
(***************************************************************************)
EXTENDS Integers

CONSTANTS MaxSlots,         \* number of slots
          Codes, Users, None

ASSUME SlotsAssumption == MaxSlots \in Nat \ {0}
ASSUME NoneAssumption == None \notin Codes \cup Users

Slots == 1..MaxSlots

Empty == [code |-> None, user |-> None]
Credential == [code : Codes, user : Users \cup {None}]
Table == [Slots -> Credential \cup {Empty}]

Occupied(table) == {slot \in Slots : table[slot] # Empty}
SlotsWith(table, code) == {slot \in Slots : table[slot].code = code}
FreeUsers(table) == Users \ {table[slot].user : slot \in Slots}

\* A code is accepted once: "same PIN bytes already programmed".
NoDuplicates(table) ==
  \A slot, other \in Occupied(table) :
    table[slot].code = table[other].code => slot = other

\* A code written to a slot: an occupied slot keeps its user (Modify), an
\* empty one gets a user of its own (Add) or the given one.
Programmed(table, slot, code, user) ==
  {[table EXCEPT ![slot] = [code |-> code, user |-> owner]] :
     owner \in IF slot \in Occupied(table) THEN {table[slot].user}
               ELSE IF user = None THEN FreeUsers(table) ELSE {user}}

\* ClearUser takes every credential of a user, ClearCredential one slot.
Cleared(table, slot, user) ==
  LET gone == IF user = None THEN {slot}
              ELSE {other \in Slots : table[other].user = user}
  IN  [other \in Slots |-> IF other \in gone THEN Empty ELSE table[other]]

Request == [op : {"set"}, slot : Slots, code : Codes]
             \cup [op : {"clear"}, slot : Slots]
=============================================================================
