------------------------------ MODULE DeviceMap ------------------------------
(***************************************************************************)
(* The map between Staykey devices and Home Assistant entities             *)
(* (device_map.py) as operators on its state: "forward" leads from a       *)
(* device to its row, "reverse" from an entity to its device, "byUnique"   *)
(* from a unique id to its device.  Commands go through forward, events    *)
(* through reverse.  The index by device identifiers is kept like byUnique *)
(* and, like it, has no reader; it is left out.                            *)
(***************************************************************************)
EXTENDS Integers, Sequences, Functions

CONSTANTS Devices, Entities, UniqueIds,
          None              \* no external_id, no unique_id

ASSUME NoneAssumption == None \notin Devices \cup Entities \cup UniqueIds

\* A device as the gateway describes it.
Row == [id : Devices, entity : Entities \cup {None}, unique : UniqueIds \cup {None}]

Nothing == [key \in {} |-> None]
EmptyMap == [forward |-> Nothing, reverse |-> Nothing, byUnique |-> Nothing]

\* Slip: a missing key is stored like any other.
PutAnyway(dict, key, value) ==
  [k \in DOMAIN dict \cup {key} |-> IF k = key THEN value ELSE dict[k]]

\* dict[key] = value, unless there is no key; dict.pop(key, None).
Put(dict, key, value) ==
  IF key = None THEN dict
  ELSE [k \in DOMAIN dict \cup {key} |-> IF k = key THEN value ELSE dict[k]]
Pop(dict, key) == Restrict(dict, DOMAIN dict \ {key})

\* _add_device
Added(map, row) ==
  [forward |-> Put(map.forward, row.id, row),
   reverse |-> Put(map.reverse, row.entity, row.id),
   byUnique |-> Put(map.byUnique, row.unique, row.id)]

\* Slip: the entity of a removed device stays tracked.
KeepsReverse(map, id) == [map EXCEPT !.forward = Pop(@, id)]

\* _remove_device
Removed(map, id) ==
  IF id \notin DOMAIN map.forward THEN map
  ELSE LET row == map.forward[id]
       IN  [forward |-> Pop(map.forward, id),
            reverse |-> Pop(map.reverse, row.entity),
            byUnique |-> Pop(map.byUnique, row.unique)]

\* Slip: the new entity id is not tracked.
ForgetsNewId(map, id, old, new) ==
  IF id \notin DOMAIN map.forward THEN map
  ELSE [map EXCEPT !.forward[id].entity = new, !.reverse = Pop(@, old)]

\* update_entity_id
Renamed(map, id, old, new) ==
  IF id \notin DOMAIN map.forward THEN map
  ELSE [map EXCEPT !.forward[id].entity = new,
                   !.reverse = Put(Pop(@, old), new, id)]

(***************************************************************************)
(* load_sync in closed form: each index holds the last row with the key.   *)
(***************************************************************************)
LastWith(rows, field, key) ==
  CHOOSE i \in 1..Len(rows) :
    /\ rows[i][field] = key
    /\ \A j \in (i + 1)..Len(rows) : rows[j][field] # key

Keys(rows, field) == {rows[i][field] : i \in 1..Len(rows)} \ {None}

\* Slip: the first row of a shared key wins.
FirstDevices(rows, field) ==
  [key \in Keys(rows, field) |->
     rows[CHOOSE i \in 1..Len(rows) : rows[i][field] = key].id]

\* The device that the index on a field holds for each key.
DevicesBy(rows, field) ==
  [key \in Keys(rows, field) |-> rows[LastWith(rows, field, key)].id]

Loaded(rows) ==
  [forward |-> [id \in Keys(rows, "id") |-> rows[LastWith(rows, "id", id)]],
   reverse |-> DevicesBy(rows, "entity"),
   byUnique |-> DevicesBy(rows, "unique")]

\* load_sync as the loop that it is: the rows one by one on the emptied map.
AddedInTurn(rows) ==
  LET after[i \in 0..Len(rows)] ==
        IF i = 0 THEN EmptyMap ELSE Added(after[i - 1], rows[i])
  IN  after[Len(rows)]
=============================================================================
