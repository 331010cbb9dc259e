--------------------------- MODULE DeviceTracking ---------------------------
(***************************************************************************)
(* Keeping the device map right: the gateway's sync and update messages,   *)
(* the drift check that follows each sync (client.py), and the listener to *)
(* changes of Home Assistant's entity registry (__init__.py).              *)
(*                                                                         *)
(* The gateway keeps a row for each device.  It sends them all on every    *)
(* connect, and a message for each row it changes afterwards; the client   *)
(* tells it of entity ids that changed.  Messages of a connection arrive   *)
(* in order; those under way when it breaks are lost.                      *)
(***************************************************************************)
EXTENDS DeviceMap, FiniteSets

CONSTANTS Happens,          \* what the environment may do, of the kinds below
          MaxRegistry,      \* bound: changes of the registry
          MaxEdits,         \* bound: changes of the gateway's rows
          MaxDrops          \* bound: lost connections

\* "reuse": an entity may be given an id that another one had before.
Kinds == {"rename", "unregister", "register", "reuse", "add", "remove", "update"}

ASSUME HappensAssumption == Happens \subseteq Kinds
ASSUME DevicesAssumption == IsFiniteSet(Devices)
ASSUME LimitAssumption == {MaxRegistry, MaxEdits, MaxDrops} \subseteq Nat

VARIABLES
  map,        \* the DeviceMap
  drifts,     \* the tasks of _detect_drift: the devices each has yet to visit
  created,    \* tasks of _detect_drift that have not begun
  registry,   \* the entity registry: unique id of each entity
  used,       \* entity ids that have been in the registry
  gateway,    \* the gateway's row for each of its devices
  linked,     \* the connection is up
  toClient, toGateway,
  registryChanges, edits, drops

vars == <<map, drifts, created, registry, used, gateway, linked, toClient,
          toGateway, registryChanges, edits, drops>>
haVars == <<registry, used, registryChanges>>
gatewayVars == <<gateway, edits>>

Dict(keys, values) == UNION {[some -> values] : some \in SUBSET keys}

Message ==
  [type : {"sync"}, rows : Seq(Row)]
    \cup [type : {"add", "update"}, row : Row]
    \cup [type : {"remove"}, id : Devices]
Change == [id : Devices, new : Entities]

TypeOK ==
  /\ map.forward \in Dict(Devices, Row)
  /\ map.reverse \in Dict(Entities, Devices)
  /\ map.byUnique \in Dict(UniqueIds, Devices)
  /\ drifts \in Seq(SUBSET Devices)
  /\ created \in Nat
  /\ registry \in Dict(Entities, UniqueIds)
  /\ used \in SUBSET Entities
  /\ gateway \in Dict(Devices, Row)
  /\ linked \in BOOLEAN
  /\ toClient \in Seq(Message)
  /\ toGateway \in Seq(Change)
  /\ {registryChanges, edits, drops} \subseteq Nat

Named(table) == \A id \in DOMAIN table : table[id].id = id

\* The gateway has rows for some entities, one each, and for some of these
\* the unique id too.
Init ==
  /\ map = EmptyMap
  /\ drifts = <<>>
  /\ created = 0
  /\ registry \in Dict(Entities, UniqueIds) /\ IsInjective(registry)
  /\ used = DOMAIN registry
  /\ gateway \in Dict(Devices, Row) /\ Named(gateway)
  /\ \A id \in DOMAIN gateway :
       /\ gateway[id].entity \in DOMAIN registry
       /\ gateway[id].unique \in {registry[gateway[id].entity], None}
  /\ \A id, other \in DOMAIN gateway :
       gateway[id].entity = gateway[other].entity => id = other
  /\ linked = FALSE
  /\ toClient = <<>>
  /\ toGateway = <<>>
  /\ registryChanges = 0
  /\ edits = 0
  /\ drops = 0
-----------------------------------------------------------------------------
(***************************************************************************)
(* The client.                                                             *)
(***************************************************************************)

\* send: on a lost connection the message is lost, not queued.
Tell(id, new) ==
  toGateway' = IF linked THEN Append(toGateway, [id |-> id, new |-> new])
               ELSE toGateway

\* _handle_message takes the next message of a type.
Receive(type) ==
  /\ toClient # <<>>
  /\ Head(toClient).type = type
  /\ toClient' = Tail(toClient)
  /\ UNCHANGED <<drifts, haVars, gatewayVars, linked, toGateway, drops>>

DeviceMapSync ==
  /\ Receive("sync")
  /\ map' = Loaded(Head(toClient).rows)
  /\ created' = created + 1

AddReceived ==
  /\ Receive("add")
  /\ map' = Added(map, Head(toClient).row)
  /\ UNCHANGED created

UpdateReceived ==
  /\ Receive("update")
  /\ LET row == Head(toClient).row
     IN  map' = Added(Removed(map, row.id), row)
  /\ UNCHANGED created

RemoveReceived ==
  /\ Receive("remove")
  /\ map' = Removed(map, Head(toClient).id)
  /\ UNCHANGED created

\* A drift task begins: it is to visit the devices tracked now.
DriftBegins ==
  /\ created > 0
  /\ created' = created - 1
  /\ drifts' = Append(drifts, DOMAIN map.forward)
  /\ UNCHANGED <<map, haVars, gatewayVars, linked, toClient, toGateway, drops>>

\* resolve_entity_by_unique_id
Resolved(unique) == {entity \in DOMAIN registry : registry[entity] = unique}

\* Slip: a device whose entity is gone is not looked for.
NotLookedFor(id) == FALSE

\* The device is still tracked, its entity is gone and its unique id is found
\* under another entity id.
HasDrifted(id) ==
  /\ id \in DOMAIN map.forward
  /\ map.forward[id].entity \notin DOMAIN registry
  /\ Resolved(map.forward[id].unique) # {}

\* A drift task visits a device, up to the await of what it sends.
DriftVisits ==
  \E task \in 1..Len(drifts) : \E id \in drifts[task] :
    /\ drifts' = [drifts EXCEPT ![task] = @ \ {id}]
    /\ IF HasDrifted(id)
       THEN \E entity \in Resolved(map.forward[id].unique) :
              /\ map' = Renamed(map, id, map.forward[id].entity, entity)
              /\ Tell(id, entity)
       ELSE UNCHANGED <<map, toGateway>>
    /\ UNCHANGED <<created, haVars, gatewayVars, linked, toClient, drops>>

DriftEnds ==
  \E task \in 1..Len(drifts) :
    /\ drifts[task] = {}
    /\ drifts' = [i \in 1..(Len(drifts) - 1) |->
                    drifts[IF i < task THEN i ELSE i + 1]]
    /\ UNCHANGED <<map, created, haVars, gatewayVars, linked, toClient,
                   toGateway, drops>>
-----------------------------------------------------------------------------
(***************************************************************************)
(* Home Assistant's entity registry.  The listener runs as the event fires.*)
(***************************************************************************)
RegistryChanges(kind) ==
  /\ kind \in Happens
  /\ registryChanges < MaxRegistry
  /\ registryChanges' = registryChanges + 1
  /\ UNCHANGED <<drifts, created, gatewayVars, linked, toClient, drops>>

FreeIds == IF "reuse" \in Happens THEN Entities \ DOMAIN registry
           ELSE Entities \ used

\* handle_entity_registry_updated, action "update".
EntityRenamed ==
  /\ RegistryChanges("rename")
  /\ \E old \in DOMAIN registry, new \in FreeIds :
       /\ registry' = Put(Pop(registry, old), new, registry[old])
       /\ used' = used \cup {new}
       /\ IF old \in DOMAIN map.reverse
          THEN /\ map' = Renamed(map, map.reverse[old], old, new)
               /\ Tell(map.reverse[old], new)
          ELSE UNCHANGED <<map, toGateway>>

\* Action "remove" only alerts the gateway.
EntityUnregistered ==
  /\ RegistryChanges("unregister")
  /\ \E entity \in DOMAIN registry : registry' = Pop(registry, entity)
  /\ UNCHANGED <<map, used, toGateway>>

\* Action "create" is ignored.
EntityRegistered ==
  /\ RegistryChanges("register")
  /\ \E entity \in FreeIds, unique \in UniqueIds \ Range(registry) :
       /\ registry' = Put(registry, entity, unique)
       /\ used' = used \cup {entity}
  /\ UNCHANGED <<map, toGateway>>
-----------------------------------------------------------------------------
(***************************************************************************)
(* The gateway and the network, as the client relies on them.              *)
(***************************************************************************)
Connect ==
  /\ ~linked
  /\ linked' = TRUE
  /\ \E rows \in Bijection(1..Cardinality(Range(gateway)), Range(gateway)) :
       toClient' = <<[type |-> "sync", rows |-> rows]>>
  /\ UNCHANGED <<map, drifts, created, haVars, gatewayVars, toGateway, drops>>

ConnectionLost ==
  /\ linked
  /\ drops < MaxDrops
  /\ drops' = drops + 1
  /\ linked' = FALSE
  /\ toClient' = <<>>
  /\ toGateway' = <<>>
  /\ UNCHANGED <<map, drifts, created, haVars, gatewayVars>>

ChangeArrives ==
  /\ toGateway # <<>>
  /\ LET change == Head(toGateway)
     IN  gateway' = IF change.id \in DOMAIN gateway
                    THEN [gateway EXCEPT ![change.id].entity = change.new]
                    ELSE gateway
  /\ toGateway' = Tail(toGateway)
  /\ UNCHANGED <<map, drifts, created, haVars, linked, toClient, edits, drops>>

\* The gateway changes its rows and, while connected, says so.
GatewayEdits(kind, message) ==
  /\ kind \in Happens
  /\ edits < MaxEdits
  /\ edits' = edits + 1
  /\ toClient' = IF linked THEN Append(toClient, message) ELSE toClient
  /\ UNCHANGED <<map, drifts, created, haVars, linked, toGateway, drops>>

\* A device is added for an entity that has none.
DeviceAdded ==
  \E id \in Devices \ DOMAIN gateway, entity \in DOMAIN registry :
    LET row == [id |-> id, entity |-> entity, unique |-> registry[entity]]
    IN  /\ \A other \in DOMAIN gateway :
             gateway[other].entity # row.entity /\ gateway[other].unique # row.unique
        /\ gateway' = Put(gateway, id, row)
        /\ GatewayEdits("add", [type |-> "add", row |-> row])

DeviceRemoved ==
  \E id \in DOMAIN gateway :
    /\ gateway' = Pop(gateway, id)
    /\ GatewayEdits("remove", [type |-> "remove", id |-> id])

\* A row is sent again, its entity id as the gateway knows it.
DeviceUpdated ==
  \E id \in DOMAIN gateway :
    /\ GatewayEdits("update", [type |-> "update", row |-> gateway[id]])
    /\ UNCHANGED gateway

ClientStep ==
  \/ DeviceMapSync \/ AddReceived \/ UpdateReceived \/ RemoveReceived
  \/ DriftBegins \/ DriftVisits \/ DriftEnds

Next ==
  \/ ClientStep
  \/ EntityRenamed \/ EntityUnregistered \/ EntityRegistered
  \/ Connect \/ ConnectionLost \/ ChangeArrives
  \/ DeviceAdded \/ DeviceRemoved \/ DeviceUpdated

\* Messages arrive and are handled, tasks go on, and the client reconnects
\* (GatewayClient, Reconnects).  Nothing is assumed of the owner.
Fairness ==
  /\ WF_vars(ClientStep)
  /\ WF_vars(Connect)
  /\ WF_vars(ChangeArrives)

Spec == Init /\ [][Next]_vars /\ Fairness
-----------------------------------------------------------------------------
\* An entity's events are credited only to a device that the map holds and
\* that has this entity: renames, removals, updates and syncs in any order
\* leave nothing behind in the reverse index.
ReverseSound ==
  \A entity \in DOMAIN map.reverse :
    /\ map.reverse[entity] \in DOMAIN map.forward
    /\ map.forward[map.reverse[entity]].entity = entity

\* load_sync is its closed form: whatever rows a device_map_sync brings, two
\* devices of one entity id included, adding them one by one to the emptied map
\* (device_map.py:33-39) gives the map that DeviceMapSync does.
SyncIsLoop ==
  [][DeviceMapSync => map' = AddedInTurn(Head(toClient).rows)]_vars

\* Nothing is under way between the gateway, the client and its tasks.
Settled == /\ linked /\ toClient = <<>> /\ toGateway = <<>>
           /\ created = 0 /\ drifts = <<>>

\* The entity of a row is the one that has the row's unique id.
Right(row) == \A entity \in Resolved(row.unique) : row.entity = entity

\* "Validate device map entries against the local HA entity registry on
\* reconnect" (client.py:479): when nothing is under way, commands for a device
\* reach the entity with its unique id.
SettledRight ==
  Settled => \A id \in DOMAIN map.forward : Right(map.forward[id])

\* "device state changes are forwarded to Staykey in real time" (README.md:18):
\* when nothing is under way, the client tracks the gateway's devices, each as
\* the entity it is to the gateway unless that is gone, and the entity with a
\* device's unique id leads back to the device.
SettledTracked ==
  Settled =>
    /\ DOMAIN map.forward = DOMAIN gateway
    /\ \A id \in DOMAIN map.forward :
         LET row == map.forward[id]
         IN  /\ row.entity \in DOMAIN registry => gateway[id].entity = row.entity
             /\ row.entity \in Resolved(row.unique) =>
                  row.entity \in DOMAIN map.reverse /\ map.reverse[row.entity] = id

\* The gateway comes to know every renamed entity, even if it was told on a
\* connection that broke.
GatewayLearns ==
  <>[](\A id \in DOMAIN gateway : Right(gateway[id]))
=============================================================================
