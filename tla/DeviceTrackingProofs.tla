------------------------ MODULE DeviceTrackingProofs ------------------------
(***************************************************************************)
(* What is proved of DeviceTracking for any number of devices, entities    *)
(* and unique ids, everything the environment may do, and any bounds.      *)
(***************************************************************************)
EXTENDS DeviceTracking, FiniteSetTheorems, SequenceTheorems,
        WellFoundedInduction, TLAPS

-----------------------------------------------------------------------------
(***************************************************************************)
(* Dictionaries.                                                           *)
(***************************************************************************)
LEMMA DictIs ==
  ASSUME NEW K, NEW V, NEW f
  PROVE  f \in Dict(K, V) <=> DOMAIN f \subseteq K /\ f \in [DOMAIN f -> V]
BY DEF Dict

LEMMA PopIs ==
  ASSUME NEW f, NEW key
  PROVE  /\ DOMAIN Pop(f, key) = DOMAIN f \ {key}
         /\ \A x \in DOMAIN f \ {key} : Pop(f, key)[x] = f[x]
BY DEF Pop, Restrict

LEMMA PutTyped ==
  ASSUME NEW K, None \notin K, NEW V, NEW f \in Dict(K, V), NEW key \in K \cup {None}, NEW value \in V
  PROVE  Put(f, key, value) \in Dict(K, V)
<1>1. DOMAIN f \subseteq K /\ f \in [DOMAIN f -> V]
  BY DictIs
<1>2. CASE key = None
  BY <1>2 DEF Put
<1>3. CASE key # None
  <2>1. Put(f, key, value) \in [DOMAIN f \cup {key} -> V]
    BY <1>1, <1>3 DEF Put
  <2>2. DOMAIN f \cup {key} \subseteq K
    BY <1>1, <1>3
  <2> QED
    BY <2>1, <2>2 DEF Dict
<1> QED
  BY <1>2, <1>3

LEMMA PopTyped ==
  ASSUME NEW K, NEW V, NEW f \in Dict(K, V), NEW key
  PROVE  Pop(f, key) \in Dict(K, V)
<1>1. DOMAIN f \subseteq K /\ f \in [DOMAIN f -> V]
  BY DictIs
<1>2. Pop(f, key) \in [DOMAIN f \ {key} -> V]
  BY <1>1 DEF Pop, Restrict
<1> QED
  BY <1>1, <1>2 DEF Dict
-----------------------------------------------------------------------------
(***************************************************************************)
(* The operations of the map: what they keep of its type and of its        *)
(* reverse index, and what they do to the devices tracked.                 *)
(***************************************************************************)
Map == [forward : Dict(Devices, Row), reverse : Dict(Entities, Devices),
        byUnique : Dict(UniqueIds, Devices)]

Sound(m) ==
  \A entity \in DOMAIN m.reverse :
    /\ m.reverse[entity] \in DOMAIN m.forward
    /\ m.forward[m.reverse[entity]].entity = entity

LEMMA Nones == None \notin Devices /\ None \notin Entities /\ None \notin UniqueIds
BY NoneAssumption

LEMMA RowFields ==
  ASSUME NEW row \in Row
  PROVE  /\ row.id \in Devices /\ row.entity \in Entities \cup {None}
         /\ row.unique \in UniqueIds \cup {None} /\ row.id # None
BY Nones DEF Row

LEMMA EmptyFacts == EmptyMap \in Map /\ Sound(EmptyMap) /\ EmptyMap.forward = Nothing
<1>1. /\ Nothing \in Dict(Devices, Row) /\ Nothing \in Dict(Entities, Devices)
      /\ Nothing \in Dict(UniqueIds, Devices) /\ DOMAIN Nothing = {}
  BY DictIs DEF Nothing
<1> QED
  BY <1>1 DEF EmptyMap, Map, Sound

LEMMA AddedFacts ==
  ASSUME NEW m \in Map, NEW row \in Row
  PROVE  /\ Added(m, row) \in Map
         /\ DOMAIN Added(m, row).forward = DOMAIN m.forward \cup {row.id}
         /\ Sound(m) /\ row.id \notin DOMAIN m.forward => Sound(Added(m, row))
<1> DEFINE F == Put(m.forward, row.id, row)
           R == Put(m.reverse, row.entity, row.id)
           U == Put(m.byUnique, row.unique, row.id)
<1>1. m.forward \in Dict(Devices, Row) /\ m.reverse \in Dict(Entities, Devices)
      /\ m.byUnique \in Dict(UniqueIds, Devices)
  BY DEF Map
<1>2. F \in Dict(Devices, Row)
  BY <1>1, RowFields, Nones, PutTyped
<1>3. R \in Dict(Entities, Devices)
  BY <1>1, RowFields, Nones, PutTyped
<1>4. U \in Dict(UniqueIds, Devices)
  BY <1>1, RowFields, Nones, PutTyped
<1>5. Added(m, row) = [forward |-> F, reverse |-> R, byUnique |-> U]
  BY DEF Added
<1>6. /\ DOMAIN F = DOMAIN m.forward \cup {row.id} /\ F[row.id] = row
      /\ \A x \in DOMAIN m.forward \ {row.id} : F[x] = m.forward[x]
  BY RowFields DEF Put
<1>7. ASSUME Sound(m), row.id \notin DOMAIN m.forward,
             NEW entity \in DOMAIN R
      PROVE  R[entity] \in DOMAIN F /\ F[R[entity]].entity = entity
  <2>1. CASE entity \in DOMAIN m.reverse /\ R[entity] = m.reverse[entity]
    BY <1>6, <1>7, <2>1 DEF Sound
  <2>2. CASE entity = row.entity /\ R[entity] = row.id
    BY <1>6, <2>2
  <2>3. CASE row.entity = None
    <3>1. R = m.reverse
      BY <2>3 DEF Put
    <3> HIDE DEF R, F
    <3> QED
      BY <1>7, <2>1, <3>1
  <2>4. CASE row.entity # None
    <3>1. /\ DOMAIN R = DOMAIN m.reverse \cup {row.entity} /\ R[row.entity] = row.id
          /\ \A x \in DOMAIN m.reverse \ {row.entity} : R[x] = m.reverse[x]
      BY <2>4 DEF Put
    <3> HIDE DEF R, F
    <3> QED
      BY <1>7, <2>1, <2>2, <3>1
  <2> QED
    BY <2>3, <2>4
<1> HIDE DEF F, R, U
<1>8. Added(m, row).forward = F /\ Added(m, row).reverse = R
  BY <1>5
<1>9. Added(m, row) \in Map
  BY <1>2, <1>3, <1>4, <1>5 DEF Map
<1> QED
  BY <1>6, <1>7, <1>8, <1>9 DEF Sound

LEMMA RemovedFacts ==
  ASSUME NEW m \in Map, NEW id
  PROVE  /\ Removed(m, id) \in Map
         /\ DOMAIN Removed(m, id).forward = DOMAIN m.forward \ {id}
         /\ Sound(m) => Sound(Removed(m, id))
<1>1. CASE id \notin DOMAIN m.forward
  BY <1>1 DEF Removed
<1>2. CASE id \in DOMAIN m.forward
  <2> DEFINE row == m.forward[id]
             F == Pop(m.forward, id)
             R == Pop(m.reverse, row.entity)
             U == Pop(m.byUnique, row.unique)
  <2>1. m.forward \in Dict(Devices, Row) /\ m.reverse \in Dict(Entities, Devices)
        /\ m.byUnique \in Dict(UniqueIds, Devices)
    BY DEF Map
  <2>2. F \in Dict(Devices, Row) /\ R \in Dict(Entities, Devices)
        /\ U \in Dict(UniqueIds, Devices)
    BY <2>1, PopTyped
  <2>3. Removed(m, id) = [forward |-> F, reverse |-> R, byUnique |-> U]
    BY <1>2 DEF Removed
  <2>4. /\ DOMAIN F = DOMAIN m.forward \ {id}
        /\ \A x \in DOMAIN m.forward \ {id} : F[x] = m.forward[x]
    BY PopIs
  <2>5. /\ DOMAIN R = DOMAIN m.reverse \ {row.entity}
        /\ \A x \in DOMAIN m.reverse \ {row.entity} : R[x] = m.reverse[x]
    BY PopIs
  <2>6. ASSUME Sound(m), NEW entity \in DOMAIN R
        PROVE  R[entity] \in DOMAIN F /\ F[R[entity]].entity = entity
    BY <2>4, <2>5, <2>6 DEF Sound
  <2> HIDE DEF F, R, U
  <2>7. Removed(m, id).forward = F /\ Removed(m, id).reverse = R /\ Removed(m, id) \in Map
    BY <2>2, <2>3 DEF Map
  <2> QED
    BY <2>4, <2>6, <2>7 DEF Sound
<1> QED
  BY <1>1, <1>2

LEMMA RenamedFacts ==
  ASSUME NEW m \in Map, NEW id, NEW old, NEW new \in Entities
  PROVE  /\ Renamed(m, id, old, new) \in Map
         /\ DOMAIN Renamed(m, id, old, new).forward = DOMAIN m.forward
         /\ Sound(m) /\ (id \in DOMAIN m.forward => m.forward[id].entity = old)
              => Sound(Renamed(m, id, old, new))
<1>1. CASE id \notin DOMAIN m.forward
  BY <1>1 DEF Renamed
<1>2. CASE id \in DOMAIN m.forward
  <2> DEFINE F == [m.forward EXCEPT ![id].entity = new]
             P == Pop(m.reverse, old)
             R == Put(P, new, id)
  <2>1. /\ m.forward \in Dict(Devices, Row) /\ m.reverse \in Dict(Entities, Devices)
        /\ m.byUnique \in Dict(UniqueIds, Devices)
        /\ m = [forward |-> m.forward, reverse |-> m.reverse, byUnique |-> m.byUnique]
    BY DEF Map
  <2>2. DOMAIN m.forward \subseteq Devices /\ m.forward \in [DOMAIN m.forward -> Row]
    BY <2>1, DictIs
  <2>3. /\ DOMAIN F = DOMAIN m.forward /\ F \in [DOMAIN F -> Row]
        /\ F[id].entity = new
        /\ \A x \in DOMAIN m.forward \ {id} : F[x] = m.forward[x]
    BY <1>2, <2>2 DEF Row
  <2>4. F \in Dict(Devices, Row)
    BY <2>2, <2>3, DictIs
  <2>5. P \in Dict(Entities, Devices) /\ id \in Devices /\ new # None
    <3>1. P \in Dict(Entities, Devices)
      BY <2>1, PopTyped
    <3> QED
      BY <1>2, <2>2, <3>1, Nones
  <2>6. R \in Dict(Entities, Devices)
    <3> HIDE DEF P
    <3> QED
      BY <2>5, Nones, PutTyped
  <2>7. Renamed(m, id, old, new) = [forward |-> F, reverse |-> R, byUnique |-> m.byUnique]
    <3> HIDE DEF F, R
    <3>1. Renamed(m, id, old, new) = [m EXCEPT !.forward = F, !.reverse = R]
      BY <1>2 DEF Renamed, F, R
    <3> QED
      BY <2>1, <3>1
  <2>8. /\ DOMAIN P = DOMAIN m.reverse \ {old}
        /\ \A x \in DOMAIN m.reverse \ {old} : P[x] = m.reverse[x]
    BY PopIs
  <2>9. /\ DOMAIN R = DOMAIN P \cup {new} /\ R[new] = id
        /\ \A x \in DOMAIN P \ {new} : R[x] = P[x]
    <3> HIDE DEF P
    <3> QED
      BY <2>5 DEF Put
  <2>10. ASSUME Sound(m), m.forward[id].entity = old, NEW entity \in DOMAIN R
         PROVE  R[entity] \in DOMAIN F /\ F[R[entity]].entity = entity
    <3>1. CASE entity = new
      BY <1>2, <2>3, <2>9, <3>1
    <3>2. CASE entity # new
      <4>1. entity \in DOMAIN m.reverse /\ entity # old /\ R[entity] = m.reverse[entity]
        <5> HIDE DEF P, R
        <5> QED
          BY <2>8, <2>9, <2>10, <3>2
      <4>2. R[entity] \in DOMAIN m.forward /\ m.forward[R[entity]].entity = entity
        BY <2>10, <4>1 DEF Sound
      <4>3. R[entity] # id
        BY <2>10, <4>1, <4>2
      <4> QED
        BY <2>3, <4>2, <4>3
    <3> QED
      BY <3>1, <3>2
  <2> HIDE DEF F, R
  <2>11. /\ Renamed(m, id, old, new).forward = F /\ Renamed(m, id, old, new).reverse = R
         /\ Renamed(m, id, old, new) \in Map
    BY <2>1, <2>4, <2>6, <2>7 DEF Map
  <2> QED
    BY <1>2, <2>3, <2>10, <2>11 DEF Sound
<1> QED
  BY <1>1, <1>2

-----------------------------------------------------------------------------
(***************************************************************************)
(* A sync.                                                                 *)
(***************************************************************************)

\* A non-empty set of natural numbers has a least element.
LEMMA LeastNat ==
  ASSUME NEW T, T \subseteq Nat, T # {}
  PROVE  \E x \in T : \A y \in T : x <= y
<1>1. PICK x \in T : \A y \in T : ~(<<y, x>> \in OpToRel(<, Nat))
  BY NatLessThanWellFounded, WFMin
<1>2. \A y \in T : ~(y < x)
  BY <1>1 DEF OpToRel
<1> QED
  BY <1>2

\* A non-empty set of positions in a sequence has a last one.
LEMMA LastPosition ==
  ASSUME NEW n \in Nat, NEW T, T \subseteq 1..n, T # {}
  PROVE  \E x \in T : \A y \in T : y <= x
<1> DEFINE D == {n - x : x \in T}
<1>1. D \subseteq Nat /\ D # {}
  <2>1. \A x \in T : n - x \in Nat
    OBVIOUS
  <2> QED
    BY <2>1
<1>2. PICK d \in D : \A e \in D : d <= e
  <2> HIDE DEF D
  <2> QED
    BY <1>1, LeastNat
<1>3. PICK x \in T : d = n - x
  BY <1>2
<1>4. ASSUME NEW y \in T PROVE y <= x
  <2>1. n - y \in D
    OBVIOUS
  <2>2. n - x <= n - y
    BY <1>2, <1>3, <2>1
  <2> QED
    BY <2>2
<1> QED
  BY <1>4

LEMMA LastIs ==
  ASSUME NEW rows \in Seq(Row), NEW field, NEW key, NEW i \in 1..Len(rows), rows[i][field] = key
  PROVE  /\ LastWith(rows, field, key) \in 1..Len(rows)
         /\ rows[LastWith(rows, field, key)][field] = key
<1> DEFINE T == {j \in 1..Len(rows) : rows[j][field] = key}
<1>1. Len(rows) \in Nat
  BY LenProperties
<1>2. PICK x \in T : \A y \in T : y <= x
  <2>1. T \subseteq 1..Len(rows) /\ i \in T
    OBVIOUS
  <2> HIDE DEF T
  <2> QED
    BY <1>1, <2>1, LastPosition
<1>3. /\ x \in 1..Len(rows) /\ rows[x][field] = key
      /\ \A j \in (x + 1)..Len(rows) : rows[j][field] # key
  BY <1>1, <1>2
<1> QED
  BY <1>3 DEF LastWith

Distinct(rows) == \A a, b \in 1..Len(rows) : rows[a].id = rows[b].id => a = b
Listed(rows) == {rows[i].id : i \in 1..Len(rows)}

\* The map of a sync whose rows are of different devices.
LEMMA LoadedFacts ==
  ASSUME NEW rows \in Seq(Row), Distinct(rows)
  PROVE  /\ Loaded(rows) \in Map
         /\ DOMAIN Loaded(rows).forward = Listed(rows)
         /\ Sound(Loaded(rows))
<1> DEFINE F == [id \in Keys(rows, "id") |-> rows[LastWith(rows, "id", id)]]
           R == DevicesBy(rows, "entity")
           U == DevicesBy(rows, "unique")
<1>1. \A i \in 1..Len(rows) : rows[i] \in Row
  BY ElementOfSeq
<1>2. \A i \in 1..Len(rows) : /\ rows[i].id \in Devices /\ rows[i].id # None
                              /\ rows[i].entity \in Entities \cup {None}
                              /\ rows[i].unique \in UniqueIds \cup {None}
  BY <1>1, RowFields
<1>3. Keys(rows, "id") = Listed(rows)
  BY <1>2 DEF Keys, Listed
<1>4. ASSUME NEW field, NEW key \in Keys(rows, field)
      PROVE  /\ LastWith(rows, field, key) \in 1..Len(rows)
             /\ rows[LastWith(rows, field, key)][field] = key
  <2>1. PICK i \in 1..Len(rows) : rows[i][field] = key
    BY DEF Keys
  <2> QED
    BY <2>1, LastIs
<1>5. F \in [Keys(rows, "id") -> Row] /\ Keys(rows, "id") \subseteq Devices
  BY <1>1, <1>2, <1>4 DEF Keys
<1>6. R \in [Keys(rows, "entity") -> Devices] /\ Keys(rows, "entity") \subseteq Entities
  BY <1>2, <1>4 DEF Keys, DevicesBy
<1>7. U \in [Keys(rows, "unique") -> Devices] /\ Keys(rows, "unique") \subseteq UniqueIds
  BY <1>2, <1>4 DEF Keys, DevicesBy
<1>8. ASSUME NEW entity \in DOMAIN R
      PROVE  R[entity] \in DOMAIN F /\ F[R[entity]].entity = entity
  <2> DEFINE i == LastWith(rows, "entity", entity)
             k == LastWith(rows, "id", rows[i].id)
  <2>1. entity \in Keys(rows, "entity") /\ R[entity] = rows[i].id
    BY <1>6 DEF DevicesBy
  <2>2. i \in 1..Len(rows) /\ rows[i].entity = entity
    BY <1>4, <2>1
  <2>3. rows[i].id \in Keys(rows, "id")
    BY <1>3, <2>2 DEF Listed
  <2>4. k \in 1..Len(rows) /\ rows[k].id = rows[i].id
    BY <1>4, <2>3
  <2>5. k = i
    <3> HIDE DEF i, k
    <3> QED
      BY <2>2, <2>4 DEF Distinct
  <2>6. F[rows[i].id] = rows[k]
    BY <2>3
  <2> HIDE DEF i, k, F, R
  <2> QED
    BY <1>5, <2>1, <2>2, <2>3, <2>5, <2>6
<1>9. Loaded(rows) = [forward |-> F, reverse |-> R, byUnique |-> U]
  BY DEF Loaded
<1> HIDE DEF F, R, U
<1>10. /\ F \in Dict(Devices, Row) /\ R \in Dict(Entities, Devices)
       /\ U \in Dict(UniqueIds, Devices) /\ DOMAIN F = Keys(rows, "id")
  BY <1>5, <1>6, <1>7, DictIs
<1>11. Loaded(rows).forward = F /\ Loaded(rows).reverse = R
  BY <1>9
<1>12. Loaded(rows) \in Map
  BY <1>9, <1>10 DEF Map
<1> QED
  BY <1>3, <1>8, <1>10, <1>11, <1>12 DEF Sound

-----------------------------------------------------------------------------
(***************************************************************************)
(* The messages under way, as steps from the devices tracked now to those  *)
(* tracked once all have been handled.                                     *)
(***************************************************************************)
After(tracked, message) ==
  IF message.type = "sync" THEN Listed(message.rows)
  ELSE IF message.type = "remove" THEN tracked \ {message.id}
  ELSE tracked \cup {message.row.id}

\* seen[i]: the devices tracked once the first i messages have been handled.
Walk(seen, messages) ==
  \A i \in 1..Len(messages) :
    /\ seen[i] = After(seen[i - 1], messages[i])
    /\ messages[i].type = "add" => messages[i].row.id \notin seen[i - 1]

Leads(messages, from, to) ==
  \E seen \in [0..Len(messages) -> SUBSET Devices] :
    /\ seen[0] = from /\ seen[Len(messages)] = to
    /\ Walk(seen, messages)

LEMMA MessageFields ==
  ASSUME NEW message \in Message
  PROVE  /\ message.type \in {"sync", "add", "update", "remove"}
         /\ message.type = "sync" => message.rows \in Seq(Row)
         /\ message.type \in {"add", "update"} => message.row \in Row
         /\ message.type = "remove" => message.id \in Devices
BY DEF Message

LEMMA AfterTyped ==
  ASSUME NEW tracked \in SUBSET Devices, NEW message \in Message
  PROVE  After(tracked, message) \in SUBSET Devices
<1>1. CASE message.type = "sync"
  <2>1. \A i \in 1..Len(message.rows) : message.rows[i].id \in Devices
    BY <1>1, MessageFields, ElementOfSeq, RowFields
  <2> QED
    BY <1>1, <2>1 DEF After, Listed
<1>2. CASE message.type # "sync"
  BY <1>2, MessageFields, RowFields DEF After
<1> QED
  BY <1>1, <1>2

\* Handling the message at the head.
LEMMA LeadsPop ==
  ASSUME NEW messages \in Seq(Message), messages # <<>>, NEW from, NEW to,
         Leads(messages, from, to)
  PROVE  /\ Leads(Tail(messages), After(from, Head(messages)), to)
         /\ Head(messages).type = "add" => Head(messages).row.id \notin from
<1> DEFINE n == Len(messages)
<1>1. PICK seen \in [0..n -> SUBSET Devices] :
        seen[0] = from /\ seen[n] = to /\ Walk(seen, messages)
  BY DEF Leads
<1>2. /\ n \in Nat \ {0} /\ Len(Tail(messages)) = n - 1
      /\ \A i \in 1..(n - 1) : Tail(messages)[i] = messages[i + 1]
      /\ Head(messages) = messages[1]
  BY HeadTailProperties, EmptySeq
<1> DEFINE later == [i \in 0..(n - 1) |-> seen[i + 1]]
<1> HIDE DEF n
<1>3. later \in [0..(n - 1) -> SUBSET Devices]
  <2>1. \A i \in 0..(n - 1) : i + 1 \in 0..n
    BY <1>2
  <2> QED
    BY <1>1, <2>1
<1>4. seen[1] = After(from, Head(messages))
      /\ (Head(messages).type = "add" => Head(messages).row.id \notin from)
  <2>1. 1 \in 1..n /\ 1 - 1 = 0
    BY <1>2
  <2> QED
    BY <1>1, <1>2, <2>1 DEF Walk, n
<1>5. later[0] = seen[1] /\ later[n - 1] = to
  <2>1. 0 \in 0..(n - 1) /\ n - 1 \in 0..(n - 1) /\ (n - 1) + 1 = n /\ 0 + 1 = 1
    BY <1>2
  <2> QED
    BY <1>1, <2>1
<1>6. ASSUME NEW i \in 1..(n - 1)
      PROVE  /\ later[i] = After(later[i - 1], Tail(messages)[i])
             /\ Tail(messages)[i].type = "add" => Tail(messages)[i].row.id \notin later[i - 1]
  <2>1. i + 1 \in 1..n /\ i \in 0..(n - 1) /\ i - 1 \in 0..(n - 1) /\ (i - 1) + 1 = i
        /\ (i + 1) - 1 = i
    BY <1>2
  <2>2. later[i] = seen[i + 1] /\ later[i - 1] = seen[i]
    BY <2>1
  <2>3. /\ seen[i + 1] = After(seen[i], messages[i + 1])
        /\ messages[i + 1].type = "add" => messages[i + 1].row.id \notin seen[i]
    BY <1>1, <2>1 DEF Walk, n
  <2> HIDE DEF later
  <2> QED
    BY <1>2, <2>2, <2>3
<1> HIDE DEF later
<1> QED
  BY <1>2, <1>3, <1>4, <1>5, <1>6 DEF Leads, Walk

\* Sending one more message.
LEMMA LeadsAppend ==
  ASSUME NEW messages \in Seq(Message), NEW from, NEW to, Leads(messages, from, to),
         NEW message \in Message, message.type = "add" => message.row.id \notin to
  PROVE  Leads(Append(messages, message), from, After(to, message))
<1> DEFINE n == Len(messages)
           more == Append(messages, message)
<1>1. PICK seen \in [0..n -> SUBSET Devices] :
        seen[0] = from /\ seen[n] = to /\ Walk(seen, messages)
  BY DEF Leads
<1>2. /\ n \in Nat /\ Len(more) = n + 1 /\ more[n + 1] = message
      /\ \A i \in 1..n : more[i] = messages[i]
  BY AppendProperties, LenProperties
<1> DEFINE longer == [i \in 0..(n + 1) |-> IF i = n + 1 THEN After(to, message) ELSE seen[i]]
<1> HIDE DEF n, more
<1>3. to \in SUBSET Devices /\ n \in 0..n
  BY <1>1, <1>2
<1>4. longer \in [0..(n + 1) -> SUBSET Devices]
  <2>1. \A i \in 0..(n + 1) : i # n + 1 => i \in 0..n
    BY <1>2
  <2> QED
    BY <1>1, <1>3, <2>1, AfterTyped
<1>5. longer[0] = from /\ longer[n + 1] = After(to, message)
  <2>1. 0 \in 0..(n + 1) /\ 0 # n + 1 /\ n + 1 \in 0..(n + 1)
    BY <1>2
  <2> QED
    BY <1>1, <2>1
<1>6. ASSUME NEW i \in 1..(n + 1)
      PROVE  /\ longer[i] = After(longer[i - 1], more[i])
             /\ more[i].type = "add" => more[i].row.id \notin longer[i - 1]
  <2>1. i \in 0..(n + 1) /\ i - 1 \in 0..(n + 1) /\ i - 1 # n + 1
    BY <1>2
  <2>2. longer[i - 1] = seen[i - 1]
    BY <2>1
  <2>3. CASE i = n + 1
    <3>1. i - 1 = n /\ longer[i] = After(to, message)
      BY <1>2, <2>1, <2>3
    <3> HIDE DEF longer
    <3> QED
      BY <1>1, <1>2, <2>2, <2>3, <3>1
  <2>4. CASE i # n + 1
    <3>1. i \in 1..n /\ longer[i] = seen[i]
      BY <1>2, <2>1, <2>4
    <3>2. /\ seen[i] = After(seen[i - 1], messages[i])
          /\ messages[i].type = "add" => messages[i].row.id \notin seen[i - 1]
      BY <1>1, <3>1 DEF Walk, n
    <3> HIDE DEF longer
    <3> QED
      BY <1>2, <2>2, <3>1, <3>2
  <2> QED
    BY <2>3, <2>4
<1> HIDE DEF longer
<1>7. Walk(longer, more)
  BY <1>2, <1>6 DEF Walk
<1> QED
  BY <1>2, <1>4, <1>5, <1>7 DEF Leads, more

\* A sync holds the gateway's rows, each once.
LEMMA SyncFacts ==
  ASSUME gateway \in Dict(Devices, Row), Named(gateway),
         NEW rows \in Bijection(1..Cardinality(Range(gateway)), Range(gateway))
  PROVE  rows \in Seq(Row) /\ Distinct(rows) /\ Listed(rows) = DOMAIN gateway
<1> DEFINE n == Cardinality(Range(gateway))
<1>1. DOMAIN gateway \subseteq Devices /\ gateway \in [DOMAIN gateway -> Row]
  BY DictIs
<1>2. Range(gateway) = {gateway[d] : d \in DOMAIN gateway}
  BY DEF Range
<1>3. n \in Nat
  <2>1. IsFiniteSet(DOMAIN gateway)
    BY <1>1, DevicesAssumption, FS_Subset
  <2>2. gateway \in Surjection(DOMAIN gateway, Range(gateway))
    BY <1>1, <1>2 DEF Surjection
  <2>3. IsFiniteSet(Range(gateway))
    BY <2>1, <2>2, FS_Surjection
  <2> QED
    BY <2>3, FS_CardinalityType
<1> HIDE DEF n
<1>4. /\ rows \in [1..n -> Range(gateway)]
      /\ \A row \in Range(gateway) : \E i \in 1..n : rows[i] = row
      /\ \A a, b \in 1..n : rows[a] = rows[b] => a = b
  BY DEF Bijection, Injection, Surjection, IsInjective, n
<1>5. rows \in Seq(Row) /\ Len(rows) = n
  <2>1. rows \in [1..n -> Row]
    BY <1>1, <1>2, <1>4
  <2> QED
    BY <1>3, <2>1
<1>6. ASSUME NEW i \in 1..n
      PROVE  rows[i].id \in DOMAIN gateway /\ rows[i] = gateway[rows[i].id]
  <2>1. PICK d \in DOMAIN gateway : rows[i] = gateway[d]
    BY <1>2, <1>4
  <2> QED
    BY <2>1 DEF Named
<1>7. Distinct(rows)
  BY <1>4, <1>5, <1>6 DEF Distinct
<1>8. Listed(rows) = DOMAIN gateway
  <2>1. ASSUME NEW d \in DOMAIN gateway PROVE \E i \in 1..n : rows[i].id = d
    <3>1. gateway[d] \in Range(gateway)
      BY <1>2
    <3>2. PICK i \in 1..n : rows[i] = gateway[d]
      BY <1>4, <3>1
    <3> QED
      BY <3>2 DEF Named
  <2> QED
    BY <1>5, <1>6, <2>1 DEF Listed
<1> QED
  BY <1>5, <1>7, <1>8

-----------------------------------------------------------------------------
(***************************************************************************)
(* The invariant.                                                          *)
(***************************************************************************)

\* TypeOK of everything but the map.
TypeRest ==
  /\ drifts \in Seq(SUBSET Devices)
  /\ created \in Nat
  /\ registry \in Dict(Entities, UniqueIds)
  /\ used \in SUBSET Entities
  /\ linked \in BOOLEAN
  /\ toGateway \in Seq(Change)
  /\ registryChanges \in Nat /\ edits \in Nat /\ drops \in Nat

\* What is under way leads from the devices tracked to the gateway's.
ChannelOK ==
  /\ toClient \in Seq(Message)
  /\ \A i \in 1..Len(toClient) : toClient[i].type = "sync" => Distinct(toClient[i].rows)
  /\ linked => Leads(toClient, DOMAIN map.forward, DOMAIN gateway)
  /\ ~linked => toClient = <<>>

MapOK == map \in Map /\ Sound(map)
GatewayOK == gateway \in Dict(Devices, Row) /\ Named(gateway)

IInv == TypeRest /\ MapOK /\ GatewayOK /\ ChannelOK

LEMMA IInvImplies == IInv => TypeOK /\ ReverseSound
BY DEF IInv, TypeRest, MapOK, GatewayOK, ChannelOK, TypeOK, Map, Sound, ReverseSound

LEMMA InitIInv == Init => IInv
<1> SUFFICES ASSUME Init PROVE IInv
  OBVIOUS
<1>1. MapOK
  BY EmptyFacts DEF Init, MapOK
<1>2. GatewayOK
  BY DEF Init, GatewayOK
<1>3. TypeRest
  <2>1. DOMAIN registry \subseteq Entities
    BY DictIs DEF Init
  <2>2. drifts = <<>> /\ toGateway = <<>> /\ used = DOMAIN registry /\ created = 0
        /\ registry \in Dict(Entities, UniqueIds) /\ linked = FALSE
        /\ registryChanges = 0 /\ edits = 0 /\ drops = 0
    BY DEF Init
  <2>3. <<>> \in Seq(SUBSET Devices) /\ <<>> \in Seq(Change)
    BY EmptySeq
  <2> QED
    BY <2>1, <2>2, <2>3 DEF TypeRest
<1>4. ChannelOK
  BY DEF Init, ChannelOK
<1> QED
  BY <1>1, <1>2, <1>3, <1>4 DEF IInv

\* The client has handled the message at the head.
LEMMA Handled ==
  ASSUME IInv, toClient # <<>>, toClient' = Tail(toClient),
         UNCHANGED <<gateway, linked>>,
         DOMAIN (map').forward = After(DOMAIN map.forward, Head(toClient))
  PROVE  ChannelOK'
<1>1. /\ linked /\ toClient \in Seq(Message)
      /\ Leads(toClient, DOMAIN map.forward, DOMAIN gateway)
  BY DEF IInv, ChannelOK, TypeRest
<1>2. Leads(toClient', DOMAIN (map').forward, DOMAIN gateway)
  BY <1>1, LeadsPop
<1>3. /\ toClient' \in Seq(Message)
      /\ \A i \in 1..Len(toClient') : i + 1 \in 1..Len(toClient) /\ toClient'[i] = toClient[i + 1]
  BY <1>1, HeadTailProperties, LenProperties
<1>4. \A i \in 1..Len(toClient') : toClient'[i].type = "sync" => Distinct(toClient'[i].rows)
  BY <1>3 DEF IInv, ChannelOK
<1> QED
  BY <1>1, <1>2, <1>3, <1>4 DEF ChannelOK

\* The gateway has changed its rows and, while connected, said so.
LEMMA Edited ==
  ASSUME IInv, NEW kind, NEW message \in Message, message.type # "sync",
         GatewayEdits(kind, message),
         message.type = "add" => message.row.id \notin DOMAIN gateway,
         DOMAIN gateway' = After(DOMAIN gateway, message)
  PROVE  ChannelOK'
<1>1. toClient \in Seq(Message) /\ UNCHANGED <<map, linked>>
  BY DEF IInv, ChannelOK, GatewayEdits
<1>2. CASE linked
  <2>1. toClient' = Append(toClient, message)
    BY <1>2 DEF GatewayEdits
  <2>2. Leads(toClient', DOMAIN map.forward, DOMAIN gateway')
    BY <1>1, <1>2, <2>1, LeadsAppend DEF IInv, ChannelOK
  <2>3. /\ toClient' \in Seq(Message) /\ Len(toClient') = Len(toClient) + 1
        /\ toClient'[Len(toClient) + 1] = message
        /\ \A i \in 1..Len(toClient) : toClient'[i] = toClient[i]
        /\ Len(toClient) \in Nat
    BY <1>1, <2>1, AppendProperties, LenProperties
  <2>4. ASSUME NEW i \in 1..Len(toClient'), toClient'[i].type = "sync"
        PROVE  Distinct(toClient'[i].rows)
    <3>1. i # Len(toClient) + 1
      BY <2>3, <2>4
    <3>2. i \in 1..Len(toClient)
      BY <2>3, <3>1
    <3> QED
      BY <2>3, <2>4, <3>2 DEF IInv, ChannelOK
  <2> QED
    BY <1>1, <1>2, <2>2, <2>3, <2>4 DEF ChannelOK
<1>3. CASE ~linked
  BY <1>1, <1>3 DEF IInv, ChannelOK, GatewayEdits
<1> QED
  BY <1>2, <1>3

\* A step that neither sends to the client nor changes the devices known.
LEMMA Elsewhere ==
  ASSUME IInv, UNCHANGED <<toClient, linked>>,
         DOMAIN (map').forward = DOMAIN map.forward, DOMAIN gateway' = DOMAIN gateway
  PROVE  ChannelOK'
BY DEF IInv, ChannelOK

-----------------------------------------------------------------------------
(***************************************************************************)
(* Every step preserves it.                                                *)
(***************************************************************************)
LEMMA TellTyped ==
  ASSUME toGateway \in Seq(Change), NEW id \in Devices, NEW new \in Entities, Tell(id, new)
  PROVE  toGateway' \in Seq(Change)
<1>1. [id |-> id, new |-> new] \in Change
  BY DEF Change
<1> QED
  BY <1>1, AppendProperties DEF Tell

LEMMA ReceiveSteps ==
  ASSUME IInv, DeviceMapSync \/ AddReceived \/ UpdateReceived \/ RemoveReceived
  PROVE  IInv'
<1> DEFINE head == Head(toClient)
<1>1. PICK type \in {"sync", "add", "update", "remove"} :
        Receive(type) /\ head.type = type /\ created' \in {created, created + 1}
  BY DEF DeviceMapSync, AddReceived, UpdateReceived, RemoveReceived, Receive
<1>2. /\ toClient # <<>> /\ toClient' = Tail(toClient)
      /\ UNCHANGED <<drifts, registry, used, registryChanges, gateway, edits, linked, toGateway, drops>>
  BY <1>1 DEF Receive, haVars, gatewayVars
<1>3. /\ toClient \in Seq(Message) /\ linked /\ map \in Map /\ Sound(map)
      /\ Leads(toClient, DOMAIN map.forward, DOMAIN gateway)
      /\ \A i \in 1..Len(toClient) : toClient[i].type = "sync" => Distinct(toClient[i].rows)
  BY <1>2 DEF IInv, ChannelOK, MapOK, TypeRest
<1>4. head \in Message /\ 1 \in 1..Len(toClient) /\ head = toClient[1]
  BY <1>2, <1>3, HeadTailProperties, EmptySeq
<1>5. TypeRest'
  BY <1>1, <1>2 DEF IInv, TypeRest
<1>6. GatewayOK'
  BY <1>2 DEF IInv, GatewayOK
<1>7. MapOK' /\ DOMAIN (map').forward = After(DOMAIN map.forward, head)
  <2>1. CASE DeviceMapSync
    <3>1. head.type = "sync" /\ map' = Loaded(head.rows)
      BY <2>1 DEF DeviceMapSync, Receive
    <3>2. head.rows \in Seq(Row) /\ Distinct(head.rows)
      BY <1>3, <1>4, <3>1, MessageFields
    <3> HIDE DEF head
    <3> QED
      BY <3>1, <3>2, LoadedFacts DEF MapOK, After
  <2>2. CASE AddReceived
    <3>1. head.type = "add" /\ map' = Added(map, head.row)
      BY <2>2 DEF AddReceived, Receive
    <3>2. head.row \in Row /\ head.row.id \notin DOMAIN map.forward
      BY <1>2, <1>3, <1>4, <3>1, MessageFields, LeadsPop
    <3> HIDE DEF head
    <3> QED
      BY <1>3, <3>1, <3>2, AddedFacts DEF MapOK, After
  <2>3. CASE UpdateReceived
    <3>1. head.type = "update" /\ map' = Added(Removed(map, head.row.id), head.row)
      BY <2>3 DEF UpdateReceived, Receive
    <3>2. head.row \in Row
      BY <1>4, <3>1, MessageFields
    <3> DEFINE m == Removed(map, head.row.id)
    <3> HIDE DEF head
    <3>3. m \in Map /\ Sound(m) /\ DOMAIN m.forward = DOMAIN map.forward \ {head.row.id}
      BY <1>3, RemovedFacts
    <3> HIDE DEF m
    <3>4. /\ Added(m, head.row) \in Map /\ Sound(Added(m, head.row))
          /\ DOMAIN Added(m, head.row).forward = DOMAIN m.forward \cup {head.row.id}
      BY <3>2, <3>3, AddedFacts
    <3>5. map' = Added(m, head.row)
      BY <3>1 DEF m
    <3> QED
      BY <3>1, <3>3, <3>4, <3>5 DEF MapOK, After
  <2>4. CASE RemoveReceived
    <3>1. head.type = "remove" /\ map' = Removed(map, head.id)
      BY <2>4 DEF RemoveReceived, Receive
    <3> HIDE DEF head
    <3> QED
      BY <1>3, <3>1, RemovedFacts DEF MapOK, After
  <2> QED
    BY <2>1, <2>2, <2>3, <2>4
<1>8. ChannelOK'
  BY <1>2, <1>7, Handled
<1> QED
  BY <1>5, <1>6, <1>7, <1>8 DEF IInv

LEMMA DriftSteps ==
  ASSUME IInv, DriftBegins \/ DriftVisits \/ DriftEnds
  PROVE  IInv'
<1>1. /\ drifts \in Seq(SUBSET Devices) /\ created \in Nat /\ toGateway \in Seq(Change)
      /\ map \in Map /\ Sound(map) /\ Len(drifts) \in Nat
  BY LenProperties DEF IInv, TypeRest, MapOK
<1>2. UNCHANGED <<registry, used, registryChanges, gateway, edits, linked, toClient, drops>>
  BY DEF DriftBegins, DriftVisits, DriftEnds, haVars, gatewayVars
<1>3. DOMAIN map.forward \subseteq Devices /\ map.forward \in Dict(Devices, Row)
  BY <1>1, DictIs DEF Map
<1>4. /\ drifts' \in Seq(SUBSET Devices) /\ created' \in Nat /\ toGateway' \in Seq(Change)
      /\ map' \in Map /\ Sound(map') /\ DOMAIN (map').forward = DOMAIN map.forward
  <2>1. CASE DriftBegins
    <3>1. /\ drifts' = Append(drifts, DOMAIN map.forward) /\ created > 0
          /\ created' = created - 1 /\ UNCHANGED <<map, toGateway>>
      BY <2>1 DEF DriftBegins
    <3>2. drifts' \in Seq(SUBSET Devices)
      BY <1>1, <1>3, <3>1, AppendProperties
    <3> QED
      BY <1>1, <3>1, <3>2
  <2>2. CASE DriftVisits
    <3>1. PICK task \in 1..Len(drifts) : \E id \in drifts[task] :
            /\ drifts' = [drifts EXCEPT ![task] = @ \ {id}]
            /\ created' = created
            /\ \/ /\ HasDrifted(id)
                  /\ \E entity \in Resolved(map.forward[id].unique) :
                       /\ map' = Renamed(map, id, map.forward[id].entity, entity)
                       /\ Tell(id, entity)
               \/ UNCHANGED <<map, toGateway>>
      BY <2>2 DEF DriftVisits
    <3>2. drifts[task] \in SUBSET Devices
      BY <1>1, ElementOfSeq
    <3>3. PICK id \in drifts[task] :
            /\ drifts' = [drifts EXCEPT ![task] = @ \ {id}]
            /\ created' = created
            /\ \/ \E entity \in Resolved(map.forward[id].unique) :
                    /\ map' = Renamed(map, id, map.forward[id].entity, entity)
                    /\ Tell(id, entity)
               \/ UNCHANGED <<map, toGateway>>
      BY <3>1
    <3>4. drifts' \in Seq(SUBSET Devices)
      BY <1>1, <3>2, <3>3, ExceptSeq
    <3>5. CASE UNCHANGED <<map, toGateway>>
      BY <1>1, <3>3, <3>4, <3>5
    <3>6. CASE ~UNCHANGED <<map, toGateway>>
      <4>1. PICK entity \in Resolved(map.forward[id].unique) :
              /\ map' = Renamed(map, id, map.forward[id].entity, entity)
              /\ Tell(id, entity)
        BY <3>3, <3>6
      <4>2. entity \in Entities
        BY DictIs DEF Resolved, IInv, TypeRest
      <4>3. toGateway' \in Seq(Change) /\ id \in Devices
        BY <1>1, <3>2, <4>1, <4>2, TellTyped
      <4> QED
        BY <1>1, <3>3, <3>4, <4>1, <4>2, <4>3, RenamedFacts
    <3> QED
      BY <3>5, <3>6
  <2>3. CASE DriftEnds
    <3>1. PICK task \in 1..Len(drifts) :
            /\ drifts' = [i \in 1..(Len(drifts) - 1) |-> drifts[IF i < task THEN i ELSE i + 1]]
            /\ UNCHANGED <<map, created, toGateway>>
      BY <2>3 DEF DriftEnds
    <3>2. \A i \in 1..(Len(drifts) - 1) : drifts[IF i < task THEN i ELSE i + 1] \in SUBSET Devices
      <4>1. \A i \in 1..(Len(drifts) - 1) : i \in 1..Len(drifts) /\ i + 1 \in 1..Len(drifts)
        BY <1>1
      <4> QED
        BY <1>1, <4>1, ElementOfSeq
    <3>3. drifts' \in Seq(SUBSET Devices)
      <4>1. Len(drifts) - 1 \in Nat
        BY <1>1, <3>1
      <4>2. drifts' \in [1..(Len(drifts) - 1) -> SUBSET Devices]
        BY <3>1, <3>2
      <4> QED
        BY <4>1, <4>2
    <3> QED
      BY <1>1, <3>1, <3>3
  <2> QED
    BY <2>1, <2>2, <2>3
<1>5. TypeRest' /\ GatewayOK' /\ MapOK'
  BY <1>2, <1>4 DEF IInv, TypeRest, GatewayOK, MapOK
<1>6. ChannelOK'
  BY <1>2, <1>4, Elsewhere
<1> QED
  BY <1>5, <1>6 DEF IInv

LEMMA RegistrySteps ==
  ASSUME IInv, EntityRenamed \/ EntityUnregistered \/ EntityRegistered
  PROVE  IInv'
<1>1. PICK kind \in Kinds : RegistryChanges(kind)
  BY DEF EntityRenamed, EntityUnregistered, EntityRegistered, Kinds
<1>2. /\ UNCHANGED <<drifts, created, gateway, edits, linked, toClient, drops>>
      /\ registryChanges' = registryChanges + 1
  BY <1>1 DEF RegistryChanges, gatewayVars
<1>3. /\ registry \in Dict(Entities, UniqueIds) /\ used \in SUBSET Entities
      /\ toGateway \in Seq(Change) /\ map \in Map /\ Sound(map)
      /\ \A entity \in DOMAIN registry : entity \in Entities /\ registry[entity] \in UniqueIds
      /\ FreeIds \subseteq Entities
  BY DictIs DEF IInv, TypeRest, MapOK, FreeIds
<1>4. /\ registry' \in Dict(Entities, UniqueIds) /\ used' \in SUBSET Entities
      /\ toGateway' \in Seq(Change)
      /\ map' \in Map /\ Sound(map') /\ DOMAIN (map').forward = DOMAIN map.forward
  <2>1. CASE EntityRenamed
    <3>1. PICK old \in DOMAIN registry, new \in FreeIds :
            /\ registry' = Put(Pop(registry, old), new, registry[old])
            /\ used' = used \cup {new}
            /\ IF old \in DOMAIN map.reverse
               THEN /\ map' = Renamed(map, map.reverse[old], old, new)
                    /\ Tell(map.reverse[old], new)
               ELSE UNCHANGED <<map, toGateway>>
      BY <2>1 DEF EntityRenamed
    <3>2. new \in Entities /\ used' \in SUBSET Entities
      BY <1>3, <3>1
    <3>3. registry' \in Dict(Entities, UniqueIds)
      <4>1. Pop(registry, old) \in Dict(Entities, UniqueIds)
        BY <1>3, PopTyped
      <4> QED
        BY <1>3, <3>1, <3>2, <4>1, Nones, PutTyped
    <3>4. CASE old \in DOMAIN map.reverse
      <4> DEFINE id == map.reverse[old]
      <4>1. id \in Devices
        BY <1>3, <3>4, DictIs DEF Map
      <4>2. map.forward[id].entity = old
        BY <1>3, <3>4 DEF Sound
      <4>3. map' = Renamed(map, id, old, new) /\ Tell(id, new)
        BY <3>1, <3>4
      <4> HIDE DEF id
      <4>4. toGateway' \in Seq(Change)
        BY <1>3, <3>2, <4>1, <4>3, TellTyped
      <4> QED
        BY <1>3, <3>2, <3>3, <4>2, <4>3, <4>4, RenamedFacts
    <3>5. CASE old \notin DOMAIN map.reverse
      BY <1>3, <3>1, <3>2, <3>3, <3>5
    <3> QED
      BY <3>4, <3>5
  <2>2. CASE EntityUnregistered
    BY <1>3, <2>2, PopTyped DEF EntityUnregistered
  <2>3. CASE EntityRegistered
    <3>1. PICK entity \in FreeIds, unique \in UniqueIds :
            registry' = Put(registry, entity, unique) /\ used' = used \cup {entity}
      BY <2>3 DEF EntityRegistered
    <3>2. registry' \in Dict(Entities, UniqueIds)
      BY <1>3, <3>1, Nones, PutTyped
    <3> QED
      BY <1>3, <2>3, <3>1, <3>2 DEF EntityRegistered
  <2> QED
    BY <2>1, <2>2, <2>3
<1>5. TypeRest' /\ GatewayOK' /\ MapOK'
  BY <1>2, <1>4 DEF IInv, TypeRest, GatewayOK, MapOK
<1>6. ChannelOK'
  BY <1>2, <1>4, Elsewhere
<1> QED
  BY <1>5, <1>6 DEF IInv

LEMMA NetworkSteps ==
  ASSUME IInv, Connect \/ ConnectionLost \/ ChangeArrives
  PROVE  IInv'
<1>1. UNCHANGED <<map, drifts, created, registry, used, registryChanges, edits>>
  BY DEF Connect, ConnectionLost, ChangeArrives, haVars, gatewayVars
<1>2. MapOK'
  BY <1>1 DEF IInv, MapOK
<1>3. CASE Connect
  <2>1. linked' = TRUE /\ UNCHANGED <<gateway, toGateway, drops>>
    BY <1>3 DEF Connect, gatewayVars
  <2>2. PICK rows \in Bijection(1..Cardinality(Range(gateway)), Range(gateway)) :
          toClient' = <<[type |-> "sync", rows |-> rows]>>
    BY <1>3 DEF Connect
  <2>3. rows \in Seq(Row) /\ Distinct(rows) /\ Listed(rows) = DOMAIN gateway
    BY SyncFacts DEF IInv, GatewayOK
  <2> DEFINE sync == [type |-> "sync", rows |-> rows]
  <2>4. sync \in Message /\ sync.type = "sync" /\ sync.rows = rows
    BY <2>3 DEF Message
  <2> HIDE DEF sync
  <2>5. toClient' = <<sync>>
    BY <2>2 DEF sync
  <2>6. toClient' \in Seq(Message) /\ Len(toClient') = 1 /\ toClient'[1] = sync
    BY <2>4, <2>5
  <2>7. Leads(toClient', DOMAIN map.forward, DOMAIN gateway)
    <3> DEFINE seen == [i \in 0..1 |-> IF i = 0 THEN DOMAIN map.forward ELSE DOMAIN gateway]
    <3>1. DOMAIN map.forward \subseteq Devices /\ DOMAIN gateway \subseteq Devices
      BY DictIs DEF IInv, MapOK, GatewayOK, Map
    <3>2. /\ seen \in [0..1 -> SUBSET Devices]
          /\ seen[0] = DOMAIN map.forward /\ seen[1] = DOMAIN gateway
      BY <3>1
    <3> HIDE DEF seen
    <3>3. Walk(seen, toClient')
      <4>1. SUFFICES ASSUME NEW i \in 1..Len(toClient')
                     PROVE  /\ seen[i] = After(seen[i - 1], toClient'[i])
                            /\ toClient'[i].type # "add"
        BY DEF Walk
      <4>2. i = 1 /\ toClient'[i] = sync
        BY <2>6
      <4> QED
        BY <2>3, <2>4, <3>2, <4>2 DEF After
    <3> QED
      BY <2>6, <3>2, <3>3 DEF Leads
  <2>8. ChannelOK'
    <3>1. \A i \in 1..Len(toClient') : Distinct(toClient'[i].rows)
      BY <2>3, <2>4, <2>6
    <3> QED
      BY <1>1, <2>1, <2>6, <2>7, <3>1 DEF ChannelOK
  <2> QED
    BY <1>1, <1>2, <2>1, <2>8 DEF IInv, TypeRest, GatewayOK
<1>4. CASE ConnectionLost
  <2>1. ChannelOK' /\ toGateway' \in Seq(Change)
    BY <1>4, EmptySeq DEF ConnectionLost, ChannelOK
  <2>2. UNCHANGED gateway /\ linked' = FALSE /\ drops' = drops + 1
    BY <1>4 DEF ConnectionLost, gatewayVars
  <2>3. TypeRest'
    <3>1. drops \in Nat
      BY DEF IInv, TypeRest
    <3>2. drops' \in Nat
      BY <2>2, <3>1
    <3> QED
      BY <1>1, <2>1, <2>2, <3>2 DEF IInv, TypeRest
  <2>4. GatewayOK'
    BY <2>2 DEF IInv, GatewayOK
  <2> QED
    BY <1>2, <2>1, <2>3, <2>4 DEF IInv
<1>5. CASE ChangeArrives
  <2> DEFINE change == Head(toGateway)
  <2>1. /\ toGateway \in Seq(Change) /\ toGateway # <<>> /\ toGateway' = Tail(toGateway)
        /\ UNCHANGED <<linked, toClient, drops>>
        /\ gateway' = IF change.id \in DOMAIN gateway
                      THEN [gateway EXCEPT ![change.id].entity = change.new]
                      ELSE gateway
    BY <1>5 DEF ChangeArrives, IInv, TypeRest
  <2>2. change \in Change /\ toGateway' \in Seq(Change)
    BY <2>1, HeadTailProperties
  <2>3. GatewayOK' /\ DOMAIN gateway' = DOMAIN gateway
    <3>1. /\ gateway \in Dict(Devices, Row) /\ DOMAIN gateway \subseteq Devices
          /\ gateway \in [DOMAIN gateway -> Row] /\ Named(gateway)
      BY DictIs DEF IInv, GatewayOK
    <3>2. CASE change.id \notin DOMAIN gateway
      BY <2>1, <3>1, <3>2 DEF GatewayOK
    <3>3. CASE change.id \in DOMAIN gateway
      <4>1. gateway' = [gateway EXCEPT ![change.id].entity = change.new]
        BY <2>1, <3>3
      <4>2. change.new \in Entities
        BY <2>2 DEF Change
      <4> HIDE DEF change
      <4>3. /\ DOMAIN gateway' = DOMAIN gateway /\ gateway' \in [DOMAIN gateway -> Row]
            /\ \A d \in DOMAIN gateway : gateway'[d].id = gateway[d].id
        BY <3>1, <4>1, <4>2 DEF Row
      <4>4. gateway' \in Dict(Devices, Row)
        BY <3>1, <4>3, DictIs
      <4> QED
        BY <3>1, <4>3, <4>4 DEF GatewayOK, Named
    <3> QED
      BY <3>2, <3>3
  <2>4. ChannelOK'
    BY <1>1, <2>1, <2>3, Elsewhere
  <2> QED
    BY <1>1, <1>2, <2>1, <2>2, <2>3, <2>4 DEF IInv, TypeRest
<1> QED
  BY <1>3, <1>4, <1>5

LEMMA EditSteps ==
  ASSUME IInv, DeviceAdded \/ DeviceRemoved \/ DeviceUpdated
  PROVE  IInv'
<1>1. /\ UNCHANGED <<map, drifts, created, registry, used, registryChanges, linked, toGateway, drops>>
      /\ edits' = edits + 1
  BY DEF DeviceAdded, DeviceRemoved, DeviceUpdated, GatewayEdits, haVars
<1>2. TypeRest' /\ MapOK'
  BY <1>1 DEF IInv, TypeRest, MapOK
<1>3. /\ gateway \in Dict(Devices, Row) /\ Named(gateway) /\ DOMAIN gateway \subseteq Devices
      /\ \A d \in DOMAIN gateway : gateway[d] \in Row
  BY DictIs DEF IInv, GatewayOK
<1>4. CASE DeviceAdded
  <2>1. PICK id \in Devices \ DOMAIN gateway, entity \in DOMAIN registry :
          LET row == [id |-> id, entity |-> entity, unique |-> registry[entity]]
          IN  /\ gateway' = Put(gateway, id, row)
              /\ GatewayEdits("add", [type |-> "add", row |-> row])
    BY <1>4 DEF DeviceAdded
  <2> DEFINE row == [id |-> id, entity |-> entity, unique |-> registry[entity]]
             message == [type |-> "add", row |-> row]
  <2>2. /\ gateway' = Put(gateway, id, row)
        /\ GatewayEdits("add", message)
    BY <2>1
  <2>3. entity \in Entities /\ registry[entity] \in UniqueIds
    BY DictIs DEF IInv, TypeRest
  <2>4. row \in Row /\ row.id = id
    BY <2>3 DEF Row
  <2> HIDE DEF row
  <2>5. message \in Message /\ message.type = "add" /\ message.row = row
    BY <2>4 DEF Message
  <2> HIDE DEF message
  <2>6. id # None /\ gateway' \in Dict(Devices, Row)
    BY <1>3, <2>2, <2>4, Nones, PutTyped
  <2>7. /\ DOMAIN gateway' = DOMAIN gateway \cup {id} /\ gateway'[id] = row
        /\ \A d \in DOMAIN gateway : gateway'[d] = gateway[d]
    BY <2>2, <2>6 DEF Put
  <2>8. GatewayOK'
    BY <1>3, <2>4, <2>6, <2>7 DEF GatewayOK, Named
  <2>9. ChannelOK'
    BY <2>2, <2>4, <2>5, <2>7, Edited DEF After
  <2> QED
    BY <1>2, <2>8, <2>9 DEF IInv
<1>5. CASE DeviceRemoved
  <2>1. PICK id \in DOMAIN gateway :
          /\ gateway' = Pop(gateway, id)
          /\ GatewayEdits("remove", [type |-> "remove", id |-> id])
    BY <1>5 DEF DeviceRemoved
  <2> DEFINE message == [type |-> "remove", id |-> id]
  <2>2. message \in Message /\ message.type = "remove" /\ message.id = id
    BY <1>3 DEF Message
  <2>3. GatewayEdits("remove", message)
    BY <2>1
  <2> HIDE DEF message
  <2>4. /\ DOMAIN gateway' = DOMAIN gateway \ {id}
        /\ \A d \in DOMAIN gateway' : gateway'[d] = gateway[d]
    BY <2>1, PopIs
  <2>5. GatewayOK'
    BY <1>3, <2>1, <2>4, PopTyped DEF GatewayOK, Named
  <2>6. ChannelOK'
    BY <2>2, <2>3, <2>4, Edited DEF After
  <2> QED
    BY <1>2, <2>5, <2>6 DEF IInv
<1>6. CASE DeviceUpdated
  <2>1. PICK id \in DOMAIN gateway :
          /\ GatewayEdits("update", [type |-> "update", row |-> gateway[id]])
          /\ UNCHANGED gateway
    BY <1>6 DEF DeviceUpdated
  <2> DEFINE message == [type |-> "update", row |-> gateway[id]]
  <2>2. message \in Message /\ message.type = "update" /\ message.row.id = id
    BY <1>3 DEF Message, Named
  <2>3. GatewayEdits("update", message)
    BY <2>1
  <2> HIDE DEF message
  <2>4. ChannelOK'
    BY <2>1, <2>2, <2>3, Edited DEF After
  <2> QED
    BY <1>2, <1>3, <2>1, <2>4 DEF IInv, GatewayOK
<1> QED
  BY <1>4, <1>5, <1>6

LEMMA NextIInv == IInv /\ [Next]_vars => IInv'
<1> SUFFICES ASSUME IInv, [Next]_vars PROVE IInv'
  OBVIOUS
<1>1. CASE UNCHANGED vars
  BY <1>1 DEF vars, IInv, TypeRest, MapOK, GatewayOK, ChannelOK
<1>2. CASE Next
  BY <1>2, ReceiveSteps, DriftSteps, RegistrySteps, NetworkSteps, EditSteps
     DEF Next, ClientStep
<1> QED
  BY <1>1, <1>2

\* Every state is of its type: whatever the gateway sends and Home Assistant
\* renames, the map stays one of devices to rows, entities to devices and
\* unique ids to devices.
THEOREM TypeCorrect == Spec => []TypeOK
<1>1. Init => IInv
  BY InitIInv
<1>2. IInv /\ [Next]_vars => IInv'
  BY NextIInv
<1>3. IInv => TypeOK
  BY IInvImplies
<1> QED
  BY <1>1, <1>2, <1>3, PTL DEF Spec

\* An entity's events are credited only to a device that the map holds and
\* that has this entity, for any number of devices, messages and renames.
THEOREM ReverseIndexSound == Spec => []ReverseSound
<1>1. Init => IInv
  BY InitIInv
<1>2. IInv /\ [Next]_vars => IInv'
  BY NextIInv
<1>3. IInv => ReverseSound
  BY IInvImplies
<1> QED
  BY <1>1, <1>2, <1>3, PTL DEF Spec

-----------------------------------------------------------------------------
(***************************************************************************)
(* What holds once all is settled.                                         *)
(***************************************************************************)

\* What the theorems of this part assume of the environment: entities are renamed
\* to ids nobody had before or unregistered, devices are removed.
Orderly == Happens \subseteq {"rename", "unregister", "remove"}

\* The syncs under way.
Syncs == {i \in 1..Len(toClient) : toClient[i].type = "sync"}

\* The rows of devices there are anywhere.
Rows == Range(gateway) \cup Range(map.forward)
          \cup UNION {Range(toClient[i].rows) : i \in Syncs}

\* own: the unique id that the entity with an entity id has, or had until it was
\* unregistered or renamed; who: the one of a device's entity; label: the unique
\* id in the device's row.
Fits(row, own, who, label) ==
  /\ row.id \in DOMAIN who /\ row.entity \in DOMAIN own
  /\ own[row.entity] = who[row.id]
  /\ row.unique = label[row.id]

Lineage(own, who, label) ==
  /\ IsInjective(who)
  /\ \A id \in DOMAIN who : label[id] \in {who[id], None}
  /\ \A entity \in DOMAIN registry : entity \in used /\ own[entity] = registry[entity]
  /\ \A row \in Rows : Fits(row, own, who, label)
  /\ \A i \in 1..Len(toGateway) :
       /\ toGateway[i].id \in DOMAIN who /\ toGateway[i].new \in used
       /\ own[toGateway[i].new] = who[toGateway[i].id]

\* No two entities, and no two devices, have one unique id, now or before.
Distinguished ==
  /\ IsInjective(registry)
  /\ \E own \in [used -> UniqueIds], who \in Dict(Devices, UniqueIds) :
       \E label \in [DOMAIN who -> UniqueIds \cup {None}] : Lineage(own, who, label)

\* Each device's entity leads back to it.
Exact(m) ==
  \A id \in DOMAIN m.forward :
    /\ m.forward[id].id = id
    /\ m.forward[id].entity \in DOMAIN m.reverse
    /\ m.reverse[m.forward[id].entity] = id

\* A sync, and with it a drift task, is yet to come, or a task is yet to visit
\* the device.
Pending(id) ==
  \/ ~linked
  \/ Syncs # {}
  \/ created > 0
  \/ \E task \in 1..Len(drifts) : id \in drifts[task]

DriftsPending == \A id \in DOMAIN map.forward : HasDrifted(id) => Pending(id)

\* What the gateway takes a device's entity to be once all it was told arrives.
Told(id) == {i \in 1..Len(toGateway) : toGateway[i].id = id}
KnownAs(id, entity) ==
  \/ Told(id) = {} /\ gateway[id].entity = entity
  \/ \E i \in Told(id) : toGateway[i].new = entity /\ \A j \in Told(id) : j <= i

\* A row that is on its way, or has come: if its entity is still there, the
\* gateway knows or will know the device as it.
Agrees(row) ==
  row.id \in DOMAIN gateway /\ row.entity \in DOMAIN registry =>
    KnownAs(row.id, row.entity)

Agreement ==
  /\ ~linked => toGateway = <<>>
  /\ linked => \A i \in Syncs : \A row \in Range(toClient[i].rows) : Agrees(row)
  /\ linked /\ Syncs = {} => \A row \in Range(map.forward) : Agrees(row)

OnlyRemovals == \A i \in 1..Len(toClient) : toClient[i].type \in {"sync", "remove"}

SettlesInv ==
  IInv /\ Distinguished /\ Exact(map) /\ DriftsPending /\ Agreement /\ OnlyRemovals

\* The operations of the map keep it exact.
LEMMA ExactRemoved ==
  ASSUME NEW m, Exact(m), NEW id
  PROVE  /\ Exact(Removed(m, id))
         /\ DOMAIN Removed(m, id).forward = DOMAIN m.forward \ {id}
         /\ \A d \in DOMAIN m.forward \ {id} : Removed(m, id).forward[d] = m.forward[d]
<1>1. CASE id \notin DOMAIN m.forward
  BY <1>1 DEF Removed
<1>2. CASE id \in DOMAIN m.forward
  <2> DEFINE entity == m.forward[id].entity
             F == Pop(m.forward, id)
             R == Pop(m.reverse, entity)
  <2>1. Removed(m, id).forward = F /\ Removed(m, id).reverse = R
    BY <1>2 DEF Removed
  <2>2. /\ DOMAIN F = DOMAIN m.forward \ {id}
        /\ \A d \in DOMAIN m.forward \ {id} : F[d] = m.forward[d]
        /\ DOMAIN R = DOMAIN m.reverse \ {entity}
        /\ \A x \in DOMAIN m.reverse \ {entity} : R[x] = m.reverse[x]
    BY PopIs
  <2> HIDE DEF F, R
  <2>3. \A d \in DOMAIN F : m.forward[d].entity # entity
    BY <1>2, <2>2 DEF Exact
  <2>4. \A d \in DOMAIN F : F[d].id = d /\ F[d].entity \in DOMAIN R /\ R[F[d].entity] = d
    BY <2>2, <2>3 DEF Exact
  <2> QED
    BY <2>1, <2>2, <2>4 DEF Exact
<1> QED
  BY <1>1, <1>2

LEMMA ExactRenamed ==
  ASSUME NEW m \in Map, Exact(m), NEW id \in DOMAIN m.forward, NEW new \in Entities,
         \A d \in DOMAIN m.forward \ {id} : m.forward[d].entity # new
  PROVE  LET after == Renamed(m, id, m.forward[id].entity, new)
         IN  /\ Exact(after)
             /\ DOMAIN after.forward = DOMAIN m.forward
             /\ \A d \in DOMAIN m.forward \ {id} : after.forward[d] = m.forward[d]
             /\ after.forward[id].id = id /\ after.forward[id].entity = new
             /\ after.forward[id].unique = m.forward[id].unique
<1> DEFINE old == m.forward[id].entity
           after == Renamed(m, id, old, new)
           F == [m.forward EXCEPT ![id].entity = new]
           P == Pop(m.reverse, old)
           R == Put(P, new, id)
<1>1. m.forward \in [DOMAIN m.forward -> Row] /\ m.forward[id].id = id
      /\ m = [forward |-> m.forward, reverse |-> m.reverse, byUnique |-> m.byUnique]
  BY DictIs DEF Map, Exact
<1>2. /\ DOMAIN F = DOMAIN m.forward
      /\ F[id].id = id /\ F[id].entity = new /\ F[id].unique = m.forward[id].unique
      /\ \A d \in DOMAIN m.forward \ {id} : F[d] = m.forward[d]
  BY <1>1 DEF Row
<1>3. /\ DOMAIN P = DOMAIN m.reverse \ {old}
      /\ \A x \in DOMAIN m.reverse \ {old} : P[x] = m.reverse[x]
  BY PopIs
<1>4. /\ DOMAIN R = DOMAIN P \cup {new} /\ R[new] = id
      /\ \A x \in DOMAIN P \ {new} : R[x] = P[x]
  <2> HIDE DEF P
  <2> QED
    BY Nones DEF Put
<1>5. after.forward = F /\ after.reverse = R
  <2> HIDE DEF F, R
  <2>1. after = [m EXCEPT !.forward = F, !.reverse = R]
    BY DEF Renamed, F, R
  <2> QED
    BY <1>1, <2>1
<1> HIDE DEF F, P, R
<1>6. ASSUME NEW d \in DOMAIN F
      PROVE  F[d].id = d /\ F[d].entity \in DOMAIN R /\ R[F[d].entity] = d
  <2>1. CASE d = id
    BY <1>2, <1>4, <2>1
  <2>2. CASE d # id
    <3>1. F[d] = m.forward[d] /\ m.forward[d].entity # old /\ m.forward[d].entity # new
      BY <1>2, <2>2 DEF Exact
    <3> QED
      BY <1>2, <1>3, <1>4, <2>2, <3>1 DEF Exact
  <2> QED
    BY <2>1, <2>2
<1> HIDE DEF after
<1>7. Exact(after)
  BY <1>5, <1>6 DEF Exact
<1> QED
  BY <1>2, <1>5, <1>7 DEF after

\* The map of a sync is exact if its rows are of different devices and of
\* different entities, and it holds all of its rows.
LEMMA ExactLoaded ==
  ASSUME NEW rows \in Seq(Row), Distinct(rows),
         \A a, b \in 1..Len(rows) : rows[a].entity = rows[b].entity => a = b,
         \A a \in 1..Len(rows) : rows[a].entity # None
  PROVE  Exact(Loaded(rows)) /\ Range(Loaded(rows).forward) = Range(rows)
<1> DEFINE F == [id \in Keys(rows, "id") |-> rows[LastWith(rows, "id", id)]]
           R == DevicesBy(rows, "entity")
<1>1. DOMAIN rows = 1..Len(rows) /\ \A i \in 1..Len(rows) : rows[i].id # None
  <2>1. \A i \in 1..Len(rows) : rows[i] \in Row
    BY ElementOfSeq
  <2> QED
    BY <2>1, RowFields, LenProperties
<1>2. ASSUME NEW field, NEW i \in 1..Len(rows), rows[i][field] # None
      PROVE  /\ rows[i][field] \in Keys(rows, field)
             /\ LastWith(rows, field, rows[i][field]) \in 1..Len(rows)
             /\ rows[LastWith(rows, field, rows[i][field])][field] = rows[i][field]
  BY <1>2, LastIs DEF Keys
<1>3. ASSUME NEW i \in 1..Len(rows)
      PROVE  rows[i].id \in DOMAIN F /\ F[rows[i].id] = rows[i]
  <2>1. /\ rows[i].id \in Keys(rows, "id")
        /\ LastWith(rows, "id", rows[i].id) \in 1..Len(rows)
        /\ rows[LastWith(rows, "id", rows[i].id)].id = rows[i].id
    BY <1>1, <1>2
  <2>2. LastWith(rows, "id", rows[i].id) = i
    BY <2>1 DEF Distinct
  <2> QED
    BY <2>1, <2>2
<1>4. ASSUME NEW i \in 1..Len(rows)
      PROVE  rows[i].entity \in DOMAIN R /\ R[rows[i].entity] = rows[i].id
  <2>1. /\ rows[i].entity \in Keys(rows, "entity")
        /\ LastWith(rows, "entity", rows[i].entity) \in 1..Len(rows)
        /\ rows[LastWith(rows, "entity", rows[i].entity)].entity = rows[i].entity
    BY <1>2
  <2>2. LastWith(rows, "entity", rows[i].entity) = i
    BY <2>1
  <2> QED
    BY <2>1, <2>2 DEF DevicesBy
<1>5. \A id \in DOMAIN F : \E i \in 1..Len(rows) : rows[i].id = id
  BY DEF Keys
<1>6. Loaded(rows).forward = F /\ Loaded(rows).reverse = R
  BY DEF Loaded
<1> HIDE DEF F, R
<1>7. Range(F) = Range(rows)
  <2>1. Range(F) = {F[id] : id \in DOMAIN F} /\ Range(rows) = {rows[i] : i \in 1..Len(rows)}
    BY <1>1 DEF Range
  <2>2. \A id \in DOMAIN F : \E i \in 1..Len(rows) : F[id] = rows[i]
    BY <1>3, <1>5
  <2>3. \A i \in 1..Len(rows) : \E id \in DOMAIN F : F[id] = rows[i]
    BY <1>3
  <2> QED
    BY <2>1, <2>2, <2>3
<1>8. ASSUME NEW id \in DOMAIN F
      PROVE  F[id].id = id /\ F[id].entity \in DOMAIN R /\ R[F[id].entity] = id
  <2>1. PICK i \in 1..Len(rows) : rows[i].id = id
    BY <1>5
  <2>2. F[id] = rows[i]
    BY <1>3, <2>1
  <2> QED
    BY <1>4, <2>1, <2>2
<1> QED
  BY <1>6, <1>7, <1>8 DEF Exact

LEMMA TailIs ==
  ASSUME NEW S, NEW s \in Seq(S), s # <<>>
  PROVE  /\ Len(s) \in Nat /\ Len(Tail(s)) = Len(s) - 1 /\ Tail(s) \in Seq(S)
         /\ 1 \in 1..Len(s) /\ Head(s) = s[1]
         /\ \A i \in 1..Len(Tail(s)) : i + 1 \in 1..Len(s) /\ Tail(s)[i] = s[i + 1]
BY HeadTailProperties, EmptySeq, LenProperties

LEMMA AppendIs ==
  ASSUME NEW S, NEW s \in Seq(S), NEW x \in S
  PROVE  /\ Append(s, x) \in Seq(S) /\ Len(s) \in Nat /\ Len(Append(s, x)) = Len(s) + 1
         /\ \A i \in 1..Len(s) : i \in 1..(Len(s) + 1) /\ Append(s, x)[i] = s[i]
         /\ Append(s, x)[Len(s) + 1] = x
         /\ \A i \in 1..(Len(s) + 1) : i # Len(s) + 1 => i \in 1..Len(s)
BY AppendProperties, LenProperties

LEMMA RangeIs ==
  ASSUME NEW f, NEW y
  PROVE  y \in Range(f) <=> \E x \in DOMAIN f : y = f[x]
BY DEF Range

LEMMA RowsAre ==
  ASSUME NEW row
  PROVE  /\ row \in Rows <=> \/ row \in Range(gateway)
                             \/ row \in Range(map.forward)
                             \/ \E i \in Syncs : row \in Range(toClient[i].rows)
         /\ row \in Rows' <=> \/ row \in Range(gateway')
                              \/ row \in Range((map').forward)
                              \/ \E i \in Syncs' : row \in Range(toClient'[i].rows)
BY DEF Rows

\* The syncs under way once the message at the head is handled.
LEMMA SyncsPop ==
  ASSUME toClient \in Seq(Message), toClient # <<>>, toClient' = Tail(toClient)
  PROVE  /\ \A i \in Syncs' : i + 1 \in Syncs /\ toClient'[i] = toClient[i + 1]
         /\ Head(toClient).type = "sync" => 1 \in Syncs /\ toClient[1] = Head(toClient)
         /\ Head(toClient).type # "sync" => (Syncs = {} <=> Syncs' = {})
<1>1. /\ Len(toClient) \in Nat /\ Len(toClient') = Len(toClient) - 1
      /\ 1 \in 1..Len(toClient) /\ Head(toClient) = toClient[1]
      /\ \A i \in 1..Len(toClient') : i + 1 \in 1..Len(toClient) /\ toClient'[i] = toClient[i + 1]
  BY TailIs
<1>2. Syncs' = {i \in 1..Len(toClient') : toClient'[i].type = "sync"}
  BY DEF Syncs
<1>3. ASSUME Head(toClient).type # "sync", NEW i \in Syncs
      PROVE  i - 1 \in Syncs'
  <2>1. i # 1 /\ i \in 1..Len(toClient) /\ toClient[i].type = "sync"
    BY <1>1, <1>3 DEF Syncs
  <2>2. i - 1 \in 1..Len(toClient') /\ (i - 1) + 1 = i
    BY <1>1, <2>1
  <2>3. toClient'[i - 1] = toClient[i]
    BY <1>1, <2>2
  <2> QED
    BY <1>2, <2>1, <2>2, <2>3
<1> QED
  BY <1>1, <1>2, <1>3 DEF Syncs

\* ... and when a message that is no sync is sent.
LEMMA SyncsAppend ==
  ASSUME toClient \in Seq(Message), NEW message \in Message, message.type # "sync",
         toClient' = Append(toClient, message)
  PROVE  Syncs' = Syncs /\ \A i \in Syncs : toClient'[i] = toClient[i]
<1>1. Syncs' = {i \in 1..Len(toClient') : toClient'[i].type = "sync"}
  BY DEF Syncs
<1> QED
  BY <1>1, AppendIs DEF Syncs

\* What a lineage says of rows: those of one entity are of one device, and the
\* entity found by the unique id of a row is of the device as well.
LEMMA LineageIs ==
  ASSUME registry \in Dict(Entities, UniqueIds),
         NEW own, NEW who \in Dict(Devices, UniqueIds), NEW label, Lineage(own, who, label)
  PROVE  /\ \A row, other \in Rows : row.entity = other.entity =>
              row.id = other.id /\ row.unique = other.unique
         /\ \A row \in Rows : \A entity \in Resolved(row.unique) :
              row.unique = who[row.id] /\ own[entity] = who[row.id]
         /\ \A row \in Rows : row.entity \in DOMAIN registry =>
              registry[row.entity] = who[row.id]
<1>1. ASSUME NEW row \in Rows, NEW other \in Rows, row.entity = other.entity
      PROVE  row.id = other.id /\ row.unique = other.unique
  BY <1>1 DEF Lineage, Fits, IsInjective
<1>2. ASSUME NEW row \in Rows, NEW entity \in Resolved(row.unique)
      PROVE  row.unique = who[row.id] /\ own[entity] = who[row.id]
  <2>1. entity \in DOMAIN registry /\ registry[entity] = row.unique /\ row.unique \in UniqueIds
    BY DictIs DEF Resolved
  <2>2. row.unique # None
    BY <2>1, Nones
  <2> QED
    BY <2>1, <2>2 DEF Lineage, Fits
<1> QED
  BY <1>1, <1>2 DEF Lineage, Fits

\* A step that brings no row, no entity and no change keeps a lineage.
LEMMA LineageKept ==
  ASSUME NEW own, NEW who, NEW label, Lineage(own, who, label),
         Rows' \subseteq Rows, used' = used,
         \A entity \in DOMAIN registry' :
           entity \in DOMAIN registry /\ registry'[entity] = registry[entity],
         \A i \in 1..Len(toGateway') : \E k \in 1..Len(toGateway) : toGateway'[i] = toGateway[k]
  PROVE  Lineage(own, who, label)'
<1>1. \A row \in Rows' : Fits(row, own, who, label)
  BY DEF Lineage
<1>2. \A entity \in DOMAIN registry' : entity \in used' /\ own[entity] = registry'[entity]
  BY DEF Lineage
<1>3. \A i \in 1..Len(toGateway') :
        /\ toGateway'[i].id \in DOMAIN who /\ toGateway'[i].new \in used'
        /\ own[toGateway'[i].new] = who[toGateway'[i].id]
  BY DEF Lineage
<1> QED
  BY <1>1, <1>2, <1>3 DEF Lineage

\* A step that gives a device's row another entity of the device, told or not,
\* extends it.
LEMMA LineageExtended ==
  ASSUME NEW own, NEW who, NEW label, Lineage(own, who, label),
         NEW more, DOMAIN more = used', used \subseteq used',
         DOMAIN own = used, \A entity \in used : more[entity] = own[entity],
         \A entity \in DOMAIN registry' : entity \in used' /\ more[entity] = registry'[entity],
         \A row \in Rows' :
           \/ row \in Rows
           \/ \E before \in Rows : /\ row.id = before.id /\ row.unique = before.unique
                                   /\ row.entity \in used' /\ more[row.entity] = who[row.id],
         \A i \in 1..Len(toGateway') :
           \/ \E k \in 1..Len(toGateway) : toGateway'[i] = toGateway[k]
           \/ /\ toGateway'[i].id \in DOMAIN who /\ toGateway'[i].new \in used'
              /\ more[toGateway'[i].new] = who[toGateway'[i].id]
  PROVE  Lineage(more, who, label)'
<1>1. ASSUME NEW row \in Rows' PROVE Fits(row, more, who, label)
  <2>1. CASE row \in Rows
    BY <2>1 DEF Lineage, Fits
  <2>2. CASE row \notin Rows
    <3>1. PICK before \in Rows :
            /\ row.id = before.id /\ row.unique = before.unique
            /\ row.entity \in used' /\ more[row.entity] = who[row.id]
      BY <2>2
    <3>2. Fits(before, own, who, label)
      BY DEF Lineage
    <3> QED
      BY <3>1, <3>2 DEF Fits
  <2> QED
    BY <2>1, <2>2
<1>2. ASSUME NEW i \in 1..Len(toGateway')
      PROVE  /\ toGateway'[i].id \in DOMAIN who /\ toGateway'[i].new \in used'
             /\ more[toGateway'[i].new] = who[toGateway'[i].id]
  <2>1. CASE \E k \in 1..Len(toGateway) : toGateway'[i] = toGateway[k]
    BY <2>1 DEF Lineage
  <2> QED
    BY <2>1
<1>3. /\ IsInjective(who) /\ \A id \in DOMAIN who : label[id] \in {who[id], None}
  BY DEF Lineage
<1> QED
  BY <1>1, <1>2, <1>3 DEF Lineage

-----------------------------------------------------------------------------
(***************************************************************************)
(* What the steps of an orderly environment do.                            *)
(***************************************************************************)
Redirected(id, new) ==
  /\ id \in DOMAIN map.forward /\ new \in Entities
  /\ map' = Renamed(map, id, map.forward[id].entity, new)
  /\ Tell(id, new)
  /\ Exact(map)'
  /\ DOMAIN (map').forward = DOMAIN map.forward
  /\ \A d \in DOMAIN map.forward \ {id} : (map').forward[d] = map.forward[d]
  /\ (map').forward[id].id = id /\ (map').forward[id].entity = new
  /\ (map').forward[id].unique = map.forward[id].unique

LEMMA MapRows ==
  ASSUME NEW id \in DOMAIN map.forward
  PROVE  map.forward[id] \in Range(map.forward) /\ map.forward[id] \in Rows
BY RangeIs, RowsAre

LEMMA SyncStep ==
  ASSUME SettlesInv, DeviceMapSync
  PROVE  /\ toClient \in Seq(Message) /\ toClient # <<>> /\ toClient' = Tail(toClient)
         /\ 1 \in Syncs /\ Exact(map)' /\ Range((map').forward) = Range(toClient[1].rows)
         /\ created' \in Nat /\ created' > 0
         /\ UNCHANGED <<drifts, registry, used, gateway, linked, toGateway>>
<1> DEFINE rows == Head(toClient).rows
<1>1. /\ toClient \in Seq(Message) /\ toClient # <<>> /\ toClient' = Tail(toClient)
      /\ Head(toClient).type = "sync" /\ map' = Loaded(rows) /\ created' = created + 1
      /\ created \in Nat
      /\ UNCHANGED <<drifts, registry, used, gateway, linked, toGateway>>
  BY DEF DeviceMapSync, Receive, haVars, gatewayVars, SettlesInv, IInv, ChannelOK, TypeRest
<1>2. 1 \in Syncs /\ toClient[1] = Head(toClient)
  BY <1>1, SyncsPop
<1>3. 1 \in 1..Len(toClient) /\ toClient[1] \in Message /\ toClient[1].type = "sync"
  BY <1>1, <1>2, ElementOfSeq DEF Syncs
<1>4. rows = toClient[1].rows /\ rows \in Seq(Row) /\ Distinct(rows)
  BY <1>2, <1>3, MessageFields DEF SettlesInv, IInv, ChannelOK
<1> HIDE DEF rows
<1>5. \A a \in 1..Len(rows) : rows[a] \in Range(rows) /\ rows[a] \in Rows
  <2>1. DOMAIN rows = 1..Len(rows)
    BY <1>4
  <2> QED
    BY <1>2, <1>4, <2>1, RangeIs, RowsAre
<1>6. PICK own \in [used -> UniqueIds], who \in Dict(Devices, UniqueIds) :
        \E label \in [DOMAIN who -> UniqueIds \cup {None}] : Lineage(own, who, label)
  BY DEF SettlesInv, Distinguished
<1>7. PICK label \in [DOMAIN who -> UniqueIds \cup {None}] : Lineage(own, who, label)
  BY <1>6
<1>8. registry \in Dict(Entities, UniqueIds) /\ used \subseteq Entities
  BY DEF SettlesInv, IInv, TypeRest
<1>9. \A a \in 1..Len(rows) : rows[a].entity # None
  BY <1>5, <1>7, <1>8, Nones DEF Lineage, Fits
<1>10. \A a, b \in 1..Len(rows) : rows[a].entity = rows[b].entity => a = b
  BY <1>4, <1>5, <1>7, <1>8, LineageIs DEF Distinct
<1>11. Exact(Loaded(rows)) /\ Range(Loaded(rows).forward) = Range(rows)
  BY <1>4, <1>9, <1>10, ExactLoaded
<1>12. Exact(map)'
  BY <1>1, <1>11 DEF Exact
<1> QED
  BY <1>1, <1>2, <1>4, <1>11, <1>12

LEMMA RemoveStep ==
  ASSUME SettlesInv, RemoveReceived
  PROVE  /\ toClient \in Seq(Message) /\ toClient # <<>> /\ toClient' = Tail(toClient)
         /\ Head(toClient).type # "sync"
         /\ Exact(map)' /\ DOMAIN (map').forward \subseteq DOMAIN map.forward
         /\ \A d \in DOMAIN (map').forward : (map').forward[d] = map.forward[d]
         /\ UNCHANGED <<created, drifts, registry, used, gateway, linked, toGateway>>
<1>1. /\ toClient \in Seq(Message) /\ toClient # <<>> /\ toClient' = Tail(toClient)
      /\ Head(toClient).type # "sync" /\ map' = Removed(map, Head(toClient).id)
      /\ UNCHANGED <<created, drifts, registry, used, gateway, linked, toGateway>>
  BY DEF RemoveReceived, Receive, haVars, gatewayVars, SettlesInv, IInv, ChannelOK
<1>2. LET after == Removed(map, Head(toClient).id)
      IN  /\ Exact(after) /\ DOMAIN after.forward \subseteq DOMAIN map.forward
          /\ \A d \in DOMAIN after.forward : after.forward[d] = map.forward[d]
  BY ExactRemoved DEF SettlesInv
<1>3. Exact(map)'
  BY <1>1, <1>2 DEF Exact
<1> QED
  BY <1>1, <1>2, <1>3

LEMMA RedirectStep ==
  ASSUME map \in Map, Exact(map), NEW id \in DOMAIN map.forward, NEW new \in Entities,
         \A d \in DOMAIN map.forward \ {id} : map.forward[d].entity # new,
         map' = Renamed(map, id, map.forward[id].entity, new), Tell(id, new)
  PROVE  Redirected(id, new)
<1> DEFINE after == Renamed(map, id, map.forward[id].entity, new)
<1>1. /\ Exact(after) /\ DOMAIN after.forward = DOMAIN map.forward
      /\ \A d \in DOMAIN map.forward \ {id} : after.forward[d] = map.forward[d]
      /\ after.forward[id].id = id /\ after.forward[id].entity = new
      /\ after.forward[id].unique = map.forward[id].unique
  BY ExactRenamed
<1>2. map' = after
  OBVIOUS
<1> HIDE DEF after
<1>3. Exact(map)'
  BY <1>1, <1>2 DEF Exact
<1> QED
  BY <1>1, <1>2, <1>3 DEF Redirected

LEMMA VisitStep ==
  ASSUME SettlesInv, DriftVisits
  PROVE  \E task \in 1..Len(drifts) : \E id \in drifts[task] :
           /\ drifts' = [drifts EXCEPT ![task] = @ \ {id}]
           /\ UNCHANGED <<created, registry, used, gateway, linked, toClient>>
           /\ \/ ~HasDrifted(id) /\ UNCHANGED <<map, toGateway>>
              \/ \E new \in Resolved(map.forward[id].unique) : Redirected(id, new)
<1>1. PICK task \in 1..Len(drifts) : \E id \in drifts[task] :
        /\ drifts' = [drifts EXCEPT ![task] = @ \ {id}]
        /\ UNCHANGED <<created, registry, used, gateway, linked, toClient>>
        /\ \/ ~HasDrifted(id) /\ UNCHANGED <<map, toGateway>>
           \/ /\ HasDrifted(id)
              /\ \E new \in Resolved(map.forward[id].unique) :
                   map' = Renamed(map, id, map.forward[id].entity, new) /\ Tell(id, new)
  BY DEF DriftVisits, haVars, gatewayVars
<1>2. PICK id \in drifts[task] :
        /\ drifts' = [drifts EXCEPT ![task] = @ \ {id}]
        /\ UNCHANGED <<created, registry, used, gateway, linked, toClient>>
        /\ \/ ~HasDrifted(id) /\ UNCHANGED <<map, toGateway>>
           \/ /\ HasDrifted(id)
              /\ \E new \in Resolved(map.forward[id].unique) :
                   map' = Renamed(map, id, map.forward[id].entity, new) /\ Tell(id, new)
  BY <1>1
<1>3. ASSUME HasDrifted(id), NEW new \in Resolved(map.forward[id].unique),
             map' = Renamed(map, id, map.forward[id].entity, new), Tell(id, new)
      PROVE  Redirected(id, new)
  <2>1. PICK own \in [used -> UniqueIds], who \in Dict(Devices, UniqueIds) :
          \E label \in [DOMAIN who -> UniqueIds \cup {None}] : Lineage(own, who, label)
    BY DEF SettlesInv, Distinguished
  <2>2. PICK label \in [DOMAIN who -> UniqueIds \cup {None}] : Lineage(own, who, label)
    BY <2>1
  <2>3. /\ registry \in Dict(Entities, UniqueIds) /\ map \in Map /\ Exact(map)
        /\ id \in DOMAIN map.forward /\ new \in DOMAIN registry /\ DOMAIN registry \subseteq Entities
    BY <1>3, DictIs DEF SettlesInv, IInv, TypeRest, MapOK, HasDrifted, Resolved
  <2>4. ASSUME NEW d \in DOMAIN map.forward \ {id} PROVE map.forward[d].entity # new
    <3>1. /\ map.forward[id] \in Rows /\ map.forward[d] \in Rows
          /\ map.forward[id].id = id /\ map.forward[d].id = d
      BY <2>3, MapRows DEF Exact
    <3>2. own[new] = who[id] /\ own[new] = registry[new]
      BY <1>3, <2>2, <2>3, <3>1, LineageIs DEF Lineage
    <3>3. map.forward[d].entity = new => registry[new] = who[d]
      BY <2>2, <2>3, <3>1, LineageIs
    <3>4. who[d] # who[id]
      BY <2>2, <2>4, <3>1 DEF Lineage, Fits, IsInjective
    <3> QED
      BY <3>2, <3>3, <3>4
  <2> QED
    BY <1>3, <2>3, <2>4, RedirectStep
<1> QED
  BY <1>2, <1>3

LEMMA RenameStep ==
  ASSUME SettlesInv, Orderly, EntityRenamed
  PROVE  \E old \in DOMAIN registry, new \in Entities \ used :
           /\ DOMAIN registry' = (DOMAIN registry \ {old}) \cup {new}
           /\ registry'[new] = registry[old]
           /\ \A entity \in DOMAIN registry \ {old} : registry'[entity] = registry[entity]
           /\ used' = used \cup {new}
           /\ UNCHANGED <<drifts, created, gateway, linked, toClient>>
           /\ \/ \E id \in DOMAIN map.forward : map.forward[id].entity = old /\ Redirected(id, new)
              \/ /\ \A id \in DOMAIN map.forward : map.forward[id].entity # old
                 /\ UNCHANGED <<map, toGateway>>
<1>1. FreeIds = Entities \ used
  BY DEF Orderly, FreeIds
<1>2. PICK old \in DOMAIN registry, new \in FreeIds :
        /\ registry' = Put(Pop(registry, old), new, registry[old])
        /\ used' = used \cup {new}
        /\ IF old \in DOMAIN map.reverse
           THEN /\ map' = Renamed(map, map.reverse[old], old, new)
                /\ Tell(map.reverse[old], new)
           ELSE UNCHANGED <<map, toGateway>>
        /\ UNCHANGED <<drifts, created, gateway, linked, toClient>>
  BY DEF EntityRenamed, RegistryChanges, gatewayVars
<1>3. new \in Entities \ used /\ new # None
  BY <1>1, Nones
<1>4. /\ DOMAIN registry' = (DOMAIN registry \ {old}) \cup {new}
      /\ registry'[new] = registry[old]
      /\ \A entity \in DOMAIN registry \ {old} : entity # new => registry'[entity] = registry[entity]
  <2> DEFINE P == Pop(registry, old)
  <2>1. /\ DOMAIN P = DOMAIN registry \ {old}
        /\ \A entity \in DOMAIN registry \ {old} : P[entity] = registry[entity]
    BY PopIs
  <2> HIDE DEF P
  <2>2. registry' = Put(P, new, registry[old])
    BY <1>2 DEF P
  <2> QED
    BY <1>3, <2>1, <2>2 DEF Put
<1>5. PICK own \in [used -> UniqueIds], who \in Dict(Devices, UniqueIds) :
        \E label \in [DOMAIN who -> UniqueIds \cup {None}] : Lineage(own, who, label)
  BY DEF SettlesInv, Distinguished
<1>6. PICK label \in [DOMAIN who -> UniqueIds \cup {None}] : Lineage(own, who, label)
  BY <1>5
<1>7. new \notin DOMAIN registry /\ \A d \in DOMAIN map.forward : map.forward[d].entity # new
  BY <1>3, <1>6, MapRows DEF Lineage, Fits
<1>8. map \in Map /\ Sound(map) /\ Exact(map)
  BY DEF SettlesInv, IInv, MapOK
<1>9. CASE old \in DOMAIN map.reverse
  <2> DEFINE id == map.reverse[old]
  <2>1. id \in DOMAIN map.forward /\ map.forward[id].entity = old
    BY <1>8, <1>9 DEF Sound
  <2>2. map' = Renamed(map, id, map.forward[id].entity, new) /\ Tell(id, new)
    BY <1>2, <1>9, <2>1
  <2> HIDE DEF id
  <2>3. Redirected(id, new)
    BY <1>3, <1>7, <1>8, <2>1, <2>2, RedirectStep
  <2> QED
    BY <1>2, <1>3, <1>4, <1>7, <2>1, <2>3
<1>10. CASE old \notin DOMAIN map.reverse
  <2>1. \A id \in DOMAIN map.forward : map.forward[id].entity # old
    BY <1>8, <1>10 DEF Exact
  <2> QED
    BY <1>2, <1>3, <1>4, <1>7, <1>10, <2>1
<1> QED
  BY <1>9, <1>10

LEMMA ConnectStep ==
  ASSUME SettlesInv, Connect
  PROVE  /\ ~linked /\ linked' = TRUE
         /\ Syncs' = {1} /\ Range(toClient'[1].rows) = Range(gateway)
         /\ toClient'[1].type = "sync" /\ Len(toClient') = 1
         /\ UNCHANGED <<map, drifts, created, registry, used, gateway, toGateway>>
<1>1. PICK rows \in Bijection(1..Cardinality(Range(gateway)), Range(gateway)) :
        toClient' = <<[type |-> "sync", rows |-> rows]>>
  BY DEF Connect
<1>2. /\ ~linked /\ linked' = TRUE
      /\ UNCHANGED <<map, drifts, created, registry, used, gateway, toGateway>>
  BY DEF Connect, haVars, gatewayVars
<1>3. Len(toClient') = 1 /\ toClient'[1].type = "sync" /\ toClient'[1].rows = rows
  BY <1>1
<1>4. Syncs' = {1}
  <2>1. Syncs' = {i \in 1..Len(toClient') : toClient'[i].type = "sync"}
    BY DEF Syncs
  <2> QED
    BY <1>3, <2>1
<1>5. Range(rows) = Range(gateway)
  BY DEF Bijection, Surjection, Range
<1> QED
  BY <1>2, <1>3, <1>4, <1>5

LEMMA ArriveStep ==
  ASSUME SettlesInv, ChangeArrives
  PROVE  /\ toGateway \in Seq(Change) /\ toGateway # <<>> /\ toGateway' = Tail(toGateway)
         /\ DOMAIN gateway' = DOMAIN gateway
         /\ \A d \in DOMAIN gateway \ {toGateway[1].id} : gateway'[d] = gateway[d]
         /\ toGateway[1].id \in DOMAIN gateway =>
              /\ gateway'[toGateway[1].id].id = toGateway[1].id
              /\ gateway'[toGateway[1].id].entity = toGateway[1].new
              /\ gateway'[toGateway[1].id].unique = gateway[toGateway[1].id].unique
         /\ UNCHANGED <<map, drifts, created, registry, used, linked, toClient>>
<1> DEFINE change == Head(toGateway)
<1>1. /\ toGateway \in Seq(Change) /\ toGateway # <<>> /\ toGateway' = Tail(toGateway)
      /\ gateway' = IF change.id \in DOMAIN gateway
                    THEN [gateway EXCEPT ![change.id].entity = change.new]
                    ELSE gateway
      /\ UNCHANGED <<map, drifts, created, registry, used, linked, toClient>>
  BY DEF ChangeArrives, SettlesInv, IInv, TypeRest, haVars
<1>2. change = toGateway[1]
  BY <1>1, TailIs
<1>3. gateway \in [DOMAIN gateway -> Row] /\ Named(gateway)
  BY DictIs DEF SettlesInv, IInv, GatewayOK
<1> HIDE DEF change
<1>4. CASE change.id \in DOMAIN gateway
  <2>1. gateway' = [gateway EXCEPT ![change.id].entity = change.new]
    BY <1>1, <1>4
  <2>2. /\ DOMAIN gateway' = DOMAIN gateway
        /\ \A d \in DOMAIN gateway \ {change.id} : gateway'[d] = gateway[d]
        /\ gateway'[change.id].id = change.id /\ gateway'[change.id].entity = change.new
        /\ gateway'[change.id].unique = gateway[change.id].unique
    BY <1>3, <1>4, <2>1 DEF Row, Named
  <2> QED
    BY <1>1, <1>2, <2>2
<1>5. CASE change.id \notin DOMAIN gateway
  BY <1>1, <1>2, <1>5
<1> QED
  BY <1>4, <1>5

LEMMA DropStep ==
  ASSUME SettlesInv, DeviceRemoved
  PROVE  /\ DOMAIN gateway' \subseteq DOMAIN gateway
         /\ \A d \in DOMAIN gateway' : gateway'[d] = gateway[d]
         /\ Syncs' = Syncs /\ \A i \in Syncs : toClient'[i] = toClient[i]
         /\ OnlyRemovals'
         /\ UNCHANGED <<map, drifts, created, registry, used, linked, toGateway>>
<1>1. PICK id \in DOMAIN gateway :
        /\ gateway' = Pop(gateway, id)
        /\ GatewayEdits("remove", [type |-> "remove", id |-> id])
  BY DEF DeviceRemoved
<1> DEFINE message == [type |-> "remove", id |-> id]
<1>2. message \in Message /\ message.type = "remove"
  BY DictIs DEF Message, SettlesInv, IInv, GatewayOK
<1>3. /\ toClient' = IF linked THEN Append(toClient, message) ELSE toClient
      /\ UNCHANGED <<map, drifts, created, registry, used, linked, toGateway>>
      /\ toClient \in Seq(Message)
  BY <1>1 DEF GatewayEdits, haVars, SettlesInv, IInv, ChannelOK
<1> HIDE DEF message
<1>4. Syncs' = Syncs /\ \A i \in Syncs : toClient'[i] = toClient[i]
  <2>1. CASE linked
    BY <1>2, <1>3, <2>1, SyncsAppend
  <2>2. CASE ~linked
    BY <1>3, <2>2 DEF Syncs
  <2> QED
    BY <2>1, <2>2
<1>5. OnlyRemovals'
  <2>1. CASE linked
    BY <1>2, <1>3, <2>1, AppendIs DEF SettlesInv, OnlyRemovals
  <2>2. CASE ~linked
    BY <1>3, <2>2 DEF SettlesInv, OnlyRemovals
  <2> QED
    BY <2>1, <2>2
<1> QED
  BY <1>1, <1>3, <1>4, <1>5, PopIs

\* Whatever else may happen does not.
LEMMA OrderlySteps ==
  ASSUME SettlesInv, Orderly, [Next]_vars
  PROVE  \/ DeviceMapSync \/ RemoveReceived \/ DriftBegins \/ DriftVisits \/ DriftEnds
         \/ EntityRenamed \/ EntityUnregistered
         \/ Connect \/ ConnectionLost \/ ChangeArrives \/ DeviceRemoved
         \/ UNCHANGED vars
<1>1. ~AddReceived /\ ~UpdateReceived
  <2>1. toClient # <<>> => Head(toClient).type \in {"sync", "remove"}
    BY TailIs DEF SettlesInv, IInv, ChannelOK, OnlyRemovals
  <2> QED
    BY <2>1 DEF AddReceived, UpdateReceived, Receive
<1>2. ~EntityRegistered /\ ~DeviceAdded /\ ~DeviceUpdated
  BY DEF Orderly, EntityRegistered, RegistryChanges, DeviceAdded, DeviceUpdated, GatewayEdits
<1> QED
  BY <1>1, <1>2 DEF Next, ClientStep

LEMMA UnregisterStep ==
  ASSUME SettlesInv, EntityUnregistered
  PROVE  /\ \E entity \in DOMAIN registry :
              /\ DOMAIN registry' = DOMAIN registry \ {entity}
              /\ \A other \in DOMAIN registry' : registry'[other] = registry[other]
         /\ UNCHANGED <<map, drifts, created, used, gateway, linked, toClient, toGateway>>
<1>1. PICK entity \in DOMAIN registry : registry' = Pop(registry, entity)
  BY DEF EntityUnregistered
<1>2. UNCHANGED <<map, drifts, created, used, gateway, linked, toClient, toGateway>>
  BY DEF EntityUnregistered, RegistryChanges, gatewayVars
<1>3. /\ DOMAIN registry' = DOMAIN registry \ {entity}
      /\ \A other \in DOMAIN registry' : registry'[other] = registry[other]
  BY <1>1, PopIs
<1> QED
  BY <1>2, <1>3

LEMMA LostStep ==
  ASSUME ConnectionLost
  PROVE  /\ linked' = FALSE /\ toClient' = <<>> /\ toGateway' = <<>> /\ Syncs' = {}
         /\ UNCHANGED <<map, drifts, created, registry, used, gateway>>
<1>1. /\ linked' = FALSE /\ toClient' = <<>> /\ toGateway' = <<>>
      /\ UNCHANGED <<map, drifts, created, registry, used, gateway>>
  BY DEF ConnectionLost, haVars, gatewayVars
<1>2. Syncs' = {i \in 1..Len(toClient') : toClient'[i].type = "sync"}
  BY DEF Syncs
<1> QED
  BY <1>1, <1>2

LEMMA TaskSteps ==
  ASSUME SettlesInv, DriftBegins \/ DriftEnds \/ UNCHANGED vars
  PROVE  UNCHANGED <<map, registry, used, gateway, linked, toClient, toGateway>>
BY DEF DriftBegins, DriftEnds, vars, haVars, gatewayVars

-----------------------------------------------------------------------------
(***************************************************************************)
(* They keep each part of the invariant.                                   *)
(***************************************************************************)
LEMMA ExactKept ==
  ASSUME SettlesInv, Orderly, [Next]_vars
  PROVE  Exact(map)'
<1>1. Exact(map)
  BY DEF SettlesInv
<1>2. ASSUME UNCHANGED map PROVE Exact(map)'
  BY <1>1, <1>2 DEF Exact
<1>3. CASE DeviceMapSync \/ RemoveReceived
  BY <1>3, SyncStep, RemoveStep
<1>4. CASE DriftVisits
  BY <1>2, <1>4, VisitStep DEF Redirected
<1>5. CASE EntityRenamed
  BY <1>2, <1>5, RenameStep DEF Redirected
<1>6. CASE DriftBegins \/ DriftEnds \/ UNCHANGED vars
  BY <1>2, <1>6, TaskSteps
<1>7. CASE EntityUnregistered
  BY <1>2, <1>7, UnregisterStep
<1>8. CASE Connect \/ ConnectionLost \/ ChangeArrives \/ DeviceRemoved
  BY <1>2, <1>8, ConnectStep, LostStep, ArriveStep, DropStep
<1> QED
  BY <1>3, <1>4, <1>5, <1>6, <1>7, <1>8, OrderlySteps

LEMMA OnlyRemovalsKept ==
  ASSUME SettlesInv, Orderly, [Next]_vars
  PROVE  OnlyRemovals'
<1>1. OnlyRemovals /\ toClient \in Seq(Message)
  BY DEF SettlesInv, IInv, ChannelOK
<1>2. CASE DeviceMapSync \/ RemoveReceived
  <2>1. toClient # <<>> /\ toClient' = Tail(toClient)
    BY <1>2, SyncStep, RemoveStep
  <2> QED
    BY <1>1, <2>1, TailIs DEF OnlyRemovals
<1>3. ASSUME UNCHANGED toClient PROVE OnlyRemovals'
  BY <1>1, <1>3 DEF OnlyRemovals
<1>4. CASE DriftVisits \/ EntityRenamed
  BY <1>3, <1>4, VisitStep, RenameStep
<1>5. CASE DriftBegins \/ DriftEnds \/ UNCHANGED vars
  BY <1>3, <1>5, TaskSteps
<1>6. CASE EntityUnregistered
  BY <1>3, <1>6, UnregisterStep
<1>7. CASE Connect
  <2>1. toClient'[1].type = "sync" /\ Len(toClient') = 1
    BY <1>7, ConnectStep
  <2>2. \A i \in 1..1 : i = 1
    OBVIOUS
  <2> QED
    BY <2>1, <2>2 DEF OnlyRemovals
<1>8. CASE ConnectionLost
  BY <1>8, LostStep DEF OnlyRemovals
<1>9. CASE ChangeArrives \/ DeviceRemoved
  BY <1>3, <1>9, ArriveStep, DropStep
<1> QED
  BY <1>2, <1>4, <1>5, <1>6, <1>7, <1>8, <1>9, OrderlySteps

\* A device drifts only with a sync or a visit to come.
LEMMA PendingKept ==
  ASSUME NEW id, Pending(id), UNCHANGED <<linked, created, drifts>>,
         Syncs # {} => Syncs' # {}
  PROVE  Pending(id)'
BY DEF Pending

LEMMA DriftsKept ==
  ASSUME SettlesInv, Orderly, [Next]_vars
  PROVE  DriftsPending'
<1>1. /\ registry \in Dict(Entities, UniqueIds) /\ IsInjective(registry) /\ DriftsPending
      /\ Exact(map) /\ drifts \in Seq(SUBSET Devices) /\ created \in Nat
      /\ toClient \in Seq(Message) /\ (~linked => toClient = <<>>)
  BY DEF SettlesInv, IInv, TypeRest, Distinguished, ChannelOK
<1>2. SUFFICES ASSUME NEW id \in DOMAIN (map').forward, HasDrifted(id)'
               PROVE  Pending(id)'
  BY DEF DriftsPending
<1>3. HasDrifted(id)' <=> /\ id \in DOMAIN (map').forward
                          /\ (map').forward[id].entity \notin DOMAIN registry'
                          /\ \E entity \in DOMAIN registry' :
                               registry'[entity] = (map').forward[id].unique
  BY DEF HasDrifted, Resolved
<1>4. HasDrifted(id) <=> /\ id \in DOMAIN map.forward
                         /\ map.forward[id].entity \notin DOMAIN registry
                         /\ \E entity \in DOMAIN registry :
                              registry[entity] = map.forward[id].unique
  BY DEF HasDrifted, Resolved
<1>5. ASSUME UNCHANGED registry, id \in DOMAIN map.forward, (map').forward[id] = map.forward[id]
      PROVE  Pending(id)
  BY <1>1, <1>2, <1>3, <1>4, <1>5 DEF DriftsPending
<1>6. CASE DeviceMapSync
  BY <1>6, SyncStep DEF Pending
<1>7. CASE RemoveReceived
  <2>1. /\ toClient # <<>> /\ toClient' = Tail(toClient) /\ Head(toClient).type # "sync"
        /\ DOMAIN (map').forward \subseteq DOMAIN map.forward
        /\ \A d \in DOMAIN (map').forward : (map').forward[d] = map.forward[d]
        /\ UNCHANGED <<created, drifts, registry, linked>>
    BY <1>7, RemoveStep
  <2>2. Pending(id)
    BY <1>2, <1>5, <2>1
  <2>3. Syncs = {} <=> Syncs' = {}
    BY <1>1, <2>1, SyncsPop
  <2> QED
    BY <2>1, <2>2, <2>3, PendingKept
<1>8. CASE DriftBegins
  <2>1. drifts' = Append(drifts, DOMAIN map.forward) /\ UNCHANGED map
    BY <1>8 DEF DriftBegins
  <2>2. DOMAIN map.forward \in SUBSET Devices
    BY DictIs DEF SettlesInv, IInv, MapOK, Map
  <2>3. Len(drifts') = Len(drifts) + 1 /\ drifts'[Len(drifts) + 1] = DOMAIN map.forward
        /\ Len(drifts) \in Nat
    BY <1>1, <2>1, <2>2, AppendIs
  <2>4. Len(drifts) + 1 \in 1..Len(drifts') /\ id \in drifts'[Len(drifts) + 1]
    BY <1>2, <2>1, <2>3
  <2> QED
    BY <2>4 DEF Pending
<1>9. CASE DriftVisits
  <2>1. PICK task \in 1..Len(drifts) : \E visited \in drifts[task] :
          /\ drifts' = [drifts EXCEPT ![task] = @ \ {visited}]
          /\ UNCHANGED <<created, registry, used, gateway, linked, toClient>>
          /\ \/ ~HasDrifted(visited) /\ UNCHANGED <<map, toGateway>>
             \/ \E new \in Resolved(map.forward[visited].unique) : Redirected(visited, new)
    BY <1>9, VisitStep
  <2>2. PICK visited \in drifts[task] :
          /\ drifts' = [drifts EXCEPT ![task] = @ \ {visited}]
          /\ UNCHANGED <<created, registry, used, gateway, linked, toClient>>
          /\ \/ ~HasDrifted(visited) /\ UNCHANGED <<map, toGateway>>
             \/ \E new \in Resolved(map.forward[visited].unique) : Redirected(visited, new)
    BY <2>1
  <2>3. id # visited /\ id \in DOMAIN map.forward /\ (map').forward[id] = map.forward[id]
    <3>1. CASE ~HasDrifted(visited) /\ UNCHANGED <<map, toGateway>>
      BY <1>2, <1>3, <1>4, <2>2, <3>1
    <3>2. ASSUME NEW new \in Resolved(map.forward[visited].unique), Redirected(visited, new)
          PROVE  id # visited /\ id \in DOMAIN map.forward /\ (map').forward[id] = map.forward[id]
      <4>1. new \in DOMAIN registry' /\ (map').forward[visited].entity = new
        BY <2>2, <3>2 DEF Resolved, Redirected
      <4>2. id # visited
        BY <1>2, <1>3, <4>1
      <4> QED
        BY <1>2, <3>2, <4>2 DEF Redirected
    <3> QED
      BY <2>2, <3>1, <3>2
  <2>4. Pending(id)
    BY <1>5, <2>2, <2>3
  <2>5. /\ \A i \in 1..Len(drifts) : id \in drifts[i] => id \in drifts'[i]
        /\ Len(drifts') = Len(drifts)
    BY <1>1, <2>2, <2>3, ExceptSeq
  <2>6. Syncs' = Syncs
    BY <2>2 DEF Syncs
  <2> QED
    BY <2>2, <2>4, <2>5, <2>6 DEF Pending
<1>10. CASE DriftEnds
  <2>1. PICK task \in 1..Len(drifts) :
          /\ drifts[task] = {}
          /\ drifts' = [i \in 1..(Len(drifts) - 1) |-> drifts[IF i < task THEN i ELSE i + 1]]
    BY <1>10 DEF DriftEnds
  <2>2. UNCHANGED <<map, registry, linked, toClient, created>>
    BY <1>10 DEF DriftEnds, haVars
  <2>3. Pending(id)
    BY <1>2, <1>5, <2>2
  <2>4. Len(drifts) - 1 \in Nat /\ Len(drifts) \in Nat
    BY <1>1, <2>1, LenProperties
  <2>5. Len(drifts') = Len(drifts) - 1
    BY <2>1, <2>4
  <2>6. ASSUME NEW i \in 1..Len(drifts), id \in drifts[i]
        PROVE  \E k \in 1..Len(drifts') : id \in drifts'[k]
    <3>1. i # task
      BY <2>1, <2>6
    <3>2. CASE i < task
      <4>1. i \in 1..(Len(drifts) - 1)
        BY <2>4, <3>2
      <4>2. drifts'[i] = drifts[i]
        BY <2>1, <3>2, <4>1
      <4> QED
        BY <2>5, <2>6, <4>1, <4>2
    <3>3. CASE i > task
      <4>1. i - 1 \in 1..(Len(drifts) - 1) /\ ~(i - 1 < task) /\ (i - 1) + 1 = i
        BY <2>4, <3>3
      <4>2. drifts'[i - 1] = drifts[i]
        BY <2>1, <4>1
      <4> QED
        BY <2>5, <2>6, <4>1, <4>2
    <3> QED
      BY <3>1, <3>2, <3>3
  <2>7. Syncs' = Syncs
    BY <2>2 DEF Syncs
  <2> QED
    BY <2>2, <2>3, <2>6, <2>7 DEF Pending
<1>11. CASE EntityRenamed
  <2>1. PICK old \in DOMAIN registry, new \in Entities \ used :
          /\ DOMAIN registry' = (DOMAIN registry \ {old}) \cup {new}
          /\ registry'[new] = registry[old]
          /\ \A entity \in DOMAIN registry \ {old} : registry'[entity] = registry[entity]
          /\ UNCHANGED <<drifts, created, gateway, linked, toClient>>
          /\ \/ \E d \in DOMAIN map.forward : map.forward[d].entity = old /\ Redirected(d, new)
             \/ /\ \A d \in DOMAIN map.forward : map.forward[d].entity # old
                /\ UNCHANGED <<map, toGateway>>
    BY <1>11, RenameStep
  <2>2. /\ id \in DOMAIN map.forward /\ (map').forward[id] = map.forward[id]
        /\ map.forward[id].entity # old
    <3>1. ASSUME NEW d \in DOMAIN map.forward, map.forward[d].entity = old, Redirected(d, new)
          PROVE  /\ id \in DOMAIN map.forward /\ (map').forward[id] = map.forward[id]
                 /\ map.forward[id].entity # old
      <4>1. id # d
        BY <1>2, <1>3, <2>1, <3>1 DEF Redirected
      <4> QED
        BY <1>1, <1>2, <3>1, <4>1 DEF Redirected, Exact
    <3>2. CASE (\A d \in DOMAIN map.forward : map.forward[d].entity # old) /\ UNCHANGED map
      BY <1>2, <3>2
    <3> QED
      BY <2>1, <3>1, <3>2
  <2>3. map.forward[id].entity \notin DOMAIN registry
    BY <1>2, <1>3, <2>1, <2>2
  <2>4. \E entity \in DOMAIN registry : registry[entity] = map.forward[id].unique
    <3>1. PICK entity \in DOMAIN registry' : registry'[entity] = map.forward[id].unique
      BY <1>2, <1>3, <2>2
    <3> QED
      BY <2>1, <3>1
  <2>5. Pending(id)
    BY <1>1, <1>4, <2>2, <2>3, <2>4 DEF DriftsPending
  <2>6. Syncs' = Syncs
    BY <2>1 DEF Syncs
  <2> QED
    BY <2>1, <2>5, <2>6, PendingKept
<1>12. CASE EntityUnregistered
  <2>1. PICK gone \in DOMAIN registry :
          /\ DOMAIN registry' = DOMAIN registry \ {gone}
          /\ \A other \in DOMAIN registry' : registry'[other] = registry[other]
    BY <1>12, UnregisterStep
  <2>2. UNCHANGED <<map, drifts, created, linked, toClient>>
    BY <1>12, UnregisterStep
  <2>3. PICK own \in [used -> UniqueIds], who \in Dict(Devices, UniqueIds) :
          \E label \in [DOMAIN who -> UniqueIds \cup {None}] : Lineage(own, who, label)
    BY DEF SettlesInv, Distinguished
  <2>4. PICK label \in [DOMAIN who -> UniqueIds \cup {None}] : Lineage(own, who, label)
    BY <2>3
  <2>5. PICK entity \in DOMAIN registry' : registry'[entity] = map.forward[id].unique
    BY <1>2, <1>3, <2>2
  <2>6. /\ entity \in DOMAIN registry /\ entity # gone
        /\ registry[entity] = map.forward[id].unique
    BY <2>1, <2>5
  <2>7. map.forward[id].entity # gone
    <3>1. map.forward[id] \in Rows
      BY <1>2, <2>2, MapRows
    <3>2. own[entity] = who[map.forward[id].id] /\ own[entity] = registry[entity]
      BY <1>1, <2>4, <2>6, <3>1, LineageIs DEF Resolved, Lineage
    <3>3. map.forward[id].entity = gone => registry[gone] = who[map.forward[id].id]
      BY <1>1, <2>4, <3>1, LineageIs
    <3> QED
      BY <1>1, <2>6, <3>2, <3>3 DEF IsInjective
  <2>8. HasDrifted(id)
    BY <1>2, <1>3, <1>4, <2>1, <2>2, <2>6, <2>7
  <2>9. Syncs' = Syncs
    BY <2>2 DEF Syncs
  <2> QED
    BY <1>1, <1>2, <2>2, <2>8, <2>9, PendingKept DEF DriftsPending
<1>13. CASE Connect
  BY <1>13, ConnectStep DEF Pending
<1>14. CASE ConnectionLost
  BY <1>14, LostStep DEF Pending
<1>15. CASE ChangeArrives
  <2>1. UNCHANGED <<map, drifts, created, registry, linked, toClient>>
    BY <1>15, ArriveStep
  <2>2. Syncs' = Syncs
    BY <2>1 DEF Syncs
  <2> QED
    BY <1>2, <1>5, <2>1, <2>2, PendingKept
<1>16. CASE DeviceRemoved
  BY <1>2, <1>5, <1>16, DropStep, PendingKept
<1>17. CASE UNCHANGED vars
  <2>1. UNCHANGED <<map, drifts, created, registry, linked, toClient>>
    BY <1>17 DEF vars
  <2>2. Syncs' = Syncs
    BY <2>1 DEF Syncs
  <2> QED
    BY <1>2, <1>5, <2>1, <2>2, PendingKept
<1> QED
  BY <1>6, <1>7, <1>8, <1>9, <1>10, <1>11, <1>12, <1>13, <1>14, <1>15, <1>16, <1>17, OrderlySteps

\* The rows after a step that redirects a device or none.
LEMMA RedirectRows ==
  ASSUME NEW id, NEW new, Redirected(id, new), UNCHANGED <<gateway, toClient>>
  PROVE  \A row \in Rows' : row \in Rows \/ row = (map').forward[id]
<1>1. Syncs' = Syncs
  BY DEF Syncs
<1>2. ASSUME NEW row \in Range((map').forward) PROVE row \in Rows \/ row = (map').forward[id]
  <2>1. PICK d \in DOMAIN (map').forward : row = (map').forward[d]
    BY RangeIs
  <2>2. CASE d = id
    BY <2>1, <2>2
  <2>3. CASE d # id
    BY <2>1, <2>3, MapRows DEF Redirected
  <2> QED
    BY <2>2, <2>3
<1> QED
  BY <1>1, <1>2, RowsAre

\* What is told in such a step.
LEMMA ToldChanges ==
  ASSUME toGateway \in Seq(Change), NEW id \in Devices, NEW new \in Entities, Tell(id, new),
         NEW i \in 1..Len(toGateway')
  PROVE  \/ \E k \in 1..Len(toGateway) : toGateway'[i] = toGateway[k]
         \/ toGateway'[i].id = id /\ toGateway'[i].new = new
<1> DEFINE change == [id |-> id, new |-> new]
<1>1. change \in Change /\ change.id = id /\ change.new = new
  BY DEF Change
<1>2. toGateway' = Append(toGateway, change) \/ toGateway' = toGateway
  BY DEF Tell
<1> HIDE DEF change
<1>3. CASE toGateway' = Append(toGateway, change)
  BY <1>1, <1>3, AppendIs
<1>4. CASE toGateway' = toGateway
  BY <1>4
<1> QED
  BY <1>2, <1>3, <1>4

LEMMA DistinguishedKept ==
  ASSUME SettlesInv, Orderly, [Next]_vars
  PROVE  Distinguished'
<1>1. /\ registry \in Dict(Entities, UniqueIds) /\ IsInjective(registry)
      /\ toGateway \in Seq(Change) /\ toClient \in Seq(Message) /\ used \subseteq Entities
      /\ \A d \in DOMAIN map.forward : d \in Devices
  BY DictIs DEF SettlesInv, Distinguished, IInv, TypeRest, ChannelOK, MapOK, Map
<1>2. PICK own \in [used -> UniqueIds], who \in Dict(Devices, UniqueIds) :
        \E label \in [DOMAIN who -> UniqueIds \cup {None}] : Lineage(own, who, label)
  BY DEF SettlesInv, Distinguished
<1>3. PICK label \in [DOMAIN who -> UniqueIds \cup {None}] : Lineage(own, who, label)
  BY <1>2
<1>4. ASSUME Rows' \subseteq Rows, used' = used,
             \A entity \in DOMAIN registry' :
               entity \in DOMAIN registry /\ registry'[entity] = registry[entity],
             \A i \in 1..Len(toGateway') : \E k \in 1..Len(toGateway) : toGateway'[i] = toGateway[k]
      PROVE  Distinguished'
  <2>1. Lineage(own, who, label)'
    BY <1>3, <1>4, LineageKept
  <2>2. IsInjective(registry')
    BY <1>1, <1>4 DEF IsInjective
  <2> QED
    BY <1>2, <1>3, <1>4, <2>1, <2>2 DEF Distinguished
<1>5. CASE UNCHANGED <<map, registry, used, gateway, toClient, toGateway>>
  <2>1. Rows' = Rows
    <3>1. Syncs' = Syncs
      BY <1>5 DEF Syncs
    <3> QED
      BY <1>5, <3>1 DEF Rows
  <2> QED
    BY <1>4, <1>5, <2>1
<1>6. CASE DeviceMapSync \/ RemoveReceived
  <2>1. /\ toClient # <<>> /\ toClient' = Tail(toClient)
        /\ UNCHANGED <<registry, used, gateway, toGateway>>
    BY <1>6, SyncStep, RemoveStep
  <2>2. \A i \in Syncs' : i + 1 \in Syncs /\ toClient'[i] = toClient[i + 1]
    BY <1>1, <2>1, SyncsPop
  <2>3. \A row \in Range((map').forward) : row \in Rows
    <3>1. CASE DeviceMapSync
      BY <3>1, SyncStep, RowsAre
    <3>2. CASE RemoveReceived
      <4>1. ASSUME NEW row \in Range((map').forward) PROVE row \in Range(map.forward)
        <5>1. PICK d \in DOMAIN (map').forward : row = (map').forward[d]
          BY RangeIs
        <5> QED
          BY <3>2, <5>1, RemoveStep, RangeIs
      <4> QED
        BY <4>1, RowsAre
    <3> QED
      BY <1>6, <3>1, <3>2
  <2>4. Rows' \subseteq Rows
    BY <2>1, <2>2, <2>3, RowsAre
  <2> QED
    BY <1>4, <2>1, <2>4
<1>7. CASE EntityUnregistered
  <2>1. /\ \A entity \in DOMAIN registry' :
             entity \in DOMAIN registry /\ registry'[entity] = registry[entity]
        /\ UNCHANGED <<map, used, gateway, toClient, toGateway>>
    BY <1>7, UnregisterStep
  <2>2. Rows' = Rows
    <3>1. Syncs' = Syncs
      BY <2>1 DEF Syncs
    <3> QED
      BY <2>1, <3>1 DEF Rows
  <2> QED
    BY <1>4, <2>1, <2>2
<1>8. CASE Connect
  <2>1. /\ Syncs' = {1} /\ Range(toClient'[1].rows) = Range(gateway)
        /\ UNCHANGED <<map, registry, used, gateway, toGateway>>
    BY <1>8, ConnectStep
  <2>2. Rows' \subseteq Rows
    BY <2>1, RowsAre
  <2> QED
    BY <1>4, <2>1, <2>2
<1>9. CASE ConnectionLost
  <2>1. Syncs' = {} /\ toGateway' = <<>> /\ UNCHANGED <<map, registry, used, gateway>>
    BY <1>9, LostStep
  <2>2. Rows' \subseteq Rows
    BY <2>1, RowsAre
  <2> QED
    BY <1>4, <2>1, <2>2
<1>10. CASE DeviceRemoved
  <2>1. /\ DOMAIN gateway' \subseteq DOMAIN gateway
        /\ \A d \in DOMAIN gateway' : gateway'[d] = gateway[d]
        /\ Syncs' = Syncs /\ \A i \in Syncs : toClient'[i] = toClient[i]
        /\ UNCHANGED <<map, registry, used, toGateway>>
    BY <1>10, DropStep
  <2>2. \A row \in Range(gateway') : row \in Range(gateway)
    BY <2>1, RangeIs
  <2>3. Rows' \subseteq Rows
    BY <2>1, <2>2, RowsAre
  <2> QED
    BY <1>4, <2>1, <2>3
<1>11. CASE ChangeArrives
  <2> DEFINE change == toGateway[1]
  <2>1. /\ toGateway # <<>> /\ toGateway' = Tail(toGateway)
        /\ DOMAIN gateway' = DOMAIN gateway
        /\ \A d \in DOMAIN gateway \ {change.id} : gateway'[d] = gateway[d]
        /\ change.id \in DOMAIN gateway =>
             /\ gateway'[change.id].id = change.id
             /\ gateway'[change.id].entity = change.new
             /\ gateway'[change.id].unique = gateway[change.id].unique
        /\ UNCHANGED <<map, registry, used, toClient>>
    BY <1>11, ArriveStep
  <2>2. /\ 1 \in 1..Len(toGateway)
        /\ \A i \in 1..Len(toGateway') : \E k \in 1..Len(toGateway) : toGateway'[i] = toGateway[k]
    BY <1>1, <2>1, TailIs
  <2>3. /\ change.id \in DOMAIN who /\ change.new \in used
        /\ own[change.new] = who[change.id]
    BY <1>3, <2>2 DEF Lineage
  <2> HIDE DEF change
  <2>4. ASSUME NEW row \in Range(gateway')
        PROVE  \/ row \in Rows
               \/ \E before \in Rows : /\ row.id = before.id /\ row.unique = before.unique
                                       /\ row.entity \in used' /\ own[row.entity] = who[row.id]
    <3>1. PICK d \in DOMAIN gateway' : row = gateway'[d]
      BY RangeIs
    <3>2. gateway[d] \in Rows
      BY <2>1, <3>1, RangeIs, RowsAre
    <3>3. CASE d # change.id
      BY <2>1, <3>1, <3>2, <3>3
    <3>4. CASE d = change.id
      <4>1. gateway[d].id = d
        BY <2>1, <3>1 DEF SettlesInv, IInv, GatewayOK, Named
      <4> QED
        BY <2>1, <2>3, <3>1, <3>2, <3>4, <4>1
    <3> QED
      BY <3>3, <3>4
  <2>5. ASSUME NEW row \in Rows'
        PROVE  \/ row \in Rows
               \/ \E before \in Rows : /\ row.id = before.id /\ row.unique = before.unique
                                       /\ row.entity \in used' /\ own[row.entity] = who[row.id]
    <3>1. Syncs' = Syncs
      BY <2>1 DEF Syncs
    <3> QED
      BY <2>1, <2>4, <3>1, RowsAre
  <2>6. DOMAIN own = used /\ used \subseteq used' /\ used' = used
    BY <1>2, <2>1
  <2>7. \A entity \in DOMAIN registry' : entity \in used' /\ own[entity] = registry'[entity]
    BY <1>3, <2>1 DEF Lineage
  <2>8. Lineage(own, who, label)'
    BY <1>3, <2>2, <2>5, <2>6, <2>7, LineageExtended
  <2> QED
    BY <1>1, <1>2, <1>3, <2>1, <2>8 DEF Distinguished, IsInjective
<1>12. CASE DriftVisits
  <2>1. PICK id : /\ UNCHANGED <<registry, used, gateway, toClient>>
                  /\ \/ UNCHANGED <<map, toGateway>>
                     \/ \E new \in Resolved(map.forward[id].unique) : Redirected(id, new)
    BY <1>12, VisitStep
  <2>2. CASE UNCHANGED <<map, toGateway>>
    BY <1>5, <2>1, <2>2
  <2>3. ASSUME NEW new \in Resolved(map.forward[id].unique), Redirected(id, new)
        PROVE  Distinguished'
    <3> DEFINE after == (map').forward[id]
    <3>1. /\ map.forward[id] \in Rows /\ map.forward[id].id = id /\ id \in Devices
          /\ after.id = id /\ after.entity = new /\ after.unique = map.forward[id].unique
          /\ Tell(id, new) /\ new \in Entities
      <4>1. id \in DOMAIN map.forward
        BY <2>3 DEF Redirected
      <4>2. map.forward[id] \in Rows /\ map.forward[id].id = id
        BY <4>1, MapRows DEF SettlesInv, Exact
      <4> QED
        BY <1>1, <2>3, <4>1, <4>2 DEF Redirected
    <3>2. /\ new \in used /\ own[new] = who[id] /\ id \in DOMAIN who
      <4>1. own[new] = who[id]
        <5>1. own[new] = who[map.forward[id].id]
          BY <1>1, <1>3, <2>3, <3>1, LineageIs
        <5> QED
          BY <3>1, <5>1
      <4>2. new \in used
        BY <1>3, <2>3 DEF Lineage, Resolved
      <4>3. id \in DOMAIN who
        BY <1>3, <3>1 DEF Lineage, Fits
      <4> QED
        BY <4>1, <4>2, <4>3
    <3>3. \A row \in Rows' : row \in Rows \/ row = after
      BY <2>1, <2>3, RedirectRows
    <3> HIDE DEF after
    <3>4. \A row \in Rows' :
            \/ row \in Rows
            \/ \E before \in Rows : /\ row.id = before.id /\ row.unique = before.unique
                                    /\ row.entity \in used' /\ own[row.entity] = who[row.id]
      BY <2>1, <3>1, <3>2, <3>3
    <3>5. \A i \in 1..Len(toGateway') :
            \/ \E k \in 1..Len(toGateway) : toGateway'[i] = toGateway[k]
            \/ /\ toGateway'[i].id \in DOMAIN who /\ toGateway'[i].new \in used'
               /\ own[toGateway'[i].new] = who[toGateway'[i].id]
      BY <1>1, <2>1, <3>1, <3>2, ToldChanges
    <3>6. DOMAIN own = used /\ used \subseteq used' /\ used' = used
      BY <1>2, <2>1
    <3>7. \A entity \in DOMAIN registry' : entity \in used' /\ own[entity] = registry'[entity]
      BY <1>3, <2>1 DEF Lineage
    <3>8. Lineage(own, who, label)'
      BY <1>3, <3>4, <3>5, <3>6, <3>7, LineageExtended
    <3> QED
      BY <1>1, <1>2, <1>3, <2>1, <3>8 DEF Distinguished, IsInjective
  <2> QED
    BY <2>1, <2>2, <2>3
<1>13. CASE EntityRenamed
  <2>1. PICK old \in DOMAIN registry, new \in Entities \ used :
          /\ DOMAIN registry' = (DOMAIN registry \ {old}) \cup {new}
          /\ registry'[new] = registry[old]
          /\ \A entity \in DOMAIN registry \ {old} : registry'[entity] = registry[entity]
          /\ used' = used \cup {new}
          /\ UNCHANGED <<gateway, toClient>>
          /\ \/ \E id \in DOMAIN map.forward : map.forward[id].entity = old /\ Redirected(id, new)
             \/ /\ \A id \in DOMAIN map.forward : map.forward[id].entity # old
                /\ UNCHANGED <<map, toGateway>>
    BY <1>13, RenameStep
  <2>2. /\ registry[old] \in UniqueIds /\ \A entity \in DOMAIN registry : entity \in used
        /\ \A entity \in DOMAIN registry : own[entity] = registry[entity]
    BY <1>1, <1>3, DictIs DEF Lineage
  <2>3. PICK more \in [used' -> UniqueIds] :
          /\ DOMAIN more = used' /\ used \subseteq used'
          /\ DOMAIN own = used /\ more[new] = registry[old] /\ new \in used'
          /\ \A entity \in used : more[entity] = own[entity]
    <3> DEFINE longer == [entity \in used' |-> IF entity = new THEN registry[old] ELSE own[entity]]
    <3>1. /\ longer \in [used' -> UniqueIds] /\ DOMAIN longer = used' /\ used \subseteq used'
          /\ DOMAIN own = used /\ longer[new] = registry[old] /\ new \in used'
          /\ \A entity \in used : longer[entity] = own[entity]
      BY <1>2, <2>1, <2>2
    <3> QED
      BY <3>1
  <2>4. \A entity \in DOMAIN registry' : entity \in used' /\ more[entity] = registry'[entity]
    BY <2>1, <2>2, <2>3
  <2>5. IsInjective(registry')
    <3>1. new \notin DOMAIN registry
      BY <2>1, <2>2
    <3> QED
      BY <1>1, <2>1, <3>1 DEF IsInjective
  <2>6. /\ \A row \in Rows' :
             \/ row \in Rows
             \/ \E before \in Rows : /\ row.id = before.id /\ row.unique = before.unique
                                     /\ row.entity \in used' /\ more[row.entity] = who[row.id]
        /\ \A i \in 1..Len(toGateway') :
             \/ \E k \in 1..Len(toGateway) : toGateway'[i] = toGateway[k]
             \/ /\ toGateway'[i].id \in DOMAIN who /\ toGateway'[i].new \in used'
                /\ more[toGateway'[i].new] = who[toGateway'[i].id]
    <3>1. CASE UNCHANGED <<map, toGateway>>
      <4>1. Syncs' = Syncs
        BY <2>1 DEF Syncs
      <4>2. Rows' = Rows
        BY <2>1, <3>1, <4>1 DEF Rows
      <4> QED
        BY <3>1, <4>2
    <3>2. ASSUME NEW id \in DOMAIN map.forward, map.forward[id].entity = old, Redirected(id, new)
          PROVE  /\ \A row \in Rows' :
                      \/ row \in Rows
                      \/ \E before \in Rows :
                           /\ row.id = before.id /\ row.unique = before.unique
                           /\ row.entity \in used' /\ more[row.entity] = who[row.id]
                 /\ \A i \in 1..Len(toGateway') :
                      \/ \E k \in 1..Len(toGateway) : toGateway'[i] = toGateway[k]
                      \/ /\ toGateway'[i].id \in DOMAIN who /\ toGateway'[i].new \in used'
                         /\ more[toGateway'[i].new] = who[toGateway'[i].id]
      <4> DEFINE after == (map').forward[id]
      <4>1. /\ map.forward[id] \in Rows /\ map.forward[id].id = id /\ id \in Devices
            /\ after.id = id /\ after.entity = new /\ after.unique = map.forward[id].unique
            /\ Tell(id, new) /\ new \in Entities
        BY <1>1, <3>2, MapRows DEF Redirected, SettlesInv, Exact
      <4>2. more[new] = who[id] /\ id \in DOMAIN who
        <5>1. registry[old] = who[id]
          BY <1>1, <1>3, <3>2, <4>1, LineageIs
        <5> QED
          BY <1>3, <2>3, <4>1, <5>1 DEF Lineage, Fits
      <4>3. \A row \in Rows' : row \in Rows \/ row = after
        BY <2>1, <3>2, RedirectRows
      <4> HIDE DEF after
      <4>4. \A i \in 1..Len(toGateway') :
              \/ \E k \in 1..Len(toGateway) : toGateway'[i] = toGateway[k]
              \/ toGateway'[i].id = id /\ toGateway'[i].new = new
        BY <1>1, <4>1, ToldChanges
      <4> QED
        BY <2>3, <4>1, <4>2, <4>3, <4>4
    <3> QED
      BY <2>1, <3>1, <3>2
  <2>7. Lineage(more, who, label)'
    BY <1>3, <2>3, <2>4, <2>6, LineageExtended
  <2> QED
    BY <1>2, <1>3, <2>3, <2>5, <2>7 DEF Distinguished
<1>14. CASE DriftBegins \/ DriftEnds \/ UNCHANGED vars
  BY <1>5, <1>14, TaskSteps
<1> QED
  BY <1>6, <1>7, <1>8, <1>9, <1>10, <1>11, <1>12, <1>13, <1>14, OrderlySteps

\* What is told is known; what was known of other devices stays so.
LEMMA KnownTold ==
  ASSUME toGateway \in Seq(Change), linked, NEW id \in Devices, NEW new \in Entities,
         Tell(id, new), UNCHANGED gateway
  PROVE  /\ KnownAs(id, new)'
         /\ \A d, entity : d # id /\ KnownAs(d, entity) => KnownAs(d, entity)'
<1> DEFINE n == Len(toGateway)
           change == [id |-> id, new |-> new]
<1>1. change \in Change /\ change.id = id /\ change.new = new
  BY DEF Change
<1>2. toGateway' = Append(toGateway, change)
  BY DEF Tell
<1> HIDE DEF change
<1>3. /\ n \in Nat /\ Len(toGateway') = n + 1 /\ toGateway'[n + 1] = change
      /\ \A i \in 1..n : toGateway'[i] = toGateway[i]
  BY <1>1, <1>2, AppendIs
<1>4. \A d : Told(d)' = {i \in 1..Len(toGateway') : toGateway'[i].id = d}
  BY DEF Told
<1> HIDE DEF n
<1>5. n + 1 \in Told(id)' /\ \A j \in Told(id)' : j <= n + 1
  BY <1>1, <1>3, <1>4
<1>6. KnownAs(id, new)'
  BY <1>1, <1>3, <1>5 DEF KnownAs
<1>7. ASSUME NEW d, d # id PROVE Told(d)' = Told(d)
  <2>1. Told(d) = {i \in 1..n : toGateway[i].id = d}
    BY DEF Told, n
  <2>2. n + 1 \notin Told(d)' /\ \A i \in 1..(n + 1) : i # n + 1 => i \in 1..n
    BY <1>1, <1>3, <1>4, <1>7
  <2>3. \A i \in 1..n : i \in 1..(n + 1)
    BY <1>3
  <2> QED
    BY <1>3, <1>4, <2>1, <2>2, <2>3
<1>8. ASSUME NEW d, NEW entity, d # id, KnownAs(d, entity) PROVE KnownAs(d, entity)'
  <2>1. \A i \in Told(d) : i \in 1..n /\ toGateway'[i] = toGateway[i]
    BY <1>3 DEF Told, n
  <2> QED
    BY <1>7, <1>8, <2>1 DEF KnownAs
<1> QED
  BY <1>6, <1>8

\* A change that arrives is known as before.
LEMMA KnownArrived ==
  ASSUME SettlesInv, ChangeArrives, NEW d \in DOMAIN gateway, NEW entity, KnownAs(d, entity)
  PROVE  KnownAs(d, entity)'
<1>1. /\ toGateway \in Seq(Change) /\ toGateway # <<>> /\ toGateway' = Tail(toGateway)
      /\ d # toGateway[1].id => gateway'[d] = gateway[d]
      /\ d = toGateway[1].id => gateway'[d].entity = toGateway[1].new
  BY ArriveStep
<1> DEFINE n == Len(toGateway)
<1>2. /\ n \in Nat /\ Len(toGateway') = n - 1 /\ 1 \in 1..n
      /\ \A i \in 1..(n - 1) : i + 1 \in 1..n /\ toGateway'[i] = toGateway[i + 1]
  BY <1>1, TailIs
<1>3. Told(d)' = {i \in 1..Len(toGateway') : toGateway'[i].id = d}
      /\ Told(d) = {i \in 1..n : toGateway[i].id = d}
  BY DEF Told
<1> HIDE DEF n
<1>4. \A i \in Told(d)' : i + 1 \in Told(d) /\ i \in Nat \ {0}
  BY <1>2, <1>3
<1>5. \A i \in Told(d) : i # 1 => i - 1 \in Told(d)' /\ toGateway'[i - 1] = toGateway[i]
  <2>1. ASSUME NEW i \in Told(d), i # 1
        PROVE  i - 1 \in 1..(n - 1) /\ (i - 1) + 1 = i
    BY <1>2, <1>3, <2>1
  <2> QED
    BY <1>2, <1>3, <2>1
<1>6. CASE Told(d) = {}
  <2>1. Told(d)' = {} /\ d # toGateway[1].id
    BY <1>2, <1>3, <1>4, <1>6
  <2> QED
    BY <1>1, <1>6, <2>1 DEF KnownAs
<1>7. CASE Told(d) # {}
  <2>1. PICK i \in Told(d) : toGateway[i].new = entity /\ \A j \in Told(d) : j <= i
    BY <1>7 DEF KnownAs
  <2>2. i \in 1..n
    BY <1>3
  <2>3. CASE i = 1
    <3>1. Told(d)' = {}
      <4>1. \A j \in Told(d)' : j + 1 <= 1
        BY <1>4, <2>1, <2>3
      <4> QED
        BY <1>4, <4>1
    <3>2. d = toGateway[1].id
      BY <1>3, <2>3
    <3> QED
      BY <1>1, <2>1, <2>3, <3>1, <3>2 DEF KnownAs
  <2>4. CASE i # 1
    <3>1. i - 1 \in Told(d)' /\ toGateway'[i - 1].new = entity
      BY <1>5, <2>1, <2>4
    <3>2. \A j \in Told(d)' : j <= i - 1
      <4>1. ASSUME NEW j \in Told(d)' PROVE j <= i - 1
        <5>1. j + 1 <= i /\ j \in Nat
          BY <1>4, <2>1
        <5> QED
          BY <2>2, <5>1
      <4> QED
        BY <4>1
    <3> QED
      BY <3>1, <3>2 DEF KnownAs
  <2> QED
    BY <2>3, <2>4
<1> QED
  BY <1>6, <1>7

\* The rows that agree still do if what is told, the gateway's rows and the
\* entities are the same.
LEMMA AgreesKept ==
  ASSUME NEW row, Agrees(row), UNCHANGED toGateway,
         DOMAIN gateway' \subseteq DOMAIN gateway,
         \A d \in DOMAIN gateway' : gateway'[d] = gateway[d],
         row.entity \in DOMAIN registry' => row.entity \in DOMAIN registry
  PROVE  Agrees(row)'
<1>1. SUFFICES ASSUME row.id \in DOMAIN gateway', row.entity \in DOMAIN registry'
               PROVE  KnownAs(row.id, row.entity)'
  BY DEF Agrees
<1>2. KnownAs(row.id, row.entity) /\ gateway'[row.id] = gateway[row.id]
  BY <1>1 DEF Agrees
<1>3. Told(row.id)' = Told(row.id)
  BY DEF Told
<1> QED
  BY <1>2, <1>3 DEF KnownAs

LEMMA AgreementKept ==
  ASSUME SettlesInv, Orderly, [Next]_vars
  PROVE  Agreement'
<1>1. /\ registry \in Dict(Entities, UniqueIds) /\ IsInjective(registry)
      /\ toGateway \in Seq(Change) /\ toClient \in Seq(Message) /\ used \subseteq Entities
      /\ Agreement /\ DOMAIN registry \subseteq used
      /\ \A d \in DOMAIN map.forward : d \in Devices /\ map.forward[d].id = d
  <2>1. DOMAIN registry \subseteq used
    BY DEF SettlesInv, Distinguished, Lineage
  <2> QED
    BY <2>1, DictIs DEF SettlesInv, Distinguished, IInv, TypeRest, ChannelOK, MapOK, Map, Exact
<1>2. PICK own \in [used -> UniqueIds], who \in Dict(Devices, UniqueIds) :
        \E label \in [DOMAIN who -> UniqueIds \cup {None}] : Lineage(own, who, label)
  BY DEF SettlesInv, Distinguished
<1>3. PICK label \in [DOMAIN who -> UniqueIds \cup {None}] : Lineage(own, who, label)
  BY <1>2
<1>4. \A row \in Rows : row.entity \in used
  BY <1>2, <1>3 DEF Lineage, Fits
<1>5. /\ \A i \in Syncs : \A row \in Range(toClient[i].rows) : row \in Rows
      /\ \A row \in Range(map.forward) : row \in Rows
  BY RowsAre
\* Whatever happens, it is enough that the rows that agreed do.
<1>6. ASSUME linked' = linked, ~linked => toGateway' = <<>>,
             Syncs' = Syncs, \A i \in Syncs : toClient'[i] = toClient[i],
             linked => \A i \in Syncs : \A row \in Range(toClient[i].rows) : Agrees(row) => Agrees(row)',
             linked => \A row \in Range((map').forward) :
               \/ Agrees(row)'
               \/ row \in Range(map.forward) /\ (Agrees(row) => Agrees(row)')
      PROVE  Agreement'
  BY <1>1, <1>6 DEF Agreement
<1>7. CASE DeviceMapSync \/ RemoveReceived
  <2>1. /\ toClient # <<>> /\ toClient' = Tail(toClient)
        /\ UNCHANGED <<registry, gateway, linked, toGateway>>
    BY <1>7, SyncStep, RemoveStep
  <2>2. \A row : Agrees(row) => Agrees(row)'
    BY <2>1, AgreesKept
  <2>3. /\ \A i \in Syncs' : i + 1 \in Syncs /\ toClient'[i] = toClient[i + 1]
        /\ Head(toClient).type # "sync" => (Syncs = {} <=> Syncs' = {})
    BY <1>1, <2>1, SyncsPop
  <2>4. linked' => \A i \in Syncs' : \A row \in Range(toClient'[i].rows) : Agrees(row)'
    BY <1>1, <2>1, <2>2, <2>3 DEF Agreement
  <2>5. linked' /\ Syncs' = {} => \A row \in Range((map').forward) : Agrees(row)'
    <3>1. CASE DeviceMapSync
      <4>1. 1 \in Syncs /\ Range((map').forward) = Range(toClient[1].rows)
        BY <3>1, SyncStep
      <4> QED
        BY <1>1, <2>1, <2>2, <4>1 DEF Agreement
    <3>2. CASE RemoveReceived
      <4>1. /\ Head(toClient).type # "sync"
            /\ DOMAIN (map').forward \subseteq DOMAIN map.forward
            /\ \A d \in DOMAIN (map').forward : (map').forward[d] = map.forward[d]
        BY <3>2, RemoveStep
      <4>2. \A row \in Range((map').forward) : row \in Range(map.forward)
        BY <4>1, RangeIs
      <4> QED
        BY <1>1, <2>1, <2>2, <2>3, <4>1, <4>2 DEF Agreement
    <3> QED
      BY <1>7, <3>1, <3>2
  <2> QED
    BY <1>1, <2>1, <2>4, <2>5 DEF Agreement
<1>8. CASE UNCHANGED <<map, registry, used, gateway, linked, toClient, toGateway>>
  <2>1. \A row : Agrees(row) => Agrees(row)'
    BY <1>8, AgreesKept
  <2>2. Syncs' = Syncs
    BY <1>8 DEF Syncs
  <2> QED
    BY <1>1, <1>6, <1>8, <2>1, <2>2 DEF Agreement
<1>9. CASE EntityUnregistered
  <2>1. /\ DOMAIN registry' \subseteq DOMAIN registry
        /\ UNCHANGED <<map, gateway, linked, toClient, toGateway>>
    BY <1>9, UnregisterStep
  <2>2. \A row : Agrees(row) => Agrees(row)'
    BY <2>1, AgreesKept
  <2>3. Syncs' = Syncs
    BY <2>1 DEF Syncs
  <2> QED
    BY <1>1, <1>6, <2>1, <2>2, <2>3 DEF Agreement
<1>10. CASE Connect
  <2>1. /\ ~linked /\ Syncs' = {1} /\ Range(toClient'[1].rows) = Range(gateway)
        /\ UNCHANGED <<gateway, toGateway>>
    BY <1>10, ConnectStep
  <2>2. ASSUME NEW row \in Range(gateway) PROVE Agrees(row)'
    <3>1. toGateway' = <<>>
      BY <1>1, <2>1 DEF Agreement
    <3>2. PICK d \in DOMAIN gateway : row = gateway[d]
      BY RangeIs
    <3>3. gateway'[row.id] = row
      BY <2>1, <3>2 DEF SettlesInv, IInv, GatewayOK, Named
    <3>4. Told(row.id)' = {}
      <4>1. Told(row.id)' = {i \in 1..Len(toGateway') : toGateway'[i].id = row.id}
        BY DEF Told
      <4> QED
        BY <3>1, <4>1
    <3> QED
      BY <3>3, <3>4 DEF Agrees, KnownAs
  <2>3. toGateway' = <<>>
    BY <1>1, <2>1 DEF Agreement
  <2> QED
    BY <2>1, <2>2, <2>3 DEF Agreement
<1>11. CASE ConnectionLost
  BY <1>11, LostStep DEF Agreement
<1>12. CASE ChangeArrives
  <2>1. /\ DOMAIN gateway' = DOMAIN gateway /\ toGateway # <<>>
        /\ UNCHANGED <<map, registry, linked, toClient>>
    BY <1>12, ArriveStep
  <2>2. ASSUME NEW row, Agrees(row) PROVE Agrees(row)'
    BY <1>12, <2>1, <2>2, KnownArrived DEF Agrees
  <2>3. Syncs' = Syncs
    BY <2>1 DEF Syncs
  <2> QED
    BY <1>1, <1>6, <2>1, <2>2, <2>3 DEF Agreement
<1>13. CASE DeviceRemoved
  <2>1. /\ DOMAIN gateway' \subseteq DOMAIN gateway
        /\ \A d \in DOMAIN gateway' : gateway'[d] = gateway[d]
        /\ Syncs' = Syncs /\ \A i \in Syncs : toClient'[i] = toClient[i]
        /\ UNCHANGED <<map, registry, linked, toGateway>>
    BY <1>13, DropStep
  <2>2. \A row : Agrees(row) => Agrees(row)'
    BY <2>1, AgreesKept
  <2> QED
    BY <1>1, <1>6, <2>1, <2>2 DEF Agreement
\* A device is redirected to the only entity there is of its own.
<1>14. ASSUME NEW id, NEW new, Redirected(id, new), UNCHANGED <<gateway, linked, toClient>>,
              \A row \in Rows : row.id # id /\ row.entity \in DOMAIN registry' =>
                row.entity \in DOMAIN registry,
              \A row \in Rows : row.id = id /\ row.entity \in DOMAIN registry' => row.entity = new
       PROVE  Agreement'
  <2>1. id \in DOMAIN map.forward /\ id \in Devices /\ new \in Entities /\ Tell(id, new)
    BY <1>1, <1>14 DEF Redirected
  <2>2. ASSUME linked, NEW row \in Rows, Agrees(row) PROVE Agrees(row)'
    <3>1. /\ KnownAs(id, new)'
          /\ \A d, entity : d # id /\ KnownAs(d, entity) => KnownAs(d, entity)'
      BY <1>1, <1>14, <2>1, <2>2, KnownTold
    <3> QED
      BY <1>14, <2>2, <3>1 DEF Agrees
  <2>3. ASSUME linked, NEW row \in Range((map').forward)
        PROVE  Agrees(row)' \/ row \in Range(map.forward)
    <3>1. PICK d \in DOMAIN (map').forward : row = (map').forward[d]
      BY RangeIs
    <3>2. CASE d = id
      <4>1. row.id = id /\ row.entity = new
        BY <1>14, <3>1, <3>2 DEF Redirected
      <4>2. KnownAs(id, new)'
        BY <1>1, <1>14, <2>1, <2>3, KnownTold
      <4> QED
        BY <4>1, <4>2 DEF Agrees
    <3>3. CASE d # id
      BY <1>14, <3>1, <3>3, RangeIs DEF Redirected
    <3> QED
      BY <3>2, <3>3
  <2>4. Syncs' = Syncs
    BY <1>14 DEF Syncs
  <2>5. ~linked => toGateway' = <<>>
    BY <1>1, <2>1 DEF Tell, Agreement
  <2> QED
    BY <1>5, <1>6, <1>14, <2>2, <2>3, <2>4, <2>5
<1>15. CASE DriftVisits
  <2>1. PICK id : /\ UNCHANGED <<registry, used, gateway, linked, toClient>>
                  /\ \/ UNCHANGED <<map, toGateway>>
                     \/ \E new \in Resolved(map.forward[id].unique) : Redirected(id, new)
    BY <1>15, VisitStep
  <2>2. ASSUME NEW new \in Resolved(map.forward[id].unique), Redirected(id, new),
               NEW row \in Rows, row.id = id, row.entity \in DOMAIN registry
        PROVE  row.entity = new
    <3>1. id \in DOMAIN map.forward
      BY <2>2 DEF Redirected
    <3>2. map.forward[id] \in Rows /\ map.forward[id].id = id
      BY <1>1, <3>1, MapRows
    <3>3. own[new] = who[map.forward[id].id]
      BY <1>1, <1>2, <1>3, <2>2, <3>2, LineageIs
    <3>4. new \in DOMAIN registry /\ own[new] = registry[new]
      BY <1>3, <2>2 DEF Resolved, Lineage
    <3>5. registry[row.entity] = who[row.id]
      BY <1>1, <1>2, <1>3, <2>2, LineageIs
    <3> QED
      BY <1>1, <2>2, <3>2, <3>3, <3>4, <3>5 DEF IsInjective
  <2> QED
    BY <1>8, <1>14, <2>1, <2>2
<1>16. CASE EntityRenamed
  <2>1. PICK old \in DOMAIN registry, new \in Entities \ used :
          /\ DOMAIN registry' = (DOMAIN registry \ {old}) \cup {new}
          /\ UNCHANGED <<gateway, linked, toClient>>
          /\ \/ \E id \in DOMAIN map.forward : map.forward[id].entity = old /\ Redirected(id, new)
             \/ UNCHANGED <<map, toGateway>>
    BY <1>16, RenameStep
  <2>2. \A row \in Rows : row.entity \in DOMAIN registry' =>
          row.entity \in DOMAIN registry /\ row.entity # old
    BY <1>4, <2>1
  <2>3. CASE UNCHANGED <<map, toGateway>>
    <3>1. \A row \in Rows : Agrees(row) => Agrees(row)'
      BY <2>1, <2>2, <2>3, AgreesKept
    <3>2. Syncs' = Syncs
      BY <2>1 DEF Syncs
    <3> QED
      BY <1>1, <1>5, <1>6, <2>1, <2>3, <3>1, <3>2 DEF Agreement
  <2>4. ASSUME NEW id \in DOMAIN map.forward, map.forward[id].entity = old, Redirected(id, new)
        PROVE  Agreement'
    <3>1. ASSUME NEW row \in Rows, row.id = id, row.entity \in DOMAIN registry'
          PROVE  row.entity = new
      <4>1. row.entity \in DOMAIN registry /\ row.entity # old
        BY <2>2, <3>1
      <4>2. map.forward[id] \in Rows /\ map.forward[id].id = id
        BY <1>1, <2>4, MapRows
      <4>3. registry[row.entity] = who[row.id]
        BY <1>1, <1>2, <1>3, <4>1, LineageIs
      <4>4. registry[old] = who[map.forward[id].id]
        BY <1>1, <1>2, <1>3, <2>1, <2>4, <4>2, LineageIs
      <4> QED
        BY <1>1, <2>1, <3>1, <4>1, <4>2, <4>3, <4>4 DEF IsInjective
    <3> QED
      BY <1>14, <2>1, <2>2, <2>4, <3>1
  <2> QED
    BY <2>1, <2>3, <2>4
<1>17. CASE DriftBegins \/ DriftEnds \/ UNCHANGED vars
  BY <1>8, <1>17, TaskSteps
<1> QED
  BY <1>7, <1>9, <1>10, <1>11, <1>12, <1>13, <1>15, <1>16, <1>17, OrderlySteps

LEMMA InitSettles == Init => SettlesInv
<1> SUFFICES ASSUME Init PROVE SettlesInv
  OBVIOUS
<1>1. /\ map = EmptyMap /\ drifts = <<>> /\ created = 0 /\ linked = FALSE
      /\ toClient = <<>> /\ toGateway = <<>> /\ used = DOMAIN registry
      /\ registry \in Dict(Entities, UniqueIds) /\ IsInjective(registry)
      /\ gateway \in Dict(Devices, Row) /\ Named(gateway)
      /\ \A id \in DOMAIN gateway :
           /\ gateway[id].entity \in DOMAIN registry
           /\ gateway[id].unique \in {registry[gateway[id].entity], None}
      /\ \A id, other \in DOMAIN gateway :
           gateway[id].entity = gateway[other].entity => id = other
  BY DEF Init
<1>2. DOMAIN map.forward = {} /\ Syncs = {}
  BY <1>1 DEF EmptyMap, Nothing, Syncs
<1>3. Exact(map) /\ DriftsPending /\ Agreement /\ OnlyRemovals
  BY <1>1, <1>2 DEF Exact, DriftsPending, Agreement, OnlyRemovals
<1>4. Distinguished
  <2> DEFINE who == [id \in DOMAIN gateway |-> registry[gateway[id].entity]]
             label == [id \in DOMAIN gateway |-> gateway[id].unique]
  <2>1. /\ registry \in [used -> UniqueIds] /\ DOMAIN gateway \subseteq Devices
        /\ gateway \in [DOMAIN gateway -> Row]
    BY <1>1, DictIs
  <2>2. who \in [DOMAIN gateway -> UniqueIds] /\ who \in Dict(Devices, UniqueIds)
    <3>1. who \in [DOMAIN gateway -> UniqueIds]
      BY <1>1, <2>1
    <3> QED
      BY <2>1, <3>1 DEF Dict
  <2>3. label \in [DOMAIN who -> UniqueIds \cup {None}] /\ DOMAIN who = DOMAIN gateway
    BY <2>1 DEF Row
  <2>4. IsInjective(who)
    BY <1>1 DEF IsInjective
  <2>5. \A row \in Rows : \E id \in DOMAIN gateway : row = gateway[id] /\ row.id = id
    <3>1. \A row \in Rows : row \in Range(gateway)
      BY <1>2, RowsAre, RangeIs
    <3> QED
      BY <1>1, <3>1, RangeIs DEF Named
  <2>6. \A row \in Rows : Fits(row, registry, who, label)
    BY <1>1, <2>5 DEF Fits
  <2>7. /\ \A id \in DOMAIN who : label[id] \in {who[id], None}
        /\ \A entity \in DOMAIN registry : entity \in used
    BY <1>1
  <2>8. Len(toGateway) = 0
    BY <1>1
  <2> HIDE DEF who, label
  <2>9. Lineage(registry, who, label)
    BY <2>4, <2>6, <2>7, <2>8 DEF Lineage
  <2> QED
    BY <1>1, <2>1, <2>2, <2>3, <2>9 DEF Distinguished
<1> QED
  BY <1>3, <1>4, InitIInv DEF SettlesInv

LEMMA NextSettles == Orderly /\ SettlesInv /\ [Next]_vars => SettlesInv'
<1> SUFFICES ASSUME Orderly, SettlesInv, [Next]_vars PROVE SettlesInv'
  OBVIOUS
<1>1. IInv'
  BY NextIInv DEF SettlesInv
<1> QED
  BY <1>1, DistinguishedKept, ExactKept, DriftsKept, AgreementKept, OnlyRemovalsKept
     DEF SettlesInv

\* With nothing under way the client tracks the gateway's devices.
LEMMA SettledSame == IInv /\ Settled => DOMAIN map.forward = DOMAIN gateway
<1> SUFFICES ASSUME IInv, Settled PROVE DOMAIN map.forward = DOMAIN gateway
  OBVIOUS
<1>1. Leads(toClient, DOMAIN map.forward, DOMAIN gateway) /\ Len(toClient) = 0
  BY DEF IInv, ChannelOK, Settled
<1> QED
  BY <1>1 DEF Leads

\* ... none has drifted, so each is the entity with its unique id, ...
LEMMA SettlesRight == SettlesInv => SettledRight
<1> SUFFICES ASSUME SettlesInv, Settled, NEW id \in DOMAIN map.forward,
                    NEW entity \in Resolved(map.forward[id].unique)
             PROVE  map.forward[id].entity = entity
  BY DEF SettledRight, Right
<1>1. registry \in Dict(Entities, UniqueIds) /\ IsInjective(registry)
  BY DEF SettlesInv, IInv, TypeRest, Distinguished
<1>2. PICK own \in [used -> UniqueIds], who \in Dict(Devices, UniqueIds) :
        \E label \in [DOMAIN who -> UniqueIds \cup {None}] : Lineage(own, who, label)
  BY DEF SettlesInv, Distinguished
<1>3. PICK label \in [DOMAIN who -> UniqueIds \cup {None}] : Lineage(own, who, label)
  BY <1>2
<1>4. ~Pending(id)
  <2>1. Len(toClient) = 0 /\ Len(drifts) = 0 /\ linked /\ created = 0
    BY DEF Settled
  <2> QED
    BY <2>1 DEF Pending, Syncs
<1>5. map.forward[id].entity \in DOMAIN registry
  BY <1>4 DEF SettlesInv, DriftsPending, HasDrifted
<1>6. map.forward[id] \in Rows
  BY MapRows
<1>7. registry[map.forward[id].entity] = who[map.forward[id].id]
  BY <1>1, <1>2, <1>3, <1>5, <1>6, LineageIs
<1>8. own[entity] = who[map.forward[id].id]
  BY <1>1, <1>2, <1>3, <1>6, LineageIs
<1>9. entity \in DOMAIN registry /\ own[entity] = registry[entity]
  BY <1>3 DEF Lineage, Resolved
<1> QED
  BY <1>1, <1>5, <1>7, <1>8, <1>9 DEF IsInjective

\* ... is it to the gateway too, and is found by it.
LEMMA SettlesTracked == SettlesInv => SettledTracked
<1> SUFFICES ASSUME SettlesInv, Settled PROVE SettledTracked
  BY DEF SettledTracked
<1>1. DOMAIN map.forward = DOMAIN gateway
  BY SettledSame DEF SettlesInv
<1>2. Exact(map) /\ Agreement /\ linked /\ Syncs = {} /\ Len(toGateway) = 0
  BY DEF SettlesInv, Settled, Syncs
<1>3. ASSUME NEW id \in DOMAIN map.forward, map.forward[id].entity \in DOMAIN registry
      PROVE  gateway[id].entity = map.forward[id].entity
  <2>1. map.forward[id] \in Range(map.forward) /\ map.forward[id].id = id
    BY <1>2, MapRows DEF Exact
  <2>2. KnownAs(id, map.forward[id].entity)
    BY <1>1, <1>2, <1>3, <2>1 DEF Agreement, Agrees
  <2>3. Told(id) = {}
    BY <1>2 DEF Told
  <2> QED
    BY <2>2, <2>3 DEF KnownAs
<1> QED
  BY <1>1, <1>2, <1>3 DEF SettledTracked, Exact

\* Whatever the environment does, the client ends up with the devices that the
\* gateway has: once all is settled neither a device that was removed nor one
\* that was added in whatever order makes a difference.
THEOREM SameDevices == Spec => [](Settled => DOMAIN map.forward = DOMAIN gateway)
<1>1. Init => IInv
  BY InitIInv
<1>2. IInv /\ [Next]_vars => IInv'
  BY NextIInv
<1>3. IInv => (Settled => DOMAIN map.forward = DOMAIN gateway)
  BY SettledSame
<1> QED
  BY <1>1, <1>2, <1>3, PTL DEF Spec

\* For any number of devices, entities, renames, removals and lost connections:
\* once all is settled, each device leads to the entity with its unique id.
THEOREM SettlesOnRight ==
  ASSUME Orderly
  PROVE  Spec => []SettledRight
<1>1. Init => SettlesInv
  BY InitSettles
<1>2. SettlesInv /\ [Next]_vars => SettlesInv'
  BY NextSettles
<1>3. SettlesInv => SettledRight
  BY SettlesRight
<1> QED
  BY <1>1, <1>2, <1>3, PTL DEF Spec

\* ... the gateway and the client agree on the devices and on the entities that
\* are still there, and each entity leads back to its device.
THEOREM SettlesOnTracked ==
  ASSUME Orderly
  PROVE  Spec => []SettledTracked
<1>1. Init => SettlesInv
  BY InitSettles
<1>2. SettlesInv /\ [Next]_vars => SettlesInv'
  BY NextSettles
<1>3. SettlesInv => SettledTracked
  BY SettlesTracked
<1> QED
  BY <1>1, <1>2, <1>3, PTL DEF Spec

-----------------------------------------------------------------------------
(***************************************************************************)
(* A sync is the loop that adds its rows one by one.                       *)
(***************************************************************************)

\* The last position of a key is the only one with none after it.
LEMMA LastWithIs ==
  ASSUME NEW rows \in Seq(Row), NEW field, NEW key, NEW i \in 1..Len(rows),
         rows[i][field] = key, \A j \in (i + 1)..Len(rows) : rows[j][field] # key
  PROVE  LastWith(rows, field, key) = i
<1> DEFINE Last(a) == /\ rows[a][field] = key
                      /\ \A j \in (a + 1)..Len(rows) : rows[j][field] # key
<1>1. Len(rows) \in Nat
  BY LenProperties
<1>2. ASSUME NEW a \in 1..Len(rows), Last(a) PROVE a = i
  <2>1. ~(a < i) /\ ~(i < a)
    BY <1>1, <1>2
  <2> QED
    BY <1>1, <2>1
<1>3. Last(i)
  OBVIOUS
<1> HIDE DEF Last
<1>4. (CHOOSE a \in 1..Len(rows) : Last(a)) = i
  BY <1>2, <1>3
<1> QED
  BY <1>4 DEF LastWith, Last

\* A last position is what LastWith says it is.
LEMMA LastWithHas ==
  ASSUME NEW rows \in Seq(Row), NEW field, NEW key \in Keys(rows, field)
  PROVE  LET i == LastWith(rows, field, key)
         IN  /\ i \in 1..Len(rows) /\ rows[i][field] = key
             /\ \A j \in (i + 1)..Len(rows) : rows[j][field] # key
<1> DEFINE T == {j \in 1..Len(rows) : rows[j][field] = key}
<1>1. Len(rows) \in Nat
  BY LenProperties
<1>2. PICK x \in T : \A y \in T : y <= x
  <2>1. T \subseteq 1..Len(rows) /\ T # {}
    BY DEF Keys
  <2> HIDE DEF T
  <2> QED
    BY <1>1, <2>1, LastPosition
<1>3. /\ x \in 1..Len(rows) /\ rows[x][field] = key
      /\ \A j \in (x + 1)..Len(rows) : rows[j][field] # key
  BY <1>1, <1>2
<1>4. LastWith(rows, field, key) = x
  BY <1>3, LastWithIs
<1> QED
  BY <1>3, <1>4

\* One row more is the last of its key, and changes no other key.
LEMMA OneRowMore ==
  ASSUME NEW p \in Seq(Row), NEW q \in Seq(Row), Len(q) = Len(p) + 1,
         \A j \in 1..Len(p) : q[j] = p[j], NEW field
  PROVE  LET row == q[Len(q)]
         IN  /\ Keys(q, field) = Keys(p, field) \cup ({row[field]} \ {None})
             /\ \A key \in Keys(q, field) :
                  q[LastWith(q, field, key)] =
                    IF key = row[field] THEN row ELSE p[LastWith(p, field, key)]
<1> DEFINE n == Len(p)
           row == q[Len(q)]
<1>1. n \in Nat /\ Len(q) = n + 1 /\ 1..Len(q) = 1..n \cup {n + 1}
  BY LenProperties
<1>2. Keys(q, field) = Keys(p, field) \cup ({row[field]} \ {None})
  BY <1>1 DEF Keys
<1>3. ASSUME NEW key \in Keys(q, field), key = row[field]
      PROVE  q[LastWith(q, field, key)] = row
  <2>1. Len(q) \in 1..Len(q) /\ (Len(q) + 1)..Len(q) = {}
    BY <1>1
  <2>2. LastWith(q, field, key) = Len(q)
    BY <1>3, <2>1, LastWithIs
  <2> QED
    BY <2>2
<1>4. ASSUME NEW key \in Keys(q, field), key # row[field]
      PROVE  q[LastWith(q, field, key)] = p[LastWith(p, field, key)]
  <2>1. key \in Keys(p, field)
    BY <1>2, <1>4
  <2>2. PICK i \in 1..n : /\ i = LastWith(p, field, key) /\ p[i][field] = key
                          /\ \A j \in (i + 1)..n : p[j][field] # key
    BY <2>1, LastWithHas
  <2>3. i \in 1..Len(q) /\ q[i] = p[i]
    BY <1>1, <2>2
  <2>4. ASSUME NEW j \in (i + 1)..Len(q) PROVE q[j][field] # key
    <3>1. j = Len(q) \/ (j \in (i + 1)..n /\ j \in 1..n)
      BY <1>1, <2>2
    <3>2. CASE j = Len(q)
      BY <1>4, <3>2
    <3>3. CASE j \in (i + 1)..n /\ j \in 1..n
      <4>1. q[j] = p[j]
        BY <3>3
      <4> QED
        BY <2>2, <3>3, <4>1
    <3> QED
      BY <3>1, <3>2, <3>3
  <2>5. LastWith(q, field, key) = i
    BY <2>2, <2>3, <2>4, LastWithIs
  <2> QED
    BY <2>2, <2>3, <2>5
<1> QED
  BY <1>2, <1>3, <1>4

\* The map of a sync with one row more is the map with this row added.
LEMMA LoadedMore ==
  ASSUME NEW p \in Seq(Row), NEW q \in Seq(Row), Len(q) = Len(p) + 1,
         \A j \in 1..Len(p) : q[j] = p[j]
  PROVE  Loaded(q) = Added(Loaded(p), q[Len(q)])
<1> DEFINE row == q[Len(q)]
<1>1. row \in Row /\ row.id # None
  <2>1. Len(q) \in 1..Len(q)
    BY LenProperties
  <2>2. row \in Row
    BY <2>1, ElementOfSeq
  <2> QED
    BY <2>2, RowFields
<1>2. ASSUME NEW field
      PROVE  DevicesBy(q, field) = Put(DevicesBy(p, field), row[field], row.id)
  <2> DEFINE K == Keys(p, field)
  <2>1. /\ Keys(q, field) = K \cup ({row[field]} \ {None})
        /\ \A key \in Keys(q, field) :
             q[LastWith(q, field, key)] =
               IF key = row[field] THEN row ELSE p[LastWith(p, field, key)]
    BY OneRowMore
  <2>2. DOMAIN DevicesBy(p, field) = K
        /\ \A key \in K : DevicesBy(p, field)[key] = p[LastWith(p, field, key)].id
    BY DEF DevicesBy
  <2>3. None \notin Keys(q, field)
    BY DEF Keys
  <2>4. CASE row[field] = None
    <3>1. Keys(q, field) = K
      BY <2>1, <2>4
    <3>2. \A key \in K : q[LastWith(q, field, key)] = p[LastWith(p, field, key)]
      BY <2>1, <2>3, <2>4, <3>1
    <3>3. DevicesBy(q, field) = DevicesBy(p, field)
      <4> HIDE DEF row
      <4> QED
        BY <3>1, <3>2 DEF DevicesBy
    <3> QED
      BY <2>4, <3>3 DEF Put
  <2>5. CASE row[field] # None
    <3>1. Keys(q, field) = K \cup {row[field]}
      BY <2>1, <2>5
    <3>2. Put(DevicesBy(p, field), row[field], row.id) =
            [key \in K \cup {row[field]} |->
               IF key = row[field] THEN row.id ELSE DevicesBy(p, field)[key]]
      BY <2>2, <2>5 DEF Put
    <3>3. ASSUME NEW key \in K \cup {row[field]}
          PROVE  q[LastWith(q, field, key)].id =
                   IF key = row[field] THEN row.id ELSE DevicesBy(p, field)[key]
      BY <2>1, <2>2, <3>1
    <3>4. DevicesBy(q, field) =
            [key \in Keys(q, field) |-> q[LastWith(q, field, key)].id]
      BY DEF DevicesBy
    <3> HIDE DEF row, K
    <3> QED
      BY <3>1, <3>2, <3>3, <3>4
  <2> QED
    BY <2>4, <2>5
<1>3. (Loaded(q)).forward = Put((Loaded(p)).forward, row.id, row)
  <2> DEFINE K == Keys(p, "id")
             F == [id \in K |-> p[LastWith(p, "id", id)]]
  <2>1. /\ Keys(q, "id") = K \cup {row.id}
        /\ \A key \in Keys(q, "id") :
             q[LastWith(q, "id", key)] =
               IF key = row.id THEN row ELSE p[LastWith(p, "id", key)]
    BY <1>1, OneRowMore
  <2>2. Put(F, row.id, row) =
          [key \in K \cup {row.id} |-> IF key = row.id THEN row ELSE F[key]]
    BY <1>1 DEF Put
  <2>3. [id \in Keys(q, "id") |-> q[LastWith(q, "id", id)]] =
          [key \in K \cup {row.id} |-> IF key = row.id THEN row ELSE F[key]]
    <3> HIDE DEF row
    <3> QED
      BY <2>1
  <2>4. (Loaded(q)).forward = [id \in Keys(q, "id") |-> q[LastWith(q, "id", id)]]
        /\ (Loaded(p)).forward = F
    BY DEF Loaded
  <2> QED
    BY <2>2, <2>3, <2>4
<1>4. /\ (Loaded(q)).reverse = Put((Loaded(p)).reverse, row.entity, row.id)
      /\ (Loaded(q)).byUnique = Put((Loaded(p)).byUnique, row.unique, row.id)
  BY <1>2 DEF Loaded
<1>5. Loaded(q) = [forward |-> (Loaded(q)).forward, reverse |-> (Loaded(q)).reverse,
                   byUnique |-> (Loaded(q)).byUnique]
  BY DEF Loaded
<1> HIDE DEF row
<1> QED
  BY <1>3, <1>4, <1>5 DEF Added, row

\* The loop, after its rows, has made the map of a sync.
LEMMA LoopLoads ==
  ASSUME NEW rows \in Seq(Row)
  PROVE  AddedInTurn(rows) = Loaded(rows)
<1> DEFINE n == Len(rows)
           p(i) == SubSeq(rows, 1, i)
           Loop(m) == m = [i \in 0..n |-> IF i = 0 THEN EmptyMap
                                          ELSE Added(m[i - 1], rows[i])]
           loads == [i \in 0..n |-> Loaded(p(i))]
<1>1. n \in Nat /\ \A i \in 1..n : rows[i] \in Row
  BY LenProperties, ElementOfSeq
<1>2. ASSUME NEW i \in 0..n
      PROVE  p(i) \in Seq(Row) /\ Len(p(i)) = i /\ \A j \in 1..i : p(i)[j] = rows[j]
  <2>1. i \in Int /\ 1 \in Int /\ \A j \in 1..i : rows[j] \in Row
    BY <1>1
  <2>2. /\ p(i) \in Seq(Row)
        /\ Len(p(i)) = IF 1 <= i THEN i - 1 + 1 ELSE 0
        /\ \A j \in 1..(i - 1 + 1) : p(i)[j] = rows[1 + j - 1]
    BY <2>1, SubSeqProperties
  <2>3. i - 1 + 1 = i /\ (1 <= i \/ i = 0) /\ \A j \in 1..i : 1 + j - 1 = j
    BY <1>1
  <2> HIDE DEF p
  <2> QED
    BY <2>2, <2>3
<1>3. p(0) = <<>> /\ p(n) = rows
  BY <1>1, SubSeqEmpty, SubSeqFull
<1>4. Loaded(<<>>) = EmptyMap
  <2>1. \A field : Keys(<<>>, field) = {}
    BY DEF Keys
  <2>2. \A field : DevicesBy(<<>>, field) = Nothing
    BY <2>1 DEF DevicesBy, Nothing
  <2>3. [id \in Keys(<<>>, "id") |-> <<>>[LastWith(<<>>, "id", id)]] = Nothing
    BY <2>1 DEF Nothing
  <2> QED
    BY <2>2, <2>3 DEF Loaded, EmptyMap
<1>5. ASSUME NEW i \in 1..n PROVE Loaded(p(i)) = Added(Loaded(p(i - 1)), rows[i])
  <2>1. i \in 0..n /\ i - 1 \in 0..n /\ i - 1 + 1 = i /\ 1..(i - 1) \subseteq 1..i
        /\ i \in 1..i
    BY <1>1
  <2>2. /\ p(i) \in Seq(Row) /\ p(i - 1) \in Seq(Row)
        /\ Len(p(i)) = Len(p(i - 1)) + 1 /\ Len(p(i)) = i /\ p(i)[i] = rows[i]
        /\ \A j \in 1..Len(p(i - 1)) : p(i)[j] = p(i - 1)[j]
    BY <1>2, <2>1
  <2> HIDE DEF p
  <2> QED
    BY <2>2, LoadedMore
<1> HIDE DEF p
<1>6. Loop(loads)
  <2>1. ASSUME NEW i \in 0..n
        PROVE  loads[i] = IF i = 0 THEN EmptyMap ELSE Added(loads[i - 1], rows[i])
    <3>1. CASE i = 0
      BY <1>3, <1>4, <3>1
    <3>2. CASE i # 0
      <4>1. i \in 1..n /\ i - 1 \in 0..n
        BY <1>1, <3>2
      <4>2. loads[i] = Loaded(p(i)) /\ loads[i - 1] = Loaded(p(i - 1))
        BY <4>1
      <4> HIDE DEF loads
      <4> QED
        BY <1>5, <3>2, <4>1, <4>2
    <3> QED
      BY <3>1, <3>2
  <2> QED
    BY <2>1
<1>7. ASSUME NEW m, Loop(m) PROVE \A i \in 0..n : m[i] = loads[i]
  <2> DEFINE wrong == {i \in 0..n : m[i] # loads[i]}
  <2>1. ASSUME wrong # {} PROVE FALSE
    <3>1. PICK i \in wrong : \A j \in wrong : i <= j
      <4>1. wrong \subseteq Nat
        OBVIOUS
      <4> HIDE DEF wrong
      <4> QED
        BY <2>1, <4>1, LeastNat
    <3>2. i \in 0..n /\ m[i] # loads[i]
      BY <3>1
    <3> HIDE DEF loads
    <3>3. /\ m[i] = IF i = 0 THEN EmptyMap ELSE Added(m[i - 1], rows[i])
          /\ loads[i] = IF i = 0 THEN EmptyMap ELSE Added(loads[i - 1], rows[i])
      BY <1>6, <1>7, <3>2
    <3>4. i # 0
      BY <3>2, <3>3
    <3>5. i - 1 \in 0..n /\ ~(i <= i - 1)
      BY <1>1, <3>2, <3>4
    <3>6. m[i - 1] = loads[i - 1]
      BY <3>1, <3>5
    <3> QED
      BY <3>2, <3>3, <3>4, <3>6
  <2> QED
    BY <2>1
<1>8. AddedInTurn(rows) = (CHOOSE m : Loop(m))[n]
  BY DEF AddedInTurn
<1>9. loads[n] = Loaded(rows)
  BY <1>1, <1>3
<1>10. Loop(CHOOSE m : Loop(m))
  <2> HIDE DEF Loop, loads
  <2> QED
    BY <1>6
<1>11. n \in 0..n
  BY <1>1
<1> HIDE DEF Loop, loads
<1> QED
  BY <1>7, <1>8, <1>9, <1>10, <1>11

\* Whatever rows a sync brings, two devices of one entity id included, the map
\* that DeviceMapSync makes is the one that adding them in turn makes.
THEOREM SyncsInTurn == Spec => SyncIsLoop
<1>1. IInv /\ DeviceMapSync => map' = AddedInTurn(Head(toClient).rows)
  <2> SUFFICES ASSUME IInv, DeviceMapSync
               PROVE  map' = AddedInTurn(Head(toClient).rows)
    OBVIOUS
  <2>1. toClient \in Seq(Message) /\ toClient # <<>> /\ Head(toClient).type = "sync"
        /\ map' = Loaded(Head(toClient).rows)
    BY DEF IInv, ChannelOK, DeviceMapSync, Receive
  <2>2. Head(toClient) \in Message
    BY <2>1, HeadTailProperties
  <2>3. Head(toClient).rows \in Seq(Row)
    BY <2>1, <2>2, MessageFields
  <2> QED
    BY <2>1, <2>3, LoopLoads
<1>2. Init => IInv
  BY InitIInv
<1>3. IInv /\ [Next]_vars => IInv'
  BY NextIInv
<1> QED
  BY <1>1, <1>2, <1>3, PTL DEF Spec, SyncIsLoop

-----------------------------------------------------------------------------
(***************************************************************************)
(* How far all is from being settled.                                      *)
(***************************************************************************)
ToVisit == {visit \in (1..Len(drifts)) \X Devices : visit[2] \in drifts[visit[1]]}

\* What is yet to be done, the parts that make work for later ones first: a
\* connection brings a sync, a sync a task, a task has devices to visit, and a
\* visit may tell the gateway something.
Work == <<IF linked THEN 0 ELSE 1, Len(toClient), created, Len(drifts),
          Cardinality(ToVisit), Len(toGateway)>>

Less(work, than) ==
  \E k \in 1..6 : work[k] < than[k] /\ \A j \in 1..(k - 1) : work[j] = than[j]

Smaller == {pair \in Nat \X Nat : pair[1] < pair[2]}
Fewer == LexProductOrdering(Smaller, Nat, 6)

\* Nothing gets fewer for ever.
LEMMA FewerEnds == IsWellFoundedOn(Fewer, [1..6 -> Nat])
<1>1. IsWellFoundedOn(Smaller, Nat)
  BY NatLessThanWellFounded DEF OpToRel, Smaller
<1> QED
  BY <1>1, WFLexProductOrdering DEF Fewer

LEMMA LessIsFewer ==
  ASSUME NEW work \in [1..6 -> Nat], NEW than \in [1..6 -> Nat], Less(work, than)
  PROVE  <<work, than>> \in Fewer
<1>1. PICK k \in 1..6 : work[k] < than[k] /\ \A j \in 1..(k - 1) : work[j] = than[j]
  BY DEF Less
<1>2. <<work[k], than[k]>> \in Smaller
  BY <1>1 DEF Smaller
<1> QED
  BY <1>1, <1>2 DEF Fewer, LexProductOrdering

\* Every step of the client, the connection it makes and every change that
\* the gateway learns of bring the end nearer, whatever was under way; only
\* the registry, the gateway's own changes and a lost connection put it off.
SettlingNears ==
  [][ClientStep \/ Connect \/ ChangeArrives => <<Work', Work>> \in Fewer]_vars

LEMMA VisitsFinite ==
  ASSUME drifts \in Seq(SUBSET Devices)
  PROVE  IsFiniteSet(ToVisit) /\ Cardinality(ToVisit) \in Nat
<1>1. Len(drifts) \in Nat /\ 1 \in Int
  BY LenProperties
<1>2. IsFiniteSet(1..Len(drifts))
  BY <1>1, FS_Interval
<1>3. IsFiniteSet((1..Len(drifts)) \X Devices)
  BY <1>2, DevicesAssumption, FS_Product
<1>4. IsFiniteSet(ToVisit)
  BY <1>3, FS_Subset DEF ToVisit
<1> QED
  BY <1>4, FS_CardinalityType

LEMMA WorkTyped ==
  ASSUME IInv
  PROVE  Work \in [1..6 -> Nat]
<1>1. /\ Len(toClient) \in Nat /\ created \in Nat /\ Len(drifts) \in Nat
      /\ Len(toGateway) \in Nat
  BY LenProperties DEF IInv, TypeRest, ChannelOK
<1>2. Cardinality(ToVisit) \in Nat
  BY VisitsFinite DEF IInv, TypeRest
<1> DEFINE n == Cardinality(ToVisit)
<1> HIDE DEF n
<1>3. <<IF linked THEN 0 ELSE 1, Len(toClient), created, Len(drifts), n, Len(toGateway)>>
        \in [1..6 -> Nat]
  BY <1>1, <1>2 DEF n
<1> QED
  BY <1>3 DEF Work, n

\* A visit is one of those that were to be made.
LEMMA VisitLess ==
  ASSUME IInv, DriftVisits
  PROVE  Len(drifts') = Len(drifts) /\ Cardinality(ToVisit') < Cardinality(ToVisit)
<1>1. drifts \in Seq(SUBSET Devices)
  BY DEF IInv, TypeRest
<1>2. PICK task \in 1..Len(drifts) :
        \E id \in drifts[task] : drifts' = [drifts EXCEPT ![task] = @ \ {id}]
  BY DEF DriftVisits
<1>3. PICK id \in drifts[task] : drifts' = [drifts EXCEPT ![task] = @ \ {id}]
  BY <1>2
<1>4. drifts[task] \in SUBSET Devices
  BY <1>1, ElementOfSeq
<1>5. Len(drifts') = Len(drifts)
  BY <1>1, <1>3, <1>4, ExceptSeq
<1>6. <<task, id>> \in ToVisit
  BY <1>3, <1>4 DEF ToVisit
<1>7. ToVisit' \subseteq ToVisit \ {<<task, id>>}
  <2>1. ASSUME NEW visit \in (1..Len(drifts)) \X Devices, visit[2] \in drifts'[visit[1]]
        PROVE  visit[2] \in drifts[visit[1]] /\ visit # <<task, id>>
    <3>1. visit[1] \in 1..Len(drifts) /\ DOMAIN drifts = 1..Len(drifts)
      BY <1>1, LenProperties
    <3> QED
      BY <1>3, <2>1, <3>1
  <2> QED
    BY <1>5, <2>1 DEF ToVisit
<1>8. ToVisit' # ToVisit /\ ToVisit' \subseteq ToVisit
  BY <1>6, <1>7
<1>9. Cardinality(ToVisit') \in Nat /\ Cardinality(ToVisit) \in Nat
      /\ Cardinality(ToVisit') <= Cardinality(ToVisit)
      /\ Cardinality(ToVisit) # Cardinality(ToVisit')
  <2>1. IsFiniteSet(ToVisit) /\ Cardinality(ToVisit) \in Nat
    BY <1>1, VisitsFinite
  <2>2. ToVisit' \in SUBSET ToVisit
    BY <1>8
  <2> HIDE DEF ToVisit
  <2> QED
    BY <1>8, <2>1, <2>2, FS_Subset, FS_CardinalityType
<1> QED
  BY <1>5, <1>9

\* The parts of the work that a step leaves, and the one that it lessens.
LEMMA WorkLess ==
  ASSUME IInv, [Next]_vars, ClientStep \/ Connect \/ ChangeArrives
  PROVE  Less(Work', Work)
<1> DEFINE a == ToVisit
<1>1. /\ toClient \in Seq(Message) /\ created \in Nat /\ drifts \in Seq(SUBSET Devices)
      /\ toGateway \in Seq(Change) /\ linked \in BOOLEAN
      /\ Len(toClient) \in Nat /\ Len(drifts) \in Nat /\ Len(toGateway) \in Nat
  BY LenProperties DEF IInv, TypeRest, ChannelOK
<1>2. CASE DeviceMapSync \/ AddReceived \/ UpdateReceived \/ RemoveReceived
  <2>1. linked' = linked /\ toClient # <<>> /\ toClient' = Tail(toClient)
    BY <1>2 DEF DeviceMapSync, AddReceived, UpdateReceived, RemoveReceived, Receive
  <2>2. Len(toClient') < Len(toClient)
    BY <1>1, <2>1, HeadTailProperties
  <2>3. Work'[1] = Work[1] /\ Work'[2] < Work[2]
    BY <2>1, <2>2 DEF Work
  <2>4. \E k \in 1..6 : Work'[k] < Work[k] /\ \A j \in 1..(k - 1) : Work'[j] = Work[j]
    <3> HIDE DEF Work
    <3> WITNESS 2 \in 1..6
    <3> QED
      BY <2>3
  <2> QED
    BY <2>4 DEF Less
<1>3. CASE Connect
  <2>1. Work'[1] < Work[1]
    BY <1>3 DEF Connect, Work
  <2>2. \E k \in 1..6 : Work'[k] < Work[k] /\ \A j \in 1..(k - 1) : Work'[j] = Work[j]
    <3> HIDE DEF Work
    <3> WITNESS 1 \in 1..6
    <3> QED
      BY <2>1
  <2> QED
    BY <2>2 DEF Less
<1>4. CASE DriftBegins
  <2>1. linked' = linked /\ toClient' = toClient /\ created' = created - 1
    BY <1>4 DEF DriftBegins
  <2>2. Work'[1] = Work[1] /\ Work'[2] = Work[2] /\ Work'[3] < Work[3]
    BY <1>1, <2>1 DEF Work
  <2>3. \E k \in 1..6 : Work'[k] < Work[k] /\ \A j \in 1..(k - 1) : Work'[j] = Work[j]
    <3> HIDE DEF Work
    <3> WITNESS 3 \in 1..6
    <3> QED
      BY <2>2
  <2> QED
    BY <2>3 DEF Less
<1>5. CASE DriftEnds
  <2>1. linked' = linked /\ toClient' = toClient /\ created' = created
    BY <1>5 DEF DriftEnds
  <2>2. Len(drifts') = Len(drifts) - 1
    <3>1. PICK task \in 1..Len(drifts) :
            drifts' = [i \in 1..(Len(drifts) - 1) |-> drifts[IF i < task THEN i ELSE i + 1]]
      BY <1>5 DEF DriftEnds
    <3>2. Len(drifts) - 1 \in Nat /\ DOMAIN drifts' = 1..(Len(drifts) - 1)
      BY <1>1, <3>1
    <3>3. drifts' \in Seq(SUBSET Devices)
      BY <1>5, DriftSteps DEF IInv, TypeRest
    <3> QED
      BY <3>2, <3>3, LenProperties
  <2>3. Work'[1] = Work[1] /\ Work'[2] = Work[2] /\ Work'[3] = Work[3] /\ Work'[4] < Work[4]
    BY <1>1, <2>1, <2>2 DEF Work
  <2>4. \E k \in 1..6 : Work'[k] < Work[k] /\ \A j \in 1..(k - 1) : Work'[j] = Work[j]
    <3> HIDE DEF Work
    <3> WITNESS 4 \in 1..6
    <3> QED
      BY <2>3
  <2> QED
    BY <2>4 DEF Less
<1>6. CASE DriftVisits
  <2>1. linked' = linked /\ toClient' = toClient /\ created' = created
    BY <1>6 DEF DriftVisits
  <2>2. Len(drifts') = Len(drifts) /\ Cardinality(ToVisit') < Cardinality(ToVisit)
    BY <1>6, VisitLess
  <2>3. /\ Work'[1] = Work[1] /\ Work'[2] = Work[2] /\ Work'[3] = Work[3]
        /\ Work'[4] = Work[4] /\ Work'[5] < Work[5]
    BY <2>1, <2>2 DEF Work
  <2>4. \E k \in 1..6 : Work'[k] < Work[k] /\ \A j \in 1..(k - 1) : Work'[j] = Work[j]
    <3> HIDE DEF Work
    <3> WITNESS 5 \in 1..6
    <3> QED
      BY <2>3
  <2> QED
    BY <2>4 DEF Less
<1>7. CASE ChangeArrives
  <2>1. /\ linked' = linked /\ toClient' = toClient /\ created' = created
        /\ drifts' = drifts /\ toGateway # <<>> /\ toGateway' = Tail(toGateway)
    BY <1>7 DEF ChangeArrives
  <2>2. Len(toGateway') < Len(toGateway)
    BY <1>1, <2>1, HeadTailProperties
  <2>3. ToVisit' = ToVisit
    BY <2>1 DEF ToVisit
  <2>4. /\ Work'[1] = Work[1] /\ Work'[2] = Work[2] /\ Work'[3] = Work[3]
        /\ Work'[4] = Work[4] /\ Work'[5] = Work[5] /\ Work'[6] < Work[6]
    BY <2>1, <2>2, <2>3 DEF Work
  <2>5. \E k \in 1..6 : Work'[k] < Work[k] /\ \A j \in 1..(k - 1) : Work'[j] = Work[j]
    <3> HIDE DEF Work
    <3> WITNESS 6 \in 1..6
    <3> QED
      BY <2>4
  <2> QED
    BY <2>5 DEF Less
<1> QED
  BY <1>2, <1>3, <1>4, <1>5, <1>6, <1>7 DEF ClientStep

\* While the environment rests, the steps that are fair come to an end, since
\* Fewer is well-founded (FewerEnds); with none left to take, all is settled.
THEOREM SettlesInTheEnd == Spec => SettlingNears
<1>1. IInv => Work \in [1..6 -> Nat]
  BY WorkTyped
<1>2. IInv /\ (Work \in [1..6 -> Nat])' /\ [Next]_vars =>
        [ClientStep \/ Connect \/ ChangeArrives => <<Work', Work>> \in Fewer]_vars
  <2> HIDE DEF Work
  <2> QED
    BY <1>1, WorkLess, LessIsFewer
<1>3. Init => IInv
  BY InitIInv
<1>4. IInv /\ [Next]_vars => IInv'
  BY NextIInv
<1> QED
  BY <1>1, <1>2, <1>3, <1>4, PTL DEF Spec, SettlingNears
=============================================================================
