----------------------- MODULE InstanceManagerProofs ------------------------
(***************************************************************************)
(* Ids are never shared: freed ids are those of no live instance, and the  *)
(* keys and references that were given out keep leading to their instance, *)
(* for any keys, instances and table size.  What is said of keys needs     *)
(* them to be published and unpublished once (KeyReuse = FALSE).           *)
(***************************************************************************)
EXTENDS InstanceManager, TLAPS

-----------------------------------------------------------------------------
(* The table, without any assumption on how keys are used.                 *)

\* Besides: a key that has an id has one of the table.
KeysInTable == \A k \in Keys : published[k] # NoId => published[k] < numIds

TableInv == TypeOK /\ FreedAreDead /\ KeysInTable

\* newID hands out an id of no live instance.
LEMMA NewIDDead ==
  ASSUME TableInv, NEW id \in Ids, NEW o \in Objects, Contain(id, o)
  PROVE  /\ slot[id] = None
         /\ numIds' \in 0..MaxIds
         /\ numIds <= numIds' /\ id < numIds'
         /\ freed' \subseteq Ids
         /\ slot' = [slot EXCEPT ![id] = o]
         /\ slot' \in [Ids -> Objects \cup {None}]
         /\ FreedAreDead'
<1> USE InstanceAssumption DEF TableInv
<1>1. slot' = [slot EXCEPT ![id] = o] /\ slot' \in [Ids -> Objects \cup {None}] /\ o # None
  BY DEF Contain, TypeOK
<1>2. numIds \in 0..MaxIds /\ freed \subseteq 0..(numIds - 1)
  BY DEF TypeOK, FreedAreDead
<1>3. CASE freed # {}
  <2>1. id \in freed /\ freed' = freed \ {id} /\ numIds' = numIds
    BY <1>3 DEF Contain, NewID
  <2>2. \A i \in Ids : slot'[i] = None <=> i \in freed' \/ i >= numIds'
    BY <1>1, <1>2, <2>1 DEF TypeOK, FreedAreDead, Ids
  <2> QED BY <1>1, <1>2, <2>1, <2>2 DEF FreedAreDead, TypeOK, Ids
<1>4. CASE freed = {}
  <2>1. id = numIds /\ freed' = freed /\ numIds' = numIds + 1
    BY <1>4 DEF Contain, NewID
  <2>2. \A i \in Ids : slot'[i] = None <=> i \in freed' \/ i >= numIds'
    BY <1>1, <1>2, <1>4, <2>1 DEF TypeOK, FreedAreDead, Ids
  <2> QED BY <1>1, <1>2, <1>4, <2>1, <2>2 DEF FreedAreDead, TypeOK, Ids
<1> QED BY <1>3, <1>4

LEMMA PublishTable ==
  ASSUME TableInv, NEW k \in Keys, NEW o \in Objects, Publish(k, o)
  PROVE  TableInv'
<1>1. PICK id \in Ids : Contain(id, o) /\ Enter(k, id)
  BY DEF Publish
<1>2. /\ numIds' \in 0..MaxIds /\ numIds <= numIds' /\ id < numIds'
      /\ freed' \subseteq Ids /\ slot' \in [Ids -> Objects \cup {None}] /\ FreedAreDead'
  BY <1>1, NewIDDead
<1>3. published' \in [Keys -> Ids \cup {NoId}] /\ bound' \in [Keys -> Objects \cup {None}]
  BY <1>1 DEF Publish, Enter, TableInv, TypeOK
<1>4. released' \subseteq Ids \X Objects /\ refs' = refs /\ fault' = fault
  BY <1>1 DEF Publish, Contain, TableInv, TypeOK
<1>5. KeysInTable'
  <2> SUFFICES ASSUME NEW j \in Keys, published'[j] # NoId PROVE published'[j] < numIds'
    BY DEF KeysInTable
  <2>1. published'[j] = id \/ published'[j] = published[j]
    BY <1>1 DEF Enter, TableInv, TypeOK
  <2> QED BY <2>1, <1>2, InstanceAssumption DEF TableInv, KeysInTable, TypeOK, Ids
<1> QED BY <1>2, <1>3, <1>4, <1>5 DEF TableInv, TypeOK

LEMMA AddInstanceTable ==
  ASSUME TableInv, NEW o \in Objects, AddInstance(o)
  PROVE  TableInv'
<1>1. PICK id \in Ids : Contain(id, o) /\ refs' = refs \cup {<<id, o>>}
  BY DEF AddInstance
<1>2. /\ numIds' \in 0..MaxIds /\ numIds <= numIds' /\ freed' \subseteq Ids
      /\ slot' \in [Ids -> Objects \cup {None}] /\ FreedAreDead'
  BY <1>1, NewIDDead
<1>3. released' \subseteq Ids \X Objects /\ refs' \subseteq Ids \X Objects
  BY <1>1 DEF Contain, TableInv, TypeOK
<1>4. KeysInTable'
  BY <1>2, InstanceAssumption DEF AddInstance, TableInv, KeysInTable, TypeOK, Ids
<1> QED BY <1>2, <1>3, <1>4 DEF AddInstance, TableInv, TypeOK

\* A released id becomes free together with its container; the key of an id that
\* is free already leads to undefined behaviour, and changes nothing else.
LEMMA UnpublishTable ==
  ASSUME TableInv, NEW k \in Keys, Unpublish(k)
  PROVE  TableInv'
<1> DEFINE id == published[k]
<1> USE InstanceAssumption DEF TableInv
<1>1. id \in Ids /\ id < numIds
  BY DEF Unpublish, TypeOK, KeysInTable
<1>2. bound' \in [Keys -> Objects \cup {None}]
  BY DEF Unpublish, TypeOK
<1>3. numIds' = numIds /\ published' = published /\ refs' = refs
  BY DEF Unpublish
<1>4. KeysInTable'
  BY <1>3 DEF KeysInTable
<1>5. CASE id \in freed
  <2>1. slot' = slot /\ freed' = freed /\ released' = released /\ fault' = TRUE
    BY <1>5 DEF Unpublish
  <2> QED BY <1>2, <1>3, <1>4, <2>1 DEF TypeOK, FreedAreDead
<1>6. CASE id \notin freed
  <2>1. /\ slot' = [slot EXCEPT ![id] = None]
        /\ freed' = freed \cup {id}
        /\ released' = released \cup {<<id, slot[id]>>}
        /\ fault' = fault
    BY <1>6 DEF Unpublish, Delete
  <2>2. slot[id] \in Objects
    BY <1>1, <1>6 DEF TypeOK, FreedAreDead, Ids
  <2>3. TypeOK'
    BY <1>1, <1>2, <1>3, <2>1, <2>2 DEF TypeOK
  <2>4. freed' \subseteq 0..(numIds' - 1)
    <3>1. numIds \in Nat /\ id \in Nat
      BY <1>1 DEF TypeOK, Ids
    <3>2. id \in 0..(numIds - 1)
      BY <1>1, <3>1
    <3>3. freed \subseteq 0..(numIds - 1)
      BY DEF FreedAreDead
    <3> HIDE DEF id
    <3> QED BY <1>3, <2>1, <3>2, <3>3
  <2>5. ASSUME NEW i \in Ids PROVE slot'[i] = None <=> i \in freed' \/ i >= numIds'
    BY <1>1, <1>3, <2>1 DEF FreedAreDead, TypeOK
  <2> QED BY <1>4, <2>3, <2>4, <2>5 DEF FreedAreDead
<1> QED BY <1>5, <1>6

LEMMA FindInstanceTable ==
  ASSUME TableInv, NEW k \in Keys, FindInstance(k)
  PROVE  TableInv'
<1> DEFINE id == published[k]
<1> USE InstanceAssumption DEF TableInv
<1>1. /\ numIds' = numIds /\ slot' = slot /\ freed' = freed /\ published' = published
      /\ bound' = bound /\ released' = released
  BY DEF FindInstance
<1>2. id \in Ids /\ id < numIds
  BY DEF FindInstance, TypeOK, KeysInTable
<1>3. refs' \subseteq Ids \X Objects
  <2>1. id \notin freed => slot[id] \in Objects
    BY <1>2 DEF TypeOK, FreedAreDead, Ids
  <2> QED BY <1>2, <2>1 DEF FindInstance, TypeOK
<1>4. fault' \in BOOLEAN
  BY DEF FindInstance, TypeOK
<1> QED BY <1>1, <1>3, <1>4 DEF TypeOK, FreedAreDead, KeysInTable

LEMMA TableNext == TableInv /\ [Next]_vars => TableInv'
<1> SUFFICES ASSUME TableInv, [Next]_vars PROVE TableInv'
  OBVIOUS
<1>1. ASSUME NEW k \in Keys, NEW o \in Objects, Publish(k, o) PROVE TableInv'
  BY <1>1, PublishTable
<1>2. ASSUME NEW o \in Objects, AddInstance(o) PROVE TableInv'
  BY <1>2, AddInstanceTable
<1>3. ASSUME NEW k \in Keys, Unpublish(k) PROVE TableInv'
  BY <1>3, UnpublishTable
<1>4. ASSUME NEW k \in Keys, FindInstance(k) PROVE TableInv'
  BY <1>4, FindInstanceTable
<1>5. ASSUME NEW r \in refs, ResolveReference(r) PROVE TableInv'
  BY <1>5 DEF ResolveReference, TableInv, TypeOK, FreedAreDead, KeysInTable
<1>6. CASE UNCHANGED vars
  BY <1>6 DEF vars, TableInv, TypeOK, FreedAreDead, KeysInTable
<1> QED BY <1>1, <1>2, <1>3, <1>4, <1>5, <1>6 DEF Next

LEMMA TableInit == Init => TableInv
<1> SUFFICES ASSUME Init PROVE TableInv
  OBVIOUS
<1>1. TypeOK
  <2>1. numIds \in 0..MaxIds
    BY InstanceAssumption DEF Init
  <2>2. slot \in [Ids -> Objects \cup {None}] /\ published \in [Keys -> Ids \cup {NoId}]
        /\ bound \in [Keys -> Objects \cup {None}]
    BY DEF Init
  <2>3. /\ freed \subseteq Ids /\ refs \subseteq Ids \X Objects
        /\ released \subseteq Ids \X Objects /\ fault \in BOOLEAN
    BY Zenon DEF Init
  <2> QED BY <2>1, <2>2, <2>3 DEF TypeOK
<1>2. FreedAreDead
  <2>1. \A id \in Ids : slot[id] = None /\ id >= numIds
    BY InstanceAssumption DEF Init, Ids
  <2>2. freed = {}
    BY DEF Init
  <2> QED BY <2>1, <2>2 DEF FreedAreDead
<1>3. KeysInTable
  BY DEF Init, KeysInTable
<1> QED BY <1>1, <1>2, <1>3 DEF TableInv

\* The table keeps its shape whatever the application does with its keys.
THEOREM TypeCorrect == Spec => []TypeOK
<1>1. TableInv => TypeOK
  BY DEF TableInv
<1> QED BY <1>1, TableInit, TableNext, PTL DEF Spec

\* The ids that can be handed out are never those of live instances, even when the
\* application publishes and unpublishes a key repeatedly.
THEOREM FreedIdsDead == Spec => []FreedAreDead
<1>1. TableInv => FreedAreDead
  BY DEF TableInv
<1> QED BY <1>1, TableInit, TableNext, PTL DEF Spec

\* No container is ever overwritten: an id changes hands only after its release.
THEOREM NoReplacement == Spec => NeverReplaced
<1>1. TableInv /\ [Next]_vars =>
        [\A id \in Ids : slot[id] # None /\ slot'[id] # None => slot'[id] = slot[id]]_vars
  <2> SUFFICES ASSUME TableInv, [Next]_vars, NEW id \in Ids, slot[id] # None, slot'[id] # None
               PROVE  slot'[id] = slot[id]
    OBVIOUS
  <2>1. ASSUME NEW i \in Ids, NEW o \in Objects, Contain(i, o) PROVE slot'[id] = slot[id]
    <3>1. slot[i] = None /\ slot' = [slot EXCEPT ![i] = o]
      BY <2>1, NewIDDead
    <3> QED BY <3>1 DEF TableInv, TypeOK
  <2>2. ASSUME NEW k \in Keys, Unpublish(k) PROVE slot'[id] = slot[id]
    BY <2>2 DEF Unpublish, Delete, TableInv, TypeOK
  <2>3. CASE UNCHANGED slot
    BY <2>3
  <2> QED BY <2>1, <2>2, <2>3 DEF Next, Publish, AddInstance, FindInstance, ResolveReference, vars
<1> QED BY <1>1, TableInit, TableNext, PTL DEF Spec, NeverReplaced

-----------------------------------------------------------------------------
(* What the holders of ids rely on.                                        *)

\* The references handed out: an id that newID takes is held by remote nodes only
\* as a released one, since its slot is empty.
LEMMA RefsNext == TableInv /\ RefsReach /\ [Next]_vars => RefsReach'
<1> SUFFICES ASSUME TableInv, RefsReach, [Next]_vars, NEW r \in refs', r \notin released'
             PROVE  slot'[r[1]] = r[2]
  BY DEF RefsReach
<1> USE InstanceAssumption DEF TableInv
<1>1. ASSUME NEW id \in Ids, NEW o \in Objects, Contain(id, o), refs' \subseteq refs \cup {<<id, o>>}
      PROVE  slot'[r[1]] = r[2]
  <2>1. slot[id] = None /\ slot' = [slot EXCEPT ![id] = o] /\ released' = released \ {<<id, o>>}
    BY <1>1, NewIDDead DEF Contain
  <2>2. CASE r = <<id, o>>
    BY <2>1, <2>2 DEF TypeOK
  <2>3. CASE r # <<id, o>>
    <3>1. r \in refs /\ r \notin released
      BY <1>1, <2>1, <2>3
    <3>2. slot[r[1]] = r[2] /\ r[1] \in Ids /\ r[2] \in Objects
      BY <3>1 DEF RefsReach, TypeOK
    <3> QED BY <2>1, <3>2 DEF TypeOK
  <2> QED BY <2>2, <2>3
<1>2. ASSUME NEW k \in Keys, Unpublish(k) PROVE slot'[r[1]] = r[2]
  <2>1. r \in refs
    BY <1>2 DEF Unpublish
  <2>2. CASE published[k] \in freed
    BY <1>2, <2>1, <2>2 DEF Unpublish, RefsReach
  <2>3. CASE published[k] \notin freed
    <3>1. /\ slot' = [slot EXCEPT ![published[k]] = None]
          /\ released' = released \cup {<<published[k], slot[published[k]]>>}
      BY <1>2, <2>3 DEF Unpublish, Delete
    <3>2. slot[r[1]] = r[2]
      BY <2>1, <3>1 DEF RefsReach
    <3>3. r = <<r[1], r[2]>> /\ r[1] \in Ids
      BY <2>1 DEF TypeOK
    <3>4. r[1] # published[k]
      BY <3>1, <3>2, <3>3
    <3> QED BY <3>1, <3>2, <3>3, <3>4 DEF TypeOK
  <2> QED BY <2>2, <2>3
<1>3. ASSUME NEW k \in Keys, FindInstance(k) PROVE slot'[r[1]] = r[2]
  <2>1. r \in refs \/ r = <<published[k], slot[published[k]]>>
    BY <1>3 DEF FindInstance
  <2> QED BY <1>3, <2>1 DEF FindInstance, RefsReach
<1>4. CASE UNCHANGED <<slot, refs, released>>
  BY <1>4 DEF RefsReach
<1>5. ASSUME NEW k \in Keys, NEW o \in Objects, Publish(k, o) PROVE slot'[r[1]] = r[2]
  BY <1>1, <1>5 DEF Publish
<1>6. ASSUME NEW o \in Objects, AddInstance(o) PROVE slot'[r[1]] = r[2]
  BY <1>1, <1>6 DEF AddInstance
<1> QED BY <1>2, <1>3, <1>4, <1>5, <1>6 DEF Next, ResolveReference, vars

\* However ids are reused, and however often keys are: a reference that was not
\* released reaches its instance.
THEOREM ReferencesReach == Spec => []RefsReach
<1>1. Init => RefsReach
  BY DEF Init, RefsReach
<1> QED BY <1>1, TableInit, TableNext, RefsNext, PTL DEF Spec

\* Keys used once: an id that newID takes is not the id of a published key, and
\* unpublishing a key empties no other key's slot.
LEMMA KeysNext ==
  ASSUME KeyReuse = FALSE
  PROVE  TableInv /\ PublishedStays /\ [Next]_vars => PublishedStays'
<1> SUFFICES ASSUME TableInv, PublishedStays, [Next]_vars PROVE PublishedStays'
  OBVIOUS
<1> USE InstanceAssumption DEF TableInv
<1>1. ASSUME NEW id \in Ids, NEW o \in Objects, Contain(id, o), NEW k \in Keys, bound[k] # None
      PROVE  published[k] # id /\ slot'[published[k]] = bound[k]
  <2>1. slot[id] = None /\ slot' = [slot EXCEPT ![id] = o]
    BY <1>1, NewIDDead
  <2>2. published[k] \in Ids /\ slot[published[k]] = bound[k]
    BY <1>1 DEF PublishedStays
  <2> QED BY <1>1, <2>1, <2>2 DEF TypeOK
<1>2. ASSUME NEW k \in Keys, NEW o \in Objects, Publish(k, o) PROVE PublishedStays'
  <2>1. PICK id \in Ids : Contain(id, o) /\ Enter(k, id)
    BY <1>2 DEF Publish
  <2>2. /\ published' = [published EXCEPT ![k] = id]
        /\ bound' = [bound EXCEPT ![k] = o]
        /\ slot' = [slot EXCEPT ![id] = o]
    BY <1>2, <2>1 DEF Publish, Enter, Contain
  <2>3. ASSUME NEW j \in Keys, j # k, bound'[j] # None
        PROVE  /\ published'[j] \in Ids /\ published'[j] # id
               /\ published'[j] = published[j] /\ bound[j] # None
               /\ slot'[published'[j]] = bound'[j]
    <3>1. bound'[j] = bound[j] /\ published'[j] = published[j]
      BY <2>2, <2>3 DEF TypeOK
    <3> QED BY <1>1, <2>1, <2>3, <3>1 DEF PublishedStays
  <2>4. published'[k] = id /\ bound'[k] = o /\ slot'[id] = o
    BY <2>2 DEF TypeOK
  <2> QED BY <2>3, <2>4 DEF PublishedStays
<1>3. ASSUME NEW o \in Objects, AddInstance(o) PROVE PublishedStays'
  <2>1. PICK id \in Ids : Contain(id, o)
    BY <1>3 DEF AddInstance
  <2> QED BY <1>1, <1>3, <2>1 DEF AddInstance, PublishedStays
<1>4. ASSUME NEW k \in Keys, Unpublish(k) PROVE PublishedStays'
  <2>1. bound[k] # None /\ bound' = [bound EXCEPT ![k] = None] /\ published' = published
    BY <1>4 DEF Unpublish
  <2>2. slot' = [slot EXCEPT ![published[k]] = None] \/ slot' = slot
    BY <1>4 DEF Unpublish, Delete
  <2>3. ASSUME NEW j \in Keys, bound'[j] # None
        PROVE  j # k /\ bound'[j] = bound[j] /\ bound[j] # None /\ published[j] # published[k]
    BY <2>1, <2>3 DEF TypeOK, PublishedStays
  <2> QED BY <2>1, <2>2, <2>3 DEF PublishedStays, TypeOK
<1>5. CASE UNCHANGED <<slot, published, bound>>
  BY <1>5 DEF PublishedStays
<1> QED BY <1>2, <1>3, <1>4, <1>5 DEF Next, FindInstance, ResolveReference, vars

\* With keys that are published and unpublished once, a published key leads to its
\* instance until it is revoked, for any number of keys and instances.
THEOREM KeysStay ==
  ASSUME KeyReuse = FALSE
  PROVE  Spec => []PublishedStays
<1>1. Init => PublishedStays
  BY DEF Init, PublishedStays
<1> QED BY <1>1, TableInit, TableNext, KeysNext, PTL DEF Spec

=============================================================================
