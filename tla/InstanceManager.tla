-------------------------- MODULE InstanceManager ---------------------------
(***************************************************************************)
(* The table of a node's public instances: ids are handed out for          *)
(* instances that are published under a key, created for a remote node or  *)
(* passed to one by reference; an id that is released is used again.       *)
(*                                                                         *)
(* Remote nodes keep the references they were given.  Using the container  *)
(* of a released id is undefined behaviour in the code: here it sets fault *)
(* and the node does nothing more.                                         *)
(*                                                                         *)
(* The operators named Slip... are variants of the one below them with a   *)
(* plausible mistake; no action uses them.                                 *)
(***************************************************************************)
EXTENDS Naturals

CONSTANTS
  Keys,      \* the names instances are published under
  Objects,   \* the instances
  None,      \* no instance
  NoId,      \* no id: findInstance returns -1
  MaxIds,    \* bound on the size of the table
  KeyReuse   \* the application publishes, or unpublishes, a key twice

Ids == 0..(MaxIds - 1)

ASSUME InstanceAssumption ==
  /\ MaxIds \in Nat
  /\ None \notin Objects
  /\ NoId \notin Nat
  /\ KeyReuse \in BOOLEAN

VARIABLES
  numIds,     \* _instances.size()
  slot,       \* _instances: the instance in each container, None once deleted
  freed,      \* _freedIds
  published,  \* _published, NoId for a key it does not have
  bound,      \* history: what the application has published under each key
  refs,       \* history: <<id, instance>> for each reference a remote node got
  released,   \* history: the references that unpublishInstance took away
  fault       \* a deleted container was used

vars == <<numIds, slot, freed, published, bound, refs, released, fault>>

Init ==
  /\ numIds = 0
  /\ slot = [id \in Ids |-> None]
  /\ freed = {}
  /\ published = [k \in Keys |-> NoId]
  /\ bound = [k \in Keys |-> None]
  /\ refs = {}
  /\ released = {}
  /\ fault = FALSE

\* newID takes the least freed id, and grows the table if there is none.
SlipKeepFreed(id) ==
  IF freed # {}
  THEN /\ id \in freed /\ \A other \in freed : id <= other
       /\ UNCHANGED <<numIds, freed>>
  ELSE /\ id = numIds
       /\ numIds' = numIds + 1
       /\ UNCHANGED freed
NewID(id) ==
  IF freed # {}
  THEN /\ id \in freed /\ \A other \in freed : id <= other
       /\ freed' = freed \ {id}
       /\ UNCHANGED numIds
  ELSE /\ id = numIds
       /\ numIds' = numIds + 1
       /\ UNCHANGED freed

\* A container for o is put in the table.
Contain(id, o) ==
  /\ NewID(id)
  /\ slot' = [slot EXCEPT ![id] = o]
  /\ released' = released \ {<<id, o>>}

\* A key that has an id keeps it: map::insert does not overwrite.
SlipSize(k, id) == published' = [published EXCEPT ![k] = numIds + 1]
SlipFirstId(k, id) == published' = [published EXCEPT ![k] = 0]
Enter(k, id) == published' = [published EXCEPT ![k] = IF @ = NoId THEN id ELSE @]

Publish(k, o) ==
  /\ ~fault
  /\ KeyReuse \/ published[k] = NoId
  /\ \E id \in Ids : Contain(id, o) /\ Enter(k, id)
  /\ bound' = [bound EXCEPT ![k] = o]
  /\ UNCHANGED <<refs, fault>>

\* An instance is created for a remote node, or passed to one by reference.
AddInstance(o) ==
  /\ ~fault
  /\ \E id \in Ids : Contain(id, o) /\ refs' = refs \cup {<<id, o>>}
  /\ UNCHANGED <<published, bound, fault>>

\* delete of the container, whose id becomes free.
SlipKeepContainer(id) == UNCHANGED slot
Delete(id) == slot' = [slot EXCEPT ![id] = None]

\* The key must be known (an assertion), and stays known.
Unpublish(k) ==
  /\ ~fault
  /\ published[k] # NoId
  /\ KeyReuse \/ bound[k] # None
  /\ bound' = [bound EXCEPT ![k] = None]
  /\ LET id == published[k] IN
       IF id \in freed
       THEN fault' = TRUE /\ UNCHANGED <<slot, freed, released>>
       ELSE /\ Delete(id)
            /\ freed' = freed \cup {id}
            /\ released' = released \cup {<<id, slot[id]>>}
            /\ UNCHANGED fault
  /\ UNCHANGED <<numIds, published, refs>>

\* A remote node looks up a key that has an id, and asks for the type of the
\* instance there; with another type it gets no answer and nothing changes.
FindInstance(k) ==
  /\ ~fault
  /\ published[k] # NoId
  /\ LET id == published[k] IN
       IF id \in freed
       THEN fault' = TRUE /\ UNCHANGED refs
       ELSE refs' = refs \cup {<<id, slot[id]>>} /\ UNCHANGED fault
  /\ UNCHANGED <<numIds, slot, freed, published, bound, released>>

\* A remote node passes a reference back to its owner, which resolves it without
\* asking whether getInstance found it.
ResolveReference(r) ==
  /\ ~fault
  /\ r[1] \in freed
  /\ fault' = TRUE
  /\ UNCHANGED <<numIds, slot, freed, published, bound, refs, released>>

Next ==
  \/ \E k \in Keys, o \in Objects : Publish(k, o)
  \/ \E o \in Objects : AddInstance(o)
  \/ \E k \in Keys : Unpublish(k) \/ FindInstance(k)
  \/ \E r \in refs : ResolveReference(r)

Spec == Init /\ [][Next]_vars

-----------------------------------------------------------------------------
(* Properties.                                                             *)

\* The table and what is remembered of it.
TypeOK ==
  /\ numIds \in 0..MaxIds
  /\ slot \in [Ids -> Objects \cup {None}]
  /\ freed \subseteq Ids
  /\ published \in [Keys -> Ids \cup {NoId}]
  /\ bound \in [Keys -> Objects \cup {None}]
  /\ refs \subseteq Ids \X Objects
  /\ released \subseteq Ids \X Objects
  /\ fault \in BOOLEAN

\* The ids of live instances are exactly those in the table and not freed, so that
\* an id newID hands out never belongs to a live instance.
FreedAreDead ==
  /\ freed \subseteq 0..(numIds - 1)
  /\ \A id \in Ids : slot[id] = None <=> id \in freed \/ id >= numIds

\* While a key is published it leads to the instance published under it, alone on
\* its id, whatever other keys are revoked and ids used again.
PublishedStays ==
  \A k \in Keys : bound[k] # None =>
    /\ published[k] \in Ids
    /\ slot[published[k]] = bound[k]
    /\ \A other \in Keys : bound[other] # None /\ published[other] = published[k]
                             => other = k

\* A reference that a remote node holds reaches the instance it was given for,
\* until unpublishInstance takes exactly that instance away.
RefsReach == \A r \in refs : r \notin released => slot[r[1]] = r[2]

\* No instance replaces another under the same id: in between the id was released.
NeverReplaced ==
  [][\A id \in Ids : slot[id] # None /\ slot'[id] # None => slot'[id] = slot[id]]_vars

\* unpublishInstance revokes the access through the key: no lookup of the key gets
\* to an instance, or to the remains of one, until it is published again.
KeyRevoked == [][\A k \in Keys : FindInstance(k) => bound[k] # None]_vars

=============================================================================
