---------------------------- MODULE LeaseManager ----------------------------
(***************************************************************************)
(* The leases of a node, in two maps that mirror each other: from a remote *)
(* endpoint to its Lessee, which has the ids it leases, and from an id to  *)
(* its Lessor, which has the addresses of its lessees.  An object lives at *)
(* an address from new to delete, and an address can be used again.        *)
(*                                                                         *)
(* The operators named Slip... are variants of the one below them with a   *)
(* plausible mistake; no action uses them.                                 *)
(***************************************************************************)

CONSTANTS
  Ids,        \* instances that can be leased
  Endpoints,  \* remote nodes
  Addresses,  \* where a Lessee can be allocated: the bound
  Null        \* no object

ASSUME LeaseAssumption == Null \notin Addresses

VARIABLES
  lessees,  \* _lessees: the address of each endpoint's Lessee, or Null
  ids,      \* Lessee::_ids of the object at each address
  lessors,  \* _lessors: Lessor::_lessees of each id, {} if it has no Lessor
  answer    \* what the last call told its caller

vars == <<lessees, ids, lessors, answer>>

Live == {lessees[e] : e \in Endpoints} \ {Null}

Init ==
  /\ lessees = [e \in Endpoints |-> Null]
  /\ ids = [p \in Addresses |-> {}]
  /\ lessors = [id \in Ids |-> {}]
  /\ answer = "none"

\* The Lessee of e is there, and has the id.
Holds(id, e) == lessees[e] # Null /\ id \in ids[lessees[e]]

\* The Lessee of e is found, or allocated.
LesseeAt(e, p) == IF lessees[e] = Null THEN p \in Addresses \ Live ELSE p = lessees[e]

AddLease(id, e) ==
  \E p \in Addresses :
    /\ LesseeAt(e, p)
    /\ lessees' = [lessees EXCEPT ![e] = p]
    /\ ids' = [ids EXCEPT ![p] = @ \cup {id}]
    /\ lessors' = [lessors EXCEPT ![id] = @ \cup {p}]
    /\ answer' = "none"

\* A Lessee without leases is deleted.
SlipDropAlways(e, left) == lessees' = [lessees EXCEPT ![e] = Null]
DropIfEmpty(e, left) ==
  lessees' = IF left = {} THEN [lessees EXCEPT ![e] = Null] ELSE lessees

\* The Lessor forgets the address, and is deleted with its last lessee.
SlipKeepAddress(id, p) == UNCHANGED lessors
Forget(id, p) == lessors' = [lessors EXCEPT ![id] = @ \ {p}]

RemoveLease(id, e) ==
  LET p == lessees[e] IN
    /\ Holds(id, e)
    /\ ids' = [ids EXCEPT ![p] = @ \ {id}]
    /\ DropIfEmpty(e, ids[p] \ {id})
    /\ Forget(id, p)
    /\ answer' = IF lessors'[id] = {} THEN "last" ELSE "more"

\* removeLease throws: the endpoint has no leases, or not this one.
RefuseRemove(id, e) ==
  /\ ~Holds(id, e)
  /\ answer' = "thrown"
  /\ UNCHANGED <<lessees, ids, lessors>>

Next ==
  \E id \in Ids, e \in Endpoints :
    AddLease(id, e) \/ RemoveLease(id, e) \/ RefuseRemove(id, e)

Spec == Init /\ [][Next]_vars

-----------------------------------------------------------------------------
(* Properties.                                                             *)

\* Two maps, and the objects they lead to.
TypeOK ==
  /\ lessees \in [Endpoints -> Addresses \cup {Null}]
  /\ ids \in [Addresses -> SUBSET Ids]
  /\ lessors \in [Ids -> SUBSET Addresses]
  /\ answer \in {"none", "more", "last", "thrown"}

\* No two endpoints share a Lessee.
OwnLessee ==
  \A e, f \in Endpoints : lessees[e] # Null /\ lessees[e] = lessees[f] => e = f

\* The two maps agree: an id is in a Lessee exactly if its address is in the id's
\* Lessor (what removeLease asserts when it looks for the Lessor).
Mirrored ==
  \A id \in Ids : \A e \in Endpoints :
    lessees[e] # Null => (id \in ids[lessees[e]] <=> lessees[e] \in lessors[id])

\* No Lessor keeps the address of a deleted Lessee, which a new one could get.
NoDangling == \A id \in Ids : lessors[id] \subseteq Live

\* An object that is not allocated holds nothing, and an allocated one holds a lease.
NoEmptyLessee == \A p \in Addresses : ids[p] # {} <=> p \in Live

\* The leases the two maps stand for.
Leases == {pair \in Ids \X Endpoints : Holds(pair[1], pair[2])}

Table == INSTANCE LeaseTable WITH leases <- Leases

\* The maps implement a set of leases: adding twice is adding once, removing what
\* is not there changes nothing, and removeLease tells truly which was the last.
ImplementsTable == Table!Spec

=============================================================================
