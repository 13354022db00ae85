------------------------- MODULE LeaseManagerProofs -------------------------
(***************************************************************************)
(* The two maps of LeaseManager always mirror each other, and implement    *)
(* the set of leases of LeaseTable, for any ids, endpoints and addresses.  *)
(***************************************************************************)
EXTENDS LeaseManager, TLAPS

\* The inductive invariant.  Mirrored and NoDangling need the others: a new
\* Lessee must be empty and its address in no Lessor, and the one that is deleted
\* must be its endpoint's alone.
Inv ==
  /\ TypeOK
  /\ OwnLessee
  /\ Mirrored
  /\ NoDangling
  /\ NoEmptyLessee

LEMMA InitInv == Init => Inv
BY LeaseAssumption DEF Init, Inv, TypeOK, OwnLessee, Mirrored, NoDangling, NoEmptyLessee, Live

\* addLease changes the Lessee at one address, which is e's or was nobody's.
LEMMA AddLeaseInv ==
  ASSUME Inv, NEW id \in Ids, NEW e \in Endpoints, AddLease(id, e)
  PROVE  Inv'
<1> USE DEF Inv
<1>1. PICK p \in Addresses :
        /\ LesseeAt(e, p)
        /\ lessees' = [lessees EXCEPT ![e] = p]
        /\ ids' = [ids EXCEPT ![p] = @ \cup {id}]
        /\ lessors' = [lessors EXCEPT ![id] = @ \cup {p}]
        /\ answer' = "none"
  BY DEF AddLease
<1>2. TypeOK'
  BY <1>1 DEF TypeOK
<1>3. p # Null
  BY LeaseAssumption
<1>4. \A f \in Endpoints : f # e => lessees'[f] = lessees[f] /\ lessees[f] # p
  BY <1>1, <1>3 DEF TypeOK, OwnLessee, LesseeAt, Live
<1>5. lessees'[e] = p
  BY <1>1 DEF TypeOK
<1>6. Live' = Live \cup {p}
  BY <1>1, <1>3, <1>4, <1>5 DEF Live, LesseeAt, TypeOK
<1>7. OwnLessee'
  BY <1>4, <1>5 DEF OwnLessee
<1>8. NoDangling'
  BY <1>1, <1>6 DEF NoDangling, TypeOK
<1>9. NoEmptyLessee'
  BY <1>1, <1>6 DEF NoEmptyLessee, TypeOK
<1>10. Mirrored'
  <2> SUFFICES ASSUME NEW j \in Ids, NEW f \in Endpoints, lessees'[f] # Null
               PROVE  j \in ids'[lessees'[f]] <=> lessees'[f] \in lessors'[j]
    BY DEF Mirrored
  <2>1. CASE f # e
    BY <2>1, <1>1, <1>4 DEF Mirrored, TypeOK
  <2>2. CASE f = e
    <3>1. j \in ids[p] <=> p \in lessors[j]
      <4>1. CASE lessees[e] = Null
        BY <4>1, <1>1 DEF LesseeAt, NoEmptyLessee, NoDangling, TypeOK
      <4>2. CASE lessees[e] # Null
        BY <4>2, <1>1 DEF LesseeAt, Mirrored
      <4> QED BY <4>1, <4>2
    <3> QED BY <3>1, <2>2, <1>1, <1>5 DEF TypeOK
  <2> QED BY <2>1, <2>2
<1> QED BY <1>2, <1>7, <1>8, <1>9, <1>10

\* removeLease changes e's Lessee, which no other endpoint has.
LEMMA RemoveLeaseInv ==
  ASSUME Inv, NEW id \in Ids, NEW e \in Endpoints, RemoveLease(id, e)
  PROVE  Inv'
<1> USE DEF Inv
<1> DEFINE p == lessees[e]
<1>1. /\ p # Null /\ id \in ids[p]
      /\ p \in Addresses
      /\ ids' = [ids EXCEPT ![p] = @ \ {id}]
      /\ lessees' = IF ids[p] \ {id} = {} THEN [lessees EXCEPT ![e] = Null] ELSE lessees
      /\ lessors' = [lessors EXCEPT ![id] = @ \ {p}]
      /\ answer' \in {"last", "more"}
  BY DEF RemoveLease, Holds, DropIfEmpty, Forget, TypeOK
<1>2. TypeOK'
  BY <1>1 DEF TypeOK
<1>3. \A f \in Endpoints : f # e => lessees'[f] = lessees[f] /\ lessees[f] # p
  BY <1>1 DEF TypeOK, OwnLessee
<1>4. lessees'[e] = IF ids[p] \ {id} = {} THEN Null ELSE p
  BY <1>1 DEF TypeOK
<1>5. OwnLessee'
  BY <1>3, <1>4 DEF OwnLessee
<1>6. Live' = IF ids[p] \ {id} = {} THEN Live \ {p} ELSE Live
  BY <1>1, <1>3, <1>4 DEF Live
<1>7. p \in Live
  BY <1>1 DEF Live
<1>8. NoEmptyLessee'
  BY <1>1, <1>6, <1>7 DEF NoEmptyLessee, TypeOK
<1>9. NoDangling'
  <2> SUFFICES ASSUME NEW j \in Ids, NEW q \in lessors'[j]
               PROVE  q \in Live'
    BY DEF NoDangling
  <2>1. q \in Live
    BY <1>1 DEF NoDangling, TypeOK
  <2>2. ASSUME ids[p] \ {id} = {} PROVE q # p
    <3>1. j # id => p \notin lessors[j]
      BY <2>2, <1>1 DEF Mirrored
    <3> QED BY <3>1, <1>1 DEF TypeOK
  <2> QED BY <2>1, <2>2, <1>6
<1>10. Mirrored'
  <2> SUFFICES ASSUME NEW j \in Ids, NEW f \in Endpoints, lessees'[f] # Null
               PROVE  j \in ids'[lessees'[f]] <=> lessees'[f] \in lessors'[j]
    BY DEF Mirrored
  <2>1. lessees'[f] = lessees[f] /\ lessees[f] \in Addresses
    BY <1>3, <1>4 DEF TypeOK
  <2>2. j \in ids[lessees[f]] <=> lessees[f] \in lessors[j]
    BY <2>1 DEF Mirrored
  <2>3. f # e => lessees[f] # p
    BY <1>3
  <2> QED BY <1>1, <2>1, <2>2, <2>3 DEF TypeOK
<1> QED BY <1>2, <1>5, <1>8, <1>9, <1>10

LEMMA NextInv == Inv /\ [Next]_vars => Inv'
<1> SUFFICES ASSUME Inv, [Next]_vars PROVE Inv'
  OBVIOUS
<1>1. ASSUME NEW id \in Ids, NEW e \in Endpoints, AddLease(id, e) PROVE Inv'
  BY <1>1, AddLeaseInv
<1>2. ASSUME NEW id \in Ids, NEW e \in Endpoints, RemoveLease(id, e) PROVE Inv'
  BY <1>2, RemoveLeaseInv
<1>3. ASSUME NEW id \in Ids, NEW e \in Endpoints, RefuseRemove(id, e) PROVE Inv'
  BY <1>3 DEF RefuseRemove, Inv, TypeOK, OwnLessee, Mirrored, NoDangling, NoEmptyLessee, Live
<1>4. CASE UNCHANGED vars
  BY <1>4 DEF vars, Inv, TypeOK, OwnLessee, Mirrored, NoDangling, NoEmptyLessee, Live
<1> QED BY <1>1, <1>2, <1>3, <1>4 DEF Next

\* In every reachable state the inductive invariant holds.
THEOREM Invariance == Spec => []Inv
<1> QED BY InitInv, NextInv, PTL DEF Spec

\* The maps of lessees and lessors always mirror each other: the assertion with
\* which removeLease looks up the Lessor never fails.
THEOREM MapsMirrored == Spec => []Mirrored
<1>1. Inv => Mirrored
  BY DEF Inv
<1> QED BY <1>1, Invariance, PTL

\* No Lessor ever has the address of a Lessee that was deleted.
THEOREM NeverDangling == Spec => []NoDangling
<1>1. Inv => NoDangling
  BY DEF Inv
<1> QED BY <1>1, Invariance, PTL

-----------------------------------------------------------------------------
(* Refinement.                                                             *)

LEMMA TableInit == Init => Table!Init
BY DEF Init, Table!Init, Leases, Holds

\* Every call does to the set of leases what LeaseTable says, and answers so.
LEMMA TableStep == Inv /\ [Next]_vars => [Table!Next]_<<Leases, answer>>
<1> SUFFICES ASSUME Inv, [Next]_vars PROVE [Table!Next]_<<Leases, answer>>
  OBVIOUS
<1> USE DEF Inv
<1>1. ASSUME NEW id \in Ids, NEW e \in Endpoints, AddLease(id, e)
      PROVE  Table!Add(id, e)
  <2>1. PICK p \in Addresses :
          /\ LesseeAt(e, p)
          /\ lessees' = [lessees EXCEPT ![e] = p]
          /\ ids' = [ids EXCEPT ![p] = @ \cup {id}]
          /\ answer' = "none"
    BY <1>1 DEF AddLease
  <2>2. \A j \in Ids, f \in Endpoints :
          Holds(j, f)' <=> Holds(j, f) \/ (j = id /\ f = e)
    <3> SUFFICES ASSUME NEW j \in Ids, NEW f \in Endpoints
                 PROVE  Holds(j, f)' <=> Holds(j, f) \/ (j = id /\ f = e)
      OBVIOUS
    <3>1. CASE f # e
      <4>1. lessees'[f] = lessees[f] /\ lessees[f] # p
        BY <3>1, <2>1, LeaseAssumption DEF TypeOK, OwnLessee, LesseeAt, Live
      <4> QED BY <4>1, <3>1, <2>1 DEF Holds, TypeOK
    <3>2. CASE f = e
      <4>1. lessees'[f] = p /\ p # Null
        BY <3>2, <2>1, LeaseAssumption DEF TypeOK
      <4>2. ids'[p] = ids[p] \cup {id}
        BY <2>1 DEF TypeOK
      <4>3. j \in ids[p] <=> Holds(j, f)
        BY <3>2, <2>1 DEF LesseeAt, Holds, NoEmptyLessee
      <4> QED BY <4>1, <4>2, <4>3, <3>2 DEF Holds
    <3> QED BY <3>1, <3>2
  <2>3. Leases' = Leases \cup {<<id, e>>}
    BY <2>2 DEF Leases
  <2> QED BY <2>1, <2>3 DEF Table!Add
<1>2. ASSUME NEW id \in Ids, NEW e \in Endpoints, RemoveLease(id, e)
      PROVE  Table!Remove(id, e)
  <2> DEFINE p == lessees[e]
  <2>1. /\ p # Null /\ id \in ids[p] /\ p \in Addresses
        /\ ids' = [ids EXCEPT ![p] = @ \ {id}]
        /\ lessees' = IF ids[p] \ {id} = {} THEN [lessees EXCEPT ![e] = Null] ELSE lessees
        /\ answer' = IF lessors'[id] = {} THEN "last" ELSE "more"
    BY <1>2 DEF RemoveLease, Holds, DropIfEmpty, TypeOK
  <2>2. \A j \in Ids, f \in Endpoints :
          Holds(j, f)' <=> Holds(j, f) /\ ~(j = id /\ f = e)
    <3> SUFFICES ASSUME NEW j \in Ids, NEW f \in Endpoints
                 PROVE  Holds(j, f)' <=> Holds(j, f) /\ ~(j = id /\ f = e)
      OBVIOUS
    <3>1. CASE f # e
      <4>1. lessees'[f] = lessees[f] /\ lessees[f] # p
        BY <3>1, <2>1 DEF TypeOK, OwnLessee
      <4> QED BY <4>1, <3>1, <2>1 DEF Holds, TypeOK
    <3>2. CASE f = e
      <4>1. lessees'[f] = IF ids[p] \ {id} = {} THEN Null ELSE p
        BY <3>2, <2>1 DEF TypeOK
      <4>2. ids'[p] = ids[p] \ {id}
        BY <2>1 DEF TypeOK
      <4> QED BY <4>1, <4>2, <3>2, <2>1 DEF Holds
    <3> QED BY <3>1, <3>2
  <2>3. Leases' = Leases \ {<<id, e>>}
    BY <2>2 DEF Leases
  <2>4. <<id, e>> \in Leases
    BY <2>1 DEF Leases, Holds
  <2>5. lessors'[id] = {} <=> ~\E other \in Endpoints : <<id, other>> \in Leases'
    <3>1. Inv'
      BY <1>2, RemoveLeaseInv
    <3>2. ASSUME NEW q \in lessors'[id]
          PROVE  \E other \in Endpoints : Holds(id, other)'
      <4>1. PICK other \in Endpoints : lessees'[other] = q /\ q # Null
        BY <3>1 DEF NoDangling, Live
      <4> QED BY <4>1, <3>1 DEF Mirrored, Holds
    <3>3. ASSUME NEW other \in Endpoints, Holds(id, other)'
          PROVE  lessors'[id] # {}
      BY <3>3, <3>1 DEF Mirrored, Holds
    <3> QED BY <3>2, <3>3 DEF Leases
  <2> QED BY <2>1, <2>3, <2>4, <2>5 DEF Table!Remove
<1>3. ASSUME NEW id \in Ids, NEW e \in Endpoints, RefuseRemove(id, e)
      PROVE  Table!Refuse(id, e)
  BY <1>3 DEF RefuseRemove, Table!Refuse, Leases, Holds
<1>4. CASE UNCHANGED vars
  BY <1>4 DEF vars, Leases, Holds
<1> QED BY <1>1, <1>2, <1>3, <1>4 DEF Next, Table!Next

\* LeaseManager implements a set of leases: the two maps are invisible to its
\* callers, and removeLease says truly whether the lease was the last one.
THEOREM Refinement == Spec => ImplementsTable
<1> QED BY TableInit, TableStep, Invariance, PTL DEF Spec, ImplementsTable, Table!Spec

=============================================================================
