------------------------------ MODULE Messages ------------------------------
(***************************************************************************)
(* The types of values, and the messages of the rpc layer as the           *)
(* marshaller composes them and the demarshaller takes them apart.  Values *)
(* within them, and messages on the wire, are in Wire and MessageFormat:   *)
(* they nest, and have recursive definitions.                              *)
(***************************************************************************)
EXTENDS Sequences

CONSTANT Null   \* an any with nothing inside, the result of a failed conversion

Simple(kind) == [kind |-> kind]
ArrayOf(type) == [kind |-> "array", of |-> type]
Struct(fields) == [kind |-> "struct", fields |-> fields]
AnyType == Simple("any")
InAny(type, value) == [type |-> type, value |-> value]

-----------------------------------------------------------------------------
(* References.                                                             *)

\* refToPBParam: for an instance of the receiver its id is enough.
RefParam(ref) ==
  <<[ref_type |->
       IF ref.owner = "OWNER_RECEIVER"
       THEN [owner |-> ref.owner, instance_id |-> ref.id, facet_idx |-> 0]
       ELSE [owner |-> ref.owner, instance_id |-> ref.id, facet_idx |-> 0,
             instance_type |-> ref.component, owner_endpoint |-> ref.endpoint]]>>

\* pullReference: one container, with all fields of a reference.
HasRef(param) == Len(param) = 1 /\ "ref_type" \in DOMAIN param[1]
PullRef(param) == IF HasRef(param) THEN param[1].ref_type ELSE Null

-----------------------------------------------------------------------------
(* Requests and replies.                                                   *)

\* marshalInvocation, of what beginInvocation and the pusher have set.
\* The indices of facet and member and the depth are one, the member.
InvocationMessage(id, member, synch, params) ==
  [type |-> "INVOCATION",
   invocation |-> [instance_id |-> id, member |-> member, synch |-> synch, params |-> params]]

LeaseMessage(id) == [type |-> "REQUEST_LEASE", request |-> [lease_instance_id |-> id]]
LookupMessage(key, component) ==
  [type |-> "REQUEST_LOOKUP", request |-> [lookup_key |-> key, instance_type |-> component]]
IntReturn(value) == [type |-> "RETURN", ret_int |-> value]
OutputMessage(params) == [type |-> "RETURN", output |-> params]
ExceptionMessage(kind, name, what) ==
  [type |-> "EXCEPTION", exception |-> [type |-> kind, type_name |-> name, what |-> what]]

\* getNew, getLookup and getLease check the fields that they read.
Reads(type) ==
  CASE type = "REQUEST_LOOKUP" -> {"lookup_key", "instance_type"}
    [] type = "REQUEST_NEW" -> {"instance_type"}
    [] type = "REQUEST_LEASE" -> {"lease_instance_id"}
GetRequest(m) == IF Reads(m.type) \subseteq DOMAIN m.request THEN m.request ELSE Null

=============================================================================
