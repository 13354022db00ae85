---------------------------- MODULE MessageFormat ----------------------------
(***************************************************************************)
(* The messages of rpc/Message.proto as the generated code writes and      *)
(* reads them.                                                             *)
(*                                                                         *)
(* A message is a record of the fields that are set, in which a repeated   *)
(* field is a sequence; a Parameter is the sequence of its containers and  *)
(* a Complex_Type that of its fields.  Written, it is the data of each     *)
(* field that is set, under the field's number and wire type: a sequence,  *)
(* as a field may come more than once.  The order of different fields is   *)
(* left out, which no reader depends on, and so are the bytes.             *)
(*                                                                         *)
(* Of an invocation the indices and the depth that name its member are     *)
(* one field; requester_endpoint is left out of Message.                   *)
(***************************************************************************)
EXTENDS Naturals, Sequences, SequencesExt, TLC

Varint == "varint"
Delimited == "length delimited"
Fixed64 == "64 bits"

\* An optional or required field, if it is set.
Put(m, name, number, wire) ==
  IF name \in DOMAIN m THEN <<number, wire>> :> <<m[name]>> ELSE <<>>

\* The same for a message within, which Write writes.
PutPart(m, name, number, Write(_)) ==
  IF name \in DOMAIN m THEN <<number, Delimited>> :> <<Write(m[name])>> ELSE <<>>

\* A repeated field: nothing if it is empty.
PutEach(parts, number, Write(_)) ==
  IF parts = <<>> THEN <<>>
  ELSE <<number, Delimited>> :> [i \in DOMAIN parts |-> Write(parts[i])]

\* What the field is read from: under another wire type it is skipped.
Data(written, number, wire) ==
  IF <<number, wire>> \in DOMAIN written THEN written[<<number, wire>>] ELSE <<>>

\* The last value counts.
Take(written, name, number, wire) ==
  LET data == Data(written, number, wire)
  IN  IF data = <<>> THEN <<>> ELSE name :> Last(data)

\* A value that the enum does not have leaves the field as it is.
TakeEnum(written, name, number, values) ==
  LET data == SelectSeq(Data(written, number, Varint), LAMBDA v : v \in values)
  IN  IF data = <<>> THEN <<>> ELSE name :> Last(data)

\* A message within that comes more than once is merged.
TakePart(written, name, number, Read(_)) ==
  LET data == Data(written, number, Delimited)
      merge(one, other) ==
        [f \in DOMAIN one \cup DOMAIN other |-> Data(one, f[1], f[2]) \o Data(other, f[1], f[2])]
  IN  IF data = <<>> THEN <<>> ELSE name :> Read(IF Len(data) = 1 THEN data[1] ELSE FoldLeft(merge, <<>>, data))

TakeEach(written, number, Read(_)) ==
  LET data == Data(written, number, Delimited)
  IN  [i \in DOMAIN data |-> Read(data[i])]

-----------------------------------------------------------------------------
(* Writing: SerializeWithCachedSizes of each class.                        *)

WriteRef(r) ==
  Put(r, "owner", 1, Varint) @@ Put(r, "instance_id", 2, Varint) @@ Put(r, "facet_idx", 3, Varint)
    @@ Put(r, "instance_type", 4, Delimited) @@ Put(r, "owner_endpoint", 5, Delimited)

RECURSIVE WriteParameter(_)

WriteComplex(fields) == PutEach(fields, 1, LAMBDA p : WriteParameter(p))

WriteAny(a) ==
  Put(a, "kind", 1, Varint) @@ Put(a, "type", 2, Delimited)
    @@ PutPart(a, "param", 3, LAMBDA p : WriteParameter(p))

WriteContainer(c) ==
  Put(c, "boolean", 1, Varint) @@ Put(c, "str", 2, Delimited) @@ Put(c, "numeric", 3, Fixed64)
    @@ PutPart(c, "complex_type", 4, WriteComplex) @@ PutPart(c, "any_type", 5, WriteAny)
    @@ PutPart(c, "ref_type", 6, WriteRef)

WriteParameter(p) == PutEach(p, 1, WriteContainer)

WriteInvocation(v) ==
  Put(v, "instance_id", 1, Varint) @@ Put(v, "member", 3, Varint) @@ Put(v, "synch", 5, Varint)
    @@ PutEach(v.params, 6, WriteParameter)

WriteException(e) ==
  Put(e, "type", 1, Varint) @@ Put(e, "type_name", 2, Delimited) @@ Put(e, "what", 3, Delimited)

WriteRequest(q) ==
  Put(q, "instance_type", 2, Delimited) @@ Put(q, "lookup_key", 3, Delimited)
    @@ Put(q, "lease_instance_id", 4, Varint)

\* SerializeToString
WriteMessage(m) ==
  Put(m, "type", 2, Varint) @@ PutPart(m, "invocation", 3, WriteInvocation)
    @@ PutPart(m, "request", 4, WriteRequest) @@ Put(m, "ret_int", 5, Varint)
    @@ PutPart(m, "exception", 6, WriteException)
    @@ (IF "output" \in DOMAIN m THEN PutEach(m.output, 7, WriteParameter) ELSE <<>>)

-----------------------------------------------------------------------------
(* Reading: MergePartialFromCodedStream of each class.                     *)

Owners == {"OWNER_SENDER", "OWNER_RECEIVER", "OWNER_ANOTHER"}
ExceptionTypes == {"CORAL", "REMOTING", "STD", "UNKNOWN"}
MessageTypes ==
  {"INVOCATION", "REQUEST_NEW", "REQUEST_LOOKUP", "REQUEST_LEASE", "RETURN", "EXCEPTION",
   "BARRIER_UP", "BARRIER_HIT", "BARRIER_DOWN"}

ReadRef(written) ==
  TakeEnum(written, "owner", 1, Owners) @@ Take(written, "instance_id", 2, Varint)
    @@ Take(written, "facet_idx", 3, Varint) @@ Take(written, "instance_type", 4, Delimited)
    @@ Take(written, "owner_endpoint", 5, Delimited)

RECURSIVE ReadParameter(_)

ReadComplex(written) == TakeEach(written, 1, LAMBDA w : ReadParameter(w))

ReadAny(written) ==
  Take(written, "kind", 1, Varint) @@ Take(written, "type", 2, Delimited)
    @@ TakePart(written, "param", 3, LAMBDA w : ReadParameter(w))

ReadContainer(written) ==
  Take(written, "boolean", 1, Varint) @@ Take(written, "str", 2, Delimited)
    @@ Take(written, "numeric", 3, Fixed64) @@ TakePart(written, "complex_type", 4, ReadComplex)
    @@ TakePart(written, "any_type", 5, ReadAny) @@ TakePart(written, "ref_type", 6, ReadRef)

ReadParameter(written) == TakeEach(written, 1, ReadContainer)

ReadInvocation(written) ==
  Take(written, "instance_id", 1, Varint) @@ Take(written, "member", 3, Varint)
    @@ Take(written, "synch", 5, Varint) @@ [params |-> TakeEach(written, 6, ReadParameter)]

ReadException(written) ==
  TakeEnum(written, "type", 1, ExceptionTypes) @@ Take(written, "type_name", 2, Delimited)
    @@ Take(written, "what", 3, Delimited)

ReadRequest(written) ==
  Take(written, "instance_type", 2, Delimited) @@ Take(written, "lookup_key", 3, Delimited)
    @@ Take(written, "lease_instance_id", 4, Varint)

\* ParseFromString
ReadMessage(written) ==
  TakeEnum(written, "type", 2, MessageTypes) @@ TakePart(written, "invocation", 3, ReadInvocation)
    @@ TakePart(written, "request", 4, ReadRequest) @@ Take(written, "ret_int", 5, Varint)
    @@ TakePart(written, "exception", 6, ReadException)
    @@ [output |-> TakeEach(written, 7, ReadParameter)]

-----------------------------------------------------------------------------
(* IsInitialized of each class: the required fields of a message and of    *)
(* all its parts are set.  A Request has none.                             *)

RefInitialized(r) == {"owner", "instance_id", "facet_idx"} \subseteq DOMAIN r

RECURSIVE ParameterInitialized(_)

ComplexInitialized(fields) == \A i \in DOMAIN fields : ParameterInitialized(fields[i])

AnyInitialized(a) ==
  /\ "kind" \in DOMAIN a
  /\ "param" \in DOMAIN a => ParameterInitialized(a.param)

ContainerInitialized(c) ==
  /\ "complex_type" \in DOMAIN c => ComplexInitialized(c.complex_type)
  /\ "any_type" \in DOMAIN c => AnyInitialized(c.any_type)
  /\ "ref_type" \in DOMAIN c => RefInitialized(c.ref_type)

ParameterInitialized(p) == \A i \in DOMAIN p : ContainerInitialized(p[i])

InvocationInitialized(v) ==
  /\ {"instance_id", "member", "synch"} \subseteq DOMAIN v
  /\ \A i \in DOMAIN v.params : ParameterInitialized(v.params[i])

ExceptionInitialized(e) == {"type", "type_name", "what"} \subseteq DOMAIN e

IsInitialized(m) ==
  /\ "type" \in DOMAIN m
  /\ "invocation" \in DOMAIN m => InvocationInitialized(m.invocation)
  /\ "exception" \in DOMAIN m => ExceptionInitialized(m.exception)
  /\ \A i \in DOMAIN m.output : ParameterInitialized(m.output[i])

=============================================================================
