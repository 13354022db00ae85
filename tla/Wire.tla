-------------------------------- MODULE Wire --------------------------------
(***************************************************************************)
(* rpc.Marshaller and rpc.Demarshaller: values, references and requests as *)
(* messages of Message.proto and back.                                     *)
(*                                                                         *)
(* Of the types of numbers there is one, and of records (structs and       *)
(* native classes) too.  All members are of the first facet.               *)
(***************************************************************************)
EXTENDS MessageFormat, Messages

\* The value AnyValue::create( type ) starts with.
RECURSIVE Fresh(_)
Fresh(type) ==
  CASE type.kind = "array" -> <<>>
    [] type.kind = "struct" -> [i \in DOMAIN type.fields |-> Fresh(type.fields[i])]
    [] type.kind = "any" -> Null
    [] type.kind = "bool" -> FALSE
    [] type.kind = "string" -> ""
    [] OTHER -> 0

-----------------------------------------------------------------------------
(* Values to parameters.                                                   *)

\* The field of a container for simple data.
DataField(kind) ==
  CASE kind = "bool" -> "boolean" [] kind = "string" -> "str" [] OTHER -> "numeric"
SimpleContainer(kind, value) == [f \in {DataField(kind)} |-> value]

\* simpleToPBParam: a container for the value, or for each element.
SimpleParam(type, value) ==
  IF type.kind # "array" THEN <<SimpleContainer(type.kind, value)>>
  ELSE [i \in DOMAIN value |-> SimpleContainer(type.of.kind, value[i])]

\* anyToPBParam: no parameter for null, nothing for an interface, for which it throws, and the
\* type's name only where the kind is not enough.
NamedKinds == {"struct", "array", "any"}
AnyParam(value, inner) ==
  IF value = Null THEN <<[any_type |-> [kind |-> "null"]]>>
  ELSE IF value.type.kind = "interface" THEN <<[any_type |-> <<>>]>>
  ELSE <<[any_type |-> [kind |-> value.type.kind, param |-> inner]
                         @@ IF value.type.kind \in NamedKinds THEN [type |-> value.type] ELSE <<>>]>>

\* complexToPBParam: a parameter for each field.
ComplexContainer(fields) == [complex_type |-> fields]

\* What valueToPBParam throws for, wherever it is in the value: an array of anys, even an
\* empty one, and an interface in an any.
RECURSIVE RefusedValue(_, _)
RefusedValue(type, value) ==
  LET struct(t, v) == \E i \in DOMAIN t.fields : RefusedValue(t.fields[i], v[i])
  IN  CASE type.kind = "struct" -> struct(type, value)
        [] type.kind = "array" /\ type.of.kind = "struct" ->
             \E i \in DOMAIN value : struct(type.of, value[i])
        [] type.kind = "array" /\ type.of.kind = "any" -> TRUE
        [] type.kind = "any" /\ value # Null ->
             value.type.kind = "interface" \/ RefusedValue(value.type, value.value)
        [] OTHER -> FALSE

\* How far a loop over steps gets, of which some throw: the first of these is begun.
Reached(steps, thrown) == {i \in steps : \A j \in thrown : i <= j}

\* valueToPBParam, up to where it throws.
RECURSIVE ValueParam(_, _)
ValueParam(type, value) ==
  LET fields(t, v) == Reached(DOMAIN t.fields, {i \in DOMAIN t.fields : RefusedValue(t.fields[i], v[i])})
      struct(t, v) == ComplexContainer([i \in fields(t, v) |-> ValueParam(t.fields[i], v[i])])
      inside == IF value.type.kind = "interface" THEN <<>> ELSE ValueParam(value.type, value.value)
  IN  CASE type.kind = "struct" -> <<struct(type, value)>>
        [] type.kind = "array" /\ type.of.kind = "struct" ->
             [i \in Reached(DOMAIN value, {j \in DOMAIN value : RefusedValue(type.of, value[j])})
                |-> struct(type.of, value[i])]
        [] type.kind = "array" /\ type.of.kind = "any" -> <<>>
        [] type.kind = "any" -> AnyParam(value, IF value = Null THEN <<>> ELSE inside)
        [] OTHER -> SimpleParam(type, value)

-----------------------------------------------------------------------------
(* Parameters to values: Null stands for an exception.                     *)

\* PBParamWithTypeToAny: an empty array leaves what was there.
PullSimple(param, type, old) ==
  LET kind == IF type.kind = "array" THEN type.of.kind ELSE type.kind
      has(c) == DataField(kind) \in DOMAIN c
  IN  CASE type.kind # "array" ->
             IF has(param[1]) THEN param[1][DataField(kind)] ELSE Null
        [] type.kind = "array" /\ param = <<>> -> old
        [] OTHER -> IF \A i \in DOMAIN param : has(param[i])
                    THEN [i \in DOMAIN param |-> param[i][DataField(kind)]] ELSE Null

\* kind2Type: neither an enum nor an any has a type by its kind.
KindType(any) ==
  IF any.kind \in {"struct", "array"} THEN any.type
  ELSE IF any.kind \in {"enum", "any"} THEN Null ELSE Simple(any.kind)

\* PBParamToValue, PBParamToAny and PBContainerToComplex.  Null in an any leaves what
\* was there; the fields of a struct are read into new values.
RECURSIVE PullValue(_, _, _)
PullValue(param, type, old) ==
  LET field(c, t, i, was) ==
        IF t.kind = "any" /\ c.complex_type[i][1].any_type.kind = "null" THEN was
        ELSE PullValue(c.complex_type[i], t, Fresh(t))
      struct(c, t, was) ==
        IF "complex_type" \notin DOMAIN c \/ Len(c.complex_type) < Len(t.fields) THEN Null
        ELSE [i \in DOMAIN t.fields |-> field(c, t.fields[i], i, was[i])]
      any == param[1].any_type
  IN  CASE type.kind # "array" /\ param = <<>> -> Null
        [] type.kind = "struct" /\ param # <<>> -> struct(param[1], type, old)
        [] type.kind = "array" /\ type.of.kind = "struct" ->
             [i \in DOMAIN param |-> struct(param[i], type.of, Fresh(type.of))]
        [] type.kind = "any" /\ param # <<>> ->
             CASE "any_type" \notin DOMAIN param[1] -> Null
               [] any.kind = "null" -> old
               [] any.kind # "null" /\ KindType(any) # Null ->
                    InAny(KindType(any), PullValue(any.param, KindType(any), Fresh(KindType(any))))
               [] OTHER -> Null
        [] OTHER -> PullSimple(param, type, old)

-----------------------------------------------------------------------------
(* Whole messages.                                                         *)

\* demarshal: the type of the message, if it is complete and has what it announces.
Demarshal(m) ==
  LET has ==
        CASE m.type = "INVOCATION" -> "invocation" \in DOMAIN m
          [] m.type = "RETURN" -> "ret_int" \in DOMAIN m \/ m.output # <<>>
          [] m.type \in {"REQUEST_NEW", "REQUEST_LOOKUP", "REQUEST_LEASE"} -> "request" \in DOMAIN m
          [] m.type = "EXCEPTION" -> "exception" \in DOMAIN m
          [] OTHER -> TRUE
  IN  IF IsInitialized(m) /\ has THEN m.type ELSE "INVALID"

\* What the other end has of a message: it is written, sent and read.
Transmitted(m) == ReadMessage(WriteMessage(m))

=============================================================================
