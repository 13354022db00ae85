-------------------------- MODULE MCRemoteObjects --------------------------
(* Instances of RemoteObjects for TLC, with the messages of Wire. *)
EXTENDS RemoteObjects, Wire

CONSTANTS o1, o2

TwoComponents == (o1 :> "Server") @@ (o2 :> "Client")

Number == Simple("number")
Text == Simple("string")
Pair == Struct(<<AnyType, AnyType>>)

Method(args, result, old) == [kind |-> "method", args |-> args, result |-> result, old |-> old]
Field(result, old) == [kind |-> "field", args |-> <<>>, result |-> result, old |-> old]

\* An asynchronous one and two with results, a value and a reference.
Values == <<Typed(Number, 1), Typed(ArrayOf(Text), <<>>)>>
Pairs == Typed(ArrayOf(Pair), <<<<InAny(Text, "a"), Null>>>>)
Anything == Typed(AnyType, InAny(ArrayOf(Number), <<1>>))
FewMethods ==
  {Method(Values, None, None),
   Method(<<Pairs>>, Anything, Null),
   Method(<<>>, o2, None)}

\* Arguments that are refused, whole or within, a reference that is returned, and a result
\* that leaves what the caller has.
Anys == ArrayOf(AnyType)
Deep == Typed(ArrayOf(Pair), <<<<Null, InAny(Anys, <<>>)>>, <<Null, Null>>>>)
LapseMethods ==
  {Method(<<Typed(Anys, <<Null>>)>>, None, None),
   Method(<<Deep>>, None, None),
   Method(<<>>, Typed(Simple("interface"), o2), None),
   Field(Typed(Simple("interface"), o2), None),
   Method(<<>>, Typed(ArrayOf(Number), <<>>), <<1>>),
   Method(<<Typed(Number, 1)>>, None, None)}

Symmetric == Permutations(Clients)

=============================================================================
