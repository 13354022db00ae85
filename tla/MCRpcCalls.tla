----------------------------- MODULE MCRpcCalls -----------------------------
(* Instances of RpcCalls for TLC. *)
EXTENDS RpcCalls, TLC

CONSTANTS a, b, c

\* a and b call each other, c calls b.
MutualCalls == {<<a, b>>, <<b, a>>, <<c, b>>}

\* The application of a calls b, whose services call c or call back a.
ChainHead == {<<a, b>>}
ChainRest == {<<b, c>>, <<b, a>>}

\* The services of b call c, and nobody is called back.
ChainOn == {<<b, c>>}

NoCalls == {}

Symmetric == Permutations(Calls)

=============================================================================
