--------------------------- MODULE MCGrpcService ---------------------------
(* Instances of GrpcService for TLC. *)
EXTENDS GrpcService

CONSTANTS k1, k2, small, huge, other, r1, r2, r3

Sizes == [v \in Values |-> IF v = huge THEN 4 ELSE 1]

ItemOf(k, v) == [key |-> k, value |-> v, expected |-> small, ttl |-> None]

Call(op, items) == [op |-> op, namespace |-> TRUE, items |-> items]

Set(v) == Call("Set", <<ItemOf(k1, v)>>)
Swap == Call("CompareAndSet", <<ItemOf(k1, other)>>)

\* Calls that race to change a key, and failures of items, batches and calls.
Mixed ==
    {Set(small), Set(huge), Swap,
     Call("SetIfAbsent", <<[ItemOf(k1, small) EXCEPT !.ttl = 1]>>),
     [Set(small) EXCEPT !.namespace = FALSE],
     Call("Delete", <<ItemOf(BadKey, small)>>),
     Call("Get", <<ItemOf(k1, small)>>),
     Call("Stats", <<ItemOf(BadKey, small)>>),
     Call("MultiSet", <<ItemOf(BadKey, small), ItemOf(k2, small), ItemOf(k1, huge)>>),
     Call("MultiGet", <<>>),
     Call("MultiDelete", <<ItemOf(BadKey, small), ItemOf(k1, small)>>)}

RpcSymmetry == Permutations(Rpcs)
=============================================================================
