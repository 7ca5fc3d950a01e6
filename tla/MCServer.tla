------------------------------ MODULE MCServer ------------------------------
(* Instances of Server and its clients for TLC. *)
EXTENDS Cli

CONSTANTS k1, k2, small, r1, p1

Sizes == [v \in Values |-> 1]

ItemOf(k) == [key |-> k, value |-> small, expected |-> small, ttl |-> None]

Call(op, items) == [op |-> op, namespace |-> TRUE, items |-> items]

\* Reads, writes and a batch that fails in part.
Some ==
    {Call("SetIfAbsent", <<ItemOf(k1)>>),
     Call("CompareAndSet", <<ItemOf(k1)>>),
     Call("Get", <<ItemOf(k1)>>),
     Call("Stats", <<ItemOf(BadKey)>>),
     Call("MultiSet", <<ItemOf(k2), ItemOf(BadKey), ItemOf(k1)>>),
     [Call("Delete", <<ItemOf(k1)>>) EXCEPT !.namespace = FALSE]}
=============================================================================
