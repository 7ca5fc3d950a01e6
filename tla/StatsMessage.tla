--------------------------- MODULE StatsMessage ---------------------------
(***************************************************************************)
(* The answer of the Stats call (response_mapping.py): what the store has  *)
(* counted, in the fields of the CacheStats message of cache.proto.  The   *)
(* counters are Python integers of any size, the fields are int32.  The    *)
(* byte sizes have int64 fields, which no memory fills, and are left out.  *)
(***************************************************************************)
EXTENDS MemoryStore

CONSTANT Int32Max       \* the largest number of an int32 field, 2^31 - 1

\* The numbers that _stats_snapshot takes when the lock is held.
CacheStatsSnapshot ==
    [f \in CounterNames \cup {"size", "max_items"} |->
       CASE f = "size" -> Len(order)
         [] f = "max_items" -> max_items
         [] OTHER -> counters[f]]

\* The constructor of the message raises ValueError for a number out of range,
\* and the handler of Stats answers every exception by INTERNAL.
cache_stats_response(snapshot) ==
    IF \A f \in DOMAIN snapshot : snapshot[f] <= Int32Max
    THEN [code |-> "OK", stats |-> snapshot]
    ELSE [code |-> "INTERNAL"]

\* Stats returns the numbers of the store, however long it has been at work.
StatsAnswered ==
    [][StatsReturn => cache_stats_response(CacheStatsSnapshot)'.code = "OK"]_vars
=============================================================================
