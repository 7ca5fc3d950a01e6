--------------------------- MODULE CacheContract ---------------------------
(***************************************************************************)
(* What a store promises to its callers (application/ports.py), whatever   *)
(* its bookkeeping: a map from keys to entries with an expiry time.  Calls *)
(* take effect one at a time, a write when it returns.  An entry that has  *)
(* expired is never served and may vanish at any moment; one that has not  *)
(* may be lost only while a write of another key is in progress.           *)
(***************************************************************************)
EXTENDS CacheModels, FiniteSets

CONSTANTS
    Contents,       \* what the cache may hold when the store is opened
    MayFail         \* whether a write may fail half way

VARIABLES
    cache,          \* key -> entry, None where the key is absent
    clock,
    pending,        \* the write in progress, None if there is none
    reply           \* the last call that returned, and its result

cvars == <<cache, clock, pending, reply>>

Init ==
    /\ cache \in Contents
    /\ clock = 0
    /\ pending = None
    /\ reply = NoReply

Stale(k) == cache[k] # None /\ is_expired(cache[k], clock)
Live(k) == cache[k] # None /\ ~is_expired(cache[k], clock)

Without(k) == [cache EXCEPT ![k] = None]

\* A call that finds k expired may remove it.
MayDrop(k) == cache' = cache \/ (Stale(k) /\ cache' = Without(k))

Answer(op, k, expected, result) ==
    /\ reply' = Returned(op, k, expected, result)
    /\ UNCHANGED <<clock, pending>>

-----------------------------------------------------------------------------
Get(k) ==
    /\ pending = None
    /\ MayDrop(k)
    /\ Answer("get", k, None, IF Live(k) THEN cache[k].value ELSE None)

\* Whether an expired entry still counts for delete is left open.
Delete(k) ==
    /\ pending = None
    /\ cache' = Without(k)
    /\ \E found \in BOOLEAN :
         /\ Live(k) => found
         /\ cache[k] = None => ~found
         /\ Answer("delete", k, None, found)

Clear ==
    /\ pending = None
    /\ cache' = [k \in Keys |-> None]
    /\ reply' = [op |-> "clear"]
    /\ UNCHANGED <<clock, pending>>

Stats ==
    /\ pending = None
    /\ reply' = [op |-> "stats",
                 size |-> Cardinality({k \in Keys : cache[k] # None}),
                 memory_usage_bytes |-> Cardinality(BytesOf(cache))]
    /\ UNCHANGED <<cache, clock, pending>>

\* The condition of a write is decided when it starts.
Start(op, k, expected, v, t) ==
    /\ pending = None
    /\ pending' = [op |-> op, key |-> k, entry |-> CacheEntry(v, t, clock),
                   expected |-> expected]
    /\ UNCHANGED <<clock, reply>>

StartSet(k, v, t) == cache' = cache /\ Start("set", k, None, v, t)

StartSetIfAbsent(k, v, t) ==
    ~Live(k) /\ MayDrop(k) /\ Start("set_if_absent", k, None, v, t)

StartCompareAndSet(k, expected, v, t) ==
    /\ Live(k) /\ cache[k].value = expected
    /\ cache' = cache
    /\ Start("compare_and_set", k, expected, v, t)

RefuseSetIfAbsent(k) ==
    /\ pending = None
    /\ Live(k) /\ cache' = cache
    /\ Answer("set_if_absent", k, None, "EXISTS")

RefuseCompareAndSet(k, expected) ==
    /\ pending = None
    /\ \/ ~Live(k) /\ MayDrop(k)
          /\ Answer("compare_and_set", k, expected, "NOT_FOUND")
       \/ Live(k) /\ cache[k].value # expected /\ cache' = cache
          /\ Answer("compare_and_set", k, expected, "MISMATCH")

Finish(status) ==
    /\ pending' = None
    /\ reply' = Returned(pending.op, pending.key, pending.expected,
                         WriteResult(pending.op, status))
    /\ UNCHANGED clock

\* The size limit is the only reason to turn a write down.
Commit ==
    /\ pending # None
    /\ size_bytes(pending.entry) <= max_value_bytes
    /\ cache' = [cache EXCEPT ![pending.key] = pending.entry]
    /\ Finish("OK")

Reject ==
    /\ pending # None
    /\ size_bytes(pending.entry) > max_value_bytes
    /\ cache' = cache
    /\ Finish("VALUE_TOO_LARGE")

\* A write that fails half way is not stored, but it may cost its key the
\* entry it had.
Fail ==
    /\ MayFail /\ pending # None
    /\ pending' = None
    /\ cache' \in {cache, Without(pending.key)}
    /\ UNCHANGED <<clock, reply>>

\* Room for the write in progress is made at the cost of another key.
Evict(k) ==
    /\ pending # None /\ k # pending.key
    /\ size_bytes(pending.entry) <= max_value_bytes
    /\ cache[k] # None /\ cache' = Without(k)
    /\ UNCHANGED <<clock, pending, reply>>

Expire(k) ==
    /\ Stale(k) /\ cache' = Without(k)
    /\ UNCHANGED <<clock, pending, reply>>

Pass ==
    /\ clock' = clock + 1
    /\ UNCHANGED <<cache, pending, reply>>

Next ==
    \/ \E k \in Keys :
         \/ Get(k) \/ Delete(k) \/ RefuseSetIfAbsent(k)
         \/ Evict(k) \/ Expire(k)
         \/ \E expected \in Values : RefuseCompareAndSet(k, expected)
         \/ \E v \in Values, t \in Ttls :
              \/ StartSet(k, v, t) \/ StartSetIfAbsent(k, v, t)
              \/ \E expected \in Values : StartCompareAndSet(k, expected, v, t)
    \/ Commit \/ Reject \/ Fail \/ Clear \/ Stats \/ Pass

Spec == Init /\ [][Next]_cvars
=============================================================================
