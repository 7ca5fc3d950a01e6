---------------------------- MODULE CacheModels ----------------------------
(***************************************************************************)
(* The data every part of the cache shares: cache entries, their lifetime, *)
(* the limits of a store and the results of its operations                 *)
(* (infrastructure/memory_store_models.py and application/results.py).     *)
(*                                                                         *)
(* Keys and values are opaque.  What the store can tell about a value is   *)
(* whether it equals another one and its size (sys.getsizeof), so a value  *)
(* is a member of Values and its size is SizeOf[value].  Clock readings    *)
(* and time-to-live values are whole seconds.                              *)
(***************************************************************************)
EXTENDS Integers

CONSTANTS
    Keys,               \* storage keys
    Values,             \* byte strings
    SizeOf,             \* sys.getsizeof of each value
    Ttls,               \* the ttl arguments of write calls, None included
    None,               \* Python's None
    max_items,
    max_memory_bytes,
    value_limit         \* the max_value_bytes argument, or None

ASSUME ModelsAssumption ==
    /\ SizeOf \in [Values -> Nat \ {0}]
    /\ Ttls \subseteq Int \cup {None}
    /\ max_items \in Nat \ {0}
    /\ max_memory_bytes \in Nat \ {0}
    /\ value_limit \in (Nat \ {0}) \cup {None}
    /\ None \notin Int
    /\ None \notin Values
    /\ None \notin Keys

\* A value limit that was not clamped to the memory limit.
UnclampedValueLimit ==
    IF value_limit = None THEN max_memory_bytes ELSE value_limit

\* No value may be larger than the whole store.
max_value_bytes ==
    IF value_limit = None \/ value_limit > max_memory_bytes
    THEN max_memory_bytes
    ELSE value_limit

-----------------------------------------------------------------------------
\* A stored ttl is positive; None stands for "never expires".
Entry == [value : Values, ttl : (Nat \ {0}) \cup {None}, created_at : Nat]

ASSUME NoneIsNoEntry == None \notin Entry

\* A ttl of zero or less means that the entry does not expire.
CacheEntry(value, ttl, now) ==
    [value |-> value,
     ttl |-> IF ttl # None /\ ttl <= 0 THEN None ELSE ttl,
     created_at |-> now]

size_bytes(entry) == SizeOf[entry.value]

\* An entry expires once its whole time to live has elapsed.
is_expired(entry, now) ==
    entry.ttl # None /\ now - entry.created_at >= entry.ttl

\* Every byte that the entries of a store occupy.
BytesOf(entries) ==
    UNION {{k} \X (1..size_bytes(entries[k])) :
              k \in {j \in Keys : entries[j] # None}}

-----------------------------------------------------------------------------
(* The counters of a store, and the results of its operations.             *)

NoCounts ==
    [hits |-> 0, misses |-> 0, evictions |-> 0, lru_evictions |-> 0,
     expired_removals |-> 0, rejected_oversize |-> 0, rejected_capacity |-> 0]

CounterNames == DOMAIN NoCounts

CacheSetStatus == {"OK", "VALUE_TOO_LARGE", "CAPACITY_EXHAUSTED"}

CacheConditionalSetStatus ==
    {"STORED", "EXISTS", "NOT_FOUND", "MISMATCH",
     "VALUE_TOO_LARGE", "CAPACITY_EXHAUSTED"}

\* A value is a byte string, a status a member of an enumeration.
ASSUME ValuesAreNoStatuses ==
    Values \cap (CacheSetStatus \cup CacheConditionalSetStatus) = {}

conditional_status_from_set_status(status) ==
    IF status = "OK" THEN "STORED" ELSE status

\* The answer of a write call to the outcome of _store_value_locked.
WriteResult(op, status) ==
    IF op = "set" THEN status ELSE conditional_status_from_set_status(status)

\* A single-key call, the value it expected (compare_and_set) and its result.
Returned(op, key, expected, result) ==
    [op |-> op, key |-> key, expected |-> expected, result |-> result]

NoReply == [op |-> "none"]

\* A write that was accepted and has not returned yet.
PendingWrite ==
    [op : {"set", "set_if_absent", "compare_and_set"}, key : Keys,
     entry : Entry, expected : Values \cup {None}]

ASSUME NoneIsNoWrite == None \notin PendingWrite
=============================================================================
