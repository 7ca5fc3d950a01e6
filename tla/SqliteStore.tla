---------------------------- MODULE SqliteStore ----------------------------
(***************************************************************************)
(* SqliteCacheStore (infrastructure/sqlite_store.py): the rows of the      *)
(* database file, and the numbers that the process keeps beside them.      *)
(*                                                                         *)
(* The methods hold the lock as those of MemoryStore do, and a method with *)
(* a loop takes one step for each round.  Every step commits at most one   *)
(* transaction, so a crash of the process or an SQL error, which rolls the *)
(* transaction back and leaves the method as an exception, comes between   *)
(* two steps.  A crash keeps what was committed; the next process loads    *)
(* its two numbers from the rows.                                          *)
(***************************************************************************)
EXTENDS CacheModels, FiniteSets

CONSTANTS
    Persisted,          \* contents of the file when the first process starts
    Mishaps,            \* what may go wrong: subset of MishapKinds
    MaxMishaps,         \* bound: how often something goes wrong
    MaxClock,           \* bound: last reading of the clock
    MaxEvents           \* bound: events counted when a counting call starts

MishapKinds == {"crash", "sql_error", "reboot"}

\* last_accessed is what the eviction order is read from.
Row == [entry : Entry, last_accessed : Nat]

\* Persisted may come from a process with other limits; a file has finitely
\* many rows.
ASSUME SqliteAssumption ==
    /\ Persisted \subseteq [Keys -> Row \cup {None}]
    /\ \A t \in Persisted : IsFiniteSet({k \in Keys : t[k] # None})
    /\ None \notin Row
    /\ Mishaps \subseteq MishapKinds
    /\ MaxMishaps \in Nat /\ MaxClock \in Nat /\ MaxEvents \in Nat

VARIABLES
    table,                  \* key -> row of cache_entries, None without one
    entry_count,
    current_memory_bytes,
    counters,
    clock,                  \* time.monotonic(), which starts over at a boot
    holder,                 \* frame of the method that holds the lock
    cleaner,                \* the cleaner thread
    stop_event,
    process,                \* "up", "closed" (its connection is), "down"
    mishaps,
    reply                   \* the last call that returned, and its result

rows == <<table, entry_count, current_memory_bytes>>
vars == <<rows, counters, clock, holder, cleaner, stop_event, process,
          mishaps, reply>>

-----------------------------------------------------------------------------
\* A write after the first line of _store_value_locked: the entry to be
\* inserted, and the row of its key that was deleted, if any.
WriteFrame ==
    [op : {"set", "set_if_absent", "compare_and_set"}, key : Keys,
     entry : Entry, old : Row \cup {None}]

\* stats() with the rows that it fetched and has not yet gone through.
StatsFrame == [op : {"stats"}, fetched : SUBSET Keys]

\* The lock is free exactly when no frame is there.
ASSUME NoneIsNoFrame == None \notin WriteFrame \cup StatsFrame

Cleaner ==
    [pc : {"wait", "check", "remove", "done"},
     snapshot : [Keys -> Entry \cup {None}], expired_keys : SUBSET Keys]

NoSnapshot == [k \in Keys |-> None]

Waiting == [pc |-> "wait", snapshot |-> NoSnapshot, expired_keys |-> {}]

\* _row_to_entry for the whole table.
EntriesOf(t) == [k \in Keys |-> IF t[k] = None THEN None ELSE t[k].entry]

Present == {k \in Keys : table[k] # None}

TypeOK ==
    /\ table \in [Keys -> Row \cup {None}]
    /\ entry_count \in Nat /\ current_memory_bytes \in Nat
    /\ counters \in [CounterNames -> Nat]
    /\ clock \in 0..MaxClock
    /\ holder \in WriteFrame \cup StatsFrame \cup {None}
    /\ cleaner \in Cleaner
    /\ stop_event \in BOOLEAN
    /\ process \in {"up", "closed", "down"}
    /\ mishaps \in 0..MaxMishaps

-----------------------------------------------------------------------------
\* _load_entry_count and _load_current_memory_bytes.
_load_entry_count(t) == Cardinality({k \in Keys : t[k] # None})
_load_current_memory_bytes(t) == Cardinality(BytesOf(EntriesOf(t)))

Init ==
    /\ table \in Persisted
    /\ entry_count = _load_entry_count(table)
    /\ current_memory_bytes = _load_current_memory_bytes(table)
    /\ counters = NoCounts
    /\ clock = 0
    /\ holder = None
    /\ cleaner = Waiting
    /\ stop_event = FALSE
    /\ process = "up"
    /\ mishaps = 0
    /\ reply = NoReply

Happens(kind) ==
    kind \in Mishaps /\ mishaps < MaxMishaps /\ mishaps' = mishaps + 1

LockFree == holder = None

\* The bound on the counters: a call that may count starts only below it.
MayCount ==
    counters.hits + counters.misses + counters.evictions
      + counters.expired_removals + counters.rejected_oversize < MaxEvents

Count(name) == counters' = [counters EXCEPT ![name] = @ + 1]

Expired(k) == table[k] # None /\ is_expired(table[k].entry, clock)
Live(k) == table[k] # None /\ ~is_expired(table[k].entry, clock)

-----------------------------------------------------------------------------
(* One transaction each, with the numbers that are adjusted after it.      *)

_remove_entry_locked(k) ==
    /\ table' = [table EXCEPT ![k] = None]
    /\ current_memory_bytes' = current_memory_bytes - size_bytes(table[k].entry)
    /\ entry_count' = entry_count - 1

_remove_expired_entry_locked(k) ==
    _remove_entry_locked(k) /\ Count("expired_removals")

\* INSERT OR REPLACE, for a new row and for one that is put back.
Insert(k, row) ==
    /\ table' = [table EXCEPT ![k] = row]
    /\ current_memory_bytes' = current_memory_bytes + size_bytes(row.entry)
    /\ entry_count' = entry_count + 1

_insert_row_locked(k, entry) ==
    Insert(k, [entry |-> entry, last_accessed |-> clock])

-----------------------------------------------------------------------------
(* Calls that return in one step.                                          *)

Process == <<clock, cleaner, stop_event, process, mishaps>>

Call == process = "up" /\ LockFree /\ UNCHANGED Process

\* A bug: a hit does not count as a use.
GetWithoutTouch(k) ==
    /\ Call /\ MayCount /\ UNCHANGED holder
    /\ UNCHANGED rows
    /\ IF Live(k)
       THEN Count("hits") /\ reply' = Returned("get", k, None, table[k].entry.value)
       ELSE Count("misses") /\ reply' = Returned("get", k, None, None)

get(k) ==
    /\ Call /\ MayCount /\ UNCHANGED holder
    /\ \/ /\ table[k] = None
          /\ UNCHANGED rows /\ Count("misses")
          /\ reply' = Returned("get", k, None, None)
       \/ /\ Expired(k)
          /\ _remove_entry_locked(k)
          /\ counters' = [counters EXCEPT !.misses = @ + 1,
                                          !.expired_removals = @ + 1]
          /\ reply' = Returned("get", k, None, None)
       \/ /\ Live(k)
          /\ table' = [table EXCEPT ![k].last_accessed = clock]
          /\ UNCHANGED <<entry_count, current_memory_bytes>> /\ Count("hits")
          /\ reply' = Returned("get", k, None, table[k].entry.value)

\* The DELETE of the expired row fails: the miss is counted already.
GetFails(k) ==
    /\ process = "up" /\ LockFree /\ MayCount /\ Expired(k)
    /\ Happens("sql_error")
    /\ Count("misses")
    /\ UNCHANGED <<rows, clock, holder, cleaner, stop_event, process, reply>>

delete(k) ==
    /\ Call /\ UNCHANGED <<counters, holder>>
    /\ \/ /\ table[k] # None
          /\ _remove_entry_locked(k)
          /\ reply' = Returned("delete", k, None, TRUE)
       \/ /\ table[k] = None
          /\ UNCHANGED rows
          /\ reply' = Returned("delete", k, None, FALSE)

clear ==
    /\ Call /\ UNCHANGED holder
    /\ table' = [k \in Keys |-> None]
    /\ entry_count' = 0 /\ current_memory_bytes' = 0
    /\ counters' = NoCounts
    /\ reply' = [op |-> "clear"]

-----------------------------------------------------------------------------
(* Writes.  The first step reads the row, checks the condition of the call *)
(* and deletes the old row in a transaction of its own.                    *)

Frame(op, k, v, t, old) ==
    [op |-> op, key |-> k, entry |-> CacheEntry(v, t, clock), old |-> old]

set(k, v, t) ==
    /\ Call /\ MayCount
    /\ IF table[k] = None THEN UNCHANGED rows ELSE _remove_entry_locked(k)
    /\ holder' = Frame("set", k, v, t, table[k])
    /\ UNCHANGED <<counters, reply>>

\* A bug: an expired row still counts as present.
SetIfAbsentIgnoringExpiry(k, v, t) ==
    /\ Call /\ MayCount
    /\ UNCHANGED <<rows, counters>>
    /\ \/ /\ table[k] # None
          /\ reply' = Returned("set_if_absent", k, None, "EXISTS")
          /\ UNCHANGED holder
       \/ /\ table[k] = None
          /\ UNCHANGED reply
          /\ holder' = Frame("set_if_absent", k, v, t, None)

set_if_absent(k, v, t) ==
    /\ Call /\ MayCount
    /\ \/ /\ Live(k)
          /\ reply' = Returned("set_if_absent", k, None, "EXISTS")
          /\ UNCHANGED <<rows, counters, holder>>
       \/ /\ ~Live(k)
          /\ IF Expired(k) THEN _remove_expired_entry_locked(k)
             ELSE UNCHANGED <<rows, counters>>
          /\ holder' = Frame("set_if_absent", k, v, t, None)
          /\ UNCHANGED reply

compare_and_set(k, expected, v, t) ==
    /\ Call /\ MayCount
    /\ \/ /\ ~Live(k)
          /\ reply' = Returned("compare_and_set", k, expected, "NOT_FOUND")
          /\ IF Expired(k) THEN _remove_expired_entry_locked(k)
             ELSE UNCHANGED <<rows, counters>>
          /\ UNCHANGED holder
       \/ /\ Live(k) /\ table[k].entry.value # expected
          /\ reply' = Returned("compare_and_set", k, expected, "MISMATCH")
          /\ UNCHANGED <<rows, counters, holder>>
       \/ /\ Live(k) /\ table[k].entry.value = expected
          /\ _remove_entry_locked(k) /\ UNCHANGED <<counters, reply>>
          /\ holder' = Frame("compare_and_set", k, v, t, table[k])

Writing == holder # None /\ holder.op # "stats"

Oversize == size_bytes(holder.entry) > max_value_bytes

TooManyBytes ==
    current_memory_bytes + size_bytes(holder.entry) > max_memory_bytes

\* A bug: off by one.
MoreThanMaxItems == holder.old = None /\ entry_count > max_items

TooManyItems == holder.old = None /\ entry_count >= max_items

\* The rows with the least last_accessed; the query takes any one of them.
Coldest ==
    {k \in Present :
        \A j \in Present : table[k].last_accessed <= table[j].last_accessed}

\* A bug: the bytes of a row that is put back are not counted again.
RestoreUncounted ==
    IF holder.old = None THEN UNCHANGED rows
    ELSE /\ table' = [table EXCEPT ![holder.key] = holder.old]
         /\ entry_count' = entry_count + 1
         /\ UNCHANGED current_memory_bytes

_restore_row_locked ==
    IF holder.old = None THEN UNCHANGED rows ELSE Insert(holder.key, holder.old)

\* The write returns, and releases the lock.
FinishWrite(status) ==
    /\ holder' = None
    /\ reply' = Returned(holder.op, holder.key,
                         IF holder.op = "compare_and_set"
                         THEN holder.old.entry.value ELSE None,
                         WriteResult(holder.op, status))
    /\ UNCHANGED Process

RejectOversize ==
    /\ Writing /\ Oversize
    /\ _restore_row_locked
    /\ Count("rejected_oversize")
    /\ FinishWrite("VALUE_TOO_LARGE")

\* A bug: the eviction is only counted under one of its two names.
EvictUncounted(k) ==
    /\ Writing /\ ~Oversize
    /\ TooManyBytes \/ TooManyItems
    /\ k \in Coldest
    /\ _remove_entry_locked(k)
    /\ Count("lru_evictions")
    /\ UNCHANGED <<Process, holder, reply>>

\* One round of either eviction loop.
_evict_lru_locked(k) ==
    /\ Writing /\ ~Oversize
    /\ TooManyBytes \/ TooManyItems
    /\ k \in Coldest
    /\ _remove_entry_locked(k)
    /\ counters' = [counters EXCEPT !.evictions = @ + 1, !.lru_evictions = @ + 1]
    /\ UNCHANGED <<Process, holder, reply>>

\* No round is left: the value is inserted, or there is no room for it.
StoreOrExhausted ==
    /\ Writing /\ ~Oversize
    /\ Present = {} \/ ~(TooManyBytes \/ TooManyItems)
    /\ IF TooManyBytes \/ TooManyItems
       THEN /\ _restore_row_locked
            /\ Count("rejected_capacity")
            /\ FinishWrite("CAPACITY_EXHAUSTED")
       ELSE /\ _insert_row_locked(holder.key, holder.entry)
            /\ UNCHANGED counters
            /\ FinishWrite("OK")

-----------------------------------------------------------------------------
(* stats() removes the expired rows before it takes the numbers.           *)

stats ==
    /\ Call /\ MayCount
    /\ holder' = [op |-> "stats", fetched |-> Present]
    /\ UNCHANGED <<rows, counters, reply>>

ReadingStats == holder # None /\ holder.op = "stats"

\* Every row is compared with a new reading of the clock.
StatsVisit(k) ==
    /\ ReadingStats /\ k \in holder.fetched
    /\ IF Expired(k) THEN _remove_expired_entry_locked(k)
       ELSE UNCHANGED <<rows, counters>>
    /\ holder' = [holder EXCEPT !.fetched = @ \ {k}]
    /\ UNCHANGED <<Process, reply>>

StatsReturn ==
    /\ ReadingStats /\ holder.fetched = {}
    /\ holder' = None
    /\ reply' = [op |-> "stats", size |-> entry_count,
                 memory_usage_bytes |-> current_memory_bytes]
    /\ UNCHANGED <<rows, counters, Process>>

-----------------------------------------------------------------------------
(* The cleaner thread.                                                     *)

NotCleaner == <<clock, holder, stop_event, process, reply>>

CleanerSnapshot ==
    /\ process = "up" /\ LockFree /\ cleaner.pc = "wait" /\ ~stop_event
    /\ cleaner' = [cleaner EXCEPT !.pc = "check", !.snapshot = EntriesOf(table)]
    /\ UNCHANGED <<rows, counters, mishaps, NotCleaner>>

\* Find the expired ones in the copy, without the lock.
CleanerCheck ==
    /\ cleaner.pc = "check"
    /\ LET expired_keys == {k \in Keys :
                               /\ cleaner.snapshot[k] # None
                               /\ is_expired(cleaner.snapshot[k], clock)}
       IN cleaner' = IF expired_keys = {} THEN Waiting
                     ELSE [pc |-> "remove", snapshot |-> NoSnapshot,
                           expired_keys |-> expired_keys]
    /\ UNCHANGED <<rows, counters, mishaps, NotCleaner>>

CleanerNext(k) ==
    IF cleaner.expired_keys = {k} THEN Waiting
    ELSE [cleaner EXCEPT !.expired_keys = @ \ {k}]

\* A bug: the key was expired in the snapshot, and its row is deleted unseen.
RemoveUnchecked(k) ==
    /\ process = "up" /\ LockFree
    /\ cleaner.pc = "remove" /\ k \in cleaner.expired_keys
    /\ IF table[k] # None THEN _remove_expired_entry_locked(k)
       ELSE UNCHANGED <<rows, counters>>
    /\ cleaner' = CleanerNext(k)
    /\ UNCHANGED <<mishaps, NotCleaner>>

_remove_if_expired(k) ==
    /\ process = "up" /\ LockFree
    /\ cleaner.pc = "remove" /\ k \in cleaner.expired_keys
    /\ IF Expired(k) THEN _remove_expired_entry_locked(k)
       ELSE UNCHANGED <<rows, counters>>
    /\ cleaner' = CleanerNext(k)
    /\ UNCHANGED <<mishaps, NotCleaner>>

\* A bug: the removal is tried again until it succeeds.
ErrorRetried ==
    /\ LockFree /\ cleaner.pc = "remove"
    /\ IF process = "up" THEN Happens("sql_error")
       ELSE process = "closed" /\ UNCHANGED mishaps
    /\ UNCHANGED <<cleaner, rows, counters, NotCleaner>>

\* A bug: the exception ends the thread.
ErrorEndsCleaner ==
    /\ LockFree /\ cleaner.pc = "remove"
    /\ IF process = "up" THEN Happens("sql_error")
       ELSE process = "closed" /\ UNCHANGED mishaps
    /\ cleaner' = [Waiting EXCEPT !.pc = "done"]
    /\ UNCHANGED <<rows, counters, NotCleaner>>

\* A removal raises, always so once the connection is closed: the exception
\* is logged and the rest of the pass is skipped.
CleanerError ==
    /\ LockFree /\ cleaner.pc = "remove"
    /\ IF process = "up" THEN Happens("sql_error")
       ELSE process = "closed" /\ UNCHANGED mishaps
    /\ cleaner' = Waiting
    /\ UNCHANGED <<rows, counters, NotCleaner>>

CleanerExit ==
    /\ process # "down" /\ cleaner.pc = "wait" /\ stop_event
    /\ cleaner' = [cleaner EXCEPT !.pc = "done"]
    /\ UNCHANGED <<rows, counters, mishaps, NotCleaner>>

-----------------------------------------------------------------------------
(* stop(), the end of a process and the start of the next one.             *)

stop ==
    /\ process = "up" /\ ~stop_event
    /\ stop_event' = TRUE
    /\ UNCHANGED <<rows, counters, clock, holder, cleaner, process, mishaps,
                   reply>>

\* The join has ended, or was given up after CLEANER_JOIN_TIMEOUT_SECONDS.
Close ==
    /\ process = "up" /\ stop_event /\ LockFree
    /\ process' = "closed"
    /\ UNCHANGED <<rows, counters, clock, holder, cleaner, stop_event, mishaps,
                   reply>>

\* What a process takes with it.
Forget ==
    /\ process' = "down"
    /\ entry_count' = 0 /\ current_memory_bytes' = 0
    /\ counters' = NoCounts
    /\ holder' = None
    /\ cleaner' = [Waiting EXCEPT !.pc = "done"]
    /\ stop_event' = FALSE

Exit ==
    /\ process = "closed"
    /\ Forget
    /\ UNCHANGED <<table, clock, mishaps, reply>>

Crash ==
    /\ process = "up" /\ Happens("crash")
    /\ Forget
    /\ UNCHANGED <<table, clock, reply>>

\* The host restarts while the process is down.
Reboot ==
    /\ process = "down" /\ clock # 0 /\ Happens("reboot")
    /\ clock' = 0
    /\ UNCHANGED <<rows, counters, holder, cleaner, stop_event, process, reply>>

\* A bug: the bytes in the file are not loaded.
StartWithoutLoading ==
    /\ process = "down" /\ process' = "up"
    /\ cleaner' = Waiting
    /\ entry_count' = _load_entry_count(table)
    /\ UNCHANGED <<table, current_memory_bytes, counters, clock, holder,
                   stop_event, mishaps, reply>>

Start ==
    /\ process = "down" /\ process' = "up"
    /\ cleaner' = Waiting
    /\ entry_count' = _load_entry_count(table)
    /\ current_memory_bytes' = _load_current_memory_bytes(table)
    /\ UNCHANGED <<table, counters, clock, holder, stop_event, mishaps, reply>>

\* A statement of a write or of stats() raises: its transaction is rolled
\* back and the method ends there, without an answer.
StatementFails ==
    /\ holder # None
    /\ Writing => ~(Oversize /\ holder.old = None)
    /\ ReadingStats => \E k \in holder.fetched : Expired(k)
    /\ Happens("sql_error")
    /\ holder' = None
    /\ UNCHANGED <<rows, counters, clock, cleaner, stop_event, process, reply>>

Tick ==
    /\ clock < MaxClock
    /\ clock' = clock + 1
    /\ UNCHANGED <<rows, counters, holder, cleaner, stop_event, process,
                   mishaps, reply>>

-----------------------------------------------------------------------------
Next ==
    \/ \E k \in Keys : get(k) \/ GetFails(k) \/ delete(k)
    \/ \E k \in Keys, v \in Values, t \in Ttls :
          \/ set(k, v, t)
          \/ set_if_absent(k, v, t)
          \/ \E expected \in Values : compare_and_set(k, expected, v, t)
    \/ RejectOversize \/ StoreOrExhausted
    \/ \E k \in Keys : _evict_lru_locked(k)
    \/ stats \/ StatsReturn
    \/ \E k \in Keys : StatsVisit(k)
    \/ clear \/ stop \/ Close \/ Exit \/ Tick
    \/ CleanerSnapshot \/ CleanerCheck \/ CleanerError \/ CleanerExit
    \/ \E k \in Keys : _remove_if_expired(k)
    \/ Crash \/ Reboot \/ Start \/ StatementFails

Spec == Init /\ [][Next]_vars

-----------------------------------------------------------------------------
(* Safety.                                                                 *)

Popped == Writing /\ holder.old # None

\* The entry a caller who waits for the lock may rely on.
Held(k) ==
    IF Popped /\ holder.key = k THEN holder.old.entry ELSE EntriesOf(table)[k]

\* The two numbers that all limits are checked against agree with the rows of
\* the file, after rolled back transactions, restarts and restored rows too.
AccountingExact ==
    process # "down" =>
        /\ entry_count = Cardinality(Present)
        /\ current_memory_bytes = _load_current_memory_bytes(table)

\* No write gives up for lack of room, not even in a file that a process with
\* higher limits has left: the branches of _store_value_locked that answer
\* CAPACITY_EXHAUSTED, one of which would drop the old row, are not taken.
NeverExhausted == counters.rejected_capacity = 0

Items == entry_count + IF Popped THEN 1 ELSE 0
Bytes ==
    current_memory_bytes + IF Popped THEN size_bytes(holder.old.entry) ELSE 0

GrowthStep ==
    process # "down" =>
      /\ Items' > Items => Items' <= max_items
      /\ Bytes' > Bytes => Bytes' <= max_memory_bytes

\* A file may start above the limits, but no call makes it grow beyond them.
\* A row that a write has deleted and may put back is counted throughout.
GrowthWithinLimits == [][GrowthStep]_vars

\* The row of the last call that used one (a hit, or a write that was stored)
\* is as hot as any other, so it is not the next one to be evicted as long as
\* some other row was used at an earlier reading of the clock.
LastUsedHottest ==
    /\ reply.op \in {"get", "set", "set_if_absent", "compare_and_set"}
    /\ reply.result \in Values \cup {"OK", "STORED"}
    /\ table[reply.key] # None
    => \A k \in Present :
          table[k].last_accessed <= table[reply.key].last_accessed

Failing == process' = "down" \/ (mishaps' # mishaps /\ holder # None)

LiveEntryStep ==
    \A k \in Keys :
      Held(k) # None /\ ~is_expired(Held(k), clock) /\ Held(k)' # Held(k) =>
        \/ delete(k) \/ clear
        \/ Writing /\ holder.key = k /\ Held(k)' = holder.entry
        \/ Writing /\ k \in Coldest /\ Held(k)' = None
        \/ Failing /\ Writing /\ holder.key = k

\* A row that has not expired survives restarts, errors, rejected writes of its
\* key and the cleaner's stale snapshot.  Besides a delete, clear() or a write
\* of its key only an eviction takes it, and only if no other row is colder.
\* What a failure may cost is the key of the write it interrupts, no other.
LiveEntryKept == [][LiveEntryStep]_vars

\* Rows that leave unasked are counted once, unless an error cuts in.
LossesCounted ==
    [][/\ ~clear /\ \A k \in Keys : ~delete(k)
       /\ process = "up" /\ mishaps' = mishaps
       => Cardinality({k \in Keys : Held(k) # None /\ Held(k)' = None}) =
            (counters.evictions' - counters.evictions)
              + (counters.expired_removals' - counters.expired_removals)]_vars

\* docs/specification.md:144 "cache entries persist in the database across
\* process restarts": what callers could read before a process went down is
\* in the file for the next one.
EntriesPersist ==
    [][process' = "down" =>
         \A k \in Keys :
           Held(k) # None /\ ~is_expired(Held(k), clock) => Held(k)' = Held(k)]_vars

\* docs/api-contract.md:143 "once expired, entries should be treated as
\* missing": an entry that has expired does not come back to life.
StaysExpired ==
    [][\A k \in Keys :
         Expired(k) /\ EntriesOf(table)[k]' = EntriesOf(table)[k]
         => Expired(k)']_vars

-----------------------------------------------------------------------------
(* The contract of the store, kept as long as the host does not reboot.    *)

Pending ==
    IF Writing
    THEN [op |-> holder.op, key |-> holder.key, entry |-> holder.entry,
          expected |-> IF holder.op = "compare_and_set"
                       THEN holder.old.entry.value ELSE None]
    ELSE None

Entries == [k \in Keys |-> Held(k)]

Contract == INSTANCE CacheContract WITH
    cache <- Entries,
    pending <- Pending,
    Contents <- {EntriesOf(t) : t \in Persisted},
    MayFail <- TRUE

\* The rows, two numbers and the lock make the same map of entries that
\* CacheStore is, through crashes, errors, stops and starts; only that a write
\* which these interrupt may cost its key the entry it had.
ImplementsContract == Contract!Spec

-----------------------------------------------------------------------------
(* Liveness, with the fairness of MemoryStore; stop() waits for the cleaner *)
(* and then for the lock like any other caller.                            *)

Fairness ==
    /\ WF_vars(RejectOversize \/ StoreOrExhausted
               \/ \E k \in Keys : _evict_lru_locked(k))
    /\ WF_vars(StatsReturn \/ \E k \in Keys : StatsVisit(k))
    /\ SF_vars(CleanerSnapshot)
    /\ WF_vars(CleanerCheck)
    /\ SF_vars(CleanerError \/ \E k \in Keys : _remove_if_expired(k))
    /\ WF_vars(CleanerExit)
    /\ SF_vars(Close)

FairSpec == Spec /\ Fairness

\* The cleaner outlives the errors of its passes: without any call for its
\* key an expired row is deleted, unless the store is stopped or dies.
ExpiredRemoved ==
    \A k \in Keys : Expired(k) ~> (~Expired(k) \/ stop_event \/ process = "down")

\* stop() closes the connection in the end, and the cleaner, whose removals
\* may then meet a closed connection, ends all the same.
StopCompletes ==
    stop_event ~>
        \/ process = "down"
        \/ process = "closed" /\ cleaner.pc = "done"
=============================================================================
