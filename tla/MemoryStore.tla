---------------------------- MODULE MemoryStore ----------------------------
(***************************************************************************)
(* CacheStore (infrastructure/memory_store.py) and the thread that removes *)
(* its expired entries (ExpiredEntryCleaner, memory_store_cleanup.py).     *)
(*                                                                         *)
(* The OrderedDict is the function store together with the sequence order  *)
(* of the keys that are present, least recently used first.  Every public  *)
(* method runs under one lock.  A method without a loop is one step.  A    *)
(* method that may evict or purge in a loop takes one step for each round, *)
(* and keeps the lock from its first step to its last: holder is the frame *)
(* of the method that has the lock, None when the lock is free.  Time      *)
(* passes, and the cleaner does the part of its work that needs no lock,   *)
(* between any two steps.                                                  *)
(***************************************************************************)
EXTENDS CacheModels, Sequences, FiniteSets, SequencesExt

CONSTANTS
    MaxClock,           \* bound: last reading of the clock
    MaxEvents           \* bound: events counted when a counting call starts

ASSUME BoundsAssumption == MaxClock \in Nat /\ MaxEvents \in Nat

VARIABLES
    store,                  \* key -> entry, None where the key is absent
    order,                  \* keys of store, least recently used first
    current_memory_bytes,
    counters,
    clock,                  \* time.monotonic()
    holder,                 \* frame of the method that holds the lock
    cleaner,                \* the cleaner thread
    stop_event,
    reply                   \* the last call that returned, and its result

vars == <<store, order, current_memory_bytes, counters, clock, holder,
          cleaner, stop_event, reply>>

-----------------------------------------------------------------------------
\* A write between the first line and the last of _store_value_locked: the
\* entry to be stored, and the entry of the key that was popped, if any.
WriteFrame ==
    [op : {"set", "set_if_absent", "compare_and_set"}, key : Keys,
     entry : Entry, old : Entry \cup {None}]

\* stats() while it removes the keys that it found expired.
StatsFrame == [op : {"stats"}, expired : SUBSET Keys]

Cleaner ==
    [pc : {"wait", "check", "remove", "done"},
     snapshot : [Keys -> Entry \cup {None}], expired_keys : SUBSET Keys]

\* The lock is free exactly when no frame is there.
ASSUME NoneIsNoFrame == None \notin WriteFrame \cup StatsFrame

NoSnapshot == [k \in Keys |-> None]

Waiting == [pc |-> "wait", snapshot |-> NoSnapshot, expired_keys |-> {}]

Present == {k \in Keys : store[k] # None}

TypeOK ==
    /\ store \in [Keys -> Entry \cup {None}]
    /\ order \in Seq(Keys)
    /\ current_memory_bytes \in Nat
    /\ counters \in [CounterNames -> Nat]
    /\ clock \in 0..MaxClock
    /\ holder \in WriteFrame \cup StatsFrame \cup {None}
    /\ cleaner \in Cleaner
    /\ stop_event \in BOOLEAN

-----------------------------------------------------------------------------
Init ==
    /\ store = [k \in Keys |-> None]
    /\ order = <<>>
    /\ current_memory_bytes = 0
    /\ counters = NoCounts
    /\ clock = 0
    /\ holder = None
    /\ cleaner = Waiting
    /\ stop_event = FALSE
    /\ reply = NoReply

LockFree == holder = None

\* The bound on the counters: a call that may count starts only below it.
MayCount ==
    counters.hits + counters.misses + counters.evictions
      + counters.expired_removals + counters.rejected_oversize < MaxEvents

Count(name) == counters' = [counters EXCEPT ![name] = @ + 1]

Expired(k) == store[k] # None /\ is_expired(store[k], clock)

-----------------------------------------------------------------------------
(* Changes of the OrderedDict.                                             *)

\* move_to_end(k), also the place where an assignment puts a key not present.
MoveToEnd(k) == Append(RemoveFirst(order, k), k)

\* A bug: the bytes of a removed entry stay counted.
RemoveWithoutAccounting(k) ==
    /\ store' = [store EXCEPT ![k] = None]
    /\ order' = RemoveFirst(order, k)
    /\ UNCHANGED current_memory_bytes

_remove_entry(k) ==
    /\ store' = [store EXCEPT ![k] = None]
    /\ order' = RemoveFirst(order, k)
    /\ current_memory_bytes' = current_memory_bytes - size_bytes(store[k])

\* A bug: an expired entry is removed and nobody counts it.
RemoveExpiredUncounted(k) == _remove_entry(k) /\ UNCHANGED counters

_remove_expired_entry(k) == _remove_entry(k) /\ Count("expired_removals")

Untouched == UNCHANGED <<store, order, current_memory_bytes>>

-----------------------------------------------------------------------------
(* Calls that take the lock and return in one step.                        *)

Call == LockFree /\ UNCHANGED <<clock, cleaner, stop_event>>

\* A bug: an expired entry is served until the cleaner comes around.
GetIgnoringExpiry(k) ==
    /\ Call /\ MayCount /\ UNCHANGED holder
    /\ \/ /\ store[k] = None
          /\ Untouched /\ Count("misses")
          /\ reply' = Returned("get", k, None, None)
       \/ /\ store[k] # None
          /\ order' = MoveToEnd(k) /\ Count("hits")
          /\ UNCHANGED <<store, current_memory_bytes>>
          /\ reply' = Returned("get", k, None, store[k].value)

\* A bug: a hit does not count as a use.
GetWithoutTouch(k) ==
    /\ Call /\ MayCount /\ UNCHANGED holder
    /\ \/ /\ store[k] = None
          /\ Untouched /\ Count("misses")
          /\ reply' = Returned("get", k, None, None)
       \/ /\ store[k] # None
          /\ Untouched /\ Count("hits")
          /\ reply' = Returned("get", k, None, store[k].value)

get(k) ==
    /\ Call /\ MayCount /\ UNCHANGED holder
    /\ \/ /\ store[k] = None
          /\ Untouched /\ Count("misses")
          /\ reply' = Returned("get", k, None, None)
       \/ /\ Expired(k)
          /\ _remove_entry(k)
          /\ counters' = [counters EXCEPT !.misses = @ + 1,
                                          !.expired_removals = @ + 1]
          /\ reply' = Returned("get", k, None, None)
       \/ /\ store[k] # None /\ ~Expired(k)
          /\ order' = MoveToEnd(k) /\ Count("hits")
          /\ UNCHANGED <<store, current_memory_bytes>>
          /\ reply' = Returned("get", k, None, store[k].value)

delete(k) ==
    /\ Call /\ UNCHANGED <<counters, holder>>
    /\ \/ /\ store[k] # None
          /\ _remove_entry(k)
          /\ reply' = Returned("delete", k, None, TRUE)
       \/ /\ store[k] = None
          /\ Untouched
          /\ reply' = Returned("delete", k, None, FALSE)

clear ==
    /\ Call /\ UNCHANGED holder
    /\ store' = [k \in Keys |-> None]
    /\ order' = <<>>
    /\ current_memory_bytes' = 0
    /\ counters' = NoCounts
    /\ reply' = [op |-> "clear"]

-----------------------------------------------------------------------------
(* Writes.  The first step checks the condition of the call, pops the old  *)
(* entry and reads the clock; _store_value_locked then rejects the value,  *)
(* or evicts until there is room and stores it.                            *)

Frame(op, k, v, t, old) ==
    [op |-> op, key |-> k, entry |-> CacheEntry(v, t, clock), old |-> old]

\* A bug: the old entry is read but stays in the OrderedDict.
ReadWithoutPop(k) == Untouched

\* pop(k, None); the popped bytes are subtracted with it.
Pop(k) == IF store[k] = None THEN Untouched ELSE _remove_entry(k)

set(k, v, t) ==
    /\ Call /\ MayCount
    /\ Pop(k)
    /\ holder' = Frame("set", k, v, t, store[k])
    /\ UNCHANGED <<counters, reply>>

set_if_absent(k, v, t) ==
    /\ Call /\ MayCount
    /\ \/ /\ store[k] # None /\ ~Expired(k)
          /\ reply' = Returned("set_if_absent", k, None, "EXISTS")
          /\ Untouched /\ UNCHANGED <<counters, holder>>
       \/ /\ Expired(k)
          /\ _remove_expired_entry(k) /\ UNCHANGED reply
          /\ holder' = Frame("set_if_absent", k, v, t, None)
       \/ /\ store[k] = None
          /\ Untouched /\ UNCHANGED <<counters, reply>>
          /\ holder' = Frame("set_if_absent", k, v, t, None)

compare_and_set(k, expected, v, t) ==
    /\ Call /\ MayCount
    /\ \/ /\ store[k] = None
          /\ reply' = Returned("compare_and_set", k, expected, "NOT_FOUND")
          /\ Untouched /\ UNCHANGED <<counters, holder>>
       \/ /\ Expired(k)
          /\ reply' = Returned("compare_and_set", k, expected, "NOT_FOUND")
          /\ _remove_expired_entry(k) /\ UNCHANGED holder
       \/ /\ store[k] # None /\ ~Expired(k) /\ store[k].value # expected
          /\ reply' = Returned("compare_and_set", k, expected, "MISMATCH")
          /\ Untouched /\ UNCHANGED <<counters, holder>>
       \/ /\ store[k] # None /\ ~Expired(k) /\ store[k].value = expected
          /\ _remove_entry(k) /\ UNCHANGED <<counters, reply>>
          /\ holder' = Frame("compare_and_set", k, v, t, store[k])

Writing == holder # None /\ holder.op # "stats"

Oversize == size_bytes(holder.entry) > max_value_bytes

TooManyBytes ==
    current_memory_bytes + size_bytes(holder.entry) > max_memory_bytes

\* A bug: off by one.
MoreThanMaxItems == holder.old = None /\ Len(order) > max_items

\* Only a new key is subject to the limit on the number of items.
TooManyItems == holder.old = None /\ Len(order) >= max_items

\* A bug: the bytes of the stored entry are not added.
PutUncounted(k, entry) ==
    /\ store' = [store EXCEPT ![k] = entry]
    /\ order' = MoveToEnd(k)
    /\ UNCHANGED current_memory_bytes

\* Put an entry back, or in, at the most recently used end.
Put(k, entry) ==
    /\ store' = [store EXCEPT ![k] = entry]
    /\ order' = MoveToEnd(k)
    /\ current_memory_bytes' = current_memory_bytes + size_bytes(entry)

RestoreOld ==
    IF holder.old = None THEN Untouched ELSE Put(holder.key, holder.old)

\* The write returns, and releases the lock.
FinishWrite(status) ==
    /\ holder' = None
    /\ reply' = Returned(holder.op, holder.key,
                         IF holder.op = "compare_and_set"
                         THEN holder.old.value ELSE None,
                         WriteResult(holder.op, status))
    /\ UNCHANGED <<clock, cleaner, stop_event>>

\* A bug: the old entry was popped and is not put back.
RejectWithoutRestore ==
    /\ Writing /\ Oversize
    /\ Untouched
    /\ Count("rejected_oversize")
    /\ FinishWrite("VALUE_TOO_LARGE")

RejectOversize ==
    /\ Writing /\ Oversize
    /\ RestoreOld
    /\ Count("rejected_oversize")
    /\ FinishWrite("VALUE_TOO_LARGE")

\* A bug: the victim is found and touched, but not removed.
RotateInsteadOfEvict ==
    /\ Writing /\ ~Oversize
    /\ order # <<>> /\ (TooManyBytes \/ TooManyItems)
    /\ order' = MoveToEnd(Head(order))
    /\ UNCHANGED <<store, current_memory_bytes, counters, clock, holder, cleaner,
                   stop_event, reply>>

\* One round of either eviction loop.
_evict_lru ==
    /\ Writing /\ ~Oversize
    /\ order # <<>> /\ (TooManyBytes \/ TooManyItems)
    /\ _remove_entry(Head(order))
    /\ counters' = [counters EXCEPT !.evictions = @ + 1, !.lru_evictions = @ + 1]
    /\ UNCHANGED <<clock, holder, cleaner, stop_event, reply>>

\* No round is left: the value is stored, or there is no room for it.
StoreOrExhausted ==
    /\ Writing /\ ~Oversize
    /\ order = <<>> \/ ~(TooManyBytes \/ TooManyItems)
    /\ IF TooManyBytes \/ TooManyItems
       THEN /\ RestoreOld
            /\ Count("rejected_capacity")
            /\ FinishWrite("CAPACITY_EXHAUSTED")
       ELSE /\ Put(holder.key, holder.entry)
            /\ UNCHANGED counters
            /\ FinishWrite("OK")

-----------------------------------------------------------------------------
(* stats() removes the expired entries before it takes the numbers.        *)

stats ==
    /\ Call /\ MayCount
    /\ holder' = [op |-> "stats", expired |-> {k \in Keys : Expired(k)}]
    /\ Untouched /\ UNCHANGED <<counters, reply>>

ReadingStats == holder # None /\ holder.op = "stats"

StatsRemoveExpired(k) ==
    /\ ReadingStats /\ k \in holder.expired
    /\ _remove_expired_entry(k)
    /\ holder' = [holder EXCEPT !.expired = @ \ {k}]
    /\ UNCHANGED <<clock, cleaner, stop_event, reply>>

StatsReturn ==
    /\ ReadingStats /\ holder.expired = {}
    /\ holder' = None
    /\ reply' = [op |-> "stats", size |-> Len(order),
                 memory_usage_bytes |-> current_memory_bytes]
    /\ Untouched /\ UNCHANGED <<counters, clock, cleaner, stop_event>>

-----------------------------------------------------------------------------
(* The cleaner thread, stop() and the clock.                               *)

Client == <<clock, holder, stop_event, reply>>

\* A bug: the loop sleeps and goes on whether or not the event is set.
SnapshotIgnoringStop ==
    /\ LockFree /\ cleaner.pc = "wait"
    /\ cleaner' = [cleaner EXCEPT !.pc = "check", !.snapshot = store]
    /\ Untouched /\ UNCHANGED <<counters, Client>>

\* wait(cleanup_interval) timed out: copy the items, under the lock.
CleanerSnapshot ==
    /\ LockFree /\ cleaner.pc = "wait" /\ ~stop_event
    /\ cleaner' = [cleaner EXCEPT !.pc = "check", !.snapshot = store]
    /\ Untouched /\ UNCHANGED <<counters, Client>>

\* A bug: the loop ends at the first pass that has nothing to remove.
CheckBreaksLoop ==
    /\ cleaner.pc = "check"
    /\ LET expired_keys == {k \in Keys :
                               /\ cleaner.snapshot[k] # None
                               /\ is_expired(cleaner.snapshot[k], clock)}
       IN cleaner' = [pc |-> IF expired_keys = {} THEN "done" ELSE "remove",
                      snapshot |-> NoSnapshot, expired_keys |-> expired_keys]
    /\ Untouched /\ UNCHANGED <<counters, Client>>

\* Find the expired ones in the copy, without the lock.
CleanerCheck ==
    /\ cleaner.pc = "check"
    /\ LET expired_keys == {k \in Keys :
                               /\ cleaner.snapshot[k] # None
                               /\ is_expired(cleaner.snapshot[k], clock)}
       IN cleaner' = IF expired_keys = {} THEN Waiting
                     ELSE [pc |-> "remove", snapshot |-> NoSnapshot,
                           expired_keys |-> expired_keys]
    /\ Untouched /\ UNCHANGED <<counters, Client>>

\* The rest of the keys, or back to wait() after the last one.
CleanerNext(k) ==
    IF cleaner.expired_keys = {k} THEN Waiting
    ELSE [cleaner EXCEPT !.expired_keys = @ \ {k}]

\* A bug: the key was expired in the snapshot, and is removed unseen.
RemoveUnchecked(k) ==
    /\ LockFree /\ cleaner.pc = "remove" /\ k \in cleaner.expired_keys
    /\ IF store[k] # None
       THEN _remove_expired_entry(k)
       ELSE Untouched /\ UNCHANGED counters
    /\ cleaner' = CleanerNext(k)
    /\ UNCHANGED Client

\* Remove one of them, under the lock, if it is expired now.
_remove_if_expired(k) ==
    /\ LockFree /\ cleaner.pc = "remove" /\ k \in cleaner.expired_keys
    /\ IF Expired(k)
       THEN _remove_expired_entry(k)
       ELSE Untouched /\ UNCHANGED counters
    /\ cleaner' = CleanerNext(k)
    /\ UNCHANGED Client

\* wait() returned because the event is set: the thread ends.
CleanerExit ==
    /\ cleaner.pc = "wait" /\ stop_event
    /\ cleaner' = [cleaner EXCEPT !.pc = "done"]
    /\ Untouched /\ UNCHANGED <<counters, Client>>

\* stop() needs no lock; the store keeps answering calls after it.
stop ==
    /\ ~stop_event
    /\ stop_event' = TRUE
    /\ Untouched /\ UNCHANGED <<counters, clock, holder, cleaner, reply>>

Tick ==
    /\ clock < MaxClock
    /\ clock' = clock + 1
    /\ Untouched /\ UNCHANGED <<counters, holder, cleaner, stop_event, reply>>

-----------------------------------------------------------------------------
Next ==
    \/ \E k \in Keys : get(k) \/ delete(k)
    \/ \E k \in Keys, v \in Values, t \in Ttls :
          \/ set(k, v, t)
          \/ set_if_absent(k, v, t)
          \/ \E expected \in Values : compare_and_set(k, expected, v, t)
    \/ RejectOversize \/ _evict_lru \/ StoreOrExhausted
    \/ stats \/ StatsReturn
    \/ \E k \in Keys : StatsRemoveExpired(k)
    \/ clear \/ stop \/ Tick
    \/ CleanerSnapshot \/ CleanerCheck \/ CleanerExit
    \/ \E k \in Keys : _remove_if_expired(k)

Spec == Init /\ [][Next]_vars

-----------------------------------------------------------------------------
(* Safety.                                                                 *)

Popped == Writing /\ holder.old # None

\* The entry a caller who waits for the lock may rely on: a write that has
\* popped the entry of its key has not yet replaced it.
Held(k) == IF Popped /\ holder.key = k THEN holder.old ELSE store[k]

\* The OrderedDict holds every key once, and current_memory_bytes is the sum
\* of the sizes of its entries, whatever mix of pops, rejections, evictions
\* and expiries led there.
AccountingExact ==
    /\ IsInjective(order) /\ ToSet(order) = Present
    /\ current_memory_bytes = Cardinality(BytesOf(store))

PoppedBytes == IF Popped THEN size_bytes(holder.old) ELSE 0
PoppedItems == IF Popped THEN 1 ELSE 0

\* Neither limit is exceeded at any moment.  This counts the entry that a
\* write has popped, so that a rejected write can always put it back.
WithinLimits ==
    /\ current_memory_bytes + PoppedBytes <= max_memory_bytes
    /\ Len(order) + PoppedItems <= max_items

\* A call that keeps the lock relies on what it saw before its loop: the key
\* of a write stays out of the store until the write puts it in, so that no
\* eviction takes it twice, and the keys that stats() found expired still are.
FrameConsistent ==
    /\ Writing => store[holder.key] = None
    /\ ReadingStats => \A k \in holder.expired : Expired(k)

\* A value that passes the size check always finds room: the branches of
\* _store_value_locked that answer CAPACITY_EXHAUSTED are never taken, so no
\* write evicts the whole store only to fail.
NeverExhausted == counters.rejected_capacity = 0

\* The inductive invariant that the safety of the store rests on.
Inv ==
    /\ TypeOK
    /\ AccountingExact
    /\ WithinLimits
    /\ FrameConsistent
    /\ NeverExhausted

LiveEntryStep ==
    \A k \in Keys :
      Held(k) # None /\ ~is_expired(Held(k), clock) /\ Held(k)' # Held(k) =>
        \/ delete(k) \/ clear
        \/ Writing /\ holder.key = k /\ Held(k)' = holder.entry
        \/ Writing /\ k = Head(order) /\ Held(k)' = None

\* An entry that has not expired is lost only to a delete of its key, to
\* clear(), to a completed write of its key, or to the eviction of the least
\* recently used key.  In particular the cleaner does not remove an entry
\* that was written after its snapshot, and a rejected write keeps the value
\* and the expiry time of the entry that it tried to replace.
LiveEntryKept == [][LiveEntryStep]_vars

\* Every entry that leaves the store unasked is counted once, as an eviction
\* or as an expired removal, and nothing else is counted as one.
LossesCounted ==
    [][~clear /\ (\A k \in Keys : ~delete(k)) =>
         Cardinality({k \in Keys : Held(k) # None /\ Held(k)' = None}) =
           (counters.evictions' - counters.evictions)
             + (counters.expired_removals' - counters.expired_removals)]_vars

\* The key of the last call that used an entry (a hit, or a write, rejected
\* or not) is not the next one to be evicted as long as there is another.
LastUsedSurvives ==
    [][/\ counters'.evictions > counters.evictions
       /\ reply.op \in {"get", "set", "set_if_absent", "compare_and_set"}
       /\ reply.result \in Values \cup {"OK", "STORED", "VALUE_TOO_LARGE"}
       /\ Len(order) > 1
       => store'[reply.key] = store[reply.key]]_vars

-----------------------------------------------------------------------------
(* What the store promises to its callers.                                 *)

Pending ==
    IF Writing
    THEN [op |-> holder.op, key |-> holder.key, entry |-> holder.entry,
          expected |-> IF holder.op = "compare_and_set"
                       THEN holder.old.value ELSE None]
    ELSE None

Entries == [k \in Keys |-> Held(k)]

Contract == INSTANCE CacheContract WITH
    cache <- Entries,
    pending <- Pending,
    Contents <- {[k \in Keys |-> None]},
    MayFail <- FALSE

\* The store with its lock, its recency order, its byte counter and its
\* cleaner behaves like a map of entries that may drop what has expired.
ImplementsContract == Contract!Spec

-----------------------------------------------------------------------------
(* Liveness.  The lock is not fair by specification, but a thread that     *)
(* waits for a lock that is free again and again gets it in the end:       *)
(* strong fairness for the locked steps of the cleaner, weak fairness for  *)
(* the steps of whoever holds the lock and for the unlocked ones.          *)

Fairness ==
    /\ WF_vars(RejectOversize \/ _evict_lru \/ StoreOrExhausted)
    /\ WF_vars(StatsReturn \/ \E k \in Keys : StatsRemoveExpired(k))
    /\ SF_vars(CleanerSnapshot)
    /\ WF_vars(CleanerCheck)
    /\ SF_vars(\E k \in Keys : _remove_if_expired(k))
    /\ WF_vars(CleanerExit)

FairSpec == Spec /\ Fairness

\* Without any call for its key, an expired entry leaves the store unless the
\* store is stopped.
ExpiredRemoved ==
    \A k \in Keys : Expired(k) ~> (~Expired(k) \/ stop_event)

\* The eviction and purge loops end: every call that took the lock returns.
LockReleased == holder # None ~> holder = None

\* The cleaner thread ends after stop(), also if it was in the middle of a
\* pass.
CleanerEnds == stop_event ~> cleaner.pc = "done"
=============================================================================
