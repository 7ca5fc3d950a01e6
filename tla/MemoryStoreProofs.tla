------------------------- MODULE MemoryStoreProofs -------------------------
(***************************************************************************)
(* Theorems about MemoryStore, for every set of keys and values, every     *)
(* limit and every bound.                                                  *)
(***************************************************************************)
EXTENDS MemoryStore, CacheModelsProofs, SequenceLemmas

-----------------------------------------------------------------------------
(* The three representations of the contents: store, order and the counter *)
(* of bytes.                                                               *)

Contents ==
    /\ store \in [Keys -> Entry \cup {None}]
    /\ order \in Seq(Keys)
    /\ IsFiniteSet(BytesOf(store))
    /\ AccountingExact

\* The invariant with what is left implicit in it.
IInv == Inv /\ IsFiniteSet(BytesOf(store))

\* The types of everything else.
RestTyped ==
    /\ counters \in [CounterNames -> Nat]
    /\ clock \in 0..MaxClock
    /\ holder \in WriteFrame \cup StatsFrame \cup {None}
    /\ cleaner \in Cleaner
    /\ stop_event \in BOOLEAN

\* What holds of the dictionaries alone.
LEMMA ContentsInIInv == IInv => Contents
BY DEF IInv, Inv, TypeOK, Contents

\* Time passing and calls that change nothing leave the contents consistent.
LEMMA ContentsUntouched == Contents /\ Untouched => Contents'
BY DEF Contents, Untouched, AccountingExact, Present

\* _remove_entry of a key that is present keeps the three in agreement.
LEMMA RemoveEntry ==
    ASSUME Contents, NEW k \in Keys, store[k] # None, _remove_entry(k)
    PROVE  /\ Contents'
           /\ store' = [store EXCEPT ![k] = None]
           /\ current_memory_bytes' \in Nat
           /\ current_memory_bytes = current_memory_bytes' + size_bytes(store[k])
           /\ Len(order') = Len(order) - 1
<1>1. k \in ToSet(order)
  BY DEF Contents, AccountingExact, Present
<1>2. /\ order' \in Seq(Keys) /\ IsInjective(order')
      /\ ToSet(order') = ToSet(order) \ {k}
      /\ Len(order') = Len(order) - 1
  BY <1>1, RemoveFirstProperties DEF Contents, AccountingExact, _remove_entry
<1>3. store' = [store EXCEPT ![k] = None]
  BY DEF _remove_entry
<1>4. store' \in [Keys -> Entry \cup {None}] /\ Present' = Present \ {k}
  BY <1>3 DEF Contents, Present
<1>5. /\ IsFiniteSet(BytesOf(store'))
      /\ Cardinality(BytesOf(store)) = Cardinality(BytesOf(store')) + size_bytes(store[k])
  BY <1>3, BytesOfRemove DEF Contents
<1>6. Cardinality(BytesOf(store')) \in Nat /\ size_bytes(store[k]) \in Nat
  BY <1>5, FS_CardinalityType, SizePositive DEF Contents
<1>7. current_memory_bytes' = Cardinality(BytesOf(store'))
  BY <1>5, <1>6 DEF Contents, AccountingExact, _remove_entry
<1>8. IsFiniteSet(BytesOf(store))' /\ Cardinality(BytesOf(store))' = Cardinality(BytesOf(store'))
  BY <1>5 DEF BytesOf, size_bytes
<1> QED
  BY <1>2, <1>3, <1>4, <1>5, <1>6, <1>7, <1>8 DEF Contents, AccountingExact

\* Storing an entry under a key that is absent keeps them in agreement.
LEMMA PutEntry ==
    ASSUME Contents, NEW k \in Keys, store[k] = None, NEW e \in Entry, Put(k, e)
    PROVE  /\ Contents'
           /\ store' = [store EXCEPT ![k] = e]
           /\ current_memory_bytes' = current_memory_bytes + size_bytes(e)
           /\ current_memory_bytes \in Nat
           /\ Len(order') = Len(order) + 1
<1>1. k \notin ToSet(order)
  BY DEF Contents, AccountingExact, Present
<1>2. ~\E i \in 1..Len(order) : order[i] = k
  BY <1>1 DEF ToSet, Contents
<1>3. order' = Append(order, k)
  BY <1>2 DEF Put, MoveToEnd, RemoveFirst
<1>4. /\ order' \in Seq(Keys) /\ IsInjective(order')
      /\ ToSet(order') = ToSet(order) \cup {k}
      /\ Len(order') = Len(order) + 1
  BY <1>1, <1>3, AppendNew DEF Contents, AccountingExact
<1>5. store' = [store EXCEPT ![k] = e]
  BY DEF Put
<1>6. store' \in [Keys -> Entry \cup {None}] /\ Present' = Present \cup {k}
  BY <1>5, NoneIsNoEntry DEF Contents, Present
<1>7. /\ IsFiniteSet(BytesOf(store'))
      /\ Cardinality(BytesOf(store')) = Cardinality(BytesOf(store)) + size_bytes(e)
  BY <1>5, BytesOfPut DEF Contents
<1>8. IsFiniteSet(BytesOf(store))' /\ Cardinality(BytesOf(store))' = Cardinality(BytesOf(store'))
  BY <1>7 DEF BytesOf, size_bytes
<1>9. current_memory_bytes = Cardinality(BytesOf(store)) /\ current_memory_bytes \in Nat
  BY FS_CardinalityType DEF Contents, AccountingExact
<1>10. current_memory_bytes' = current_memory_bytes + size_bytes(e)
  BY DEF Put
<1> QED
  BY <1>4, <1>5, <1>6, <1>7, <1>8, <1>9, <1>10 DEF Contents, AccountingExact

\* A hit moves its key to the end of the order and changes nothing else.
LEMMA TouchEntry ==
    ASSUME Contents, NEW k \in Keys, store[k] # None,
           order' = MoveToEnd(k), UNCHANGED <<store, current_memory_bytes>>
    PROVE  Contents' /\ Len(order') = Len(order)
<1> DEFINE r == RemoveFirst(order, k)
<1>1. k \in ToSet(order)
  BY DEF Contents, AccountingExact, Present
<1>2. /\ r \in Seq(Keys) /\ IsInjective(r)
      /\ ToSet(r) = ToSet(order) \ {k}
      /\ Len(r) = Len(order) - 1
  BY <1>1, RemoveFirstProperties DEF Contents, AccountingExact
<1>3. order' = Append(r, k)
  BY DEF MoveToEnd
<1> HIDE DEF r
<1>4. k \notin ToSet(r)
  BY <1>2
<1>5. /\ order' \in Seq(Keys) /\ IsInjective(order')
      /\ ToSet(order') = ToSet(r) \cup {k}
      /\ Len(order') = Len(r) + 1
  BY <1>2, <1>3, <1>4, AppendNew
<1>6. ToSet(order') = ToSet(order) /\ Len(order') = Len(order)
  BY <1>1, <1>2, <1>5 DEF Contents
<1>7. Present' = Present /\ BytesOf(store)' = BytesOf(store)
  BY DEF Present, BytesOf, size_bytes
<1> QED BY <1>5, <1>6, <1>7 DEF Contents, AccountingExact

\* An empty order means an empty store, which occupies no bytes.
LEMMA EmptyStore ==
    Contents /\ order = <<>> => current_memory_bytes = 0 /\ Len(order) = 0
<1> SUFFICES ASSUME Contents, order = <<>> PROVE current_memory_bytes = 0
  OBVIOUS
<1>1. ToSet(order) = {}
  BY DEF ToSet
<1>2. BytesOf(store) = {}
  BY <1>1 DEF Contents, AccountingExact, Present, BytesOf
<1> QED BY <1>2, FS_EmptySet DEF Contents, AccountingExact

-----------------------------------------------------------------------------
(* The smaller parts of a step.                                            *)

\* Counting an event other than rejected_capacity keeps the counters typed
\* and leaves that one alone.
LEMMA CountEvent ==
    ASSUME counters \in [CounterNames -> Nat],
           NEW name \in CounterNames \ {"rejected_capacity"}, Count(name)
    PROVE  /\ counters' \in [CounterNames -> Nat]
           /\ counters'.rejected_capacity = counters.rejected_capacity
BY DEF Count, CounterNames, NoCounts

\* The names of the counters.
LEMMA CounterNamesAre ==
    CounterNames = {"hits", "misses", "evictions", "lru_evictions",
                    "expired_removals", "rejected_oversize", "rejected_capacity"}
BY DEF CounterNames, NoCounts

\* Two events at once: an expired get, an eviction.
LEMMA CountTwoEvents ==
    ASSUME counters \in [CounterNames -> Nat],
           NEW a \in CounterNames \ {"rejected_capacity"},
           NEW b \in CounterNames \ {"rejected_capacity"},
           counters' = [counters EXCEPT ![a] = @ + 1, ![b] = @ + 1]
    PROVE  /\ counters' \in [CounterNames -> Nat]
           /\ counters'.rejected_capacity = counters.rejected_capacity
BY DEF CounterNames, NoCounts

\* A write frame and a stats frame are told apart by op.
LEMMA FrameKinds ==
    holder \in WriteFrame \cup StatsFrame \cup {None} =>
      /\ Writing => holder \in WriteFrame /\ ~ReadingStats
      /\ ReadingStats => holder \in StatsFrame /\ ~Writing
      /\ LockFree => ~Writing /\ ~ReadingStats
BY DEF WriteFrame, StatsFrame, Writing, ReadingStats, LockFree

\* The least recently used key has an entry.
LEMMA HeadIsPresent ==
    ASSUME IInv, order # <<>>
    PROVE  Head(order) \in Keys /\ store[Head(order)] # None
<1>1. 1 \in DOMAIN order /\ Head(order) = order[1]
  BY DEF IInv, Inv, TypeOK
<1>2. Head(order) \in ToSet(order)
  BY <1>1 DEF ToSet
<1> QED BY <1>2 DEF IInv, Inv, AccountingExact, Present

-----------------------------------------------------------------------------
(* The invariant holds initially, and every action preserves it.           *)

\* An empty store satisfies the inductive invariant.
LEMMA InitIInv == Init => IInv
<1> SUFFICES ASSUME Init PROVE IInv
  OBVIOUS
<1>1. TypeOK
  <2>1. counters \in [CounterNames -> Nat]
    BY DEF Init, NoCounts, CounterNames
  <2>2. cleaner \in Cleaner
    BY DEF Init, Cleaner, Waiting, NoSnapshot
  <2>3. store \in [Keys -> Entry \cup {None}] /\ order \in Seq(Keys)
    BY DEF Init
  <2>4. clock \in 0..MaxClock /\ current_memory_bytes \in Nat
    BY BoundsAssumption DEF Init
  <2>5. holder \in WriteFrame \cup StatsFrame \cup {None} /\ stop_event \in BOOLEAN
    BY DEF Init
  <2> QED BY <2>1, <2>2, <2>3, <2>4, <2>5 DEF TypeOK
<1>2. BytesOf(store) = {} /\ Present = {} /\ ToSet(order) = {}
  BY DEF Init, BytesOf, Present, ToSet
<1>3. IsFiniteSet(BytesOf(store)) /\ AccountingExact
  BY <1>2, FS_EmptySet DEF Init, AccountingExact, IsInjective
<1>4. WithinLimits /\ FrameConsistent /\ NeverExhausted
  BY ModelsAssumption DEF Init, WithinLimits, PoppedBytes, PoppedItems, Popped, Writing, FrameConsistent,
     ReadingStats, NeverExhausted, NoCounts
<1> QED BY <1>1, <1>3, <1>4 DEF IInv, Inv

\* A step that touches neither the contents nor a frame.
LEMMA QuietStep ==
    ASSUME IInv, RestTyped', Untouched,
           counters'.rejected_capacity = counters.rejected_capacity,
           holder' = holder \/ holder' = None, clock' >= clock
    PROVE  IInv'
<1>1. Contents'
  BY ContentsInIInv, ContentsUntouched
<1>2. WithinLimits'
  <2>1. CASE holder' = holder
    BY <2>1 DEF IInv, Inv, WithinLimits, PoppedBytes, PoppedItems, Untouched, Popped, Writing, size_bytes
  <2>2. CASE holder' = None
    <3>1. ~Popped'
      BY <2>2 DEF Popped, Writing
    <3>2. /\ current_memory_bytes \in Nat /\ Len(order) \in Nat
          /\ Popped => size_bytes(holder.old) \in Nat
      BY SizePositive DEF IInv, Inv, TypeOK, Popped, Writing, WriteFrame, StatsFrame
    <3> QED
      BY <3>1, <3>2, ModelsAssumption DEF IInv, Inv, WithinLimits, PoppedBytes, PoppedItems, Untouched
  <2> QED BY <2>1, <2>2
<1>3. FrameConsistent' /\ NeverExhausted'
  <2>1. \A k \in Keys : Expired(k) => Expired(k)'
    BY ExpiryIsFinal DEF IInv, Inv, TypeOK, RestTyped, Untouched, Expired
  <2>2. ReadingStats => holder.expired \subseteq Keys
    BY FrameKinds DEF IInv, Inv, TypeOK, StatsFrame
  <2> QED
    BY <2>1, <2>2 DEF IInv, Inv, FrameConsistent, NeverExhausted, Untouched,
       Writing, ReadingStats
<1> QED
  BY <1>1, <1>2, <1>3 DEF IInv, Inv, Contents, Untouched, TypeOK, RestTyped

\* A step that removes one entry and lets no other key into a frame.
LEMMA RemovingStep ==
    ASSUME IInv, RestTyped', NEW k \in Keys, store[k] # None, _remove_entry(k),
           counters'.rejected_capacity = counters.rejected_capacity,
           clock' = clock,
           \/ holder' = holder /\ ~ReadingStats
           \/ ReadingStats /\ holder' = [holder EXCEPT !.expired = @ \ {k}]
    PROVE  IInv'
<1>1. /\ Contents'
      /\ store' = [store EXCEPT ![k] = None]
      /\ current_memory_bytes' \in Nat
      /\ current_memory_bytes = current_memory_bytes' + size_bytes(store[k])
      /\ Len(order') = Len(order) - 1
  BY ContentsInIInv, RemoveEntry
<1>2. size_bytes(store[k]) \in Nat /\ Len(order) \in Nat
  BY SizePositive DEF IInv, Inv, TypeOK
<1>3. FrameConsistent'
  BY <1>1 DEF IInv, Inv, FrameConsistent, Writing, ReadingStats, Expired, TypeOK,
     WriteFrame, StatsFrame
<1>4. WithinLimits'
  <2>1. CASE holder' = holder
    <3>1. Popped' = Popped /\ (Popped => size_bytes(holder.old) \in Nat)
          /\ size_bytes(holder.old)' = size_bytes(holder.old)
      BY <2>1, SizePositive
      DEF IInv, Inv, TypeOK, Popped, Writing, WriteFrame, StatsFrame, size_bytes
    <3> QED
      BY <1>1, <1>2, <3>1, ModelsAssumption DEF IInv, Inv, WithinLimits, PoppedBytes, PoppedItems
  <2>2. CASE ReadingStats /\ holder' = [holder EXCEPT !.expired = @ \ {k}]
    <3>1. ~Popped /\ ~Popped'
      BY <2>2 DEF Popped, Writing, ReadingStats, IInv, Inv, TypeOK, WriteFrame, StatsFrame
    <3> QED
      BY <1>1, <1>2, <3>1, ModelsAssumption DEF IInv, Inv, WithinLimits, PoppedBytes, PoppedItems
  <2> QED BY <2>1, <2>2
<1> QED
  BY <1>1, <1>3, <1>4
  DEF IInv, Inv, Contents, NeverExhausted, TypeOK, RestTyped

\* A step that starts a write: the lock is free, and the entry of the key, if
\* any, is popped.
LEMMA StartingStep ==
    ASSUME IInv, RestTyped', LockFree, NEW k \in Keys, Pop(k),
           counters'.rejected_capacity = counters.rejected_capacity,
           holder' \in WriteFrame, holder'.key = k,
           holder'.old = store[k] \/ holder'.old = None
    PROVE  IInv'
<1>1. ~Popped /\ Len(order) \in Nat /\ current_memory_bytes \in Nat
  BY DEF LockFree, Popped, Writing, IInv, Inv, TypeOK
<1>2. ~ReadingStats'
  BY DEF WriteFrame, ReadingStats
<1>3. CASE store[k] = None
  <2>1. Contents' /\ Untouched /\ ~Popped'
    BY <1>3, ContentsInIInv, ContentsUntouched DEF Pop, Popped
  <2>2. WithinLimits' /\ FrameConsistent' /\ NeverExhausted'
    BY <1>1, <1>2, <1>3, <2>1, ModelsAssumption
    DEF IInv, Inv, WithinLimits, PoppedBytes, PoppedItems, FrameConsistent,
       NeverExhausted, Untouched
  <2> QED
    BY <2>1, <2>2 DEF IInv, Inv, Contents, Untouched, TypeOK, RestTyped
<1>4. CASE store[k] # None
  <2>1. /\ Contents'
        /\ store' = [store EXCEPT ![k] = None]
        /\ current_memory_bytes' \in Nat
        /\ current_memory_bytes = current_memory_bytes' + size_bytes(store[k])
        /\ Len(order') = Len(order) - 1
    BY <1>4, ContentsInIInv, RemoveEntry DEF Pop
  <2>2. store[k] \in Entry /\ size_bytes(store[k]) \in Nat
    BY <1>4, SizePositive DEF IInv, Inv, TypeOK
  <2>3. WithinLimits'
    <3>1. current_memory_bytes <= max_memory_bytes /\ Len(order) <= max_items
      BY <1>1, ModelsAssumption DEF IInv, Inv, WithinLimits, PoppedBytes, PoppedItems
    <3>2. Popped' => holder'.old = store[k]
      BY DEF Popped
    <3>3. CASE Popped'
      BY <1>1, <2>1, <2>2, <3>1, <3>2, <3>3, ModelsAssumption DEF WithinLimits, PoppedBytes, PoppedItems, size_bytes
    <3>4. CASE ~Popped'
      <4>1. /\ current_memory_bytes' <= max_memory_bytes
            /\ Len(order') <= max_items
            /\ current_memory_bytes' \in Nat /\ Len(order') \in Nat
        BY <1>1, <2>1, <2>2, <3>1, ModelsAssumption DEF Contents
      <4>2. PICK m \in Nat, n \in Nat : m = current_memory_bytes' /\ n = Len(order')
        BY <4>1
      <4>3. m <= max_memory_bytes /\ n <= max_items
        BY <4>1, <4>2
      <4>4. m + 0 <= max_memory_bytes /\ n + 0 <= max_items
        BY <4>3, ModelsAssumption
      <4>5. PoppedBytes' = 0 /\ PoppedItems' = 0
        BY <3>4 DEF PoppedBytes, PoppedItems
      <4> QED BY <4>2, <4>4, <4>5 DEF WithinLimits
    <3> QED BY <3>3, <3>4
  <2>4. FrameConsistent' /\ NeverExhausted'
    BY <1>2, <2>1 DEF IInv, Inv, TypeOK, FrameConsistent, NeverExhausted
  <2> QED BY <2>1, <2>3, <2>4 DEF IInv, Inv, Contents, TypeOK, RestTyped
<1> QED BY <1>3, <1>4

\* A step that ends a write by putting an entry in, within the limits.
LEMMA PuttingStep ==
    ASSUME IInv, RestTyped', Writing, NEW e \in Entry, Put(holder.key, e),
           current_memory_bytes + size_bytes(e) <= max_memory_bytes,
           Len(order) < max_items,
           counters'.rejected_capacity = counters.rejected_capacity,
           holder' = None
    PROVE  IInv'
<1>1. holder.key \in Keys /\ store[holder.key] = None
  BY FrameKinds DEF IInv, Inv, TypeOK, FrameConsistent, WriteFrame
<1>2. /\ Contents'
      /\ store' = [store EXCEPT ![holder.key] = e]
      /\ current_memory_bytes' = current_memory_bytes + size_bytes(e)
      /\ current_memory_bytes \in Nat
      /\ Len(order') = Len(order) + 1
  BY <1>1, ContentsInIInv, PutEntry
<1>3. ~Writing' /\ ~Popped' /\ ~ReadingStats'
  BY DEF Writing, Popped, ReadingStats
<1>4. size_bytes(e) \in Nat /\ Len(order) \in Nat
  BY SizePositive DEF IInv, Inv, TypeOK
<1>5. WithinLimits'
  BY <1>2, <1>3, <1>4, ModelsAssumption DEF WithinLimits, PoppedBytes, PoppedItems
<1>6. FrameConsistent' /\ NeverExhausted'
  BY <1>3 DEF FrameConsistent, IInv, Inv, NeverExhausted
<1>7. current_memory_bytes' \in Nat
  BY <1>2, <1>4
<1> QED
  BY <1>2, <1>5, <1>6, <1>7 DEF IInv, Inv, Contents, TypeOK, RestTyped

\* A popped entry fits back in.
LEMMA RestoringStep ==
    ASSUME IInv, RestTyped', Writing, RestoreOld, clock' = clock,
           counters'.rejected_capacity = counters.rejected_capacity,
           holder' = None
    PROVE  IInv'
<1>1. CASE holder.old = None
  <2>1. clock' >= clock
    BY DEF IInv, Inv, TypeOK
  <2> QED BY <1>1, <2>1, QuietStep DEF RestoreOld
<1>2. CASE holder.old # None
  <2>1. holder.old \in Entry /\ Popped
    BY <1>2, FrameKinds DEF IInv, Inv, TypeOK, Popped, WriteFrame
  <2>2. size_bytes(holder.old) \in Nat /\ Len(order) \in Nat
    BY <2>1, SizePositive DEF IInv, Inv, TypeOK
  <2>3. /\ current_memory_bytes + size_bytes(holder.old) <= max_memory_bytes
        /\ Len(order) < max_items
    BY <2>1, <2>2, ModelsAssumption DEF IInv, Inv, WithinLimits, PoppedBytes, PoppedItems
  <2>4. Put(holder.key, holder.old)
    BY <1>2 DEF RestoreOld
  <2> HIDE DEF RestoreOld
  <2> QED BY <2>1, <2>3, <2>4, PuttingStep
<1> QED BY <1>1, <1>2

-----------------------------------------------------------------------------
(* Every action preserves the invariant.                                   *)

\* get and delete: a miss, an expired entry, a hit, a removal.
LEMMA ReadStep ==
    ASSUME IInv, NEW k \in Keys, get(k) \/ delete(k)
    PROVE  IInv'
<1> USE DEF Call
<1>0. RestTyped /\ ~ReadingStats
  BY DEF IInv, Inv, TypeOK, RestTyped, LockFree, ReadingStats, get, delete
<1>1. CASE get(k) /\ store[k] = None
  <2>1. Untouched /\ Count("misses")
    BY <1>1 DEF get, Expired
  <2>2. /\ counters' \in [CounterNames -> Nat]
        /\ counters'.rejected_capacity = counters.rejected_capacity
    BY <1>0, <2>1, CountEvent, CounterNamesAre DEF RestTyped
  <2> QED BY <1>0, <1>1, <2>1, <2>2, QuietStep DEF get, RestTyped
<1>2. CASE get(k) /\ Expired(k)
  <2>1. /\ store[k] # None /\ _remove_entry(k)
        /\ counters' = [counters EXCEPT !.misses = @ + 1,
                                        !.expired_removals = @ + 1]
    BY <1>2 DEF get, Expired
  <2>2. /\ counters' \in [CounterNames -> Nat]
        /\ counters'.rejected_capacity = counters.rejected_capacity
    BY <1>0, <2>1, CountTwoEvents, CounterNamesAre DEF RestTyped
  <2> QED BY <1>0, <1>2, <2>1, <2>2, RemovingStep DEF get, RestTyped
<1>3. CASE get(k) /\ store[k] # None /\ ~Expired(k)
  <2>1. /\ order' = MoveToEnd(k) /\ Count("hits")
        /\ UNCHANGED <<store, current_memory_bytes>>
    BY <1>3 DEF get
  <2>2. /\ counters' \in [CounterNames -> Nat]
        /\ counters'.rejected_capacity = counters.rejected_capacity
    BY <1>0, <2>1, CountEvent, CounterNamesAre DEF RestTyped
  <2>3. Contents' /\ Len(order') = Len(order)
    BY <1>3, <2>1, ContentsInIInv, TouchEntry
  <2>4. RestTyped' /\ holder' = holder /\ ~Popped /\ ~Popped'
    BY <1>0, <1>3, <2>2 DEF get, RestTyped, LockFree, Popped, Writing
  <2>5. WithinLimits'
    <3>1. PoppedBytes = 0 /\ PoppedItems = 0 /\ PoppedBytes' = 0 /\ PoppedItems' = 0
      BY <2>4 DEF PoppedBytes, PoppedItems
    <3> QED BY <2>1, <2>3, <3>1 DEF IInv, Inv, WithinLimits
  <2>6. FrameConsistent' /\ NeverExhausted'
    BY <1>0, <2>1, <2>2, <2>4 DEF IInv, Inv, FrameConsistent, NeverExhausted,
       Writing, ReadingStats
  <2> QED
    BY <2>1, <2>3, <2>4, <2>5, <2>6 DEF IInv, Inv, Contents, TypeOK, RestTyped
<1>4. CASE delete(k) /\ store[k] # None
  BY <1>0, <1>4, RemovingStep DEF delete, RestTyped
<1>5. CASE delete(k) /\ store[k] = None
  BY <1>0, <1>5, QuietStep DEF delete, RestTyped
<1> QED BY <1>1, <1>2, <1>3, <1>4, <1>5 DEF get, delete

\* The first step of a write: refused, or its key popped and its frame built.
LEMMA StartStep ==
    ASSUME IInv, NEW k \in Keys, NEW v \in Values, NEW t \in Ttls,
           \/ set(k, v, t)
           \/ set_if_absent(k, v, t)
           \/ \E expected \in Values : compare_and_set(k, expected, v, t)
    PROVE  IInv'
<1>0. /\ RestTyped /\ LockFree /\ ~ReadingStats /\ clock \in Nat
      /\ UNCHANGED <<clock, cleaner, stop_event>>
  BY BoundsAssumption DEF IInv, Inv, TypeOK, RestTyped, LockFree, ReadingStats,
     set, set_if_absent, compare_and_set, Call
<1>1. /\ CacheEntry(v, t, clock) \in Entry
      /\ store[k] \in Entry \cup {None}
  BY <1>0, CacheEntryType DEF IInv, Inv, TypeOK
<1>2. ASSUME NEW op \in {"set", "set_if_absent", "compare_and_set"},
             NEW old \in {store[k], None}, holder' = Frame(op, k, v, t, old)
      PROVE  holder' \in WriteFrame /\ holder'.key = k /\ holder'.old = old
  BY <1>1, <1>2 DEF Frame, WriteFrame
<1>3. ASSUME Untouched, UNCHANGED <<counters, holder>> PROVE IInv'
  BY <1>0, <1>3, QuietStep DEF RestTyped
<1>4. ASSUME Count("expired_removals")
      PROVE  /\ counters' \in [CounterNames -> Nat]
             /\ counters'.rejected_capacity = counters.rejected_capacity
  BY <1>0, <1>4, CountEvent, CounterNamesAre DEF RestTyped
<1>5. CASE set(k, v, t)
  <2>1. Pop(k) /\ holder' = Frame("set", k, v, t, store[k]) /\ counters' = counters
    BY <1>5 DEF set
  <2>2. holder' \in WriteFrame /\ holder'.key = k /\ holder'.old = store[k]
    BY <1>2, <2>1
  <2> QED BY <1>0, <2>1, <2>2, StartingStep DEF RestTyped
<1>6. CASE set_if_absent(k, v, t)
  <2>1. CASE store[k] # None /\ ~Expired(k)
    BY <1>3, <1>6, <2>1 DEF set_if_absent, Expired
  <2>2. CASE Expired(k)
    <3>1. /\ store[k] # None /\ _remove_entry(k) /\ Count("expired_removals")
          /\ holder' = Frame("set_if_absent", k, v, t, None)
      BY <1>6, <2>2 DEF set_if_absent, Expired, _remove_expired_entry
    <3>2. holder' \in WriteFrame /\ holder'.key = k /\ holder'.old = None
      BY <1>2, <3>1
    <3> QED BY <1>0, <1>4, <3>1, <3>2, StartingStep DEF Pop, RestTyped
  <2>3. CASE store[k] = None
    <3>1. /\ Untouched /\ counters' = counters
          /\ holder' = Frame("set_if_absent", k, v, t, None)
      BY <1>6, <2>3 DEF set_if_absent, Expired
    <3>2. holder' \in WriteFrame /\ holder'.key = k /\ holder'.old = None
      BY <1>2, <3>1
    <3> QED BY <1>0, <2>3, <3>1, <3>2, StartingStep DEF Pop, RestTyped
  <2> QED BY <2>1, <2>2, <2>3 DEF Expired
<1>7. ASSUME NEW expected \in Values, compare_and_set(k, expected, v, t)
      PROVE  IInv'
  <2>1. CASE store[k] = None
    BY <1>3, <1>7, <2>1 DEF compare_and_set, Expired
  <2>2. CASE Expired(k)
    <3>1. /\ store[k] # None /\ _remove_entry(k) /\ Count("expired_removals")
          /\ holder' = holder
      BY <1>7, <2>2 DEF compare_and_set, Expired, _remove_expired_entry
    <3> QED BY <1>0, <1>4, <3>1, RemovingStep DEF RestTyped
  <2>3. CASE store[k] # None /\ ~Expired(k) /\ store[k].value # expected
    BY <1>3, <1>7, <2>3 DEF compare_and_set
  <2>4. CASE store[k] # None /\ ~Expired(k) /\ store[k].value = expected
    <3>1. /\ _remove_entry(k) /\ counters' = counters
          /\ holder' = Frame("compare_and_set", k, v, t, store[k])
      BY <1>7, <2>4 DEF compare_and_set
    <3>2. holder' \in WriteFrame /\ holder'.key = k /\ holder'.old = store[k]
      BY <1>2, <3>1
    <3> QED BY <1>0, <2>4, <3>1, <3>2, StartingStep DEF Pop, RestTyped
  <2> QED BY <2>1, <2>2, <2>3, <2>4
<1> QED BY <1>5, <1>6, <1>7

\* When no round of eviction is left, there is room: the store is empty, or
\* neither limit is in the way.
LEMMA RoomIsLeft ==
    ASSUME IInv, StoreOrExhausted
    PROVE  ~TooManyBytes /\ ~TooManyItems
<1>1. Writing /\ ~Oversize /\ holder \in WriteFrame
  BY FrameKinds DEF StoreOrExhausted, IInv, Inv, TypeOK
<1>2. size_bytes(holder.entry) \in Nat \ {0}
  BY <1>1, SizePositive DEF WriteFrame
<1>3. CASE order = <<>>
  <2>1. current_memory_bytes = 0 /\ Len(order) = 0
    BY <1>3, ContentsInIInv, EmptyStore
  <2>2. size_bytes(holder.entry) <= max_memory_bytes
    BY <1>1, <1>2, ValueLimit, ModelsAssumption DEF Oversize
  <2> QED BY <1>2, <2>1, <2>2, ModelsAssumption DEF TooManyBytes, TooManyItems
<1>4. CASE order # <<>>
  BY <1>4 DEF StoreOrExhausted
<1> QED BY <1>3, <1>4

\* The later steps of a write.
LEMMA WriteStep ==
    ASSUME IInv, RejectOversize \/ _evict_lru \/ StoreOrExhausted
    PROVE  IInv'
<1>0. /\ RestTyped /\ Writing /\ ~ReadingStats /\ holder \in WriteFrame
      /\ UNCHANGED <<clock, cleaner, stop_event>>
      /\ store[holder.key] = None
  BY FrameKinds DEF IInv, Inv, TypeOK, RestTyped, FrameConsistent,
     RejectOversize, _evict_lru, StoreOrExhausted, FinishWrite
<1>1. holder.entry \in Entry /\ size_bytes(holder.entry) \in Nat \ {0}
  BY <1>0, SizePositive DEF WriteFrame
<1>2. CASE RejectOversize
  <2>1. RestoreOld /\ Count("rejected_oversize") /\ holder' = None
    BY <1>2 DEF RejectOversize, FinishWrite
  <2>2. /\ counters' \in [CounterNames -> Nat]
        /\ counters'.rejected_capacity = counters.rejected_capacity
    BY <1>0, <2>1, CountEvent, CounterNamesAre DEF RestTyped
  <2> QED BY <1>0, <2>1, <2>2, RestoringStep DEF RestTyped
<1>3. CASE _evict_lru
  <2>1. /\ order # <<>> /\ _remove_entry(Head(order)) /\ holder' = holder
        /\ counters' = [counters EXCEPT !.evictions = @ + 1, !.lru_evictions = @ + 1]
    BY <1>3 DEF _evict_lru
  <2>2. /\ counters' \in [CounterNames -> Nat]
        /\ counters'.rejected_capacity = counters.rejected_capacity
    BY <1>0, <2>1, CountTwoEvents, CounterNamesAre DEF RestTyped
  <2>3. Head(order) \in Keys /\ store[Head(order)] # None
    BY <2>1, HeadIsPresent
  <2> QED BY <1>0, <2>1, <2>2, <2>3, RemovingStep DEF RestTyped
<1>4. CASE StoreOrExhausted
  <2>1. ~TooManyBytes /\ ~TooManyItems
    BY <1>4, RoomIsLeft
  <2>2. Put(holder.key, holder.entry) /\ counters' = counters /\ holder' = None
    BY <1>4, <2>1 DEF StoreOrExhausted, FinishWrite
  <2>3. current_memory_bytes + size_bytes(holder.entry) <= max_memory_bytes
    BY <1>1, <2>1, ModelsAssumption DEF TooManyBytes, IInv, Inv, TypeOK
  <2>4. Len(order) < max_items
    <3>1. CASE holder.old = None
      BY <2>1, <3>1, ModelsAssumption DEF TooManyItems, IInv, Inv, TypeOK
    <3>2. CASE holder.old # None
      <4>1. PoppedItems = 1
        BY <1>0, <3>2 DEF PoppedItems, Popped
      <4> QED BY <4>1, ModelsAssumption DEF IInv, Inv, TypeOK, WithinLimits
    <3> QED BY <3>1, <3>2
  <2> QED BY <1>0, <1>1, <2>2, <2>3, <2>4, PuttingStep DEF RestTyped
<1> QED BY <1>2, <1>3, <1>4

\* stats() and clear().
LEMMA StatsStep ==
    ASSUME IInv, stats \/ StatsReturn \/ \E k \in Keys : StatsRemoveExpired(k)
    PROVE  IInv'
<1>0. RestTyped
  BY DEF IInv, Inv, TypeOK, RestTyped
<1>1. CASE stats
  <2>1. /\ Untouched /\ counters' = counters /\ LockFree
        /\ holder' = [op |-> "stats", expired |-> {k \in Keys : Expired(k)}]
        /\ UNCHANGED <<clock, cleaner, stop_event>>
    BY <1>1 DEF stats, Call
  <2>2. holder' \in StatsFrame /\ holder'.op = "stats"
        /\ holder'.expired = {k \in Keys : Expired(k)}
    BY <2>1 DEF StatsFrame
  <2>3. ~Popped /\ ~Popped' /\ ~Writing'
    BY <2>1, <2>2 DEF LockFree, Popped, Writing
  <2>4. Contents' /\ RestTyped'
    BY <1>0, <2>1, <2>2, ContentsInIInv, ContentsUntouched DEF RestTyped
  <2>5. /\ PoppedBytes' = PoppedBytes /\ PoppedItems' = PoppedItems
    BY <2>3 DEF PoppedBytes, PoppedItems
  <2>6. WithinLimits'
    BY <2>1, <2>5 DEF IInv, Inv, WithinLimits, Untouched
  <2>7. FrameConsistent' /\ NeverExhausted'
    BY <2>1, <2>2, <2>3 DEF IInv, Inv, FrameConsistent, NeverExhausted, Untouched,
       Expired, ReadingStats
  <2> QED
    BY <2>1, <2>4, <2>6, <2>7 DEF IInv, Inv, Contents, Untouched, TypeOK, RestTyped
<1>2. CASE StatsReturn
  BY <1>0, <1>2, QuietStep DEF StatsReturn, RestTyped
<1>3. ASSUME NEW k \in Keys, StatsRemoveExpired(k) PROVE IInv'
  <2>1. /\ ReadingStats /\ k \in holder.expired
        /\ _remove_entry(k) /\ Count("expired_removals")
        /\ holder' = [holder EXCEPT !.expired = @ \ {k}]
        /\ UNCHANGED <<clock, cleaner, stop_event>>
    BY <1>3 DEF StatsRemoveExpired, _remove_expired_entry
  <2>2. store[k] # None /\ holder \in StatsFrame
    BY <1>0, <2>1, FrameKinds DEF IInv, Inv, FrameConsistent, Expired, RestTyped
  <2>3. holder' \in StatsFrame
    BY <2>1, <2>2 DEF StatsFrame
  <2>4. /\ counters' \in [CounterNames -> Nat]
        /\ counters'.rejected_capacity = counters.rejected_capacity
    BY <1>0, <2>1, CountEvent, CounterNamesAre DEF RestTyped
  <2> QED BY <1>0, <2>1, <2>2, <2>3, <2>4, RemovingStep DEF RestTyped
<1> QED BY <1>1, <1>2, <1>3

\* clear().
LEMMA ClearStep == IInv /\ clear => IInv'
<1> SUFFICES ASSUME IInv, clear PROVE IInv'
  OBVIOUS
<1>1. /\ store' = [k \in Keys |-> None] /\ order' = <<>>
      /\ current_memory_bytes' = 0 /\ counters' = NoCounts
      /\ holder' = None /\ UNCHANGED <<clock, cleaner, stop_event>>
  BY DEF clear, Call, LockFree
<1>2. BytesOf(store') = {} /\ Present' = {} /\ ToSet(order') = {}
  BY <1>1 DEF BytesOf, Present, ToSet
<1>3. BytesOf(store)' = {}
  BY <1>1 DEF BytesOf
<1>4. IsFiniteSet(BytesOf(store))' /\ AccountingExact'
  BY <1>1, <1>2, <1>3, FS_EmptySet DEF AccountingExact, IsInjective
<1>5. ~Popped' /\ ~Writing' /\ ~ReadingStats'
  BY <1>1 DEF Popped, Writing, ReadingStats
<1>6. PoppedBytes' = 0 /\ PoppedItems' = 0
  BY <1>5 DEF PoppedBytes, PoppedItems
<1>7. WithinLimits' /\ FrameConsistent' /\ NeverExhausted'
  BY <1>1, <1>5, <1>6, ModelsAssumption
  DEF WithinLimits, FrameConsistent, NeverExhausted, NoCounts
<1>8. counters' \in [CounterNames -> Nat]
  BY <1>1 DEF NoCounts, CounterNames
<1>9. TypeOK'
  BY <1>1, <1>8 DEF IInv, Inv, TypeOK
<1> QED BY <1>4, <1>7, <1>9 DEF IInv, Inv

\* The cleaner thread, stop() and the clock.
LEMMA BackgroundStep ==
    ASSUME IInv,
           \/ CleanerSnapshot \/ CleanerCheck \/ CleanerExit
           \/ \E k \in Keys : _remove_if_expired(k)
           \/ stop \/ Tick
    PROVE  IInv'
<1>0. RestTyped /\ store \in [Keys -> Entry \cup {None}]
  BY DEF IInv, Inv, TypeOK, RestTyped
<1>1. Waiting \in Cleaner
  BY DEF Waiting, NoSnapshot, Cleaner
<1>2. CASE CleanerSnapshot
  <2>1. cleaner' \in Cleaner
    BY <1>0, <1>2 DEF CleanerSnapshot, RestTyped, Cleaner
  <2> QED BY <1>0, <1>2, <2>1, QuietStep DEF CleanerSnapshot, Client, RestTyped
<1>3. CASE CleanerCheck
  <2>1. cleaner' \in Cleaner
    BY <1>1, <1>3 DEF CleanerCheck, Cleaner, NoSnapshot
  <2> QED BY <1>0, <1>3, <2>1, QuietStep DEF CleanerCheck, Client, RestTyped
<1>4. CASE CleanerExit
  <2>1. cleaner' \in Cleaner
    BY <1>0, <1>4 DEF CleanerExit, RestTyped, Cleaner
  <2> QED BY <1>0, <1>4, <2>1, QuietStep DEF CleanerExit, Client, RestTyped
<1>5. ASSUME NEW k \in Keys, _remove_if_expired(k) PROVE IInv'
  <2>1. cleaner' \in Cleaner /\ LockFree /\ UNCHANGED <<clock, holder, stop_event>>
    <3>1. cleaner' = CleanerNext(k) /\ LockFree /\ UNCHANGED <<clock, holder, stop_event>>
      BY <1>5 DEF _remove_if_expired, Client
    <3>2. CleanerNext(k) \in Cleaner
      BY <1>0, <1>1 DEF CleanerNext, RestTyped, Cleaner
    <3> QED BY <3>1, <3>2
  <2>2. CASE Expired(k)
    <3>1. _remove_entry(k) /\ Count("expired_removals") /\ store[k] # None
      BY <1>5, <2>2 DEF _remove_if_expired, _remove_expired_entry, Expired
    <3>2. /\ counters' \in [CounterNames -> Nat]
          /\ counters'.rejected_capacity = counters.rejected_capacity
      BY <1>0, <3>1, CountEvent, CounterNamesAre DEF RestTyped
    <3>3. ~ReadingStats
      BY <2>1 DEF LockFree, ReadingStats
    <3> QED BY <1>0, <2>1, <3>1, <3>2, <3>3, RemovingStep DEF RestTyped
  <2>3. CASE ~Expired(k)
    <3>1. Untouched /\ counters' = counters
      BY <1>5, <2>3 DEF _remove_if_expired
    <3> QED BY <1>0, <2>1, <3>1, QuietStep DEF RestTyped
  <2> QED BY <2>2, <2>3
<1>6. CASE stop
  BY <1>0, <1>6, QuietStep DEF stop, RestTyped
<1>7. CASE Tick
  <2>1. clock' \in 0..MaxClock
    BY <1>0, <1>7, BoundsAssumption DEF Tick, RestTyped
  <2> QED BY <1>0, <1>7, <2>1, QuietStep DEF Tick, RestTyped
<1> QED BY <1>2, <1>3, <1>4, <1>5, <1>6, <1>7

\* Every step keeps the inductive invariant.
LEMMA NextIInv == IInv /\ [Next]_vars => IInv'
<1> SUFFICES ASSUME IInv, [Next]_vars PROVE IInv'
  OBVIOUS
<1>1. CASE UNCHANGED vars
  BY <1>1, QuietStep DEF vars, IInv, Inv, TypeOK, RestTyped, Untouched
<1>2. CASE Next
  BY <1>2, ReadStep, StartStep, WriteStep, StatsStep, ClearStep, BackgroundStep
  DEF Next
<1> QED BY <1>1, <1>2

-----------------------------------------------------------------------------
(* What happens to the entry of one key in one step.                       *)

\* While nothing is popped, what a caller may rely on is what is stored.
LEMMA HeldIsStored == \A k : ~Popped => Held(k) = store[k]
BY DEF Held

\* A step that removes the entry of another key, or an expired one, loses no
\* live entry, and neither does one that leaves the store alone.
LEMMA LiveEntryLemma == IInv /\ [Next]_vars => LiveEntryStep
<1> SUFFICES ASSUME IInv, [Next]_vars, NEW k \in Keys,
                    Held(k) # None, ~is_expired(Held(k), clock), Held(k)' # Held(k)
             PROVE  \/ delete(k) \/ clear
                    \/ Writing /\ holder.key = k /\ Held(k)' = holder.entry
                    \/ Writing /\ k = Head(order) /\ Held(k)' = None
  BY DEF LiveEntryStep
<1>0. /\ store \in [Keys -> Entry \cup {None}]
      /\ holder \in WriteFrame \cup StatsFrame \cup {None}
      /\ Writing => /\ ~ReadingStats /\ holder \in WriteFrame
                    /\ store[holder.key] = None
      /\ LockFree \/ ReadingStats => ~Popped
  BY FrameKinds DEF IInv, Inv, TypeOK, FrameConsistent, Popped
<1>1. CASE UNCHANGED vars \/ stop \/ Tick \/ CleanerSnapshot \/ CleanerCheck
           \/ CleanerExit \/ StatsReturn \/ stats
  <2>1. CASE UNCHANGED vars \/ stop \/ Tick \/ CleanerSnapshot \/ CleanerCheck
             \/ CleanerExit
    <3>1. store' = store /\ holder' = holder
      BY <2>1 DEF vars, stop, Tick, CleanerSnapshot, CleanerCheck, CleanerExit,
         Untouched, Client
    <3> QED BY <3>1 DEF Held, Popped, Writing
  <2>2. CASE StatsReturn \/ stats
    <3>1. store' = store /\ ~Popped
      BY <1>0, <2>2 DEF StatsReturn, stats, Call, Untouched
    <3>2. ~Popped'
      BY <2>2 DEF StatsReturn, stats, Popped, Writing
    <3> QED BY <3>1, <3>2 DEF Held
  <2> QED BY <1>1, <2>1, <2>2
<1>2. ASSUME NEW j \in Keys, get(j) PROVE FALSE
  <2>1. ~Popped /\ holder' = holder
    BY <1>0, <1>2 DEF get, Call
  <2>2. ~Popped' /\ Held(k) = store[k] /\ Held(k)' = store'[k]
    BY <2>1 DEF Popped, Writing, Held
  <2>3. store' = store \/ (Expired(j) /\ store' = [store EXCEPT ![j] = None])
    BY <1>2 DEF get, Untouched, _remove_entry
  <2> QED BY <1>0, <2>2, <2>3 DEF Expired
<1>3. ASSUME NEW j \in Keys, delete(j) PROVE delete(k)
  <2>1. ~Popped /\ holder' = holder
    BY <1>0, <1>3 DEF delete, Call
  <2>2. ~Popped' /\ Held(k) = store[k] /\ Held(k)' = store'[k]
    BY <2>1 DEF Popped, Writing, Held
  <2>3. store' = store \/ store' = [store EXCEPT ![j] = None]
    BY <1>3 DEF delete, Untouched, _remove_entry
  <2> QED BY <1>0, <1>3, <2>2, <2>3
<1>4. ASSUME NEW j \in Keys, NEW v \in Values, NEW t \in Ttls,
             \/ set(j, v, t)
             \/ set_if_absent(j, v, t)
             \/ \E expected \in Values : compare_and_set(j, expected, v, t)
      PROVE  FALSE
  <2>1. LockFree /\ ~Popped /\ Held(k) = store[k]
    BY <1>0, <1>4 DEF set, set_if_absent, compare_and_set, Call, Held
  <2>2. CASE holder' = holder /\ (store' = store \/ Expired(j))
    <3>1. ~Popped' /\ Held(k)' = store'[k]
      BY <2>1, <2>2 DEF Popped, Writing, Held
    <3>2. store' = store \/ store' = [store EXCEPT ![j] = None]
      BY <1>4, <2>2 DEF set, set_if_absent, compare_and_set, Untouched, Pop,
         _remove_entry, _remove_expired_entry
    <3> QED BY <1>0, <2>1, <2>2, <3>1, <3>2 DEF Expired
  <2>3. CASE \E op \in {"set", "set_if_absent", "compare_and_set"} :
               /\ holder' = Frame(op, j, v, t, store[j])
               /\ Pop(j)
    <3>1. store' = store \/ store' = [store EXCEPT ![j] = None]
      BY <2>3 DEF Pop, Untouched, _remove_entry
    <3>2. holder'.key = j /\ holder'.old = store[j] /\ holder'.op # "stats"
      BY <2>3 DEF Frame
    <3>3. holder' # None
      <4>1. CacheEntry(v, t, clock) \in Entry
        BY CacheEntryType, BoundsAssumption DEF IInv, Inv, TypeOK
      <4>2. holder' \in WriteFrame
        BY <1>0, <2>3, <4>1 DEF Frame, WriteFrame
      <4> QED BY <4>2, NoneIsNoFrame
    <3>4. CASE k = j
      <4>1. Popped' /\ Held(k)' = store[j]
        BY <2>1, <3>2, <3>3, <3>4 DEF Popped, Writing, Held
      <4> QED BY <2>1, <3>4, <4>1
    <3>5. CASE k # j
      <4>1. Held(k)' = store'[k]
        BY <3>2, <3>5 DEF Held
      <4> QED BY <1>0, <2>1, <3>1, <3>5, <4>1
    <3> QED BY <3>4, <3>5
  <2>4. CASE /\ holder' = Frame("set_if_absent", j, v, t, None)
             /\ store[j] = None \/ Expired(j)
             /\ store' = store \/ store' = [store EXCEPT ![j] = None]
    <3>1. ~Popped'
      BY <2>4 DEF Frame, Popped
    <3> QED BY <1>0, <2>1, <2>4, <3>1 DEF Held, Expired
  <2>5. CASE set(j, v, t)
    BY <2>3, <2>5 DEF set
  <2>6. CASE set_if_absent(j, v, t)
    <3>1. CASE Expired(j)
      BY <2>4, <2>6, <3>1 DEF set_if_absent, _remove_expired_entry, _remove_entry, Expired
    <3>2. CASE store[j] = None
      BY <2>4, <2>6, <3>2 DEF set_if_absent, Untouched, Expired
    <3>3. CASE store[j] # None /\ ~Expired(j)
      BY <2>2, <2>6, <3>3 DEF set_if_absent, Untouched
    <3> QED BY <3>1, <3>2, <3>3
  <2>7. ASSUME NEW expected \in Values, compare_and_set(j, expected, v, t)
        PROVE  FALSE
    <3>1. CASE store[j] # None /\ ~Expired(j) /\ store[j].value = expected
      BY <2>3, <2>7, <3>1 DEF compare_and_set, Pop
    <3>2. CASE ~(store[j] # None /\ ~Expired(j) /\ store[j].value = expected)
      BY <2>2, <2>7, <3>2 DEF compare_and_set, Untouched, Expired
    <3> QED BY <3>1, <3>2
  <2> QED BY <1>4, <2>5, <2>6, <2>7
<1>5. CASE RejectOversize \/ StoreOrExhausted
  <2>1. /\ Writing /\ holder' = None /\ ~Popped'
        /\ holder \in WriteFrame /\ store[holder.key] = None
    BY <1>0, <1>5 DEF RejectOversize, StoreOrExhausted, FinishWrite, Popped, Writing
  <2>2. Held(k)' = store'[k]
    BY <2>1 DEF Held
  <2>3. CASE RestoreOld
    <3>1. CASE holder.old = None
      BY <2>2, <2>3, <3>1 DEF RestoreOld, Untouched, Held, Popped
    <3>2. CASE holder.old # None
      <4>1. store' = [store EXCEPT ![holder.key] = holder.old] /\ Popped
        BY <2>1, <2>3, <3>2 DEF RestoreOld, Put, Popped
      <4> QED BY <1>0, <2>1, <2>2, <4>1 DEF Held, WriteFrame
    <3> QED BY <3>1, <3>2
  <2>4. CASE Put(holder.key, holder.entry)
    <3>1. store' = [store EXCEPT ![holder.key] = holder.entry]
      BY <2>4 DEF Put
    <3>2. CASE k = holder.key
      BY <1>0, <2>1, <2>2, <3>1, <3>2
    <3>3. CASE k # holder.key
      BY <1>0, <2>2, <3>1, <3>3 DEF Held
    <3> QED BY <3>2, <3>3
  <2> QED BY <1>5, <2>3, <2>4 DEF RejectOversize, StoreOrExhausted
<1>6. CASE _evict_lru
  <2>1. /\ Writing /\ holder' = holder /\ order # <<>>
        /\ store' = [store EXCEPT ![Head(order)] = None]
    BY <1>6 DEF _evict_lru, _remove_entry
  <2>2. Popped' = Popped
    BY <2>1 DEF Popped, Writing
  <2>3. CASE Popped /\ holder.key = k
    BY <2>1, <2>2, <2>3 DEF Held
  <2>4. CASE ~(Popped /\ holder.key = k)
    <3>1. Held(k) = store[k] /\ Held(k)' = store'[k]
      BY <2>1, <2>2, <2>4 DEF Held
    <3> QED BY <1>0, <2>1, <3>1
  <2> QED BY <2>3, <2>4
<1>7. ASSUME NEW j \in Keys, StatsRemoveExpired(j) \/ _remove_if_expired(j)
      PROVE  FALSE
  <2>1. ~Popped /\ ~Popped'
    <3>1. CASE StatsRemoveExpired(j)
      <4>1. ReadingStats /\ holder \in StatsFrame /\ ~Popped
        BY <1>0, <3>1, FrameKinds DEF StatsRemoveExpired
      <4>2. holder'.op = "stats"
        BY <3>1, <4>1 DEF StatsRemoveExpired, StatsFrame
      <4> QED BY <4>1, <4>2 DEF Popped, Writing
    <3>2. CASE _remove_if_expired(j)
      BY <1>0, <3>2 DEF _remove_if_expired, Client, Popped, Writing
    <3> QED BY <1>7, <3>1, <3>2
  <2>2. store' = store \/ (Expired(j) /\ store' = [store EXCEPT ![j] = None])
    <3>1. CASE StatsRemoveExpired(j)
      BY <3>1 DEF StatsRemoveExpired, _remove_expired_entry, _remove_entry,
         IInv, Inv, FrameConsistent
    <3>2. CASE _remove_if_expired(j)
      BY <3>2 DEF _remove_if_expired, _remove_expired_entry, _remove_entry, Untouched
    <3> QED BY <1>7, <3>1, <3>2
  <2>3. Held(k) = store[k] /\ Held(k)' = store'[k]
    BY <2>1 DEF Held
  <2> QED BY <1>0, <2>2, <2>3 DEF Expired
<1> QED
  BY <1>1, <1>2, <1>3, <1>4, <1>5, <1>6, <1>7 DEF Next

-----------------------------------------------------------------------------
(* What leaves the store unasked.                                          *)

\* The keys whose callers find their entry gone after the step.
Lost == {k \in Keys : Held(k) # None /\ Held(k)' = None}

\* Every one of them is counted, as an eviction or as an expired removal.
LossStep ==
    Cardinality(Lost) =
      (counters.evictions' - counters.evictions)
        + (counters.expired_removals' - counters.expired_removals)

\* Nothing leaves, and nothing is counted.
LEMMA NothingLost ==
    ASSUME IInv, \A k \in Keys : Held(k) # None => Held(k)' # None,
           counters'.evictions = counters.evictions,
           counters'.expired_removals = counters.expired_removals
    PROVE  LossStep
<1>1. Lost = {}
  BY DEF Lost
<1>2. counters.evictions \in Nat /\ counters.expired_removals \in Nat
  BY CounterNamesAre DEF IInv, Inv, TypeOK
<1>3. Cardinality(Lost) = 0
  BY <1>1, FS_EmptySet
<1> QED BY <1>2, <1>3 DEF LossStep

\* One entry leaves, and is counted under one name.
LEMMA OneLost ==
    ASSUME IInv, NEW j \in Keys, Held(j) # None, Held(j)' = None,
           \A k \in Keys \ {j} : Held(k)' = Held(k),
           \/ /\ counters'.evictions = counters.evictions + 1
              /\ counters'.expired_removals = counters.expired_removals
           \/ /\ counters'.evictions = counters.evictions
              /\ counters'.expired_removals = counters.expired_removals + 1
    PROVE  LossStep
<1>1. Lost = {j}
  BY DEF Lost
<1>2. counters.evictions \in Nat /\ counters.expired_removals \in Nat
  BY CounterNamesAre DEF IInv, Inv, TypeOK
<1>3. Cardinality(Lost) = 1
  BY <1>1, FS_Singleton
<1> QED BY <1>2, <1>3 DEF LossStep

\* A step that is neither a delete nor a clear() counts what it takes.
LEMMA LossLemma ==
    ASSUME IInv, [Next]_vars, ~clear, \A k \in Keys : ~delete(k)
    PROVE  LossStep
<1>0. /\ store \in [Keys -> Entry \cup {None}]
      /\ holder \in WriteFrame \cup StatsFrame \cup {None}
      /\ counters \in [CounterNames -> Nat] /\ clock \in Nat
      /\ Writing => /\ ~ReadingStats /\ holder \in WriteFrame
                    /\ store[holder.key] = None
      /\ LockFree \/ ReadingStats => ~Popped
  BY FrameKinds, BoundsAssumption DEF IInv, Inv, TypeOK, FrameConsistent, Popped
<1>1. (~Popped => \A k \in Keys : Held(k) = store[k])
      /\ (~Popped' => \A k \in Keys : Held(k)' = store'[k])
  BY DEF Held
\* What keeps the entries and the two counters.
<1>2. ASSUME store' = store, holder' = holder \/ (~Popped /\ ~Popped'),
             counters'.evictions = counters.evictions,
             counters'.expired_removals = counters.expired_removals
      PROVE  LossStep
  <2>1. \A k \in Keys : Held(k)' = Held(k)
    BY <1>1, <1>2 DEF Held, Popped, Writing
  <2> QED BY <1>2, <2>1, NothingLost
\* The removal of one expired entry.
<1>3. ASSUME NEW j \in Keys, store[j] # None, store' = [store EXCEPT ![j] = None],
             ~Popped, ~Popped',
             counters'.evictions = counters.evictions,
             counters'.expired_removals = counters.expired_removals + 1
      PROVE  LossStep
  <2>1. Held(j) # None /\ Held(j)' = None /\ \A k \in Keys \ {j} : Held(k)' = Held(k)
    BY <1>0, <1>1, <1>3
  <2> QED BY <1>3, <2>1, OneLost
\* The removal of an entry that has expired, and of none otherwise.
<1>4. ASSUME NEW j \in Keys, ~Popped, ~Popped',
             \/ Expired(j) /\ _remove_expired_entry(j)
             \/ store' = store /\ counters' = counters
      PROVE  LossStep
  <2>1. CASE Expired(j) /\ _remove_expired_entry(j)
    <3>1. /\ store[j] # None /\ store' = [store EXCEPT ![j] = None]
          /\ counters' = [counters EXCEPT !["expired_removals"] = @ + 1]
      BY <2>1 DEF Expired, _remove_expired_entry, _remove_entry, Count
    <3>2. /\ counters'.evictions = counters.evictions
          /\ counters'.expired_removals = counters.expired_removals + 1
      BY <1>0, <3>1, CounterNamesAre
    <3> QED BY <1>3, <1>4, <3>1, <3>2
  <2>2. CASE store' = store /\ counters' = counters
    BY <1>2, <1>4, <2>2
  <2> QED BY <1>4, <2>1, <2>2
<1>5. CASE \/ UNCHANGED vars \/ stop \/ Tick
           \/ CleanerSnapshot \/ CleanerCheck \/ CleanerExit
  <2>1. store' = store /\ holder' = holder /\ counters' = counters
    BY <1>5 DEF vars, Untouched, stop, Tick, CleanerSnapshot, CleanerCheck,
       CleanerExit, Client
  <2> QED BY <1>2, <2>1
<1>6. CASE stats \/ StatsReturn
  <2>1. store' = store /\ ~Popped /\ counters' = counters
    BY <1>0, <1>6 DEF stats, StatsReturn, Call, Untouched
  <2>2. ~Popped'
    BY <1>6 DEF stats, StatsReturn, Popped, Writing
  <2> QED BY <1>2, <2>1, <2>2
<1>7. ASSUME NEW j \in Keys, get(j) PROVE LossStep
  <2>1. ~Popped /\ ~Popped'
    BY <1>0, <1>7 DEF get, Call, LockFree, Popped, Writing
  <2>2. CASE store[j] # None /\ ~Expired(j)
    <3>1. store' = store /\ Count("hits")
      BY <1>7, <2>2 DEF get
    <3>2. /\ counters'.evictions = counters.evictions
          /\ counters'.expired_removals = counters.expired_removals
      BY <1>0, <3>1, CounterNamesAre DEF Count
    <3> QED BY <1>2, <2>1, <3>1, <3>2
  <2>3. CASE Expired(j)
    <3>1. /\ store[j] # None /\ store' = [store EXCEPT ![j] = None]
          /\ counters' = [counters EXCEPT !.misses = @ + 1, !.expired_removals = @ + 1]
      BY <1>7, <2>3 DEF get, Expired, _remove_entry
    <3>2. /\ counters'.evictions = counters.evictions
          /\ counters'.expired_removals = counters.expired_removals + 1
      BY <1>0, <3>1, CounterNamesAre
    <3> QED BY <1>3, <2>1, <3>1, <3>2
  <2>4. CASE store[j] = None
    <3>1. store' = store /\ Count("misses")
      BY <1>7, <2>4 DEF get, Expired, Untouched
    <3>2. /\ counters'.evictions = counters.evictions
          /\ counters'.expired_removals = counters.expired_removals
      BY <1>0, <3>1, CounterNamesAre DEF Count
    <3> QED BY <1>2, <2>1, <3>1, <3>2
  <2> QED BY <2>2, <2>3, <2>4
<1>8. ASSUME NEW j \in Keys, NEW v \in Values, NEW t \in Ttls,
             \/ set(j, v, t)
             \/ set_if_absent(j, v, t)
             \/ \E expected \in Values : compare_and_set(j, expected, v, t)
      PROVE  LossStep
  <2>1. holder = None /\ ~Popped
    BY <1>0, <1>8 DEF set, set_if_absent, compare_and_set, Call, LockFree
  \* The call is refused, and may have removed an expired entry.
  <2>2. CASE /\ holder' = holder
             /\ \/ Expired(j) /\ _remove_expired_entry(j)
                \/ store' = store /\ counters' = counters
    <3>1. ~Popped'
      BY <2>1, <2>2 DEF Popped, Writing
    <3> QED BY <1>4, <2>1, <2>2, <3>1
  \* Whatever entry there was is in the frame.
  <2>3. ASSUME NEW op \in {"set", "set_if_absent", "compare_and_set"},
               holder' = Frame(op, j, v, t, store[j]), counters' = counters, Pop(j)
        PROVE  LossStep
    <3>1. store' = store \/ store' = [store EXCEPT ![j] = None]
      BY <2>3 DEF Pop, Untouched, _remove_entry
    <3>2. holder'.key = j /\ holder'.old = store[j] /\ holder'.op # "stats"
      BY <2>3 DEF Frame
    <3>3. holder' # None
      <4>1. CacheEntry(v, t, clock) \in Entry
        BY <1>0, CacheEntryType
      <4>2. holder' \in WriteFrame
        BY <1>0, <2>3, <4>1 DEF Frame, WriteFrame
      <4> QED BY <4>2, NoneIsNoFrame
    <3>4. ASSUME NEW k \in Keys, Held(k) # None PROVE Held(k)' # None
      <4>1. store[k] # None
        BY <1>1, <2>1, <3>4
      <4>2. CASE k = j
        BY <3>2, <3>3, <4>1, <4>2 DEF Popped, Writing, Held
      <4>3. CASE k # j
        BY <1>0, <3>1, <3>2, <4>1, <4>3 DEF Held
      <4> QED BY <4>2, <4>3
    <3> QED BY <2>3, <3>4, NothingLost
  \* An expired entry, if any, is gone, and none is in the frame.
  <2>4. CASE /\ holder' = Frame("set_if_absent", j, v, t, None)
             /\ \/ Expired(j) /\ _remove_expired_entry(j)
                \/ store' = store /\ counters' = counters
    <3>1. ~Popped'
      BY <2>4 DEF Frame, Popped
    <3> QED BY <1>4, <2>1, <2>4, <3>1
  <2>5. CASE set(j, v, t)
    BY <2>3, <2>5 DEF set
  <2>6. CASE set_if_absent(j, v, t)
    <3>1. CASE store[j] # None /\ ~Expired(j)
      BY <2>2, <2>6, <3>1 DEF set_if_absent, Untouched
    <3>2. CASE store[j] = None \/ Expired(j)
      BY <2>4, <2>6, <3>2 DEF set_if_absent, Untouched, Expired
    <3> QED BY <3>1, <3>2
  <2>7. ASSUME NEW expected \in Values, compare_and_set(j, expected, v, t)
        PROVE  LossStep
    <3>1. CASE store[j] # None /\ ~Expired(j) /\ store[j].value = expected
      BY <2>3, <2>7, <3>1 DEF compare_and_set, Pop
    <3>2. CASE ~(store[j] # None /\ ~Expired(j) /\ store[j].value = expected)
      BY <2>2, <2>7, <3>2 DEF compare_and_set, Untouched, Expired
    <3> QED BY <3>1, <3>2
  <2> QED BY <1>8, <2>5, <2>6, <2>7
<1>9. CASE RejectOversize \/ StoreOrExhausted
  <2>1. /\ Writing /\ holder' = None /\ ~Popped'
        /\ holder \in WriteFrame /\ store[holder.key] = None
    BY <1>0, <1>9 DEF RejectOversize, StoreOrExhausted, FinishWrite, Popped, Writing
  <2>2. /\ counters'.evictions = counters.evictions
        /\ counters'.expired_removals = counters.expired_removals
    <3>1. counters' = counters \/ Count("rejected_oversize") \/ Count("rejected_capacity")
      BY <1>9 DEF RejectOversize, StoreOrExhausted
    <3> QED BY <1>0, <3>1, CounterNamesAre DEF Count
  <2>3. CASE RestoreOld /\ holder.old = None
    BY <1>2, <2>1, <2>2, <2>3 DEF RestoreOld, Untouched, Popped
  <2>4. ASSUME NEW e \in Entry, store' = [store EXCEPT ![holder.key] = e]
        PROVE  LossStep
    <3>1. holder.key \in Keys /\ e # None
      BY <2>1, NoneIsNoEntry DEF WriteFrame
    <3>2. ASSUME NEW k \in Keys, Held(k) # None PROVE store'[k] # None
      BY <1>0, <2>4, <3>1, <3>2 DEF Held
    <3> QED BY <1>1, <2>1, <2>2, <3>2, NothingLost
  <2>5. CASE RestoreOld /\ holder.old # None
    <3>1. holder.old \in Entry /\ store' = [store EXCEPT ![holder.key] = holder.old]
      BY <2>1, <2>5 DEF RestoreOld, Put, WriteFrame
    <3> QED BY <2>4, <3>1
  <2>6. CASE Put(holder.key, holder.entry)
    <3>1. holder.entry \in Entry /\ store' = [store EXCEPT ![holder.key] = holder.entry]
      BY <2>1, <2>6 DEF Put, WriteFrame
    <3> QED BY <2>4, <3>1
  <2> QED BY <1>9, <2>3, <2>5, <2>6 DEF RejectOversize, StoreOrExhausted
<1>10. CASE _evict_lru
  <2>1. /\ Writing /\ holder' = holder /\ order # <<>>
        /\ store' = [store EXCEPT ![Head(order)] = None]
        /\ counters' = [counters EXCEPT !.evictions = @ + 1, !.lru_evictions = @ + 1]
    BY <1>10 DEF _evict_lru, _remove_entry
  <2>2. /\ counters'.evictions = counters.evictions + 1
        /\ counters'.expired_removals = counters.expired_removals
    BY <1>0, <2>1, CounterNamesAre
  <2>3. PICK j \in Keys : j = Head(order) /\ store[j] # None
    BY <2>1, HeadIsPresent
  <2>4. Popped' = Popped /\ j # holder.key
    BY <1>0, <2>1, <2>3 DEF Popped, Writing
  <2>5. Held(j) # None /\ Held(j)' = None /\ \A k \in Keys \ {j} : Held(k)' = Held(k)
    BY <1>0, <2>1, <2>3, <2>4 DEF Held
  <2> QED BY <2>2, <2>5, OneLost
<1>11. ASSUME NEW j \in Keys, StatsRemoveExpired(j) PROVE LossStep
  <2>1. /\ ReadingStats /\ holder \in StatsFrame /\ ~Popped /\ Expired(j)
        /\ _remove_expired_entry(j)
    BY <1>0, <1>11, FrameKinds DEF StatsRemoveExpired, IInv, Inv, FrameConsistent
  <2>2. holder'.op = "stats"
    BY <1>11, <2>1 DEF StatsRemoveExpired, StatsFrame
  <2>3. ~Popped'
    BY <2>2 DEF Popped, Writing
  <2> QED BY <1>4, <2>1, <2>3
<1>12. ASSUME NEW j \in Keys, _remove_if_expired(j) PROVE LossStep
  <2>1. ~Popped /\ ~Popped'
    BY <1>0, <1>12 DEF _remove_if_expired, Client, LockFree, Popped, Writing
  <2> QED BY <1>4, <1>12, <2>1 DEF _remove_if_expired, Untouched
<1> QED
  BY <1>5, <1>6, <1>7, <1>8, <1>9, <1>10, <1>11, <1>12 DEF Next

-----------------------------------------------------------------------------
(* The key that was used last.                                             *)

\* What the last call that returned did with its key was a use of its entry.
Used ==
    /\ reply.op \in {"get", "set", "set_if_absent", "compare_and_set"}
    /\ reply.result \in Values \cup {"OK", "STORED", "VALUE_TOO_LARGE"}

\* That entry, if it is still there, is the last that would be evicted: every call
\* that uses one moves it to the end, and no other step puts a key behind it.
UsedLast ==
    Used => /\ reply.key \in Keys
            /\ store[reply.key] # None => order[Len(order)] = reply.key

\* A key with an entry is in the order.
LEMMA PresentInOrder ==
    ASSUME IInv, NEW k \in Keys, store[k] # None
    PROVE  order # <<>> /\ order \in Seq(Keys) /\ IsInjective(order)
BY DEF IInv, Inv, TypeOK, AccountingExact, Present, ToSet

\* A step that removes an entry, or none, and uses none.
LEMMA UnusedStep ==
    ASSUME IInv, UsedLast, reply' = reply \/ ~Used',
           (store' = store /\ order' = order) \/ \E k \in Keys : _remove_entry(k)
    PROVE  UsedLast'
<1> SUFFICES ASSUME Used'
             PROVE  /\ reply'.key \in Keys
                    /\ store'[reply'.key] # None => order'[Len(order')] = reply'.key
  BY DEF UsedLast
<1>1. reply' = reply /\ Used
  BY DEF Used
<1>2. PICK u \in Keys : u = reply.key /\ (store[u] # None => order[Len(order)] = u)
  BY <1>1 DEF UsedLast
<1>3. CASE store' = store /\ order' = order
  BY <1>1, <1>2, <1>3
<1>4. ASSUME NEW k \in Keys, _remove_entry(k), store'[u] # None
      PROVE  order'[Len(order')] = u
  <2>1. store \in [Keys -> Entry \cup {None}]
    BY DEF IInv, Inv, TypeOK
  <2>2. store[u] # None /\ k # u
    BY <1>4, <2>1 DEF _remove_entry
  <2>3. order # <<>> /\ order \in Seq(Keys) /\ IsInjective(order)
    BY <2>2, PresentInOrder
  <2>4. order[Len(order)] = u
    BY <1>2, <2>2
  <2>5. order' = RemoveFirst(order, k)
    BY <1>4 DEF _remove_entry
  <2>6. RemoveFirst(order, k)[Len(RemoveFirst(order, k))] = order[Len(order)]
    BY <2>2, <2>3, <2>4, RemoveFirstKeepsLast
  <2> QED BY <2>4, <2>5, <2>6
<1> QED BY <1>1, <1>2, <1>3, <1>4

\* A step that moves or puts the key of its call to the end.
LEMMA UseStep ==
    ASSUME IInv, NEW k \in Keys, order' = MoveToEnd(k), reply'.key = k
    PROVE  UsedLast'
<1>1. order \in Seq(Keys) /\ IsInjective(order)
  BY DEF IInv, Inv, TypeOK, AccountingExact
<1>2. RemoveFirst(order, k) \in Seq(Keys)
  BY <1>1, RemoveFirstProperties
<1>3. PICK r \in Seq(Keys) : r = RemoveFirst(order, k)
  BY <1>2
<1>4. order' = Append(r, k)
  BY <1>3 DEF MoveToEnd
<1>5. order'[Len(order')] = k
  BY <1>4
<1> QED BY <1>5 DEF UsedLast

\* A step that leaves the key of its call absent.
LEMMA AbsentStep ==
    ASSUME NEW k \in Keys, store'[k] = None, reply'.key = k
    PROVE  UsedLast'
BY DEF UsedLast

\* A call that found an entry and left it as it was did not use it.
LEMMA RefusalIsNoUse ==
    ASSUME NEW op, NEW k, NEW e, NEW status \in {"EXISTS", "MISMATCH"},
           reply' = Returned(op, k, e, status)
    PROVE  ~Used'
<1>1. reply'.result = status
  BY DEF Returned
<1>2. status \notin Values
  BY ValuesAreNoStatuses DEF CacheConditionalSetStatus
<1> QED BY <1>1, <1>2 DEF Used

\* Nothing has been used at the start,
LEMMA InitUsedLast == Init => UsedLast
BY DEF Init, NoReply, UsedLast, Used

\* and no step puts another key behind the last one used.
LEMMA NextUsedLast == IInv /\ UsedLast /\ [Next]_vars => UsedLast'
<1> SUFFICES ASSUME IInv, UsedLast, [Next]_vars PROVE UsedLast'
  OBVIOUS
<1>0. store \in [Keys -> Entry \cup {None}]
  BY DEF IInv, Inv, TypeOK
<1>1. CASE \/ UNCHANGED vars \/ stop \/ Tick \/ stats
           \/ CleanerSnapshot \/ CleanerCheck \/ CleanerExit
  <2>1. store' = store /\ order' = order /\ reply' = reply
    BY <1>1 DEF vars, Untouched, stop, Tick, stats, CleanerSnapshot, CleanerCheck,
       CleanerExit, Client
  <2> QED BY <2>1, UnusedStep
<1>2. CASE clear \/ StatsReturn
  BY <1>2 DEF clear, StatsReturn, UsedLast, Used
<1>3. ASSUME NEW j \in Keys, get(j) PROVE UsedLast'
  <2>1. reply'.key = j
    BY <1>3 DEF get, Returned
  <2>2. CASE store[j] # None /\ ~Expired(j)
    <3>1. order' = MoveToEnd(j)
      BY <1>3, <2>2 DEF get
    <3> QED BY <2>1, <3>1, UseStep
  <2>3. CASE store[j] = None \/ Expired(j)
    <3>1. store'[j] = None
      BY <1>0, <1>3, <2>3 DEF get, Expired, Untouched, _remove_entry
    <3> QED BY <2>1, <3>1, AbsentStep
  <2> QED BY <2>2, <2>3
<1>4. ASSUME NEW j \in Keys, delete(j) PROVE UsedLast'
  <2>1. reply'.op = "delete"
    BY <1>4 DEF delete, Returned
  <2> QED BY <2>1 DEF UsedLast, Used
<1>5. ASSUME NEW j \in Keys, NEW v \in Values, NEW t \in Ttls,
             \/ set(j, v, t)
             \/ set_if_absent(j, v, t)
             \/ \E expected \in Values : compare_and_set(j, expected, v, t)
      PROVE  UsedLast'
  <2>1. CASE set(j, v, t)
    <3>1. /\ reply' = reply
          /\ (store' = store /\ order' = order) \/ _remove_entry(j)
      BY <2>1 DEF set, Pop, Untouched
    <3> QED BY <3>1, UnusedStep
  <2>2. CASE set_if_absent(j, v, t)
    <3>1. CASE store[j] # None /\ ~Expired(j)
      <4>1. /\ store' = store /\ order' = order
            /\ reply' = Returned("set_if_absent", j, None, "EXISTS")
        BY <2>2, <3>1 DEF set_if_absent, Untouched
      <4> QED BY <4>1, RefusalIsNoUse, UnusedStep
    <3>2. CASE store[j] = None \/ Expired(j)
      <4>1. /\ reply' = reply
            /\ (store' = store /\ order' = order) \/ _remove_entry(j)
        BY <2>2, <3>2 DEF set_if_absent, _remove_expired_entry, Untouched, Expired
      <4> QED BY <4>1, UnusedStep
    <3> QED BY <3>1, <3>2
  <2>3. ASSUME NEW expected \in Values, compare_and_set(j, expected, v, t)
        PROVE  UsedLast'
    <3>1. CASE store[j] = None \/ Expired(j)
      <4>1. reply'.key = j /\ store'[j] = None
        BY <1>0, <2>3, <3>1 DEF compare_and_set, Returned, Expired, Untouched,
           _remove_expired_entry, _remove_entry
      <4> QED BY <4>1, AbsentStep
    <3>2. CASE store[j] # None /\ ~Expired(j) /\ store[j].value # expected
      <4>1. /\ store' = store /\ order' = order
            /\ reply' = Returned("compare_and_set", j, expected, "MISMATCH")
        BY <2>3, <3>2 DEF compare_and_set, Untouched
      <4> QED BY <4>1, RefusalIsNoUse, UnusedStep
    <3>3. CASE store[j] # None /\ ~Expired(j) /\ store[j].value = expected
      <4>1. reply' = reply /\ _remove_entry(j)
        BY <2>3, <3>3 DEF compare_and_set
      <4> QED BY <4>1, UnusedStep
    <3> QED BY <3>1, <3>2, <3>3
  <2> QED BY <1>5, <2>1, <2>2, <2>3
<1>6. CASE RejectOversize \/ StoreOrExhausted
  <2>1. /\ Writing /\ holder \in WriteFrame /\ holder.key \in Keys
        /\ store[holder.key] = None /\ reply'.key = holder.key
    <3>1. Writing /\ reply'.key = holder.key
      BY <1>6 DEF RejectOversize, StoreOrExhausted, FinishWrite, Returned
    <3> QED BY <3>1, FrameKinds DEF IInv, Inv, TypeOK, FrameConsistent, WriteFrame
  <2>2. CASE RestoreOld /\ holder.old = None
    BY <2>1, <2>2, AbsentStep DEF RestoreOld, Untouched
  <2>3. CASE \/ RestoreOld /\ holder.old # None
             \/ Put(holder.key, holder.entry)
    <3>1. order' = MoveToEnd(holder.key)
      BY <2>3 DEF RestoreOld, Put
    <3> QED BY <2>1, <3>1, UseStep
  <2> QED BY <1>6, <2>2, <2>3 DEF RejectOversize, StoreOrExhausted
<1>7. CASE _evict_lru
  <2>1. order # <<>> /\ _remove_entry(Head(order)) /\ reply' = reply
    BY <1>7 DEF _evict_lru
  <2>2. Head(order) \in Keys
    BY <2>1, HeadIsPresent
  <2> QED BY <2>1, <2>2, UnusedStep
<1>8. ASSUME NEW j \in Keys, StatsRemoveExpired(j) \/ _remove_if_expired(j)
      PROVE  UsedLast'
  <2>1. reply' = reply /\ ((store' = store /\ order' = order) \/ _remove_entry(j))
    BY <1>8 DEF StatsRemoveExpired, _remove_if_expired, _remove_expired_entry,
       Untouched, Client
  <2> QED BY <2>1, UnusedStep
<1> QED
  BY <1>1, <1>2, <1>3, <1>4, <1>5, <1>6, <1>7, <1>8 DEF Next

\* Only an eviction counts as one.
LEMMA EvictionsAreCountedOnce ==
    ASSUME IInv, [Next]_vars, counters'.evictions > counters.evictions
    PROVE  _evict_lru
<1>0. counters \in [CounterNames -> Nat] /\ counters.evictions \in Nat
  BY CounterNamesAre DEF IInv, Inv, TypeOK
<1>1. ASSUME NEW name \in CounterNames \ {"evictions"}, Count(name) PROVE FALSE
  BY <1>0, <1>1, CounterNamesAre DEF Count
<1>2. /\ ~Count("hits") /\ ~Count("misses") /\ ~Count("expired_removals")
      /\ ~Count("rejected_oversize") /\ ~Count("rejected_capacity")
  BY <1>1, CounterNamesAre
<1>3. counters' # counters
  BY <1>0
<1>4. \A j \in Keys : ~get(j)
  <2>1. SUFFICES ASSUME NEW j \in Keys,
                        counters' = [counters EXCEPT !.misses = @ + 1,
                                                     !.expired_removals = @ + 1]
                 PROVE  FALSE
    BY <1>2 DEF get
  <2> QED BY <1>0, <2>1, CounterNamesAre
<1>5. ~clear
  BY <1>0 DEF clear, NoCounts
<1>6. \A j \in Keys : ~delete(j) /\ ~StatsRemoveExpired(j) /\ ~_remove_if_expired(j)
  BY <1>2, <1>3 DEF delete, StatsRemoveExpired, _remove_if_expired, _remove_expired_entry
<1>7. \A j \in Keys, v \in Values, t \in Ttls :
        /\ ~set(j, v, t) /\ ~set_if_absent(j, v, t)
        /\ \A expected \in Values : ~compare_and_set(j, expected, v, t)
  BY <1>2, <1>3 DEF set, set_if_absent, compare_and_set, _remove_expired_entry
<1>8. ~RejectOversize /\ ~StoreOrExhausted
  BY <1>2, <1>3 DEF RejectOversize, StoreOrExhausted
<1>9. /\ ~stats /\ ~StatsReturn /\ ~stop /\ ~Tick /\ ~CleanerSnapshot
      /\ ~CleanerCheck /\ ~CleanerExit /\ ~UNCHANGED vars
  BY <1>3 DEF stats, StatsReturn, stop, Tick, CleanerSnapshot, CleanerCheck,
     CleanerExit, vars
<1> QED BY <1>4, <1>5, <1>6, <1>7, <1>8, <1>9 DEF Next

\* An eviction takes the first key of the order, and the last one used is the last.
LEMMA EvictionSparesLastUsed ==
    ASSUME IInv, UsedLast, _evict_lru, Used, Len(order) > 1
    PROVE  store'[reply.key] = store[reply.key]
<1>1. /\ order # <<>> /\ store' = [store EXCEPT ![Head(order)] = None]
      /\ store \in [Keys -> Entry \cup {None}]
  BY DEF _evict_lru, _remove_entry, IInv, Inv, TypeOK
<1>2. reply.key # Head(order)
  <2> SUFFICES ASSUME reply.key = Head(order) PROVE FALSE
    OBVIOUS
  <2>1. Head(order) \in Keys /\ store[Head(order)] # None
    BY <1>1, HeadIsPresent
  <2>2. order[Len(order)] = order[1]
    BY <1>1, <2>1 DEF UsedLast, IInv, Inv, TypeOK
  <2>3. order \in Seq(Keys) /\ IsInjective(order)
    BY DEF IInv, Inv, TypeOK, AccountingExact
  <2> QED BY <2>2, <2>3 DEF IsInjective
<1> QED BY <1>1, <1>2 DEF UsedLast

-----------------------------------------------------------------------------
(* The refinement of CacheContract, step by step.                          *)

\* compare_and_set has popped the entry whose value it found as expected.
ExpectedPopped ==
    Writing /\ holder.op = "compare_and_set" => holder.old # None

RInv == IInv /\ ExpectedPopped

\* The definitions that the contract shares with the store are the same.
LEMMA SharedDefinitions ==
    /\ \A e, t : Contract!is_expired(e, t) <=> is_expired(e, t)
    /\ \A e : Contract!size_bytes(e) = size_bytes(e)
    /\ \A v, t, now : Contract!CacheEntry(v, t, now) = CacheEntry(v, t, now)
    /\ \A op, k, e, r : Contract!Returned(op, k, e, r) = Returned(op, k, e, r)
    /\ \A op, st : Contract!WriteResult(op, st) = WriteResult(op, st)
    /\ Contract!max_value_bytes = max_value_bytes
    /\ Contract!NoReply = NoReply
BY DEF Contract!is_expired, is_expired, Contract!size_bytes, size_bytes,
   Contract!CacheEntry, CacheEntry, Contract!Returned, Returned,
   Contract!WriteResult, WriteResult, Contract!conditional_status_from_set_status,
   conditional_status_from_set_status, Contract!max_value_bytes, max_value_bytes,
   Contract!NoReply, NoReply

\* What the contract sees of a state.
LEMMA View ==
    ASSUME RInv
    PROVE  /\ store \in [Keys -> Entry \cup {None}]
           /\ ~Popped => Entries = store
           /\ Popped => Entries = [store EXCEPT ![holder.key] = holder.old]
           /\ ~Writing => Pending = None
           /\ Writing => /\ holder \in WriteFrame /\ store[holder.key] = None
                         /\ Pending # None
                         /\ Pending.op = holder.op /\ Pending.key = holder.key
                         /\ Pending.entry = holder.entry
                         /\ Pending.expected = IF holder.op = "compare_and_set"
                                               THEN holder.old.value ELSE None
<1>1. /\ store \in [Keys -> Entry \cup {None}]
      /\ Writing => holder \in WriteFrame /\ store[holder.key] = None
  BY FrameKinds DEF RInv, IInv, Inv, TypeOK, FrameConsistent
<1>2. ~Popped => Entries = store
  BY <1>1 DEF Entries, Held
<1>3. Popped => Entries = [store EXCEPT ![holder.key] = holder.old]
  BY <1>1 DEF Entries, Held, Popped, WriteFrame
<1>4. ASSUME Writing PROVE Pending \in PendingWrite
  <2>1. holder.op = "compare_and_set" => holder.old \in Entry
    BY <1>1, <1>4 DEF RInv, ExpectedPopped, WriteFrame
  <2> QED BY <1>1, <1>4, <2>1 DEF Pending, PendingWrite, WriteFrame, Entry
<1>5. Writing => /\ Pending # None
                 /\ Pending.op = holder.op /\ Pending.key = holder.key
                 /\ Pending.entry = holder.entry
                 /\ Pending.expected = IF holder.op = "compare_and_set"
                                       THEN holder.old.value ELSE None
  BY <1>4, NoneIsNoWrite DEF Pending
<1> QED BY <1>1, <1>2, <1>3, <1>5 DEF Pending

\* The invariant of the refinement holds at the start,
LEMMA RInvInit == Init => RInv
BY InitIInv DEF Init, RInv, ExpectedPopped, Writing

\* and every step keeps it.
LEMMA RInvNext == RInv /\ [Next]_vars => RInv'
<1> SUFFICES ASSUME RInv, [Next]_vars PROVE ExpectedPopped'
  BY NextIInv DEF RInv
<1>1. ASSUME holder' = holder \/ holder' = None \/ holder'.op = "stats"
      PROVE  ExpectedPopped'
  BY <1>1 DEF RInv, ExpectedPopped, Writing
<1>2. ASSUME NEW k \in Keys, NEW v \in Values, NEW t \in Ttls,
             \/ set(k, v, t)
             \/ set_if_absent(k, v, t)
             \/ \E expected \in Values : compare_and_set(k, expected, v, t)
      PROVE  ExpectedPopped'
  <2>1. \/ holder' = holder
        \/ holder'.op # "compare_and_set"
        \/ holder'.old = store[k] /\ store[k] # None
    BY <1>2 DEF set, set_if_absent, compare_and_set, Frame
  <2> QED BY <1>1, <2>1 DEF ExpectedPopped
<1>3. ASSUME NEW k \in Keys, StatsRemoveExpired(k) PROVE ExpectedPopped'
  <2>1. holder \in StatsFrame
    BY <1>3, FrameKinds DEF RInv, IInv, Inv, TypeOK, StatsRemoveExpired
  <2> QED BY <1>1, <1>3, <2>1 DEF StatsRemoveExpired, StatsFrame
<1>4. CASE stats
  BY <1>1, <1>4 DEF stats
<1>5. CASE \/ UNCHANGED vars \/ \E k \in Keys : get(k) \/ delete(k)
           \/ RejectOversize \/ _evict_lru \/ StoreOrExhausted
           \/ StatsReturn \/ clear \/ stop \/ Tick
           \/ CleanerSnapshot \/ CleanerCheck \/ CleanerExit
           \/ \E k \in Keys : _remove_if_expired(k)
  <2>1. holder' = holder \/ holder' = None
    BY <1>5 DEF vars, get, delete, RejectOversize, _evict_lru, StoreOrExhausted,
       FinishWrite, StatsReturn, clear, stop, Tick, CleanerSnapshot, CleanerCheck,
       CleanerExit, _remove_if_expired, Client
  <2> QED BY <1>1, <2>1
<1> QED BY <1>2, <1>3, <1>4, <1>5 DEF Next

\* get and delete.
LEMMA RefineRead ==
    ASSUME RInv, NEW k \in Keys
    PROVE  (get(k) => Contract!Get(k)) /\ (delete(k) => Contract!Delete(k))
<1>1. ASSUME get(k) \/ delete(k)
      PROVE  /\ Pending = None /\ Pending' = None /\ clock' = clock
             /\ Entries = store /\ Entries' = store'
             /\ store \in [Keys -> Entry \cup {None}]
  <2>1. holder = None /\ holder' = None /\ clock' = clock
    BY <1>1 DEF get, delete, Call, LockFree
  <2>2. ~Writing /\ ~Writing' /\ ~Popped /\ ~Popped'
    BY <2>1 DEF Writing, Popped
  <2>3. Pending' = None
    BY <2>2 DEF Pending
  <2>4. store' \in [Keys -> Entry \cup {None}]
    BY <1>1, View DEF get, delete, Untouched, _remove_entry
  <2>5. Entries' = store'
    BY <2>2, <2>4 DEF Entries, Held
  <2> QED BY <2>1, <2>2, <2>3, <2>5, View
<1>2. ASSUME get(k) PROVE Contract!Get(k)
  <2>1. Contract!MayDrop(k)
    BY <1>1, <1>2, SharedDefinitions
    DEF get, Contract!MayDrop, Contract!Stale, Contract!Without, Expired, Untouched,
        _remove_entry
  <2>2. reply' = Returned("get", k, None, IF Contract!Live(k) THEN store[k].value ELSE None)
    BY <1>1, <1>2, SharedDefinitions DEF get, Contract!Live, Expired
  <2> QED BY <1>1, <1>2, <2>1, <2>2, SharedDefinitions DEF Contract!Get, Contract!Answer
<1>3. ASSUME delete(k) PROVE Contract!Delete(k)
  <2>1. store' = [store EXCEPT ![k] = None]
    BY <1>1, <1>3 DEF delete, Untouched, _remove_entry
  <2>2. reply' = Returned("delete", k, None, store[k] # None)
    BY <1>3 DEF delete
  <2>3. (store[k] # None) \in BOOLEAN
    OBVIOUS
  <2> QED
    BY <1>1, <1>3, <2>1, <2>2, <2>3, SharedDefinitions
    DEF Contract!Delete, Contract!Answer, Contract!Without, Contract!Live
<1> QED BY <1>2, <1>3

\* The first step of a write.  It changes nothing that a caller can see: what
\* it pops is kept in the frame.
LEMMA RefineStart ==
    ASSUME RInv, NEW k \in Keys, NEW v \in Values, NEW t \in Ttls
    PROVE  /\ set(k, v, t) => Contract!StartSet(k, v, t)
           /\ set_if_absent(k, v, t) =>
                Contract!StartSetIfAbsent(k, v, t) \/ Contract!RefuseSetIfAbsent(k)
           /\ \A expected \in Values : compare_and_set(k, expected, v, t) =>
                \/ Contract!StartCompareAndSet(k, expected, v, t)
                \/ Contract!RefuseCompareAndSet(k, expected)
<1> DEFINE Begins == \/ set(k, v, t)
                     \/ set_if_absent(k, v, t)
                     \/ \E expected \in Values : compare_and_set(k, expected, v, t)
<1>1. ASSUME Begins
      PROVE  /\ holder = None /\ clock' = clock /\ clock \in Nat
             /\ ~Popped /\ Pending = None /\ Entries = store
             /\ store \in [Keys -> Entry \cup {None}]
  <2>1. holder = None /\ clock' = clock
    BY <1>1 DEF set, set_if_absent, compare_and_set, Call, LockFree
  <2>2. ~Writing /\ ~Popped
    BY <2>1 DEF Writing, Popped
  <2>3. clock \in Nat
    BY BoundsAssumption DEF RInv, IInv, Inv, TypeOK
  <2> QED BY <2>1, <2>2, <2>3, View
\* The call is refused.
<1>2. ASSUME Begins, holder' = holder, store' \in [Keys -> Entry \cup {None}]
      PROVE  Pending' = None /\ Entries' = store'
  <2>1. ~Writing' /\ ~Popped'
    BY <1>1, <1>2 DEF Writing, Popped
  <2> QED BY <1>2, <2>1 DEF Pending, Entries, Held
\* The write goes on, with the old entry in its frame or without one.
<1>3. ASSUME Begins, NEW op \in {"set", "set_if_absent", "compare_and_set"},
             NEW old \in {store[k], None},
             holder' = Frame(op, k, v, t, old),
             store' = [store EXCEPT ![k] = None],
             op = "compare_and_set" => old # None
      PROVE  /\ Pending' = [op |-> op, key |-> k, entry |-> CacheEntry(v, t, clock),
                            expected |-> IF op = "compare_and_set" THEN old.value ELSE None]
             /\ Entries' = [store EXCEPT ![k] = old]
  <2>1. CacheEntry(v, t, clock) \in Entry
    BY <1>1, <1>3, CacheEntryType
  <2>2. holder' \in WriteFrame /\ holder'.op = op /\ holder'.key = k /\ holder'.old = old
        /\ holder'.entry = CacheEntry(v, t, clock)
    BY <1>1, <1>3, <2>1 DEF Frame, WriteFrame
  <2>3. holder' # None /\ Writing'
    BY <1>3, <2>2, NoneIsNoFrame DEF Writing
  <2>4. Pending' = [op |-> op, key |-> k, entry |-> CacheEntry(v, t, clock),
                    expected |-> IF op = "compare_and_set" THEN old.value ELSE None]
    BY <2>2, <2>3 DEF Pending
  <2>5. Popped' <=> old # None
    BY <2>2, <2>3 DEF Popped
  <2>6. \A j \in Keys : Held(j)' = IF j = k THEN old ELSE store[j]
    BY <1>1, <1>3, <2>2, <2>5 DEF Held
  <2>7. Entries' = [j \in Keys |-> IF j = k THEN old ELSE store[j]]
    BY <2>6 DEF Entries
  <2> QED BY <1>1, <1>3, <2>4, <2>7
<1>4. ASSUME set(k, v, t) PROVE Contract!StartSet(k, v, t)
  <2>1. holder' = Frame("set", k, v, t, store[k]) /\ reply' = reply
        /\ store' = [store EXCEPT ![k] = None]
    BY <1>1, <1>4 DEF set, Pop, Untouched, _remove_entry
  <2>2. /\ Pending' = [op |-> "set", key |-> k, entry |-> CacheEntry(v, t, clock),
                       expected |-> None]
        /\ Entries' = store
    BY <1>1, <1>3, <1>4, <2>1
  <2> QED
    BY <1>1, <1>4, <2>1, <2>2, SharedDefinitions DEF Contract!StartSet, Contract!Start
<1>5. ASSUME set_if_absent(k, v, t)
      PROVE  Contract!StartSetIfAbsent(k, v, t) \/ Contract!RefuseSetIfAbsent(k)
  <2>1. CASE store[k] # None /\ ~Expired(k)
    <3>1. /\ store' = store /\ holder' = holder
          /\ reply' = Returned("set_if_absent", k, None, "EXISTS")
      BY <1>5, <2>1 DEF set_if_absent, Untouched, Expired
    <3> QED
      BY <1>1, <1>2, <1>5, <2>1, <3>1, SharedDefinitions
      DEF Contract!RefuseSetIfAbsent, Contract!Answer, Contract!Live, Expired
  <2>2. CASE store[k] = None \/ Expired(k)
    <3>1. /\ store' = [store EXCEPT ![k] = None] /\ reply' = reply
          /\ holder' = Frame("set_if_absent", k, v, t, None)
      BY <1>1, <1>5, <2>2 DEF set_if_absent, Untouched, Expired, _remove_expired_entry,
         _remove_entry
    <3>2. /\ Pending' = [op |-> "set_if_absent", key |-> k,
                         entry |-> CacheEntry(v, t, clock), expected |-> None]
          /\ Entries' = [store EXCEPT ![k] = None]
      BY <1>1, <1>3, <1>5, <3>1
    <3>3. Contract!MayDrop(k) /\ ~Contract!Live(k)
      BY <1>1, <1>5, <2>2, <3>2, SharedDefinitions
      DEF Contract!MayDrop, Contract!Stale, Contract!Live, Contract!Without, Expired
    <3> QED
      BY <1>1, <1>5, <3>1, <3>2, <3>3, SharedDefinitions
      DEF Contract!StartSetIfAbsent, Contract!Start
  <2> QED BY <2>1, <2>2
<1>6. ASSUME NEW expected \in Values, compare_and_set(k, expected, v, t)
      PROVE  \/ Contract!StartCompareAndSet(k, expected, v, t)
             \/ Contract!RefuseCompareAndSet(k, expected)
  <2>1. CASE store[k] = None \/ Expired(k)
    <3>1. /\ store' = [store EXCEPT ![k] = None] /\ holder' = holder
          /\ reply' = Returned("compare_and_set", k, expected, "NOT_FOUND")
      BY <1>1, <1>6, <2>1 DEF compare_and_set, Untouched, Expired,
         _remove_expired_entry, _remove_entry
    <3>2. Pending' = None /\ Entries' = [store EXCEPT ![k] = None]
      BY <1>1, <1>2, <1>6, <3>1
    <3>3. Contract!MayDrop(k) /\ ~Contract!Live(k)
      BY <1>1, <1>6, <2>1, <3>2, SharedDefinitions
      DEF Contract!MayDrop, Contract!Stale, Contract!Live, Contract!Without, Expired
    <3> QED
      BY <1>1, <1>6, <3>1, <3>2, <3>3, SharedDefinitions
      DEF Contract!RefuseCompareAndSet, Contract!Answer
  <2>2. CASE store[k] # None /\ ~Expired(k) /\ store[k].value # expected
    <3>1. /\ store' = store /\ holder' = holder
          /\ reply' = Returned("compare_and_set", k, expected, "MISMATCH")
      BY <1>6, <2>2 DEF compare_and_set, Untouched
    <3>2. Pending' = None /\ Entries' = store
      BY <1>1, <1>2, <1>6, <3>1
    <3> QED
      BY <1>1, <1>6, <2>2, <3>1, <3>2, SharedDefinitions
      DEF Contract!RefuseCompareAndSet, Contract!Answer, Contract!Live, Expired
  <2>3. CASE store[k] # None /\ ~Expired(k) /\ store[k].value = expected
    <3>1. /\ store' = [store EXCEPT ![k] = None] /\ reply' = reply
          /\ holder' = Frame("compare_and_set", k, v, t, store[k])
      BY <1>6, <2>3 DEF compare_and_set, _remove_entry
    <3>2. /\ Pending' = [op |-> "compare_and_set", key |-> k,
                         entry |-> CacheEntry(v, t, clock), expected |-> expected]
          /\ Entries' = store
      BY <1>1, <1>3, <1>6, <2>3, <3>1
    <3> QED
      BY <1>1, <1>6, <2>3, <3>1, <3>2, SharedDefinitions
      DEF Contract!StartCompareAndSet, Contract!Start, Contract!Live, Expired
  <2> QED BY <2>1, <2>2, <2>3
<1> HIDE DEF Begins
<1> QED BY <1>4, <1>5, <1>6

\* The later steps of a write: an eviction, a rejection, the end.
LEMMA RefineWrite ==
    ASSUME RInv
    PROVE  /\ _evict_lru => \E k \in Keys : Contract!Evict(k)
           /\ RejectOversize => Contract!Reject
           /\ StoreOrExhausted => Contract!Commit
<1>1. ASSUME Writing
      PROVE  /\ store \in [Keys -> Entry \cup {None}]
             /\ holder \in WriteFrame /\ holder.key \in Keys /\ holder.entry \in Entry
             /\ store[holder.key] = None /\ Pending # None
             /\ Pending.op = holder.op /\ Pending.key = holder.key
             /\ Pending.entry = holder.entry
             /\ Pending.expected = IF holder.op = "compare_and_set"
                                   THEN holder.old.value ELSE None
             /\ Entries = [store EXCEPT ![holder.key] = holder.old]
             /\ holder.old \in Entry \cup {None}
             /\ size_bytes(holder.entry) \in Nat
             /\ Popped <=> holder.old # None
  <2>1. store \in [Keys -> Entry \cup {None}] /\ holder \in WriteFrame
        /\ store[holder.key] = None
    BY <1>1, View
  <2>2. Popped <=> holder.old # None
    BY <1>1 DEF Popped
  <2>3. ~Popped => Entries = [store EXCEPT ![holder.key] = holder.old]
    BY <2>1, <2>2, View DEF WriteFrame
  <2> QED BY <1>1, <2>1, <2>2, <2>3, View, SizePositive DEF WriteFrame
<1>2. ASSUME Writing, FinishWrite("OK") \/ FinishWrite("VALUE_TOO_LARGE"),
             store' \in [Keys -> Entry \cup {None}]
      PROVE  /\ Entries' = store' /\ Pending' = None /\ clock' = clock
             /\ \A st : FinishWrite(st) =>
                  reply' = Returned(Pending.op, Pending.key, Pending.expected,
                                    WriteResult(Pending.op, st))
  <2>1. ~Popped' /\ ~Writing' /\ clock' = clock
    BY <1>2 DEF FinishWrite, Popped, Writing
  <2>2. Entries' = store' /\ Pending' = None
    BY <1>2, <2>1 DEF Entries, Held, Pending
  <2> QED BY <1>1, <1>2, <2>1, <2>2 DEF FinishWrite
<1>3. ASSUME _evict_lru PROVE \E k \in Keys : Contract!Evict(k)
  <2>1. /\ Writing /\ ~Oversize /\ order # <<>> /\ holder' = holder
        /\ store' = [store EXCEPT ![Head(order)] = None]
        /\ UNCHANGED <<clock, reply>>
    BY <1>3 DEF _evict_lru, _remove_entry
  <2>2. Head(order) \in Keys /\ store[Head(order)] # None
    BY <2>1, HeadIsPresent DEF RInv
  <2>3. PICK k \in Keys : k = Head(order)
    BY <2>2
  <2>4. k # holder.key /\ Entries[k] # None
    BY <1>1, <2>1, <2>2, <2>3
  <2>5. Pending' = Pending
    BY <2>1 DEF Pending, Writing
  <2>6. Entries' = [Entries EXCEPT ![k] = None]
    <3>1. \A j \in Keys : Held(j)' = IF j = k THEN None ELSE Held(j)
      BY <1>1, <2>1, <2>2, <2>3, <2>4 DEF Held, Popped, Writing
    <3> QED BY <3>1 DEF Entries
  <2>7. size_bytes(holder.entry) <= max_value_bytes
    BY <1>1, <2>1, ValueLimit DEF Oversize
  <2>8. Contract!Evict(k)
    BY <1>1, <2>1, <2>4, <2>5, <2>6, <2>7, SharedDefinitions
    DEF Contract!Evict, Contract!Without
  <2> QED BY <2>8
<1>4. ASSUME RejectOversize PROVE Contract!Reject
  <2>1. Writing /\ Oversize /\ RestoreOld /\ FinishWrite("VALUE_TOO_LARGE")
    BY <1>4 DEF RejectOversize
  <2>2. store' = [store EXCEPT ![holder.key] = holder.old]
    BY <1>1, <2>1 DEF RestoreOld, Put, Untouched
  <2>3. store' = Entries /\ store' \in [Keys -> Entry \cup {None}]
    BY <1>1, <2>1, <2>2
  <2>4. size_bytes(holder.entry) > max_value_bytes
    BY <2>1 DEF Oversize
  <2> QED
    BY <1>1, <1>2, <2>1, <2>3, <2>4, SharedDefinitions DEF Contract!Reject, Contract!Finish
<1>5. ASSUME StoreOrExhausted PROVE Contract!Commit
  <2>1. Writing /\ ~Oversize
    BY <1>5 DEF StoreOrExhausted
  <2>2. Put(holder.key, holder.entry) /\ FinishWrite("OK")
    BY <1>5, RoomIsLeft DEF StoreOrExhausted, RInv
  <2>3. store' = [store EXCEPT ![holder.key] = holder.entry]
    BY <2>2 DEF Put
  <2>4. store' = [Entries EXCEPT ![holder.key] = holder.entry]
        /\ store' \in [Keys -> Entry \cup {None}]
    BY <1>1, <2>1, <2>3
  <2>5. size_bytes(holder.entry) <= max_value_bytes
    BY <1>1, <2>1, ValueLimit DEF Oversize
  <2> QED
    BY <1>1, <1>2, <2>1, <2>2, <2>4, <2>5, SharedDefinitions
    DEF Contract!Commit, Contract!Finish
<1> QED BY <1>3, <1>4, <1>5

\* stats, clear, the cleaner and the clock.
LEMMA RefineRest ==
    ASSUME RInv
    PROVE  /\ stats => UNCHANGED Contract!cvars
           /\ StatsReturn => Contract!Stats
           /\ \A k \in Keys : StatsRemoveExpired(k) => Contract!Expire(k)
           /\ clear => Contract!Clear
           /\ \A k \in Keys : _remove_if_expired(k) =>
                Contract!Expire(k) \/ UNCHANGED Contract!cvars
           /\ Tick => Contract!Pass
           /\ UNCHANGED vars \/ stop \/ CleanerSnapshot \/ CleanerCheck \/ CleanerExit =>
                UNCHANGED Contract!cvars
<1>0. store \in [Keys -> Entry \cup {None}]
  BY View
<1>1. ASSUME LockFree \/ ReadingStats
      PROVE  Entries = store /\ Pending = None /\ ~Popped
  <2>1. ~Writing
    BY <1>1, FrameKinds DEF RInv, IInv, Inv, TypeOK
  <2> QED BY <2>1, View DEF Popped
<1>2. ASSUME holder' = None \/ holder'.op = "stats", store' \in [Keys -> Entry \cup {None}]
      PROVE  Entries' = store' /\ Pending' = None
  <2>1. ~Writing' /\ ~Popped'
    BY <1>2 DEF Writing, Popped
  <2> QED BY <1>2, <2>1 DEF Entries, Held, Pending
<1>3. ASSUME store' = store, holder' = holder PROVE Entries' = Entries /\ Pending' = Pending
  BY <1>3 DEF Entries, Held, Popped, Writing, Pending
<1>4. ASSUME stats PROVE UNCHANGED Contract!cvars
  <2>1. LockFree /\ store' = store /\ holder'.op = "stats" /\ UNCHANGED <<clock, reply>>
    BY <1>4 DEF stats, Call, Untouched
  <2> QED BY <1>0, <1>1, <1>2, <2>1 DEF Contract!cvars
<1>5. ASSUME StatsReturn PROVE Contract!Stats
  <2>1. /\ ReadingStats /\ holder' = None /\ store' = store /\ clock' = clock
        /\ reply' = [op |-> "stats", size |-> Len(order),
                     memory_usage_bytes |-> current_memory_bytes]
    BY <1>5 DEF StatsReturn, Untouched
  <2>2. Entries = store /\ Entries' = store /\ Pending = None /\ Pending' = None
    BY <1>0, <1>1, <1>2, <2>1
  <2>3. Len(order) = Cardinality(Present)
    BY LengthIsCardinality DEF RInv, IInv, Inv, TypeOK, AccountingExact
  <2>4. Contract!BytesOf(store) = BytesOf(store)
    BY DEF Contract!BytesOf, BytesOf, Contract!size_bytes, size_bytes
  <2>5. current_memory_bytes = Cardinality(Contract!BytesOf(store))
    BY <2>4 DEF RInv, IInv, Inv, AccountingExact
  <2>6. reply' = [op |-> "stats",
                  size |-> Cardinality({k \in Keys : Entries[k] # None}),
                  memory_usage_bytes |-> Cardinality(Contract!BytesOf(Entries))]
    BY <2>1, <2>2, <2>3, <2>5 DEF Present
  <2>7. UNCHANGED <<Entries, clock, Pending>>
    BY <2>1, <2>2
  <2>8. \A S : Contract!Cardinality(S) = Cardinality(S)
    BY DEF Contract!Cardinality, Cardinality
  <2> QED BY <2>2, <2>6, <2>7, <2>8, Zenon DEF Contract!Stats
<1>6. ASSUME NEW k \in Keys, (LockFree /\ holder' = holder) \/ (ReadingStats /\ holder'.op = "stats"),
             Expired(k), store' = [store EXCEPT ![k] = None], UNCHANGED <<clock, reply>>
      PROVE  Contract!Expire(k)
  <2>1. store' \in [Keys -> Entry \cup {None}]
    BY <1>0, <1>6
  <2>2. Entries = store /\ Entries' = store' /\ Pending = None /\ Pending' = None
    BY <1>1, <1>2, <1>6, <2>1 DEF LockFree
  <2> QED
    BY <1>6, <2>2, SharedDefinitions
    DEF Contract!Expire, Contract!Stale, Contract!Without, Expired
<1>7. ASSUME NEW k \in Keys, StatsRemoveExpired(k) PROVE Contract!Expire(k)
  <2>1. ReadingStats /\ holder \in StatsFrame
    BY <1>7, FrameKinds DEF StatsRemoveExpired, RInv, IInv, Inv, TypeOK
  <2>2. Expired(k)
    BY <1>7, <2>1 DEF StatsRemoveExpired, RInv, IInv, Inv, FrameConsistent
  <2>3. holder'.op = "stats"
    BY <1>7, <2>1 DEF StatsRemoveExpired, StatsFrame
  <2> QED
    BY <1>6, <1>7, <2>1, <2>2, <2>3
    DEF StatsRemoveExpired, _remove_expired_entry, _remove_entry
<1>8. ASSUME clear PROVE Contract!Clear
  <2>1. /\ LockFree /\ holder' = None /\ clock' = clock /\ reply' = [op |-> "clear"]
        /\ store' = [k \in Keys |-> None]
    BY <1>8 DEF clear, Call, LockFree
  <2>2. Pending = None /\ Entries' = store' /\ Pending' = None
    BY <1>1, <1>2, <2>1
  <2> QED BY <2>1, <2>2 DEF Contract!Clear
<1>9. ASSUME NEW k \in Keys, _remove_if_expired(k)
      PROVE  Contract!Expire(k) \/ UNCHANGED Contract!cvars
  <2>1. LockFree /\ UNCHANGED <<clock, holder, reply>>
    BY <1>9 DEF _remove_if_expired, Client
  <2>2. CASE Expired(k)
    <3>1. store' = [store EXCEPT ![k] = None]
      BY <1>9, <2>2 DEF _remove_if_expired, _remove_expired_entry, _remove_entry
    <3>2. (LockFree /\ holder' = holder) \/ (ReadingStats /\ holder'.op = "stats")
      BY <2>1
    <3>3. UNCHANGED <<clock, reply>>
      BY <2>1
    <3>4. Contract!Expire(k)
      BY <1>6, <2>2, <3>1, <3>2, <3>3, Zenon
    <3> QED BY <3>4
  <2>3. CASE ~Expired(k)
    BY <1>3, <1>9, <2>1, <2>3 DEF _remove_if_expired, Untouched, Contract!cvars
  <2> QED BY <2>2, <2>3
<1>10. ASSUME Tick PROVE Contract!Pass
  BY <1>3, <1>10 DEF Tick, Untouched, Contract!Pass
<1>11. ASSUME UNCHANGED vars \/ stop \/ CleanerSnapshot \/ CleanerCheck \/ CleanerExit
       PROVE  UNCHANGED Contract!cvars
  <2>1. UNCHANGED <<store, holder, clock, reply>>
    BY <1>11 DEF vars, stop, CleanerSnapshot, CleanerCheck, CleanerExit, Untouched, Client
  <2> QED BY <1>3, <2>1 DEF Contract!cvars
<1> QED BY <1>4, <1>5, <1>7, <1>8, <1>9, <1>10, <1>11

\* An empty store is an empty map.
LEMMA RefineInit == Init => Contract!Init
<1> SUFFICES ASSUME Init PROVE Contract!Init
  OBVIOUS
<1>1. ~Writing /\ ~Popped
  BY DEF Init, Writing, Popped
<1>2. Entries = [k \in Keys |-> None] /\ Pending = None
  BY <1>1 DEF Init, Entries, Held, Pending
<1> QED BY <1>2, SharedDefinitions DEF Init, Contract!Init

\* Every step is a step of the contract or changes nothing that it shows.
LEMMA RefineNext == RInv /\ [Next]_vars => [Contract!Next]_(Contract!cvars)
<1> SUFFICES ASSUME RInv, [Next]_vars PROVE Contract!Next \/ UNCHANGED Contract!cvars
  OBVIOUS
<1>1. ASSUME NEW k \in Keys, get(k) \/ delete(k) PROVE Contract!Next
  BY <1>1, RefineRead DEF Contract!Next
<1>2. ASSUME NEW k \in Keys, NEW v \in Values, NEW t \in Ttls,
             \/ set(k, v, t)
             \/ set_if_absent(k, v, t)
             \/ \E expected \in Values : compare_and_set(k, expected, v, t)
      PROVE  Contract!Next
  BY <1>2, RefineStart DEF Contract!Next
<1>3. CASE RejectOversize \/ _evict_lru \/ StoreOrExhausted
  BY <1>3, RefineWrite DEF Contract!Next
<1>4. CASE \/ UNCHANGED vars \/ stats \/ StatsReturn \/ clear \/ stop \/ Tick
           \/ CleanerSnapshot \/ CleanerCheck \/ CleanerExit
           \/ \E k \in Keys : StatsRemoveExpired(k)
           \/ \E k \in Keys : _remove_if_expired(k)
  BY <1>4, RefineRest DEF Contract!Next
<1> QED BY <1>1, <1>2, <1>3, <1>4 DEF Next

-----------------------------------------------------------------------------
(* Theorems.                                                               *)

\* The store satisfies its inductive invariant, whatever the keys, the values
\* and their sizes, the limits and the bounds.
THEOREM Invariance == Spec => []Inv
<1>1. IInv => Inv
  BY DEF IInv
<1> QED BY <1>1, InitIInv, NextIInv, PTL DEF Spec

\* Type correctness; in particular the byte counter never becomes negative.
THEOREM TypeCorrect == Spec => []TypeOK
<1>1. Inv => TypeOK
  BY DEF Inv
<1> QED BY <1>1, Invariance, PTL

\* current_memory_bytes is exact and the OrderedDict holds no key twice.
THEOREM AccountingCorrect == Spec => []AccountingExact
<1>1. Inv => AccountingExact
  BY DEF Inv
<1> QED BY <1>1, Invariance, PTL

\* Neither the item limit nor the memory limit is ever exceeded.
THEOREM LimitsRespected == Spec => []WithinLimits
<1>1. Inv => WithinLimits
  BY DEF Inv
<1> QED BY <1>1, Invariance, PTL

\* CAPACITY_EXHAUSTED is never answered: its branches are dead code as long as
\* max_value_bytes is clamped to max_memory_bytes.
THEOREM NoCapacityRejection == Spec => []NeverExhausted
<1>1. Inv => NeverExhausted
  BY DEF Inv
<1> QED BY <1>1, Invariance, PTL

\* An entry that has not expired is lost only to a call that says so or to an
\* eviction: neither the cleaner, nor a get, nor stats(), nor a rejected write
\* ever takes one.
THEOREM LiveEntriesKept == Spec => LiveEntryKept
<1>1. IInv /\ [Next]_vars => [LiveEntryStep]_vars
  BY LiveEntryLemma
<1> QED BY <1>1, InitIInv, NextIInv, PTL DEF Spec, LiveEntryKept

\* What leaves the store unasked is counted once, under one of two names.
THEOREM LossesAreCounted == Spec => LossesCounted
<1> DEFINE Losses == ~clear /\ (\A k \in Keys : ~delete(k)) => LossStep
<1>1. IInv /\ [Next]_vars => Losses
  BY LossLemma, Zenon
<1>2. IInv /\ [Next]_vars => [Losses]_vars
  BY <1>1
<1> QED BY <1>2, InitIInv, NextIInv, PTL DEF Spec, LossesCounted, LossStep, Lost

\* The key that was used last, by a hit or by a write, rejected or not, is not the
\* one that an eviction takes as long as there is another: the recency order is
\* kept by every mix of calls, purges and restored entries.
THEOREM LastUsedIsKept == Spec => LastUsedSurvives
<1> DEFINE Spared == /\ counters'.evictions > counters.evictions
                     /\ reply.op \in {"get", "set", "set_if_absent", "compare_and_set"}
                     /\ reply.result \in Values \cup {"OK", "STORED", "VALUE_TOO_LARGE"}
                     /\ Len(order) > 1
                     => store'[reply.key] = store[reply.key]
<1>1. IInv /\ UsedLast /\ [Next]_vars => Spared
  BY EvictionsAreCountedOnce, EvictionSparesLastUsed DEF Used
<1>2. IInv /\ UsedLast /\ [Next]_vars => [Spared]_vars
  BY <1>1
<1> QED
  BY <1>2, InitIInv, NextIInv, InitUsedLast, NextUsedLast, PTL DEF Spec, LastUsedSurvives

\* What a method with a loop relies on while it keeps the lock holds.
THEOREM FramesAreConsistent == Spec => []FrameConsistent
<1>1. Inv => FrameConsistent
  BY DEF Inv
<1> QED BY <1>1, Invariance, PTL

\* The store with its lock, its recency order, its byte counter and its cleaner
\* implements a map of entries that may drop what has expired.
THEOREM ContractImplemented == Spec => ImplementsContract
BY RInvInit, RInvNext, RefineInit, RefineNext, PTL DEF Spec, ImplementsContract, Contract!Spec
=============================================================================
