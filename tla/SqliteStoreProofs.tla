------------------------- MODULE SqliteStoreProofs -------------------------
(***************************************************************************)
(* Theorems about SqliteStore, for every file it may find, every set of    *)
(* keys and values, every limit and every bound.                           *)
(***************************************************************************)
EXTENDS SqliteStore, CacheModelsProofs, FunctionTheorems

-----------------------------------------------------------------------------
(* Tables: how many rows they have, and how many bytes.                    *)

Filled(t) == {k \in Keys : t[k] # None}

\* A table of a file: finitely many rows, of finitely many bytes.
Table(t) ==
    /\ t \in [Keys -> Row \cup {None}]
    /\ IsFiniteSet(Filled(t))
    /\ IsFiniteSet(BytesOf(EntriesOf(t)))

\* The entries of a table.
LEMMA EntriesType ==
    ASSUME NEW t \in [Keys -> Row \cup {None}]
    PROVE  /\ EntriesOf(t) \in [Keys -> Entry \cup {None}]
           /\ \A k \in Keys : EntriesOf(t)[k] # None <=> t[k] # None
BY NoneIsNoEntry DEF EntriesOf, Row

\* What is loaded at a start is a number.
LEMMA LoadedNumbers ==
    ASSUME NEW t, Table(t)
    PROVE  _load_entry_count(t) \in Nat /\ _load_current_memory_bytes(t) \in Nat
BY FS_CardinalityType DEF Table, Filled, _load_entry_count, _load_current_memory_bytes

\* Finitely many rows have finitely many bytes.
LEMMA FileIsTable == \A t \in Persisted : Table(t)
<1> SUFFICES ASSUME NEW t \in Persisted PROVE Table(t)
  OBVIOUS
<1>1. t \in [Keys -> Row \cup {None}] /\ IsFiniteSet(Filled(t))
  BY SqliteAssumption DEF Filled
<1> DEFINE Bytes1(k) == {k} \X (1..size_bytes(EntriesOf(t)[k]))
           Pieces == {Bytes1(k) : k \in Filled(t)}
<1>2. IsFiniteSet(Pieces)
  <2> DEFINE f == [k \in Filled(t) |-> Bytes1(k)]
  <2>1. f \in [Filled(t) -> Pieces] /\ \A P \in Pieces : \E k \in Filled(t) : f[k] = P
    OBVIOUS
  <2> HIDE DEF f, Pieces
  <2>2. f \in Surjection(Filled(t), Pieces)
    BY <2>1, Fun_IsSurj
  <2> QED BY <1>1, <2>2, FS_Surjection
<1>3. ASSUME NEW P \in Pieces PROVE IsFiniteSet(P)
  <2>1. PICK k \in Filled(t) : P = Bytes1(k)
    OBVIOUS
  <2>2. EntriesOf(t)[k] \in Entry
    BY <1>1, EntriesType, NoneIsNoEntry DEF Filled
  <2>3. IsFiniteSet(1..size_bytes(EntriesOf(t)[k]))
    BY <2>2, SizePositive, FS_Interval
  <2>4. IsFiniteSet({k})
    BY FS_Singleton
  <2> DEFINE A == {k}
             B == 1..size_bytes(EntriesOf(t)[k])
  <2> HIDE DEF A, B
  <2>5. IsFiniteSet(A \X B)
    BY <2>3, <2>4, FS_Product DEF A, B
  <2> QED BY <2>1, <2>5 DEF A, B
<1>4. BytesOf(EntriesOf(t)) = UNION Pieces
  <2>1. {j \in Keys : EntriesOf(t)[j] # None} = Filled(t)
    BY <1>1, EntriesType DEF Filled
  <2> QED BY <2>1 DEF BytesOf
<1>5. IsFiniteSet(UNION Pieces)
  <2> HIDE DEF Pieces
  <2> QED BY <1>2, <1>3, FS_UNION
<1> QED BY <1>1, <1>4, <1>5 DEF Table

\* A row less: its key and its bytes are taken off the numbers.
LEMMA RowRemoved ==
    ASSUME NEW t, Table(t), NEW k \in Keys, t[k] # None
    PROVE  LET u == [t EXCEPT ![k] = None]
           IN  /\ Table(u)
               /\ _load_entry_count(t) = _load_entry_count(u) + 1
               /\ _load_current_memory_bytes(t)
                    = _load_current_memory_bytes(u) + size_bytes(t[k].entry)
<1> DEFINE u == [t EXCEPT ![k] = None]
<1>1. u \in [Keys -> Row \cup {None}] /\ Filled(u) = Filled(t) \ {k}
  BY DEF Table, Filled
<1>2. EntriesOf(u) = [EntriesOf(t) EXCEPT ![k] = None]
  BY DEF EntriesOf, Table
<1>3. EntriesOf(t)[k] = t[k].entry /\ EntriesOf(t)[k] # None
  BY EntriesType DEF EntriesOf, Table
<1>4. EntriesOf(t) \in [Keys -> Entry \cup {None}] /\ IsFiniteSet(BytesOf(EntriesOf(t)))
  BY EntriesType DEF Table
<1>5. /\ IsFiniteSet(BytesOf(EntriesOf(u)))
      /\ Cardinality(BytesOf(EntriesOf(t)))
           = Cardinality(BytesOf(EntriesOf(u))) + size_bytes(t[k].entry)
  <2> DEFINE s == EntriesOf(t)
  <2>1. s \in [Keys -> Entry \cup {None}] /\ IsFiniteSet(BytesOf(s)) /\ s[k] # None
    BY <1>3, <1>4
  <2> HIDE DEF s
  <2>2. /\ IsFiniteSet(BytesOf([s EXCEPT ![k] = None]))
        /\ Cardinality(BytesOf(s))
             = Cardinality(BytesOf([s EXCEPT ![k] = None])) + size_bytes(s[k])
    BY <2>1, BytesOfRemove
  <2> QED BY <1>2, <1>3, <2>2 DEF s
<1>6. k \in Filled(t) /\ IsFiniteSet(Filled(t))
  BY DEF Filled, Table
<1>7. IsFiniteSet(Filled(u)) /\ Cardinality(Filled(t)) = Cardinality(Filled(u)) + 1
  <2> DEFINE F == Filled(t)
  <2>1. k \in F /\ IsFiniteSet(F)
    BY <1>6
  <2> HIDE DEF F
  <2>2. /\ IsFiniteSet(F \ {k}) /\ Cardinality(F \ {k}) = Cardinality(F) - 1
        /\ Cardinality(F) \in Nat
    BY <2>1, FS_RemoveElement, FS_CardinalityType
  <2>3. Cardinality(F) = Cardinality(F \ {k}) + 1
    BY <2>2
  <2> QED BY <1>1, <2>2, <2>3 DEF F
<1> HIDE DEF u
<1>8. Table(u)
  BY <1>1, <1>5, <1>7 DEF Table
<1> QED
  BY <1>5, <1>7, <1>8 DEF u, Filled, _load_entry_count, _load_current_memory_bytes

\* A row more: its key and its bytes are added.
LEMMA RowInserted ==
    ASSUME NEW t, Table(t), NEW k \in Keys, t[k] = None, NEW row \in Row
    PROVE  LET u == [t EXCEPT ![k] = row]
           IN  /\ Table(u)
               /\ _load_entry_count(u) = _load_entry_count(t) + 1
               /\ _load_current_memory_bytes(u)
                    = _load_current_memory_bytes(t) + size_bytes(row.entry)
<1> DEFINE u == [t EXCEPT ![k] = row]
<1>0. row # None /\ row.entry \in Entry
  BY SqliteAssumption DEF Row
<1>1. u \in [Keys -> Row \cup {None}] /\ Filled(u) = Filled(t) \cup {k}
  BY <1>0 DEF Table, Filled
<1>2. EntriesOf(u) = [EntriesOf(t) EXCEPT ![k] = row.entry]
  BY <1>0 DEF EntriesOf, Table
<1>3. EntriesOf(t)[k] = None
  BY DEF EntriesOf
<1>4. EntriesOf(t) \in [Keys -> Entry \cup {None}] /\ IsFiniteSet(BytesOf(EntriesOf(t)))
  BY EntriesType DEF Table
<1>5. /\ IsFiniteSet(BytesOf(EntriesOf(u)))
      /\ Cardinality(BytesOf(EntriesOf(u)))
           = Cardinality(BytesOf(EntriesOf(t))) + size_bytes(row.entry)
  <2> DEFINE s == EntriesOf(t)
             e == row.entry
  <2>1. /\ s \in [Keys -> Entry \cup {None}] /\ IsFiniteSet(BytesOf(s)) /\ s[k] = None
        /\ e \in Entry
    BY <1>0, <1>3, <1>4
  <2> HIDE DEF s, e
  <2>2. /\ IsFiniteSet(BytesOf([s EXCEPT ![k] = e]))
        /\ Cardinality(BytesOf([s EXCEPT ![k] = e]))
             = Cardinality(BytesOf(s)) + size_bytes(e)
    BY <2>1, BytesOfPut
  <2> QED BY <1>2, <2>2 DEF s, e
<1>6. k \notin Filled(t) /\ IsFiniteSet(Filled(t))
  BY DEF Filled, Table
<1>7. IsFiniteSet(Filled(u)) /\ Cardinality(Filled(u)) = Cardinality(Filled(t)) + 1
  <2> DEFINE F == Filled(t)
  <2>1. k \notin F /\ IsFiniteSet(F)
    BY <1>6
  <2> HIDE DEF F
  <2>2. IsFiniteSet(F \cup {k}) /\ Cardinality(F \cup {k}) = Cardinality(F) + 1
    BY <2>1, FS_AddElement
  <2> QED BY <1>1, <2>2 DEF F
<1> HIDE DEF u
<1>8. Table(u)
  BY <1>1, <1>5, <1>7 DEF Table
<1> QED
  BY <1>5, <1>7, <1>8 DEF u, Filled, _load_entry_count, _load_current_memory_bytes

\* A use of a row changes none of the numbers.
LEMMA RowTouched ==
    ASSUME NEW t, Table(t), NEW k \in Keys, t[k] # None, NEW now \in Nat
    PROVE  LET u == [t EXCEPT ![k].last_accessed = now]
           IN  /\ Table(u)
               /\ _load_entry_count(u) = _load_entry_count(t)
               /\ _load_current_memory_bytes(u) = _load_current_memory_bytes(t)
               /\ EntriesOf(u) = EntriesOf(t)
<1> DEFINE row == [t[k] EXCEPT !.last_accessed = now]
           u == [t EXCEPT ![k].last_accessed = now]
<1>1. t[k] \in Row
  BY DEF Table
<1>2. row \in Row /\ row.entry = t[k].entry
  BY <1>1 DEF Row
<1>3. u = [t EXCEPT ![k] = row] /\ row # None
  BY <1>2, SqliteAssumption DEF Table
<1> HIDE DEF row, u
<1>4. u \in [Keys -> Row \cup {None}] /\ Filled(u) = Filled(t)
  BY <1>2, <1>3 DEF Table, Filled
<1>5. EntriesOf(u) = EntriesOf(t)
  BY <1>2, <1>3 DEF EntriesOf, Table
<1> QED
  BY <1>4, <1>5 DEF u, Table, Filled, _load_entry_count, _load_current_memory_bytes

-----------------------------------------------------------------------------
(* The invariant.                                                          *)

\* The types of everything but the rows and their two numbers.
RestTyped ==
    /\ counters \in [CounterNames -> Nat]
    /\ clock \in 0..MaxClock
    /\ holder \in WriteFrame \cup StatsFrame \cup {None}
    /\ cleaner \in Cleaner
    /\ stop_event \in BOOLEAN
    /\ process \in {"up", "closed", "down"}
    /\ mishaps \in 0..MaxMishaps

\* The two numbers agree with the rows.
Exact ==
    /\ entry_count = _load_entry_count(table)
    /\ current_memory_bytes = _load_current_memory_bytes(table)

\* Only a process that is up has a method under way, and the key that it is
\* about to write has no row.
FrameConsistent ==
    /\ holder # None => process = "up"
    /\ Writing => table[holder.key] = None

IInv ==
    /\ Table(table)
    /\ entry_count \in Nat /\ current_memory_bytes \in Nat
    /\ process # "down" => Exact
    /\ RestTyped
    /\ NeverExhausted
    /\ FrameConsistent

\* The inductive invariant is strong enough.
LEMMA IInvImplies == IInv => TypeOK /\ AccountingExact
BY DEF IInv, Table, RestTyped, TypeOK, AccountingExact, Exact, Present, _load_entry_count

\* The invariant and the growth step, from what a step does to their parts.
Kept == IInv' /\ GrowthStep

-----------------------------------------------------------------------------
(* The smaller parts of a step.                                            *)

\* A DELETE takes the bytes of one row and keeps the numbers exact,
LEMMA RemoveRow ==
    ASSUME Table(table), Exact, NEW k \in Keys, table[k] # None,
           _remove_entry_locked(k)
    PROVE  /\ Table(table)' /\ Exact'
           /\ table' = [table EXCEPT ![k] = None]
           /\ entry_count' \in Nat /\ current_memory_bytes' \in Nat
           /\ entry_count = entry_count' + 1
           /\ current_memory_bytes = current_memory_bytes' + size_bytes(table[k].entry)
           /\ size_bytes(table[k].entry) \in Nat
<1>1. table' = [table EXCEPT ![k] = None]
  BY DEF _remove_entry_locked
<1>2. /\ Table(table')
      /\ _load_entry_count(table) = _load_entry_count(table') + 1
      /\ _load_current_memory_bytes(table)
           = _load_current_memory_bytes(table') + size_bytes(table[k].entry)
  BY <1>1, RowRemoved
<1>3. size_bytes(table[k].entry) \in Nat
  BY SizePositive DEF Table, Row
<1>4. _load_entry_count(table') \in Nat /\ _load_current_memory_bytes(table') \in Nat
  BY <1>2, LoadedNumbers
<1>5. /\ entry_count' = _load_entry_count(table')
      /\ current_memory_bytes' = _load_current_memory_bytes(table')
  BY <1>2, <1>3, <1>4 DEF Exact, _remove_entry_locked
<1>6. Table(table)' /\ Exact'
  BY <1>2, <1>5 DEF Table, Exact, Filled, BytesOf, EntriesOf, size_bytes,
     _load_entry_count, _load_current_memory_bytes
<1> QED BY <1>1, <1>2, <1>3, <1>4, <1>5, <1>6 DEF Exact

\* and so does an INSERT.
LEMMA InsertRow ==
    ASSUME Table(table), Exact, NEW k \in Keys, table[k] = None,
           NEW row \in Row, Insert(k, row)
    PROVE  /\ Table(table)' /\ Exact'
           /\ table' = [table EXCEPT ![k] = row]
           /\ entry_count \in Nat /\ current_memory_bytes \in Nat
           /\ entry_count' = entry_count + 1
           /\ current_memory_bytes' = current_memory_bytes + size_bytes(row.entry)
           /\ size_bytes(row.entry) \in Nat
<1>1. table' = [table EXCEPT ![k] = row]
  BY DEF Insert
<1>2. /\ Table(table')
      /\ _load_entry_count(table') = _load_entry_count(table) + 1
      /\ _load_current_memory_bytes(table')
           = _load_current_memory_bytes(table) + size_bytes(row.entry)
  BY <1>1, RowInserted
<1>3. size_bytes(row.entry) \in Nat
  BY SizePositive DEF Row
<1>4. entry_count \in Nat /\ current_memory_bytes \in Nat
  BY LoadedNumbers DEF Exact
<1>5. /\ entry_count' = _load_entry_count(table')
      /\ current_memory_bytes' = _load_current_memory_bytes(table')
  BY <1>2 DEF Exact, Insert
<1>6. Table(table)' /\ Exact'
  BY <1>2, <1>5 DEF Table, Exact, Filled, BytesOf, EntriesOf, size_bytes,
     _load_entry_count, _load_current_memory_bytes
<1> QED BY <1>1, <1>3, <1>4, <1>6 DEF Insert

\* Without rows both numbers are zero.
LEMMA EmptyTable ==
    ASSUME Table(table), Exact, Present = {}
    PROVE  entry_count = 0 /\ current_memory_bytes = 0
<1>1. BytesOf(EntriesOf(table)) = {}
  BY EntriesType DEF Table, Present, BytesOf
<1> QED
  BY <1>1, FS_EmptySet DEF Exact, Present, _load_entry_count, _load_current_memory_bytes

\* Counting an event other than rejected_capacity.
LEMMA CountEvent ==
    ASSUME counters \in [CounterNames -> Nat],
           NEW name \in CounterNames \ {"rejected_capacity"}, Count(name)
    PROVE  /\ counters' \in [CounterNames -> Nat]
           /\ counters'.rejected_capacity = counters.rejected_capacity
BY DEF Count, CounterNames, NoCounts

\* Counters stay natural numbers when two of them are increased.
LEMMA CountTwoEvents ==
    ASSUME counters \in [CounterNames -> Nat],
           NEW a \in CounterNames \ {"rejected_capacity"},
           NEW b \in CounterNames \ {"rejected_capacity"},
           counters' = [counters EXCEPT ![a] = @ + 1, ![b] = @ + 1]
    PROVE  /\ counters' \in [CounterNames -> Nat]
           /\ counters'.rejected_capacity = counters.rejected_capacity
BY DEF CounterNames, NoCounts

\* The names of the counters.
LEMMA CounterNamesAre ==
    CounterNames = {"hits", "misses", "evictions", "lru_evictions",
                    "expired_removals", "rejected_oversize", "rejected_capacity"}
BY DEF CounterNames, NoCounts

\* A write frame and a stats frame are told apart by op.
LEMMA FrameKinds ==
    holder \in WriteFrame \cup StatsFrame \cup {None} =>
      /\ Writing => holder \in WriteFrame /\ ~ReadingStats /\ holder # None
      /\ ReadingStats => holder \in StatsFrame /\ ~Writing /\ ~Popped
      /\ LockFree => ~Writing /\ ~ReadingStats /\ ~Popped
BY DEF WriteFrame, StatsFrame, Writing, ReadingStats, LockFree, Popped

\* Items and Bytes are the two numbers, and the row that a write has taken out.
LEMMA WithTheFrame ==
    ASSUME IInv
    PROVE  /\ Popped => /\ Items = entry_count + 1
                        /\ Bytes = current_memory_bytes + size_bytes(holder.old.entry)
                        /\ size_bytes(holder.old.entry) \in Nat
           /\ ~Popped => Items = entry_count /\ Bytes = current_memory_bytes
           /\ Items \in Nat /\ Bytes \in Nat
           /\ Items >= entry_count /\ Bytes >= current_memory_bytes
<1>1. Popped => holder.old \in Row
  BY FrameKinds DEF IInv, RestTyped, Popped, WriteFrame
<1>2. Popped => size_bytes(holder.old.entry) \in Nat
  BY <1>1, SizePositive DEF Row
<1>3. Popped => /\ Items = entry_count + 1
                /\ Bytes = current_memory_bytes + size_bytes(holder.old.entry)
  BY DEF Items, Bytes
<1>4. ~Popped => Items = entry_count /\ Bytes = current_memory_bytes
  BY DEF Items, Bytes, IInv
<1> QED BY <1>2, <1>3, <1>4 DEF IInv

\* A step after which a caller finds no more rows and bytes than before.
LEMMA NoGrowth ==
    ASSUME IInv, NEW m \in Nat, NEW n \in Nat, Items' = m, Bytes' = n,
           m <= Items, n <= Bytes
    PROVE  GrowthStep
BY WithTheFrame DEF GrowthStep

-----------------------------------------------------------------------------
(* The kinds of steps.                                                     *)

\* A step that leaves the rows and their numbers alone.
LEMMA QuietStep ==
    ASSUME IInv, RestTyped', FrameConsistent', UNCHANGED rows,
           counters'.rejected_capacity = counters.rejected_capacity,
           process' # "down" => process # "down",
           holder' = holder \/ ~Popped'
    PROVE  Kept
<1>1. Table(table)' /\ (process' # "down" => Exact')
  BY DEF IInv, rows, Table, Exact, Filled, EntriesOf, BytesOf, size_bytes,
     _load_entry_count, _load_current_memory_bytes
<1>2. IInv'
  BY <1>1 DEF IInv, NeverExhausted, rows
<1>3. CASE holder' = holder
  <2>1. Popped' = Popped /\ size_bytes(holder.old.entry)' = size_bytes(holder.old.entry)
    BY <1>3 DEF Popped, Writing, size_bytes
  <2>2. Items' = Items /\ Bytes' = Bytes
    BY <2>1 DEF Items, Bytes, rows
  <2> QED BY <1>2, <2>2, WithTheFrame, NoGrowth DEF Kept
<1>4. CASE ~Popped'
  <2>1. Items' = entry_count + 0 /\ Bytes' = current_memory_bytes + 0
    BY <1>4 DEF Items, Bytes, rows
  <2>2. entry_count + 0 = entry_count /\ current_memory_bytes + 0 = current_memory_bytes
    BY DEF IInv
  <2>3. GrowthStep
    BY <2>1, <2>2, WithTheFrame, NoGrowth DEF IInv
  <2> QED BY <1>2, <2>3 DEF Kept
<1> QED BY <1>3, <1>4

\* A step that deletes one row, and puts it into the frame of a write or not.
LEMMA RemovingStep ==
    ASSUME IInv, RestTyped', FrameConsistent', process = "up", process' = "up",
           NEW k \in Keys, table[k] # None, _remove_entry_locked(k),
           counters'.rejected_capacity = counters.rejected_capacity,
           holder' = holder \/ ~Popped' \/ holder'.old = table[k]
    PROVE  Kept
<1>1. /\ Table(table)' /\ Exact'
      /\ entry_count' \in Nat /\ current_memory_bytes' \in Nat
      /\ entry_count = entry_count' + 1
      /\ current_memory_bytes = current_memory_bytes' + size_bytes(table[k].entry)
      /\ size_bytes(table[k].entry) \in Nat
  BY RemoveRow DEF IInv
<1>2. IInv'
  BY <1>1 DEF IInv, NeverExhausted
<1>3. PICK m \in Nat, n \in Nat : m = entry_count' /\ n = current_memory_bytes'
  BY <1>1
<1>4. /\ m + 1 = entry_count /\ n + size_bytes(table[k].entry) = current_memory_bytes
      /\ m <= entry_count /\ n <= current_memory_bytes
  <2>1. m + 1 = entry_count /\ n + size_bytes(table[k].entry) = current_memory_bytes
    BY <1>1, <1>3
  <2>2. PICK b \in Nat : b = size_bytes(table[k].entry)
    BY <1>1
  <2>3. n + b = current_memory_bytes
    BY <2>1, <2>2
  <2>4. m <= m + 1 /\ n <= n + b
    OBVIOUS
  <2> QED BY <2>1, <2>3, <2>4
<1>5. CASE ~Popped'
  <2>1. Items' = m + 0 /\ Bytes' = n + 0
    BY <1>3, <1>5 DEF Items, Bytes
  <2>2. Items' = m /\ Bytes' = n
    BY <2>1
  <2>3. entry_count \in Nat /\ current_memory_bytes \in Nat
    BY DEF IInv
  <2>4. m <= Items /\ n <= Bytes
    BY <1>4, <2>3, WithTheFrame
  <2> QED BY <1>2, <2>2, <2>4, NoGrowth DEF Kept
<1>6. CASE Popped' /\ holder' = holder
  <2>1. Popped /\ size_bytes(holder.old.entry)' = size_bytes(holder.old.entry)
    BY <1>6 DEF Popped, Writing, size_bytes
  <2>2. Items' = m + 1 /\ Bytes' = n + size_bytes(holder.old.entry)
    BY <1>3, <1>6, <2>1 DEF Items, Bytes
  <2>3. /\ Items = entry_count + 1 /\ size_bytes(holder.old.entry) \in Nat
        /\ Bytes = current_memory_bytes + size_bytes(holder.old.entry)
    BY <2>1, WithTheFrame
  <2> DEFINE old == size_bytes(holder.old.entry)
  <2> HIDE DEF old
  <2>4. entry_count \in Nat /\ current_memory_bytes \in Nat
    BY DEF IInv
  <2>5. /\ m + 1 <= Items /\ n + old <= Bytes
        /\ m + 1 \in Nat /\ n + old \in Nat
    BY <1>4, <2>3, <2>4 DEF old
  <2> USE DEF old
  <2> QED BY <1>2, <2>2, <2>5, NoGrowth DEF Kept
<1>7. CASE Popped' /\ holder'.old = table[k]
  <2>1. size_bytes(holder.old.entry)' = size_bytes(table[k].entry)
    BY <1>7 DEF size_bytes
  <2>2. Items' = m + 1 /\ Bytes' = n + size_bytes(table[k].entry)
    BY <1>3, <1>7, <2>1 DEF Items, Bytes
  <2>3. Items' = entry_count /\ Bytes' = current_memory_bytes
    BY <1>4, <2>2
  <2> QED BY <1>2, <2>3, WithTheFrame, NoGrowth DEF Kept, IInv
<1> QED BY <1>5, <1>6, <1>7

\* A step that ends a write with an INSERT: of the row it had deleted, or of
\* one for which there is room.
LEMMA PuttingStep ==
    ASSUME IInv, RestTyped', process' = process, Writing,
           NEW row \in Row, Insert(holder.key, row),
           \/ holder.old = row
           \/ /\ holder.old = None => entry_count < max_items
              /\ current_memory_bytes + size_bytes(row.entry) <= max_memory_bytes,
           counters'.rejected_capacity = counters.rejected_capacity,
           holder' = None
    PROVE  Kept
<1>1. /\ holder.key \in Keys /\ table[holder.key] = None
      /\ process = "up" /\ row # None
  BY FrameKinds, SqliteAssumption DEF IInv, RestTyped, FrameConsistent, WriteFrame
<1>2. /\ Table(table)' /\ Exact'
      /\ entry_count \in Nat /\ current_memory_bytes \in Nat
      /\ entry_count' = entry_count + 1
      /\ current_memory_bytes' = current_memory_bytes + size_bytes(row.entry)
      /\ size_bytes(row.entry) \in Nat
  BY <1>1, InsertRow DEF IInv
<1>3. ~Writing' /\ ~Popped'
  BY DEF Writing, Popped
<1>4. entry_count' \in Nat /\ current_memory_bytes' \in Nat
  BY <1>2
<1>5. IInv'
  BY <1>2, <1>3, <1>4 DEF IInv, NeverExhausted, FrameConsistent
<1>6. PICK m \in Nat, n \in Nat : m = entry_count' /\ n = current_memory_bytes'
  BY <1>4
<1>7. /\ m = entry_count + 1
      /\ n = current_memory_bytes + size_bytes(row.entry)
  BY <1>2, <1>6
<1>8. Items' = m + 0 /\ Bytes' = n + 0
  BY <1>3, <1>6 DEF Items, Bytes
<1>9. Items' = m /\ Bytes' = n
  BY <1>8
<1>10. CASE holder.old = row
  <2>1. Popped
    BY <1>1, <1>10 DEF Popped
  <2>2. m = Items /\ n = Bytes
    BY <1>7, <1>10, <2>1, WithTheFrame
  <2> QED BY <1>5, <1>9, <2>2, NoGrowth DEF Kept
<1>11. CASE /\ holder.old = None => entry_count < max_items
            /\ current_memory_bytes + size_bytes(row.entry) <= max_memory_bytes
  <2>1. n <= max_memory_bytes
    BY <1>7, <1>11
  <2>2. m > Items => m <= max_items
    <3>1. CASE holder.old = None
      BY <1>2, <1>7, <1>11, <3>1, ModelsAssumption
    <3>2. CASE holder.old # None
      BY <1>7, <3>2, WithTheFrame DEF Popped
    <3> QED BY <3>1, <3>2
  <2> QED BY <1>5, <1>9, <2>1, <2>2 DEF Kept, GrowthStep
<1> QED BY <1>10, <1>11

\* A write that puts the row back which it had deleted, if any.
LEMMA RestoringStep ==
    ASSUME IInv, RestTyped', process' = process, Writing, _restore_row_locked,
           counters'.rejected_capacity = counters.rejected_capacity,
           holder' = None
    PROVE  Kept
<1>1. holder.old \in Row \cup {None}
  BY FrameKinds DEF IInv, RestTyped, WriteFrame
<1>2. CASE holder.old = None
  <2>1. UNCHANGED rows
    BY <1>2 DEF _restore_row_locked
  <2>2. ~Popped' /\ FrameConsistent'
    BY DEF Popped, Writing, FrameConsistent
  <2> QED BY <2>1, <2>2, QuietStep
<1>3. CASE holder.old # None
  <2>1. Insert(holder.key, holder.old)
    BY <1>3 DEF _restore_row_locked
  <2> HIDE DEF _restore_row_locked
  <2> QED BY <1>1, <1>3, <2>1, PuttingStep
<1> QED BY <1>2, <1>3

-----------------------------------------------------------------------------
(* Every action preserves the invariant and respects the limits.           *)

\* A start loads exact numbers from any file.
LEMMA InitIInv == Init => IInv
<1> SUFFICES ASSUME Init PROVE IInv
  OBVIOUS
<1>1. Table(table)
  BY FileIsTable DEF Init
<1>2. Exact /\ entry_count \in Nat /\ current_memory_bytes \in Nat
  BY <1>1, LoadedNumbers DEF Init, Exact
<1>3. counters \in [CounterNames -> Nat] /\ NeverExhausted
  BY DEF Init, NoCounts, CounterNames, NeverExhausted
<1>4. cleaner \in Cleaner
  BY DEF Init, Cleaner, Waiting, NoSnapshot
<1>5. RestTyped
  <2>1. clock \in 0..MaxClock /\ mishaps \in 0..MaxMishaps
    <3>1. clock = 0 /\ mishaps = 0
      BY DEF Init
    <3>2. MaxClock \in Nat /\ MaxMishaps \in Nat
      BY SqliteAssumption
    <3> QED BY <3>1, <3>2
  <2>2. /\ holder \in WriteFrame \cup StatsFrame \cup {None}
        /\ stop_event \in BOOLEAN /\ process \in {"up", "closed", "down"}
    BY DEF Init
  <2> QED BY <1>3, <1>4, <2>1, <2>2 DEF RestTyped
<1>6. FrameConsistent
  BY DEF Init, FrameConsistent, Writing
<1> QED BY <1>1, <1>2, <1>3, <1>5, <1>6 DEF IInv

\* A step without a frame before and after it.
LEMMA NoFrame ==
    ASSUME holder' = None
    PROVE  FrameConsistent' /\ ~Popped' /\ ~Writing'
BY DEF FrameConsistent, Popped, Writing

\* get, with its failure, and delete.
LEMMA ReadStep ==
    ASSUME IInv, NEW k \in Keys, get(k) \/ GetFails(k) \/ delete(k)
    PROVE  Kept
<1>0. /\ RestTyped /\ process = "up" /\ process' = "up"
      /\ holder = None /\ holder' = None
      /\ UNCHANGED <<clock, cleaner, stop_event>>
      /\ mishaps' \in 0..MaxMishaps
  <2>1. RestTyped /\ mishaps \in 0..MaxMishaps
    BY DEF IInv, RestTyped
  <2>2. CASE get(k) \/ delete(k)
    BY <2>1, <2>2 DEF get, delete, Call, Process, LockFree
  <2>3. CASE GetFails(k)
    <3>1. mishaps' \in 0..MaxMishaps
      BY <2>1, <2>3, SqliteAssumption DEF GetFails, Happens
    <3> QED BY <2>1, <2>3, <3>1 DEF GetFails, LockFree
  <2> QED BY <2>2, <2>3
<1>1. FrameConsistent' /\ ~Popped'
  BY <1>0, NoFrame
<1>2. ASSUME NEW name \in {"hits", "misses"}, Count(name)
      PROVE  RestTyped' /\ counters'.rejected_capacity = counters.rejected_capacity
  BY <1>0, <1>2, CountEvent, CounterNamesAre DEF RestTyped
<1>3. CASE get(k) /\ table[k] = None
  <2>1. UNCHANGED rows /\ Count("misses")
    BY <1>3 DEF get, Expired, Live
  <2> QED BY <1>0, <1>1, <1>2, <2>1, QuietStep
<1>4. CASE get(k) /\ Expired(k)
  <2>1. /\ table[k] # None /\ _remove_entry_locked(k)
        /\ counters' = [counters EXCEPT !.misses = @ + 1, !.expired_removals = @ + 1]
    BY <1>4 DEF get, Expired, Live
  <2>2. RestTyped' /\ counters'.rejected_capacity = counters.rejected_capacity
    BY <1>0, <2>1, CountTwoEvents, CounterNamesAre DEF RestTyped
  <2> QED BY <1>0, <1>1, <2>1, <2>2, RemovingStep
<1>5. CASE get(k) /\ Live(k)
  <2>1. /\ table[k] # None
        /\ table' = [table EXCEPT ![k].last_accessed = clock]
        /\ UNCHANGED <<entry_count, current_memory_bytes>> /\ Count("hits")
    BY <1>5 DEF get, Expired, Live
  <2>2. RestTyped' /\ counters'.rejected_capacity = counters.rejected_capacity
    BY <1>2, <2>1
  <2>3. clock \in Nat
    BY <1>0, SqliteAssumption DEF RestTyped
  <2>4. /\ Table(table')
        /\ _load_entry_count(table') = _load_entry_count(table)
        /\ _load_current_memory_bytes(table') = _load_current_memory_bytes(table)
    BY <2>1, <2>3, RowTouched DEF IInv
  <2>5. Table(table)' /\ Exact'
    BY <1>0, <2>1, <2>4 DEF IInv, Table, Exact, Filled, BytesOf, EntriesOf, size_bytes,
       _load_entry_count, _load_current_memory_bytes
  <2>6. IInv'
    BY <1>1, <2>1, <2>2, <2>5 DEF IInv, NeverExhausted
  <2>7. ~Popped
    BY <1>0 DEF Popped, Writing
  <2>8. Items' = Items /\ Bytes' = Bytes
    BY <1>1, <2>1, <2>7 DEF Items, Bytes
  <2> QED BY <2>6, <2>8, WithTheFrame, NoGrowth DEF Kept
<1>6. CASE GetFails(k)
  <2>1. UNCHANGED rows /\ Count("misses")
    BY <1>6 DEF GetFails
  <2> QED BY <1>0, <1>1, <1>2, <2>1, QuietStep
<1>7. CASE delete(k)
  <2>1. RestTyped' /\ counters' = counters
    BY <1>0, <1>7 DEF delete, RestTyped
  <2>2. CASE table[k] # None
    <3>1. _remove_entry_locked(k)
      BY <1>7, <2>2 DEF delete
    <3> QED BY <1>0, <1>1, <2>1, <2>2, <3>1, RemovingStep
  <2>3. CASE table[k] = None
    <3>1. UNCHANGED rows
      BY <1>7, <2>3 DEF delete
    <3> QED BY <1>0, <1>1, <2>1, <3>1, QuietStep
  <2> QED BY <2>2, <2>3
<1> QED BY <1>3, <1>4, <1>5, <1>6, <1>7 DEF get

\* The first step of a write: refused, or its old row deleted and its frame
\* built.
LEMMA StartingStep ==
    ASSUME IInv, NEW k \in Keys, NEW v \in Values, NEW t \in Ttls,
           \/ set(k, v, t)
           \/ set_if_absent(k, v, t)
           \/ \E expected \in Values : compare_and_set(k, expected, v, t)
    PROVE  Kept
<1>0. /\ RestTyped /\ process = "up" /\ process' = "up" /\ holder = None
      /\ UNCHANGED <<clock, cleaner, stop_event, process, mishaps>>
      /\ clock \in Nat
  BY SqliteAssumption DEF IInv, RestTyped, set, set_if_absent, compare_and_set,
     Call, Process, LockFree
<1>1. table[k] \in Row \cup {None} /\ CacheEntry(v, t, clock) \in Entry
  BY <1>0, CacheEntryType DEF IInv, Table
<1>2. ASSUME NEW op \in {"set", "set_if_absent", "compare_and_set"},
             NEW old \in {table[k], None}, holder' = Frame(op, k, v, t, old)
      PROVE  holder' \in WriteFrame /\ holder'.key = k /\ holder'.old = old
  BY <1>1, <1>2 DEF Frame, WriteFrame
<1>3. ASSUME holder' \in WriteFrame, holder'.key = k, table'[k] = None
      PROVE  FrameConsistent'
  BY <1>0, <1>3 DEF FrameConsistent
\* The call is refused.
<1>4. ASSUME UNCHANGED <<rows, counters, holder>> PROVE Kept
  <2>1. RestTyped' /\ FrameConsistent'
    BY <1>0, <1>4, NoFrame DEF RestTyped
  <2> QED BY <1>0, <1>4, <2>1, QuietStep
\* Its key has no row.
<1>5. ASSUME table[k] = None, UNCHANGED <<rows, counters>>, holder' \in WriteFrame,
             holder'.key = k, holder'.old = None
      PROVE  Kept
  <2>1. RestTyped' /\ FrameConsistent' /\ ~Popped'
    BY <1>0, <1>3, <1>5 DEF RestTyped, rows, Popped
  <2> QED BY <1>0, <1>5, <2>1, QuietStep
\* Its key has one, which is deleted.
<1>6. ASSUME table[k] # None, _remove_entry_locked(k),
             counters' = counters \/ Count("expired_removals"),
             \/ holder' = None
             \/ holder' \in WriteFrame /\ holder'.key = k /\ holder'.old \in {table[k], None}
      PROVE  Kept
  <2>1. /\ counters' \in [CounterNames -> Nat]
        /\ counters'.rejected_capacity = counters.rejected_capacity
    BY <1>0, <1>6, CountEvent, CounterNamesAre DEF RestTyped
  <2>2. RestTyped'
    BY <1>0, <1>6, <2>1 DEF RestTyped
  <2>3. table'[k] = None
    BY <1>6 DEF _remove_entry_locked, IInv, Table
  <2>4. FrameConsistent'
    BY <1>3, <1>6, <2>3, NoFrame
  <2>5. ~Popped' \/ holder'.old = table[k]
    BY <1>6 DEF Popped, Writing
  <2> QED BY <1>0, <1>6, <2>1, <2>2, <2>4, <2>5, RemovingStep
<1>7. CASE set(k, v, t)
  <2>1. /\ holder' = Frame("set", k, v, t, table[k]) /\ counters' = counters
        /\ IF table[k] = None THEN UNCHANGED rows ELSE _remove_entry_locked(k)
    BY <1>7 DEF set
  <2>2. holder' \in WriteFrame /\ holder'.key = k /\ holder'.old = table[k]
    BY <1>2, <2>1
  <2> QED BY <1>5, <1>6, <2>1, <2>2
<1>8. CASE set_if_absent(k, v, t)
  <2>1. CASE Live(k)
    BY <1>4, <1>8, <2>1 DEF set_if_absent
  <2>2. CASE ~Live(k)
    <3>1. /\ holder' = Frame("set_if_absent", k, v, t, None)
          /\ IF Expired(k) THEN _remove_expired_entry_locked(k)
             ELSE UNCHANGED <<rows, counters>>
      BY <1>8, <2>2 DEF set_if_absent
    <3>2. holder' \in WriteFrame /\ holder'.key = k /\ holder'.old = None
      BY <1>2, <3>1
    <3> QED
      BY <1>5, <1>6, <2>2, <3>1, <3>2 DEF Live, Expired, _remove_expired_entry_locked
  <2> QED BY <2>1, <2>2
<1>9. ASSUME NEW expected \in Values, compare_and_set(k, expected, v, t)
      PROVE  Kept
  <2>1. CASE ~Live(k)
    <3>1. /\ holder' = None /\ holder' = holder
          /\ IF Expired(k) THEN _remove_expired_entry_locked(k)
             ELSE UNCHANGED <<rows, counters>>
      BY <1>0, <1>9, <2>1 DEF compare_and_set
    <3> QED BY <1>4, <1>6, <3>1 DEF Expired, _remove_expired_entry_locked
  <2>2. CASE Live(k) /\ table[k].entry.value # expected
    BY <1>4, <1>9, <2>2 DEF compare_and_set
  <2>3. CASE Live(k) /\ table[k].entry.value = expected
    <3>1. /\ holder' = Frame("compare_and_set", k, v, t, table[k])
          /\ _remove_entry_locked(k) /\ counters' = counters
      BY <1>9, <2>3 DEF compare_and_set
    <3>2. holder' \in WriteFrame /\ holder'.key = k /\ holder'.old = table[k]
      BY <1>2, <3>1
    <3> QED BY <1>6, <2>3, <3>1, <3>2 DEF Live
  <2> QED BY <2>1, <2>2, <2>3
<1> QED BY <1>7, <1>8, <1>9

\* When no round of eviction is left, either the table is empty and so are its
\* numbers, or the limits are not in the way.
LEMMA RoomIsLeft == IInv /\ StoreOrExhausted => ~TooManyBytes /\ ~TooManyItems
<1> SUFFICES ASSUME IInv, StoreOrExhausted PROVE ~TooManyBytes /\ ~TooManyItems
  OBVIOUS
<1>0. /\ Writing /\ holder \in WriteFrame /\ Exact
      /\ Present = {} \/ ~(TooManyBytes \/ TooManyItems)
  BY FrameKinds DEF IInv, RestTyped, FrameConsistent, StoreOrExhausted
<1>1. holder.entry \in Entry /\ size_bytes(holder.entry) \in Nat \ {0}
  BY <1>0, SizePositive DEF WriteFrame
<1>2. CASE Present = {}
  <2>1. current_memory_bytes = 0 /\ entry_count = 0
    BY <1>0, <1>2, EmptyTable DEF IInv
  <2>2. size_bytes(holder.entry) <= max_memory_bytes
    BY <1>1, ValueLimit, ModelsAssumption DEF StoreOrExhausted, Oversize
  <2> QED BY <1>1, <2>1, <2>2, ModelsAssumption DEF TooManyBytes, TooManyItems
<1> QED BY <1>0, <1>2

\* The later steps of a write.
LEMMA WriteStep ==
    ASSUME IInv,
           RejectOversize \/ StoreOrExhausted \/ \E k \in Keys : _evict_lru_locked(k)
    PROVE  Kept
<1>0. /\ RestTyped /\ Writing /\ holder \in WriteFrame /\ holder # None
      /\ process = "up" /\ Exact /\ process' = "up"
      /\ UNCHANGED <<clock, cleaner, stop_event, process, mishaps>>
  BY FrameKinds DEF IInv, RestTyped, FrameConsistent, RejectOversize,
     StoreOrExhausted, _evict_lru_locked, FinishWrite, Process
<1>1. /\ holder.entry \in Entry /\ size_bytes(holder.entry) \in Nat \ {0}
      /\ entry_count \in Nat /\ current_memory_bytes \in Nat
  BY <1>0, SizePositive DEF WriteFrame, IInv
<1>2. CASE RejectOversize
  <2>1. _restore_row_locked /\ Count("rejected_oversize") /\ holder' = None
    BY <1>2 DEF RejectOversize, FinishWrite
  <2>2. RestTyped' /\ counters'.rejected_capacity = counters.rejected_capacity
    BY <1>0, <2>1, CountEvent, CounterNamesAre DEF RestTyped
  <2> QED BY <1>0, <2>1, <2>2, RestoringStep
<1>3. ASSUME NEW k \in Keys, _evict_lru_locked(k) PROVE Kept
  <2>1. /\ table[k] # None /\ _remove_entry_locked(k) /\ holder' = holder
        /\ counters' = [counters EXCEPT !.evictions = @ + 1, !.lru_evictions = @ + 1]
    BY <1>3 DEF _evict_lru_locked, Coldest, Present
  <2>2. RestTyped' /\ counters'.rejected_capacity = counters.rejected_capacity
    BY <1>0, <2>1, CountTwoEvents, CounterNamesAre DEF RestTyped
  <2>3. table' = [table EXCEPT ![k] = None]
    BY <2>1 DEF _remove_entry_locked
  <2>4. holder.key \in Keys /\ table[holder.key] = None /\ Table(table)
    BY <1>0 DEF IInv, FrameConsistent, WriteFrame
  <2>5. table'[holder.key] = None
    BY <2>3, <2>4 DEF Table
  <2>6. FrameConsistent'
    BY <1>0, <2>1, <2>5 DEF FrameConsistent
  <2> QED BY <1>0, <2>1, <2>2, <2>6, RemovingStep
<1>4. CASE StoreOrExhausted
  <2>1. ~TooManyBytes /\ ~TooManyItems
    BY <1>4, RoomIsLeft
  <2> DEFINE row == [entry |-> holder.entry, last_accessed |-> clock]
  <2>2. /\ Insert(holder.key, row) /\ counters' = counters /\ holder' = None
    BY <1>4, <2>1 DEF StoreOrExhausted, FinishWrite, _insert_row_locked
  <2>3. row \in Row /\ row.entry = holder.entry
    BY <1>0, <1>1, SqliteAssumption DEF Row, RestTyped
  <2>4. current_memory_bytes + size_bytes(row.entry) <= max_memory_bytes
    BY <1>1, <2>1, <2>3, ModelsAssumption DEF TooManyBytes
  <2>5. holder.old = None => entry_count < max_items
    BY <1>1, <2>1, ModelsAssumption DEF TooManyItems
  <2>6. RestTyped'
    BY <1>0, <2>2 DEF RestTyped
  <2> HIDE DEF row
  <2> QED BY <1>0, <2>2, <2>3, <2>4, <2>5, <2>6, PuttingStep
<1> QED BY <1>2, <1>3, <1>4

\* stats(), row by row.
LEMMA StatsStep ==
    ASSUME IInv, stats \/ StatsReturn \/ \E k \in Keys : StatsVisit(k)
    PROVE  Kept
<1>0. RestTyped /\ process = "up" /\ UNCHANGED <<clock, cleaner, stop_event, process, mishaps>>
  BY DEF IInv, RestTyped, FrameConsistent, stats, StatsReturn, StatsVisit, Call,
     Process, ReadingStats
<1>1. CASE stats
  <2>1. /\ UNCHANGED rows /\ counters' = counters
        /\ holder' = [op |-> "stats", fetched |-> Present]
    BY <1>1 DEF stats
  <2>2. holder' \in StatsFrame /\ holder'.op = "stats"
    BY <2>1 DEF StatsFrame, Present
  <2>3. RestTyped' /\ FrameConsistent' /\ ~Popped'
    BY <1>0, <2>1, <2>2 DEF RestTyped, FrameConsistent, Writing, Popped
  <2> QED BY <1>0, <2>1, <2>3, QuietStep
<1>2. CASE StatsReturn
  <2>1. UNCHANGED rows /\ counters' = counters /\ holder' = None
    BY <1>2 DEF StatsReturn
  <2>2. RestTyped' /\ FrameConsistent' /\ ~Popped'
    BY <1>0, <2>1, NoFrame DEF RestTyped
  <2> QED BY <1>0, <2>1, <2>2, QuietStep
<1>3. ASSUME NEW k \in Keys, StatsVisit(k) PROVE Kept
  <2>1. /\ ReadingStats /\ holder' = [holder EXCEPT !.fetched = @ \ {k}]
        /\ IF Expired(k) THEN _remove_expired_entry_locked(k)
           ELSE UNCHANGED <<rows, counters>>
    BY <1>3 DEF StatsVisit
  <2>2. holder \in StatsFrame
    BY <1>0, <2>1, FrameKinds DEF RestTyped
  <2>3. holder' \in StatsFrame /\ holder'.op = "stats"
    BY <2>1, <2>2 DEF StatsFrame
  <2>4. ~Popped' /\ FrameConsistent'
    BY <1>0, <2>3 DEF Popped, Writing, FrameConsistent
  <2>5. CASE Expired(k)
    <3>1. table[k] # None /\ _remove_entry_locked(k) /\ Count("expired_removals")
      BY <2>1, <2>5 DEF Expired, _remove_expired_entry_locked
    <3>2. /\ counters' \in [CounterNames -> Nat]
          /\ counters'.rejected_capacity = counters.rejected_capacity
      BY <1>0, <3>1, CountEvent, CounterNamesAre DEF RestTyped
    <3>3. RestTyped'
      BY <1>0, <2>3, <3>2 DEF RestTyped
    <3> QED BY <1>0, <2>4, <3>1, <3>2, <3>3, RemovingStep
  <2>6. CASE ~Expired(k)
    <3>1. UNCHANGED rows /\ counters' = counters
      BY <2>1, <2>6
    <3>2. RestTyped'
      BY <1>0, <2>3, <3>1 DEF RestTyped
    <3> QED BY <1>0, <2>4, <3>1, <3>2, QuietStep
  <2> QED BY <2>5, <2>6
<1> QED BY <1>1, <1>2, <1>3

\* clear(), and the end of a process: both numbers are zero afterwards.
LEMMA ZeroingStep ==
    ASSUME IInv, RestTyped', Table(table)', process' # "down" => Exact',
           entry_count' = 0, current_memory_bytes' = 0, counters' = NoCounts,
           holder' = None
    PROVE  Kept
<1>1. FrameConsistent' /\ ~Popped'
  BY NoFrame
<1>2. NeverExhausted'
  BY DEF NeverExhausted, NoCounts
<1>3. IInv'
  BY <1>1, <1>2 DEF IInv
<1>4. Items' = 0 /\ Bytes' = 0
  BY <1>1 DEF Items, Bytes
<1> QED BY <1>3, <1>4, WithTheFrame, NoGrowth DEF Kept

\* clear().
LEMMA ClearStep == IInv /\ clear => Kept
<1> SUFFICES ASSUME IInv, clear PROVE Kept
  OBVIOUS
<1>1. /\ table' = [k \in Keys |-> None] /\ entry_count' = 0 /\ current_memory_bytes' = 0
      /\ counters' = NoCounts /\ holder' = None
      /\ UNCHANGED <<clock, cleaner, stop_event, process, mishaps>>
  BY DEF clear, Call, Process, LockFree
<1> DEFINE t == [k \in Keys |-> None]
<1>2. Filled(t) = {} /\ BytesOf(EntriesOf(t)) = {}
  BY DEF Filled, BytesOf, EntriesOf
<1>3. Table(t) /\ _load_entry_count(t) = 0 /\ _load_current_memory_bytes(t) = 0
  BY <1>2, FS_EmptySet DEF Table, Filled, _load_entry_count, _load_current_memory_bytes
<1>4. table' = t
  BY <1>1
<1> HIDE DEF t
<1>5. Table(table)' /\ Exact'
  BY <1>1, <1>3, <1>4 DEF Table, Exact, Filled, BytesOf, EntriesOf, size_bytes,
     _load_entry_count, _load_current_memory_bytes
<1>6. counters' \in [CounterNames -> Nat]
  BY <1>1 DEF NoCounts, CounterNames
<1>7. RestTyped'
  BY <1>1, <1>6 DEF IInv, RestTyped
<1> QED BY <1>1, <1>5, <1>7, ZeroingStep

\* The cleaner thread.
LEMMA CleanerStep ==
    ASSUME IInv,
           \/ CleanerSnapshot \/ CleanerCheck \/ CleanerError \/ CleanerExit
           \/ \E k \in Keys : _remove_if_expired(k)
    PROVE  Kept
<1>0. /\ RestTyped /\ UNCHANGED <<clock, holder, stop_event, process>>
      /\ Table(table)
  BY DEF IInv, CleanerSnapshot, CleanerCheck, CleanerError, CleanerExit,
     _remove_if_expired, NotCleaner
<1>1. Waiting \in Cleaner
  BY DEF Waiting, NoSnapshot, Cleaner
<1>2. ASSUME cleaner' \in Cleaner, UNCHANGED <<rows, counters>>,
             mishaps' = mishaps \/ Happens("sql_error")
      PROVE  Kept
  <2>1. mishaps' \in 0..MaxMishaps
    BY <1>0, <1>2, SqliteAssumption DEF RestTyped, Happens
  <2>2. RestTyped' /\ FrameConsistent'
    BY <1>0, <1>2, <2>1 DEF IInv, RestTyped, FrameConsistent, Writing, rows
  <2> QED BY <1>0, <1>2, <2>2, QuietStep
<1>3. CASE CleanerSnapshot
  <2>1. EntriesOf(table) \in [Keys -> Entry \cup {None}]
    BY <1>0, EntriesType DEF Table
  <2>2. cleaner' \in Cleaner
    BY <1>0, <1>3, <2>1 DEF CleanerSnapshot, RestTyped, Cleaner
  <2> QED BY <1>2, <1>3, <2>2 DEF CleanerSnapshot
<1>4. CASE CleanerCheck
  <2>1. cleaner' \in Cleaner
    BY <1>1, <1>4 DEF CleanerCheck, Cleaner, NoSnapshot
  <2> QED BY <1>2, <1>4, <2>1 DEF CleanerCheck
<1>5. CASE CleanerError
  BY <1>1, <1>2, <1>5 DEF CleanerError
<1>6. CASE CleanerExit
  <2>1. cleaner' \in Cleaner
    BY <1>0, <1>6 DEF CleanerExit, RestTyped, Cleaner
  <2> QED BY <1>2, <1>6, <2>1 DEF CleanerExit
<1>7. ASSUME NEW k \in Keys, _remove_if_expired(k) PROVE Kept
  <2>1. /\ process = "up" /\ holder = None /\ mishaps' = mishaps
        /\ cleaner' = CleanerNext(k)
        /\ IF Expired(k) THEN _remove_expired_entry_locked(k)
           ELSE UNCHANGED <<rows, counters>>
    BY <1>7 DEF _remove_if_expired, LockFree
  <2>2. CleanerNext(k) \in Cleaner
    BY <1>0, <1>1 DEF CleanerNext, RestTyped, Cleaner
  <2>3. CASE Expired(k)
    <3>1. table[k] # None /\ _remove_entry_locked(k) /\ Count("expired_removals")
      BY <2>1, <2>3 DEF Expired, _remove_expired_entry_locked
    <3>2. /\ counters' \in [CounterNames -> Nat]
          /\ counters'.rejected_capacity = counters.rejected_capacity
      BY <1>0, <3>1, CountEvent, CounterNamesAre DEF RestTyped
    <3>3. RestTyped' /\ FrameConsistent' /\ ~Popped'
      BY <1>0, <2>1, <2>2, <3>2, NoFrame DEF RestTyped
    <3> QED BY <1>0, <2>1, <3>1, <3>2, <3>3, RemovingStep
  <2>4. CASE ~Expired(k)
    BY <1>2, <2>1, <2>2, <2>4
  <2> QED BY <2>3, <2>4
<1> QED BY <1>3, <1>4, <1>5, <1>6, <1>7

\* Stopping, ending, starting; failures; the clock.
LEMMA ProcessStep ==
    ASSUME IInv, stop \/ Close \/ Exit \/ Crash \/ Reboot \/ Start \/ StatementFails \/ Tick
    PROVE  Kept
<1>0. RestTyped /\ Table(table) /\ FrameConsistent
  BY DEF IInv
<1>1. ASSUME NEW kind, Happens(kind) PROVE mishaps' \in 0..MaxMishaps
  BY <1>0, <1>1, SqliteAssumption DEF RestTyped, Happens
<1>2. ASSUME UNCHANGED <<rows, counters>>, holder' = holder,
             process' = process \/ holder = None, process' # "down" => process # "down",
             RestTyped'
      PROVE  Kept
  <2>1. FrameConsistent'
    BY <1>0, <1>2 DEF FrameConsistent, Writing, rows
  <2> QED BY <1>2, <2>1, QuietStep
<1>3. CASE stop
  BY <1>0, <1>2, <1>3 DEF stop, RestTyped
<1>4. CASE Close
  BY <1>0, <1>2, <1>4 DEF Close, RestTyped, LockFree
<1>5. CASE Exit \/ Crash
  <2>1. /\ Forget /\ UNCHANGED <<table, clock>>
        /\ mishaps' \in 0..MaxMishaps
    BY <1>0, <1>1, <1>5 DEF Exit, Crash, RestTyped
  <2>2. counters' \in [CounterNames -> Nat]
    BY <2>1 DEF Forget, NoCounts, CounterNames
  <2>3. cleaner' \in Cleaner
    BY <2>1 DEF Forget, Waiting, NoSnapshot, Cleaner
  <2>4. RestTyped'
    BY <1>0, <2>1, <2>2, <2>3 DEF Forget, RestTyped
  <2>5. Table(table)'
    BY <1>0, <2>1 DEF Table, Filled, EntriesOf, BytesOf, size_bytes
  <2> QED BY <2>1, <2>4, <2>5, ZeroingStep DEF Forget
<1>6. CASE Reboot
  <2>1. clock' \in 0..MaxClock /\ mishaps' \in 0..MaxMishaps
    BY <1>1, <1>6, SqliteAssumption DEF Reboot
  <2> QED BY <1>0, <1>2, <1>6, <2>1 DEF Reboot, RestTyped
<1>7. CASE Start
  <2>1. /\ entry_count' = _load_entry_count(table)
        /\ current_memory_bytes' = _load_current_memory_bytes(table)
        /\ UNCHANGED <<table, counters, clock, holder, stop_event, mishaps>>
        /\ cleaner' = Waiting /\ process = "down" /\ process' = "up"
    BY <1>7 DEF Start
  <2>2. _load_entry_count(table) \in Nat /\ _load_current_memory_bytes(table) \in Nat
    BY <1>0, LoadedNumbers
  <2>3. Table(table)' /\ Exact'
    BY <1>0, <2>1 DEF Table, Exact, Filled, BytesOf, EntriesOf, size_bytes,
       _load_entry_count, _load_current_memory_bytes
  <2>4. RestTyped'
    BY <1>0, <2>1 DEF RestTyped, Waiting, NoSnapshot, Cleaner
  <2>5. holder' = None
    BY <1>0, <2>1 DEF FrameConsistent
  <2>6. IInv'
    BY <2>1, <2>2, <2>3, <2>4, <2>5, NoFrame DEF IInv, NeverExhausted
  <2> QED BY <2>1, <2>6 DEF Kept, GrowthStep
<1>8. CASE StatementFails
  <2>1. /\ UNCHANGED <<rows, counters, clock, cleaner, stop_event, process>>
        /\ holder' = None /\ mishaps' \in 0..MaxMishaps
    BY <1>1, <1>8 DEF StatementFails
  <2>2. RestTyped' /\ FrameConsistent' /\ ~Popped'
    BY <1>0, <2>1, NoFrame DEF RestTyped
  <2> QED BY <2>1, <2>2, QuietStep
<1>9. CASE Tick
  <2>1. clock' \in 0..MaxClock
    BY <1>0, <1>9, SqliteAssumption DEF Tick, RestTyped
  <2> QED BY <1>0, <1>2, <1>9, <2>1 DEF Tick, RestTyped
<1> QED BY <1>3, <1>4, <1>5, <1>6, <1>7, <1>8, <1>9

\* Every step keeps the inductive invariant and respects the limits.
LEMMA NextIInv == IInv /\ [Next]_vars => IInv' /\ [GrowthStep]_vars
<1> SUFFICES ASSUME IInv, [Next]_vars PROVE IInv' /\ [GrowthStep]_vars
  OBVIOUS
<1>1. CASE UNCHANGED vars
  <2>1. /\ UNCHANGED rows /\ RestTyped' /\ FrameConsistent' /\ holder' = holder
        /\ counters' = counters /\ process' = process
    BY <1>1 DEF vars, rows, IInv, RestTyped, FrameConsistent, Writing
  <2> QED BY <1>1, <2>1, QuietStep DEF Kept
<1>2. CASE Next
  <2>1. Kept
    BY <1>2, ReadStep, StartingStep, WriteStep, StatsStep, ClearStep, CleanerStep,
       ProcessStep DEF Next
  <2> QED BY <2>1 DEF Kept
<1> QED BY <1>1, <1>2

-----------------------------------------------------------------------------
(* What happens to the entry of one key in one step.                       *)

\* A step that leaves every row alone, or takes an expired one, or puts the row
\* of a frame back, costs nobody a live entry.
LEMMA LiveEntryLemma == IInv /\ [Next]_vars => LiveEntryStep
<1> SUFFICES ASSUME IInv, [Next]_vars, NEW k \in Keys,
                    Held(k) # None, ~is_expired(Held(k), clock), Held(k)' # Held(k)
             PROVE  \/ delete(k) \/ clear
                    \/ Writing /\ holder.key = k /\ Held(k)' = holder.entry
                    \/ Writing /\ k \in Coldest /\ Held(k)' = None
                    \/ Failing /\ Writing /\ holder.key = k
  BY DEF LiveEntryStep
<1>0. /\ table \in [Keys -> Row \cup {None}]
      /\ holder \in WriteFrame \cup StatsFrame \cup {None}
      /\ mishaps \in Nat
      /\ Writing => /\ ~ReadingStats /\ holder \in WriteFrame
                    /\ table[holder.key] = None
      /\ LockFree \/ ReadingStats => ~Popped
      /\ holder # None => process = "up"
  BY FrameKinds DEF IInv, Table, RestTyped, FrameConsistent
\* What a caller may rely on while nothing is popped.
<1>1. /\ ~Popped => Held(k) = EntriesOf(table)[k]
      /\ ~Popped' => Held(k)' = EntriesOf(table')[k]
  BY DEF Held, EntriesOf
<1>2. ASSUME NEW j \in Keys, Expired(j), table' = [table EXCEPT ![j] = None],
             ~Popped, ~Popped'
      PROVE  FALSE
  BY <1>0, <1>1, <1>2 DEF Expired, EntriesOf
<1>3. ASSUME EntriesOf(table') = EntriesOf(table), ~Popped, ~Popped'
      PROVE  FALSE
  BY <1>1, <1>3
<1>4. ASSUME table' = table, holder' = holder
      PROVE  FALSE
  BY <1>4 DEF Held, EntriesOf, Popped, Writing
<1>5. CASE \/ UNCHANGED vars \/ stop \/ Close \/ Tick \/ Reboot \/ Start
           \/ CleanerSnapshot \/ CleanerCheck \/ CleanerError \/ CleanerExit
  <2>1. table' = table /\ holder' = holder
    BY <1>5 DEF vars, rows, stop, Close, Tick, Reboot, Start, CleanerSnapshot,
       CleanerCheck, CleanerError, CleanerExit, NotCleaner
  <2> QED BY <1>4, <2>1
<1>6. CASE stats \/ StatsReturn
  <2>1. table' = table /\ ~Popped
    BY <1>0, <1>6 DEF stats, StatsReturn, Call, rows
  <2>2. ~Popped'
    BY <1>6 DEF stats, StatsReturn, Popped, Writing
  <2> QED BY <1>3, <2>1, <2>2
<1>7. ASSUME NEW j \in Keys, get(j) \/ GetFails(j) PROVE FALSE
  <2>1. ~Popped /\ holder' = None /\ ~Popped'
    BY <1>0, <1>7, NoFrame DEF get, GetFails, Call, LockFree
  <2>2. CASE get(j) /\ Live(j)
    <3>1. table[j] # None /\ table' = [table EXCEPT ![j].last_accessed = clock]
      BY <2>2 DEF get, Live, Expired
    <3>2. clock \in Nat
      BY SqliteAssumption DEF IInv, RestTyped
    <3>3. EntriesOf(table') = EntriesOf(table)
      BY <3>1, <3>2, RowTouched DEF IInv
    <3> QED BY <1>3, <2>1, <3>3
  <2>3. CASE Expired(j) /\ _remove_entry_locked(j)
    BY <1>2, <2>1, <2>3 DEF _remove_entry_locked
  <2>4. CASE UNCHANGED rows
    BY <1>3, <2>1, <2>4 DEF rows
  <2> QED BY <1>7, <2>2, <2>3, <2>4 DEF get, GetFails
<1>8. ASSUME NEW j \in Keys, delete(j) PROVE delete(k)
  <2>1. ~Popped /\ holder' = None /\ ~Popped'
    BY <1>0, <1>8, NoFrame DEF delete, Call, LockFree
  <2>2. table' = table \/ table' = [table EXCEPT ![j] = None]
    BY <1>8 DEF delete, rows, _remove_entry_locked
  <2>3. CASE j # k
    BY <1>0, <1>1, <2>1, <2>2, <2>3 DEF EntriesOf
  <2> QED BY <1>8, <2>3
<1>9. ASSUME NEW j \in Keys, NEW v \in Values, NEW t \in Ttls,
             \/ set(j, v, t)
             \/ set_if_absent(j, v, t)
             \/ \E expected \in Values : compare_and_set(j, expected, v, t)
      PROVE  FALSE
  <2>1. holder = None /\ ~Popped /\ clock \in Nat
    BY <1>0, <1>9, SqliteAssumption
    DEF set, set_if_absent, compare_and_set, Call, LockFree, IInv, RestTyped
  \* The call is refused, and may have removed an expired row.
  <2>2. CASE holder' = holder /\ (UNCHANGED rows \/ (Expired(j) /\ _remove_entry_locked(j)))
    <3>1. ~Popped'
      BY <2>1, <2>2, NoFrame
    <3> QED BY <1>2, <1>3, <2>1, <2>2, <3>1 DEF rows, _remove_entry_locked
  \* Whatever row there was is in the frame.
  <2>3. ASSUME NEW op \in {"set", "set_if_absent", "compare_and_set"},
               holder' = Frame(op, j, v, t, table[j]),
               IF table[j] = None THEN UNCHANGED rows ELSE _remove_entry_locked(j)
        PROVE  FALSE
    <3>1. table' = table \/ table' = [table EXCEPT ![j] = None]
      BY <2>3 DEF rows, _remove_entry_locked
    <3>2. holder'.key = j /\ holder'.old = table[j] /\ holder'.op # "stats"
      BY <2>3 DEF Frame
    <3>3. holder' # None
      <4>1. CacheEntry(v, t, clock) \in Entry
        BY <2>1, CacheEntryType
      <4>2. holder' \in WriteFrame
        BY <1>0, <2>3, <4>1 DEF Frame, WriteFrame
      <4> QED BY <4>2, NoneIsNoFrame
    <3>4. CASE k = j
      <4>1. Held(k) = EntriesOf(table)[j] /\ table[j] # None
        BY <1>1, <2>1, <3>4 DEF EntriesOf
      <4>2. Popped' /\ Held(k)' = table[j].entry
        BY <3>2, <3>3, <3>4, <4>1 DEF Popped, Writing, Held
      <4> QED BY <4>1, <4>2 DEF EntriesOf
    <3>5. CASE k # j
      <4>1. Held(k)' = EntriesOf(table')[k]
        BY <3>2, <3>5 DEF Held, EntriesOf
      <4> QED BY <1>0, <1>1, <2>1, <3>1, <3>5, <4>1 DEF EntriesOf
    <3> QED BY <3>4, <3>5
  \* An expired row, if any, is gone, and no row is in the frame.
  <2>4. ASSUME holder' = Frame("set_if_absent", j, v, t, None),
               UNCHANGED rows \/ (Expired(j) /\ _remove_entry_locked(j))
        PROVE  FALSE
    <3>1. ~Popped'
      BY <2>4 DEF Frame, Popped
    <3> QED BY <1>2, <1>3, <2>1, <2>4, <3>1 DEF rows, _remove_entry_locked
  <2>5. CASE set(j, v, t)
    BY <2>3, <2>5 DEF set
  <2>6. CASE set_if_absent(j, v, t)
    BY <2>2, <2>4, <2>6 DEF set_if_absent, _remove_expired_entry_locked
  <2>7. ASSUME NEW expected \in Values, compare_and_set(j, expected, v, t)
        PROVE  FALSE
    <3>1. CASE Live(j) /\ table[j].entry.value = expected
      BY <2>3, <2>7, <3>1 DEF compare_and_set, Live
    <3>2. CASE ~(Live(j) /\ table[j].entry.value = expected)
      BY <2>2, <2>7, <3>2 DEF compare_and_set, _remove_expired_entry_locked
    <3> QED BY <3>1, <3>2
  <2> QED BY <1>9, <2>5, <2>6, <2>7
<1>10. CASE RejectOversize \/ StoreOrExhausted
  <2>1. /\ Writing /\ holder' = None /\ ~Popped'
        /\ holder \in WriteFrame /\ table[holder.key] = None
    BY <1>0, <1>10, NoFrame DEF RejectOversize, StoreOrExhausted, FinishWrite
  <2>2. Held(k)' = EntriesOf(table')[k]
    BY <1>1, <2>1
  <2>3. CASE _restore_row_locked
    <3>1. CASE holder.old = None
      <4>1. table' = table /\ ~Popped
        BY <2>3, <3>1 DEF _restore_row_locked, rows, Popped
      <4> QED BY <1>3, <2>1, <4>1
    <3>2. CASE holder.old # None
      <4>1. table' = [table EXCEPT ![holder.key] = holder.old] /\ Popped
        BY <2>1, <2>3, <3>2 DEF _restore_row_locked, Insert, Popped
      <4> QED BY <1>0, <2>1, <2>2, <3>2, <4>1 DEF Held, EntriesOf, WriteFrame
    <3> QED BY <3>1, <3>2
  <2>4. CASE _insert_row_locked(holder.key, holder.entry)
    <3> DEFINE row == [entry |-> holder.entry, last_accessed |-> clock]
    <3>1. table' = [table EXCEPT ![holder.key] = row]
      BY <2>4 DEF _insert_row_locked, Insert
    <3>2. row \in Row /\ row # None /\ row.entry = holder.entry
      BY <2>1, SqliteAssumption DEF IInv, RestTyped, Row, WriteFrame
    <3> HIDE DEF row
    <3>3. CASE k = holder.key
      BY <1>0, <2>1, <2>2, <3>1, <3>2, <3>3 DEF EntriesOf
    <3>4. CASE k # holder.key
      BY <1>0, <2>1, <2>2, <3>1, <3>4 DEF Held, EntriesOf
    <3> QED BY <3>3, <3>4
  <2> QED BY <1>10, <2>3, <2>4 DEF RejectOversize, StoreOrExhausted
<1>11. ASSUME NEW j \in Keys, _evict_lru_locked(j)
       PROVE  Writing /\ k \in Coldest /\ Held(k)' = None
  <2>1. /\ Writing /\ holder' = holder /\ j \in Coldest
        /\ table' = [table EXCEPT ![j] = None]
    BY <1>11 DEF _evict_lru_locked, _remove_entry_locked
  <2>2. Popped' = Popped
    BY <2>1 DEF Popped, Writing
  <2>3. ~(Popped /\ holder.key = k)
    BY <2>1, <2>2 DEF Held
  <2>4. Held(k) = EntriesOf(table)[k] /\ Held(k)' = EntriesOf(table')[k]
    BY <2>1, <2>2, <2>3 DEF Held, EntriesOf
  <2> QED BY <1>0, <2>1, <2>4 DEF EntriesOf
<1>12. ASSUME NEW j \in Keys, StatsVisit(j) \/ _remove_if_expired(j) PROVE FALSE
  <2>1. ~Popped /\ ~Popped'
    <3>1. CASE StatsVisit(j)
      <4>1. ReadingStats /\ holder \in StatsFrame /\ ~Popped
        BY <1>0, <3>1, FrameKinds DEF StatsVisit
      <4>2. holder'.op = "stats"
        BY <3>1, <4>1 DEF StatsVisit, StatsFrame
      <4> QED BY <4>1, <4>2 DEF Popped, Writing
    <3>2. CASE _remove_if_expired(j)
      BY <1>0, <3>2, NoFrame DEF _remove_if_expired, NotCleaner, LockFree
    <3> QED BY <1>12, <3>1, <3>2
  <2>2. UNCHANGED rows \/ (Expired(j) /\ _remove_entry_locked(j))
    BY <1>12 DEF StatsVisit, _remove_if_expired, _remove_expired_entry_locked
  <2> QED BY <1>2, <1>3, <2>1, <2>2 DEF rows, _remove_entry_locked
\* An interrupted write loses the row that it has deleted.
<1>13. CASE Exit \/ Crash \/ StatementFails
  <2>1. table' = table /\ holder' = None /\ ~Popped'
    BY <1>13, NoFrame DEF Exit, Crash, StatementFails, Forget, rows
  <2>2. Popped /\ holder.key = k
    <3>1. CASE ~(Popped /\ holder.key = k)
      BY <1>1, <2>1, <3>1 DEF Held
    <3> QED BY <3>1
  <2>3. process = "up"
    BY <1>0, <2>2 DEF Popped, Writing
  <2>4. Failing
    BY <1>0, <1>13, <2>2, <2>3 DEF Exit, Crash, StatementFails, Forget, Failing,
       Happens, Popped, Writing
  <2> QED BY <2>2, <2>4 DEF Popped
<1> QED
  BY <1>5, <1>6, <1>7, <1>8, <1>9, <1>10, <1>11, <1>12, <1>13 DEF Next

-----------------------------------------------------------------------------
(* What leaves the store unasked.                                          *)

\* The keys whose callers find their entry gone after the step.
Lost == {k \in Keys : Held(k) # None /\ Held(k)' = None}

\* Every one of them is counted, as an eviction or as an expired removal.
LossStep ==
    Cardinality(Lost) =
      (counters.evictions' - counters.evictions)
        + (counters.expired_removals' - counters.expired_removals)

\* Nothing leaves, and nothing is counted.
LEMMA NothingLost ==
    ASSUME IInv, \A k \in Keys : Held(k) # None => Held(k)' # None,
           counters'.evictions = counters.evictions,
           counters'.expired_removals = counters.expired_removals
    PROVE  LossStep
<1>1. Lost = {}
  BY DEF Lost
<1>2. counters.evictions \in Nat /\ counters.expired_removals \in Nat
  BY CounterNamesAre DEF IInv, RestTyped
<1>3. Cardinality(Lost) = 0
  BY <1>1, FS_EmptySet
<1> QED BY <1>2, <1>3 DEF LossStep

\* One entry leaves, and is counted under one name.
LEMMA OneLost ==
    ASSUME IInv, NEW j \in Keys, Held(j) # None, Held(j)' = None,
           \A k \in Keys \ {j} : Held(k)' = Held(k),
           \/ /\ counters'.evictions = counters.evictions + 1
              /\ counters'.expired_removals = counters.expired_removals
           \/ /\ counters'.evictions = counters.evictions
              /\ counters'.expired_removals = counters.expired_removals + 1
    PROVE  LossStep
<1>1. Lost = {j}
  BY DEF Lost
<1>2. counters.evictions \in Nat /\ counters.expired_removals \in Nat
  BY CounterNamesAre DEF IInv, RestTyped
<1>3. Cardinality(Lost) = 1
  BY <1>1, FS_Singleton
<1> QED BY <1>2, <1>3 DEF LossStep

\* A step that is neither a delete, a clear(), an error nor the end of the process
\* counts what it takes.
LEMMA LossLemma ==
    ASSUME IInv, [Next]_vars, ~clear, \A k \in Keys : ~delete(k),
           process = "up", mishaps' = mishaps
    PROVE  LossStep
<1>0. /\ table \in [Keys -> Row \cup {None}]
      /\ holder \in WriteFrame \cup StatsFrame \cup {None}
      /\ counters \in [CounterNames -> Nat] /\ mishaps \in Nat /\ clock \in Nat
      /\ Writing => /\ ~ReadingStats /\ holder \in WriteFrame
                    /\ table[holder.key] = None
      /\ LockFree \/ ReadingStats => ~Popped
  BY FrameKinds, SqliteAssumption DEF IInv, Table, RestTyped, FrameConsistent
<1>1. /\ ~Popped => \A k \in Keys : Held(k) = EntriesOf(table)[k]
      /\ ~Popped' => \A k \in Keys : Held(k)' = EntriesOf(table')[k]
  BY DEF Held, EntriesOf
<1>2. \A k \in Keys : EntriesOf(table)[k] = IF table[k] = None THEN None ELSE table[k].entry
  BY DEF EntriesOf
<1>3. \A k \in Keys : table[k] # None => EntriesOf(table)[k] # None
  BY <1>0, EntriesType
\* What keeps the entries and the two counters.
<1>4. ASSUME \/ table' = table /\ holder' = holder
             \/ EntriesOf(table') = EntriesOf(table) /\ ~Popped /\ ~Popped',
             counters'.evictions = counters.evictions,
             counters'.expired_removals = counters.expired_removals
      PROVE  LossStep
  <2>1. \A k \in Keys : Held(k)' = Held(k)
    BY <1>1, <1>4 DEF Held, EntriesOf, Popped, Writing
  <2> QED BY <1>4, <2>1, NothingLost
\* The removal of one expired row.
<1>5. ASSUME NEW j \in Keys, table[j] # None, table' = [table EXCEPT ![j] = None],
             ~Popped, ~Popped',
             counters'.evictions = counters.evictions,
             counters'.expired_removals = counters.expired_removals + 1
      PROVE  LossStep
  <2>1. Held(j) # None
    BY <1>1, <1>3, <1>5
  <2>2. Held(j)' = None /\ \A k \in Keys \ {j} : Held(k)' = Held(k)
    BY <1>0, <1>1, <1>5 DEF EntriesOf
  <2> QED BY <1>5, <2>1, <2>2, OneLost
<1>6. CASE \/ UNCHANGED vars \/ stop \/ Close \/ Tick
           \/ CleanerSnapshot \/ CleanerCheck \/ CleanerError \/ CleanerExit
  <2>1. table' = table /\ holder' = holder /\ counters' = counters
    BY <1>6 DEF vars, rows, stop, Close, Tick, CleanerSnapshot, CleanerCheck,
       CleanerError, CleanerExit, NotCleaner
  <2> QED BY <1>4, <2>1
<1>7. CASE stats \/ StatsReturn
  <2>1. table' = table /\ ~Popped /\ counters' = counters
    BY <1>0, <1>7 DEF stats, StatsReturn, Call, rows
  <2>2. ~Popped'
    BY <1>7 DEF stats, StatsReturn, Popped, Writing
  <2> QED BY <1>4, <2>1, <2>2
\* What ends or starts a process, or fails.
<1>8. CASE Exit \/ Crash \/ Reboot \/ Start \/ StatementFails
           \/ \E k \in Keys : GetFails(k)
  <2>1. ~(mishaps' = mishaps + 1)
    BY <1>0
  <2> QED BY <1>8, <2>1 DEF Exit, Crash, Reboot, Start, StatementFails, GetFails, Happens
<1>9. ASSUME NEW j \in Keys, get(j) PROVE LossStep
  <2>1. ~Popped /\ holder' = None /\ ~Popped'
    BY <1>0, <1>9, NoFrame DEF get, Call, LockFree
  <2>2. CASE Live(j)
    <3>1. table[j] # None /\ table' = [table EXCEPT ![j].last_accessed = clock]
      BY <1>9, <2>2 DEF get, Live, Expired
    <3>2. EntriesOf(table') = EntriesOf(table)
      BY <1>0, <3>1, RowTouched DEF IInv
    <3>3. Count("hits")
      BY <1>9, <2>2 DEF get, Live, Expired
    <3>4. /\ counters'.evictions = counters.evictions
          /\ counters'.expired_removals = counters.expired_removals
      BY <1>0, <3>3, CounterNamesAre DEF Count
    <3> QED BY <1>4, <2>1, <3>2, <3>4
  <2>3. CASE Expired(j)
    <3>1. /\ table[j] # None /\ table' = [table EXCEPT ![j] = None]
          /\ counters' = [counters EXCEPT !.misses = @ + 1, !.expired_removals = @ + 1]
      BY <1>9, <2>3 DEF get, Live, Expired, _remove_entry_locked
    <3>2. /\ counters'.evictions = counters.evictions
          /\ counters'.expired_removals = counters.expired_removals + 1
      BY <1>0, <3>1, CounterNamesAre
    <3> QED BY <1>5, <2>1, <3>1, <3>2
  <2>4. CASE table[j] = None
    <3>1. table' = table /\ Count("misses")
      BY <1>9, <2>4 DEF get, Live, Expired, rows
    <3>2. /\ counters'.evictions = counters.evictions
          /\ counters'.expired_removals = counters.expired_removals
      BY <1>0, <3>1, CounterNamesAre DEF Count
    <3> QED BY <1>4, <2>1, <3>1, <3>2
  <2> QED BY <2>2, <2>3, <2>4 DEF Live, Expired
\* The removal of a row that is expired, or of none.
<1>10. ASSUME NEW j \in Keys, ~Popped, ~Popped',
              IF Expired(j) THEN _remove_expired_entry_locked(j)
              ELSE UNCHANGED <<rows, counters>>
       PROVE  LossStep
  <2>1. CASE Expired(j)
    <3>1. /\ table[j] # None /\ table' = [table EXCEPT ![j] = None]
          /\ counters' = [counters EXCEPT !["expired_removals"] = @ + 1]
      BY <1>10, <2>1 DEF Expired, _remove_expired_entry_locked, _remove_entry_locked, Count
    <3>2. /\ counters'.evictions = counters.evictions
          /\ counters'.expired_removals = counters.expired_removals + 1
      BY <1>0, <3>1, CounterNamesAre
    <3> QED BY <1>5, <1>10, <3>1, <3>2
  <2>2. CASE ~Expired(j)
    BY <1>4, <1>10, <2>2 DEF rows
  <2> QED BY <2>1, <2>2
<1>11. ASSUME NEW j \in Keys, NEW v \in Values, NEW t \in Ttls,
              \/ set(j, v, t)
              \/ set_if_absent(j, v, t)
              \/ \E expected \in Values : compare_and_set(j, expected, v, t)
       PROVE  LossStep
  <2>1. holder = None /\ ~Popped
    BY <1>0, <1>11 DEF set, set_if_absent, compare_and_set, Call, LockFree
  \* The call is refused, and may have removed an expired row.
  <2>2. CASE /\ holder' = holder
             /\ IF Expired(j) THEN _remove_expired_entry_locked(j)
                ELSE UNCHANGED <<rows, counters>>
    BY <1>10, <2>1, <2>2, NoFrame
  \* Whatever row there was is in the frame.
  <2>3. ASSUME NEW op \in {"set", "set_if_absent", "compare_and_set"},
               holder' = Frame(op, j, v, t, table[j]), counters' = counters,
               IF table[j] = None THEN UNCHANGED rows ELSE _remove_entry_locked(j)
        PROVE  LossStep
    <3>1. table' = table \/ table' = [table EXCEPT ![j] = None]
      BY <2>3 DEF rows, _remove_entry_locked
    <3>2. holder'.key = j /\ holder'.old = table[j] /\ holder'.op # "stats"
      BY <2>3 DEF Frame
    <3>3. holder' # None
      <4>1. CacheEntry(v, t, clock) \in Entry
        BY <1>0, CacheEntryType
      <4>2. holder' \in WriteFrame
        BY <1>0, <2>3, <4>1 DEF Frame, WriteFrame
      <4> QED BY <4>2, NoneIsNoFrame
    <3>4. ASSUME NEW k \in Keys, Held(k) # None PROVE Held(k)' # None
      <4>1. table[k] # None /\ Held(k) = table[k].entry
        BY <1>1, <1>2, <2>1, <3>4
      <4>2. CASE k = j
        BY <3>2, <3>3, <3>4, <4>1, <4>2 DEF Popped, Writing, Held
      <4>3. CASE k # j
        BY <1>0, <3>1, <3>2, <3>4, <4>1, <4>3 DEF Held, EntriesOf
      <4> QED BY <4>2, <4>3
    <3> QED BY <2>3, <3>4, NothingLost
  \* An expired row, if any, is gone, and no row is in the frame.
  <2>4. CASE /\ holder' = Frame("set_if_absent", j, v, t, None)
             /\ IF Expired(j) THEN _remove_expired_entry_locked(j)
                ELSE UNCHANGED <<rows, counters>>
    <3>1. ~Popped'
      BY <2>4 DEF Frame, Popped
    <3> QED BY <1>10, <2>1, <2>4, <3>1
  <2>5. CASE set(j, v, t)
    BY <2>3, <2>5 DEF set
  <2>6. CASE set_if_absent(j, v, t)
    <3>1. CASE Live(j)
      BY <2>2, <2>6, <3>1 DEF set_if_absent, Live, Expired
    <3>2. CASE ~Live(j)
      BY <2>4, <2>6, <3>2 DEF set_if_absent
    <3> QED BY <3>1, <3>2
  <2>7. ASSUME NEW expected \in Values, compare_and_set(j, expected, v, t)
        PROVE  LossStep
    <3>1. CASE Live(j) /\ table[j].entry.value = expected
      BY <2>3, <2>7, <3>1 DEF compare_and_set, Live
    <3>2. CASE ~(Live(j) /\ table[j].entry.value = expected)
      BY <2>2, <2>7, <3>2 DEF compare_and_set, Live, Expired
    <3> QED BY <3>1, <3>2
  <2> QED BY <1>11, <2>5, <2>6, <2>7
<1>12. CASE RejectOversize \/ StoreOrExhausted
  <2>1. /\ Writing /\ holder' = None /\ ~Popped'
        /\ holder \in WriteFrame /\ table[holder.key] = None
    BY <1>0, <1>12, NoFrame DEF RejectOversize, StoreOrExhausted, FinishWrite
  <2>2. /\ counters'.evictions = counters.evictions
        /\ counters'.expired_removals = counters.expired_removals
    <3>1. counters' = counters \/ Count("rejected_oversize") \/ Count("rejected_capacity")
      BY <1>12 DEF RejectOversize, StoreOrExhausted
    <3> QED BY <1>0, <3>1, CounterNamesAre DEF Count
  <2>3. PICK row \in Row : (table' = table /\ ~Popped)
                           \/ table' = [table EXCEPT ![holder.key] = row]
    <3>1. CASE _restore_row_locked
      <4>1. CASE holder.old = None
        <5>1. table' = table /\ ~Popped
          BY <3>1, <4>1 DEF _restore_row_locked, rows, Popped
        <5>2. [entry |-> holder.entry, last_accessed |-> clock] \in Row
          BY <1>0, <2>1 DEF Row, WriteFrame
        <5> QED BY <5>1, <5>2
      <4>2. CASE holder.old # None
        BY <2>1, <3>1, <4>2 DEF _restore_row_locked, Insert, WriteFrame
      <4> QED BY <4>1, <4>2
    <3>2. CASE _insert_row_locked(holder.key, holder.entry)
      <4>1. [entry |-> holder.entry, last_accessed |-> clock] \in Row
        BY <1>0, <2>1 DEF Row, WriteFrame
      <4> QED BY <3>2, <4>1 DEF _insert_row_locked, Insert
    <3> QED BY <1>12, <3>1, <3>2 DEF RejectOversize, StoreOrExhausted
  <2>4. CASE table' = table /\ ~Popped
    BY <1>4, <2>1, <2>2, <2>4
  <2>5. CASE table' = [table EXCEPT ![holder.key] = row]
    <3>1. holder.key \in Keys /\ row # None /\ table' \in [Keys -> Row \cup {None}]
      BY <1>0, <2>1, <2>5, SqliteAssumption DEF WriteFrame
    <3>2. ASSUME NEW k \in Keys, Held(k) # None PROVE table'[k] # None
      <4>1. CASE k = holder.key
        BY <1>0, <2>5, <3>1, <4>1
      <4>2. CASE k # holder.key
        BY <1>0, <2>5, <3>1, <3>2, <4>2 DEF Held, EntriesOf
      <4> QED BY <4>1, <4>2
    <3>3. \A k \in Keys : table'[k] # None => EntriesOf(table')[k] # None
      BY <3>1, EntriesType
    <3> QED BY <1>1, <2>1, <2>2, <3>2, <3>3, NothingLost
  <2> QED BY <2>3, <2>4, <2>5
<1>13. ASSUME NEW j \in Keys, _evict_lru_locked(j) PROVE LossStep
  <2>1. /\ Writing /\ holder' = holder /\ j \in Coldest
        /\ table' = [table EXCEPT ![j] = None]
        /\ counters' = [counters EXCEPT !.evictions = @ + 1, !.lru_evictions = @ + 1]
    BY <1>13 DEF _evict_lru_locked, _remove_entry_locked
  <2>2. /\ counters'.evictions = counters.evictions + 1
        /\ counters'.expired_removals = counters.expired_removals
    BY <1>0, <2>1, CounterNamesAre
  <2>3. Popped' = Popped /\ table[j] # None /\ j # holder.key
    BY <1>0, <2>1 DEF Popped, Writing, Coldest, Present
  <2>4. Held(j) = EntriesOf(table)[j] /\ Held(j)' = EntriesOf(table')[j]
    BY <2>1, <2>3 DEF Held, EntriesOf
  <2>5. Held(j) # None /\ Held(j)' = None
    BY <1>0, <1>3, <2>1, <2>3, <2>4 DEF EntriesOf
  <2>6. \A k \in Keys \ {j} : Held(k)' = Held(k)
    BY <1>0, <2>1, <2>3 DEF Held, EntriesOf
  <2> QED BY <2>2, <2>5, <2>6, OneLost
<1>14. ASSUME NEW j \in Keys, StatsVisit(j) \/ _remove_if_expired(j) PROVE LossStep
  <2>1. ~Popped /\ ~Popped'
    <3>1. CASE StatsVisit(j)
      <4>1. ReadingStats /\ holder \in StatsFrame /\ ~Popped
        BY <1>0, <3>1, FrameKinds DEF StatsVisit
      <4>2. holder'.op = "stats"
        BY <3>1, <4>1 DEF StatsVisit, StatsFrame
      <4> QED BY <4>1, <4>2 DEF Popped, Writing
    <3>2. CASE _remove_if_expired(j)
      BY <1>0, <3>2, NoFrame DEF _remove_if_expired, NotCleaner, LockFree
    <3> QED BY <1>14, <3>1, <3>2
  <2>2. IF Expired(j) THEN _remove_expired_entry_locked(j)
        ELSE UNCHANGED <<rows, counters>>
    BY <1>14 DEF StatsVisit, _remove_if_expired
  <2> QED BY <1>10, <2>1, <2>2
<1> QED
  BY <1>6, <1>7, <1>8, <1>9, <1>11, <1>12, <1>13, <1>14 DEF Next

-----------------------------------------------------------------------------
(* The hottest row.                                                        *)

\* What the last call that returned did with its key was a use of its row.
Used ==
    /\ reply.op \in {"get", "set", "set_if_absent", "compare_and_set"}
    /\ reply.result \in Values \cup {"OK", "STORED"}

\* No row, whether in the file or in a frame, was used later than now: the clock
\* has not started over since.
HotInv ==
    /\ \A k \in Keys : table[k] # None => table[k].last_accessed <= clock
    /\ Popped => holder.old.last_accessed <= clock
    /\ Used => reply.key \in Keys
    /\ LastUsedHottest

\* A step that may delete rows, and answers with no use of one, leaves the last
\* one that was used the hottest.
LEMMA ColdStep ==
    ASSUME IInv, HotInv,
           \A k \in Keys : table'[k] \in {None, table[k]},
           clock' \in Nat, clock <= clock',
           \/ reply' = reply
           \/ ~Used'
           \/ reply'.key \in Keys /\ table'[reply'.key] = None,
           \/ ~Popped'
           \/ holder' = holder
           \/ \E k \in Keys : table[k] # None /\ holder'.old = table[k]
    PROVE  HotInv'
<1>0. /\ table \in [Keys -> Row \cup {None}] /\ clock \in Nat
      /\ Popped => holder.old \in Row
  BY FrameKinds, SqliteAssumption DEF IInv, Table, RestTyped, Popped, WriteFrame
<1>1. ASSUME NEW k \in Keys, table'[k] # None
      PROVE  table'[k] = table[k] /\ table'[k].last_accessed <= clock'
  <2>1. table'[k] = table[k] /\ table[k].last_accessed <= clock
    BY <1>1 DEF HotInv
  <2>2. table[k].last_accessed \in Nat
    BY <1>0, <1>1, <2>1 DEF Row
  <2> QED BY <1>0, <2>1, <2>2
<1>2. Popped' => holder'.old.last_accessed <= clock'
  <2> SUFFICES ASSUME Popped' PROVE holder'.old.last_accessed <= clock'
    OBVIOUS
  <2>1. CASE holder' = holder
    <3>1. Popped
      BY <2>1 DEF Popped, Writing
    <3>2. holder.old.last_accessed \in Nat /\ holder.old.last_accessed <= clock
      BY <1>0, <3>1 DEF HotInv, Row
    <3> QED BY <1>0, <2>1, <3>2
  <2>2. ASSUME NEW k \in Keys, table[k] # None, holder'.old = table[k]
        PROVE  holder'.old.last_accessed <= clock'
    <3>1. table[k].last_accessed \in Nat /\ table[k].last_accessed <= clock
      BY <1>0, <2>2 DEF HotInv, Row
    <3> QED BY <1>0, <2>2, <3>1
  <2> QED BY <2>1, <2>2
<1>3. Used' => \/ Used /\ reply' = reply
               \/ reply'.key \in Keys /\ table'[reply'.key] = None
  BY DEF Used
<1>4. ASSUME Used', table'[reply'.key] # None, NEW k \in Keys, table'[k] # None
      PROVE  table'[k].last_accessed <= table'[reply'.key].last_accessed
  <2>1. Used /\ reply'.key = reply.key /\ reply.key \in Keys
    BY <1>3, <1>4 DEF HotInv
  <2>2. table'[reply.key] = table[reply.key] /\ table'[k] = table[k]
    BY <1>1, <1>4, <2>1
  <2> QED BY <1>4, <2>1, <2>2 DEF HotInv, LastUsedHottest, Used, Present
<1>5. LastUsedHottest'
  BY <1>4 DEF LastUsedHottest, Used, Present
<1>6. Used' => reply'.key \in Keys
  BY <1>3 DEF HotInv
<1> QED BY <1>1, <1>2, <1>5, <1>6 DEF HotInv

\* A row that is used, or written, is the hottest there is.
LEMMA HotStep ==
    ASSUME IInv, HotInv, NEW k \in Keys, NEW row \in Row,
           row.last_accessed = clock, table' = [table EXCEPT ![k] = row],
           clock' = clock, ~Popped', reply'.key = k
    PROVE  HotInv'
<1>1. /\ table \in [Keys -> Row \cup {None}] /\ clock \in Nat
  BY SqliteAssumption DEF IInv, Table, RestTyped
<1>2. /\ table'[k] = row /\ \A j \in Keys : j # k => table'[j] = table[j]
  BY <1>1
<1>3. \A j \in Keys : table'[j] # None => table'[j].last_accessed <= clock
  BY <1>1, <1>2 DEF HotInv
<1>4. LastUsedHottest'
  BY <1>2, <1>3 DEF LastUsedHottest, Present
<1> QED BY <1>3, <1>4 DEF HotInv

\* A row that is put back was not used, and the answer says so.
LEMMA RestoreStep ==
    ASSUME IInv, HotInv, Popped, table' = [table EXCEPT ![holder.key] = holder.old],
           clock' = clock, ~Popped', ~Used'
    PROVE  HotInv'
<1>1. /\ table \in [Keys -> Row \cup {None}]
      /\ holder.key \in Keys /\ holder.old.last_accessed <= clock
  BY FrameKinds DEF IInv, Table, RestTyped, Popped, WriteFrame, HotInv
<1>2. \A j \in Keys : table'[j] # None => table'[j].last_accessed <= clock
  BY <1>1 DEF HotInv
<1>3. LastUsedHottest'
  BY DEF LastUsedHottest, Used
<1> QED BY <1>2, <1>3 DEF HotInv

\* What a rejected or refused write answers is no use of its key.
LEMMA RefusalsAreNoUse ==
    \A op, k, e, result :
      result \in {"EXISTS", "NOT_FOUND", "MISMATCH", "VALUE_TOO_LARGE"} =>
        Returned(op, k, e, result).result \notin Values \cup {"OK", "STORED"}
BY ValuesAreNoStatuses DEF Returned, CacheConditionalSetStatus

\* Every step, as long as the clock does not start over, keeps HotInv.
LEMMA NextHotInv ==
    ASSUME "reboot" \notin Mishaps
    PROVE  IInv /\ HotInv /\ [Next]_vars => HotInv'
<1> SUFFICES ASSUME IInv, HotInv, [Next]_vars PROVE HotInv'
  OBVIOUS
<1>0. /\ table \in [Keys -> Row \cup {None}] /\ clock \in Nat
      /\ holder \in WriteFrame \cup StatsFrame \cup {None}
  BY SqliteAssumption DEF IInv, Table, RestTyped
\* What leaves rows, clock and answers alone, or lets the frame go.
<1>1. ASSUME table' = table, clock' = clock \/ clock' = clock + 1, reply' = reply,
             holder' = holder \/ ~Popped'
      PROVE  HotInv'
  BY <1>0, <1>1, ColdStep
\* What deletes rows and answers with no use.
<1>2. ASSUME \A k \in Keys : table'[k] \in {None, table[k]}, clock' = clock,
             \/ reply' = reply
             \/ ~Used'
             \/ reply'.key \in Keys /\ table'[reply'.key] = None,
             holder' = holder \/ ~Popped'
      PROVE  HotInv'
  BY <1>0, <1>2, ColdStep
<1>3. CASE \/ UNCHANGED vars \/ stop \/ Close \/ Tick \/ Start \/ stats
           \/ CleanerSnapshot \/ CleanerCheck \/ CleanerError \/ CleanerExit
           \/ Exit \/ Crash \/ StatementFails \/ \E k \in Keys : GetFails(k)
  <2>1. /\ table' = table /\ (clock' = clock \/ clock' = clock + 1)
        /\ reply' = reply /\ (holder' = holder \/ ~Popped')
    BY <1>3, NoFrame DEF vars, rows, stop, Close, Tick, Start, CleanerSnapshot, stats,
       CleanerCheck, CleanerError, CleanerExit, NotCleaner, Exit, Crash, Forget,
       StatementFails, GetFails, Call, Process, Popped, Writing
  <2> QED BY <1>1, <2>1
<1>4. CASE Reboot
  BY <1>4 DEF Reboot, Happens
<1>5. CASE StatsReturn \/ clear
  <2>1. ~Used'
    BY <1>5 DEF StatsReturn, clear, Used
  <2>2. /\ \A k \in Keys : table'[k] \in {None, table[k]}
        /\ clock' = clock /\ (holder' = holder \/ ~Popped')
    BY <1>0, <1>5, NoFrame DEF StatsReturn, clear, Call, Process, rows
  <2> QED BY <1>2, <2>1, <2>2
<1>6. ASSUME NEW k \in Keys, delete(k) PROVE HotInv'
  <2>1. ~Used'
    BY <1>6 DEF delete, Returned, Used
  <2>2. /\ \A j \in Keys : table'[j] \in {None, table[j]}
        /\ clock' = clock /\ holder' = holder
    BY <1>0, <1>6 DEF delete, Call, Process, rows, _remove_entry_locked
  <2> QED BY <1>2, <2>1, <2>2
<1>7. ASSUME NEW k \in Keys, get(k) PROVE HotInv'
  <2>1. holder = None /\ holder' = None /\ ~Popped' /\ clock' = clock
    BY <1>7, NoFrame DEF get, Call, LockFree, Process
  <2>2. CASE Live(k)
    <3>1. /\ table[k] # None /\ table' = [table EXCEPT ![k].last_accessed = clock]
          /\ reply'.key = k
      BY <1>7, <2>2 DEF get, Live, Expired, Returned
    <3>2. PICK row \in Row : row = [table[k] EXCEPT !.last_accessed = clock]
      BY <1>0, <3>1 DEF Row
    <3>3. row.last_accessed = clock /\ table' = [table EXCEPT ![k] = row]
      BY <1>0, <3>1, <3>2 DEF Row
    <3> QED BY <2>1, <3>1, <3>3, HotStep
  <2>3. CASE ~Live(k)
    <3>1. \A j \in Keys : table'[j] \in {None, table[j]}
      BY <1>0, <1>7, <2>3 DEF get, rows, _remove_entry_locked
    <3>2. table'[k] = None /\ reply'.key = k
      BY <1>0, <1>7, <2>3 DEF get, rows, _remove_entry_locked, Returned
    <3> QED BY <1>2, <2>1, <3>1, <3>2
  <2> QED BY <2>2, <2>3
<1>8. ASSUME NEW k \in Keys, NEW v \in Values, NEW t \in Ttls,
             \/ set(k, v, t) \/ set_if_absent(k, v, t)
             \/ \E expected \in Values : compare_and_set(k, expected, v, t)
      PROVE  HotInv'
  <2>1. /\ \A j \in Keys : table'[j] \in {None, table[j]} /\ clock' = clock
    BY <1>0, <1>8 DEF set, set_if_absent, compare_and_set, Call, Process, rows,
       _remove_expired_entry_locked, _remove_entry_locked
  <2>2. reply' = reply \/ ~Used'
    BY <1>8, RefusalsAreNoUse DEF set, set_if_absent, compare_and_set, Used
  <2>3. holder' = holder \/ ~Popped' \/ (table[k] # None /\ holder'.old = table[k])
    BY <1>8 DEF set, set_if_absent, compare_and_set, Frame, Popped, Live
  <2> QED BY <1>0, <2>1, <2>2, <2>3, ColdStep
<1>9. CASE RejectOversize \/ StoreOrExhausted
  <2>1. /\ Writing /\ holder' = None /\ ~Popped' /\ clock' = clock
        /\ holder \in WriteFrame
    BY <1>0, <1>9, NoFrame, FrameKinds DEF RejectOversize, StoreOrExhausted,
       FinishWrite, Process
  <2>2. CASE RejectOversize
    <3>1. ~Used'
      BY <2>1, <2>2, RefusalsAreNoUse DEF RejectOversize, FinishWrite, Used,
         WriteResult, conditional_status_from_set_status
    <3>2. CASE holder.old = None
      BY <1>0, <1>2, <2>1, <2>2, <3>1, <3>2 DEF RejectOversize, _restore_row_locked, rows
    <3>3. CASE holder.old # None
      BY <2>1, <2>2, <3>1, <3>3, RestoreStep
         DEF RejectOversize, _restore_row_locked, Insert, Popped
    <3> QED BY <3>2, <3>3
  <2>3. CASE StoreOrExhausted
    <3>1. _insert_row_locked(holder.key, holder.entry) /\ reply'.key = holder.key
      BY <2>3, RoomIsLeft DEF StoreOrExhausted, FinishWrite, Returned
    <3> DEFINE r == [entry |-> holder.entry, last_accessed |-> clock]
    <3>2. holder.entry \in Entry
      BY <2>1 DEF WriteFrame
    <3>3. r \in Row /\ r.last_accessed = clock
      BY <1>0, <3>2 DEF Row
    <3>4. PICK row \in Row : row = r /\ row.last_accessed = clock
      BY <3>3, Zenon
    <3>5. table' = [table EXCEPT ![holder.key] = row] /\ holder.key \in Keys
      BY <2>1, <3>1, <3>4 DEF _insert_row_locked, Insert, WriteFrame
    <3> QED BY <2>1, <3>1, <3>4, <3>5, HotStep
  <2> QED BY <1>9, <2>2, <2>3
<1>10. ASSUME NEW k \in Keys, _evict_lru_locked(k) \/ _remove_if_expired(k)
       PROVE  HotInv'
  <2>1. /\ \A j \in Keys : table'[j] \in {None, table[j]} /\ clock' = clock
        /\ reply' = reply /\ holder' = holder
    BY <1>0, <1>10 DEF _evict_lru_locked, _remove_if_expired, Process, NotCleaner, rows,
       _remove_expired_entry_locked, _remove_entry_locked
  <2> QED BY <1>2, <2>1
<1>11. ASSUME NEW k \in Keys, StatsVisit(k) PROVE HotInv'
  <2>1. /\ \A j \in Keys : table'[j] \in {None, table[j]} /\ clock' = clock
        /\ reply' = reply
    BY <1>0, <1>11 DEF StatsVisit, Process, rows,
       _remove_expired_entry_locked, _remove_entry_locked
  <2>2. ~Popped'
    <3>1. ReadingStats /\ holder \in StatsFrame
      BY <1>0, <1>11, FrameKinds DEF StatsVisit
    <3>2. holder'.op = "stats"
      BY <1>11, <3>1 DEF StatsVisit, StatsFrame
    <3> QED BY <3>2 DEF Popped, Writing
  <2> QED BY <1>2, <2>1, <2>2
<1> QED BY <1>3, <1>4, <1>5, <1>6, <1>7, <1>8, <1>9, <1>10, <1>11 DEF Next

-----------------------------------------------------------------------------
(* The refinement of CacheContract, step by step.                          *)

\* compare_and_set has deleted the row whose value it found as expected.
ExpectedPopped ==
    Writing /\ holder.op = "compare_and_set" => holder.old # None

RInv == IInv /\ ExpectedPopped

\* The definitions that the contract shares with the store are the same.
LEMMA SharedDefinitions ==
    /\ \A e, t : Contract!is_expired(e, t) <=> is_expired(e, t)
    /\ \A e : Contract!size_bytes(e) = size_bytes(e)
    /\ \A v, t, now : Contract!CacheEntry(v, t, now) = CacheEntry(v, t, now)
    /\ \A op, k, e, r : Contract!Returned(op, k, e, r) = Returned(op, k, e, r)
    /\ \A op, st : Contract!WriteResult(op, st) = WriteResult(op, st)
    /\ Contract!max_value_bytes = max_value_bytes
    /\ Contract!NoReply = NoReply
BY DEF Contract!is_expired, is_expired, Contract!size_bytes, size_bytes,
   Contract!CacheEntry, CacheEntry, Contract!Returned, Returned,
   Contract!WriteResult, WriteResult, Contract!conditional_status_from_set_status,
   conditional_status_from_set_status, Contract!max_value_bytes, max_value_bytes,
   Contract!NoReply, NoReply

\* A row deleted, as an entry.
LEMMA RowToEntry ==
    ASSUME NEW t \in [Keys -> Row \cup {None}], NEW k \in Keys
    PROVE  EntriesOf([t EXCEPT ![k] = None]) = [EntriesOf(t) EXCEPT ![k] = None]
BY DEF EntriesOf

\* A row inserted, as an entry.
LEMMA NewRowToEntry ==
    ASSUME NEW t \in [Keys -> Row \cup {None}], NEW k \in Keys, NEW row \in Row
    PROVE  EntriesOf([t EXCEPT ![k] = row]) = [EntriesOf(t) EXCEPT ![k] = row.entry]
<1>1. row # None
  BY SqliteAssumption
<1> QED BY <1>1 DEF EntriesOf

\* What the calls find of a row, as entries.
LEMMA RowSeen ==
    ASSUME Table(table), NEW k \in Keys
    PROVE  /\ EntriesOf(table)[k] # None <=> table[k] # None
           /\ table[k] # None => EntriesOf(table)[k] = table[k].entry
           /\ Expired(k) <=> EntriesOf(table)[k] # None
                             /\ is_expired(EntriesOf(table)[k], clock)
           /\ Live(k) <=> EntriesOf(table)[k] # None
                          /\ ~is_expired(EntriesOf(table)[k], clock)
<1>1. EntriesOf(table)[k] # None <=> table[k] # None
  BY EntriesType DEF Table
<1>2. table[k] # None => EntriesOf(table)[k] = table[k].entry
  BY DEF EntriesOf
<1> QED BY <1>1, <1>2 DEF Expired, Live

\* The table is one of a file, and the clock is a number.
LEMMA TableAndClock == RInv => Table(table) /\ clock \in Nat
<1>1. MaxClock \in Nat
  BY SqliteAssumption
<1>2. RInv => Table(table) /\ clock \in 0..MaxClock
  BY DEF RInv, IInv, RestTyped
<1> QED BY <1>1, <1>2

\* What the contract sees of a state.
LEMMA View ==
    ASSUME RInv
    PROVE  /\ EntriesOf(table) \in [Keys -> Entry \cup {None}]
           /\ ~Popped => Entries = EntriesOf(table)
           /\ Popped => Entries = [EntriesOf(table) EXCEPT ![holder.key] = holder.old.entry]
           /\ ~Writing => Pending = None
           /\ Writing => /\ holder \in WriteFrame /\ table[holder.key] = None
                         /\ Pending # None
                         /\ Pending.op = holder.op /\ Pending.key = holder.key
                         /\ Pending.entry = holder.entry
                         /\ Pending.expected = IF holder.op = "compare_and_set"
                                               THEN holder.old.entry.value ELSE None
<1>1. /\ EntriesOf(table) \in [Keys -> Entry \cup {None}]
      /\ Writing => holder \in WriteFrame /\ table[holder.key] = None
  BY FrameKinds, EntriesType DEF RInv, IInv, Table, RestTyped, FrameConsistent
<1>2. ~Popped => Entries = EntriesOf(table)
  BY DEF Entries, Held, EntriesOf
<1>3. Popped => Entries = [EntriesOf(table) EXCEPT ![holder.key] = holder.old.entry]
  BY <1>1 DEF Entries, Held, Popped, WriteFrame, EntriesOf
<1>4. ASSUME Writing PROVE Pending \in PendingWrite
  <2>1. holder.op = "compare_and_set" => holder.old \in Row
    BY <1>1, <1>4 DEF RInv, ExpectedPopped, WriteFrame
  <2>2. holder.op = "compare_and_set" => holder.old.entry.value \in Values
    BY <2>1 DEF Row, Entry
  <2> QED BY <1>1, <1>4, <2>2 DEF Pending, PendingWrite, WriteFrame
<1>5. Writing => /\ Pending # None
                 /\ Pending.op = holder.op /\ Pending.key = holder.key
                 /\ Pending.entry = holder.entry
                 /\ Pending.expected = IF holder.op = "compare_and_set"
                                       THEN holder.old.entry.value ELSE None
  BY <1>4, NoneIsNoWrite DEF Pending
<1> QED BY <1>1, <1>2, <1>3, <1>5 DEF Pending

\* What the contract sees after a step that leaves no write under way.
LEMMA ViewAfter ==
    ASSUME ~Writing'
    PROVE  ~Popped' /\ Pending' = None /\ Entries' = EntriesOf(table')
<1>1. ~Popped' /\ Pending' = None
  BY DEF Popped, Pending
<1> QED BY <1>1 DEF Entries, Held, EntriesOf

\* The invariant of the refinement holds at the start,
LEMMA RInvInit == Init => RInv
BY InitIInv DEF Init, RInv, ExpectedPopped, Writing

\* and every step keeps it.
LEMMA RInvNext == RInv /\ [Next]_vars => RInv'
<1> SUFFICES ASSUME RInv, [Next]_vars PROVE ExpectedPopped'
  BY NextIInv DEF RInv
<1>1. ASSUME holder' = holder \/ ~Writing' PROVE ExpectedPopped'
  BY <1>1 DEF RInv, ExpectedPopped, Writing
<1>2. ASSUME NEW k \in Keys, NEW v \in Values, NEW t \in Ttls,
             \/ set(k, v, t)
             \/ set_if_absent(k, v, t)
             \/ \E expected \in Values : compare_and_set(k, expected, v, t)
      PROVE  ExpectedPopped'
  <2>1. \/ holder' = holder
        \/ holder'.op # "compare_and_set"
        \/ holder'.old = table[k] /\ table[k] # None
    BY <1>2 DEF set, set_if_absent, compare_and_set, Frame, Live
  <2> QED BY <1>1, <2>1 DEF ExpectedPopped
<1>3. ASSUME NEW k \in Keys, StatsVisit(k) PROVE ExpectedPopped'
  <2>1. holder \in StatsFrame
    BY <1>3, FrameKinds DEF RInv, IInv, RestTyped, StatsVisit
  <2> QED BY <1>1, <1>3, <2>1 DEF StatsVisit, StatsFrame, Writing
<1>4. CASE stats
  BY <1>1, <1>4 DEF stats, Writing
<1>5. CASE \/ UNCHANGED vars \/ \E k \in Keys : get(k) \/ GetFails(k) \/ delete(k)
           \/ RejectOversize \/ StoreOrExhausted
           \/ \E k \in Keys : _evict_lru_locked(k)
           \/ StatsReturn \/ clear \/ stop \/ Close \/ Exit \/ Tick
           \/ CleanerSnapshot \/ CleanerCheck \/ CleanerError \/ CleanerExit
           \/ \E k \in Keys : _remove_if_expired(k)
           \/ Crash \/ Reboot \/ Start \/ StatementFails
  <2>1. holder' = holder \/ holder' = None
    BY <1>5 DEF vars, get, GetFails, delete, RejectOversize, StoreOrExhausted,
       _evict_lru_locked, FinishWrite, StatsReturn, clear, stop, Close, Exit, Forget,
       Tick, CleanerSnapshot, CleanerCheck, CleanerError, CleanerExit, NotCleaner,
       _remove_if_expired, Crash, Reboot, Start, StatementFails
  <2> QED BY <1>1, <2>1, NoFrame
<1> QED BY <1>2, <1>3, <1>4, <1>5 DEF Next

\* get and delete.
LEMMA RefineRead ==
    ASSUME RInv, NEW k \in Keys
    PROVE  /\ get(k) => Contract!Get(k)
           /\ GetFails(k) => UNCHANGED Contract!cvars
           /\ delete(k) => Contract!Delete(k)
<1> DEFINE entries == EntriesOf(table)
<1>0. Table(table) /\ clock \in Nat
  BY TableAndClock
<1>1. ASSUME get(k) \/ GetFails(k) \/ delete(k)
      PROVE  /\ Pending = None /\ Pending' = None /\ clock' = clock
             /\ Entries = entries /\ Entries' = EntriesOf(table')
             /\ entries \in [Keys -> Entry \cup {None}]
  <2>1. holder = None /\ holder' = None /\ clock' = clock
    BY <1>1 DEF get, GetFails, delete, Call, Process, LockFree
  <2>2. ~Writing /\ ~Popped /\ ~Writing'
    BY <2>1 DEF Writing, Popped
  <2> QED BY <2>1, <2>2, View, ViewAfter
<1>2. UNCHANGED rows => EntriesOf(table') = entries
  BY DEF rows
<1>3. _remove_entry_locked(k) => EntriesOf(table') = [entries EXCEPT ![k] = None]
  BY <1>0, RowToEntry DEF _remove_entry_locked, Table
<1>4. ASSUME get(k) PROVE Contract!Get(k)
  <2>1. Live(k) => EntriesOf(table') = entries
    BY <1>0, <1>4, RowTouched DEF get, Live, Expired
  <2> HIDE DEF entries
  <2>2. Contract!MayDrop(k)
    BY <1>0, <1>1, <1>2, <1>3, <1>4, <2>1, RowSeen, SharedDefinitions
    DEF get, Contract!MayDrop, Contract!Stale, Contract!Without, entries
  <2>3. reply' = Returned("get", k, None,
                          IF Contract!Live(k) THEN entries[k].value ELSE None)
    BY <1>0, <1>1, <1>4, RowSeen, SharedDefinitions
    DEF get, Contract!Live, entries, Expired, Live
  <2> QED BY <1>1, <1>4, <2>2, <2>3, SharedDefinitions DEF Contract!Get, Contract!Answer
<1>5. ASSUME GetFails(k) PROVE UNCHANGED Contract!cvars
  BY <1>1, <1>2, <1>5 DEF GetFails, Contract!cvars
<1>6. ASSUME delete(k) PROVE Contract!Delete(k)
  <2>1. EntriesOf(table') = [entries EXCEPT ![k] = None]
    <3>1. CASE table[k] = None
      BY <1>0, <1>1, <1>2, <1>6, <3>1, RowSeen DEF delete
    <3>2. CASE table[k] # None
      BY <1>3, <1>6, <3>2 DEF delete
    <3> QED BY <3>1, <3>2
  <2> HIDE DEF entries
  <2>2. PICK found \in BOOLEAN : /\ found <=> entries[k] # None
                                 /\ reply' = Returned("delete", k, None, found)
    BY <1>0, <1>6, RowSeen DEF delete, entries
  <2> QED
    BY <1>1, <1>6, <2>1, <2>2, SharedDefinitions
    DEF Contract!Delete, Contract!Answer, Contract!Without, Contract!Live
<1> QED BY <1>4, <1>5, <1>6

\* The first step of a write.  It changes nothing that a caller can see: the
\* row that it deletes is kept in the frame.
LEMMA RefineStart ==
    ASSUME RInv, NEW k \in Keys, NEW v \in Values, NEW t \in Ttls
    PROVE  /\ set(k, v, t) => Contract!StartSet(k, v, t)
           /\ set_if_absent(k, v, t) =>
                Contract!StartSetIfAbsent(k, v, t) \/ Contract!RefuseSetIfAbsent(k)
           /\ \A expected \in Values : compare_and_set(k, expected, v, t) =>
                \/ Contract!StartCompareAndSet(k, expected, v, t)
                \/ Contract!RefuseCompareAndSet(k, expected)
<1> DEFINE Begins == \/ set(k, v, t)
                     \/ set_if_absent(k, v, t)
                     \/ \E expected \in Values : compare_and_set(k, expected, v, t)
           entries == EntriesOf(table)
<1>0. Table(table) /\ clock \in Nat
  BY TableAndClock
<1>1. ASSUME Begins
      PROVE  /\ holder = None /\ clock' = clock
             /\ Pending = None /\ Entries = entries
             /\ entries \in [Keys -> Entry \cup {None}]
  <2>1. holder = None /\ clock' = clock
    BY <1>1 DEF set, set_if_absent, compare_and_set, Call, Process, LockFree
  <2>2. ~Writing /\ ~Popped
    BY <2>1 DEF Writing, Popped
  <2> QED BY <2>1, <2>2, View
\* An expired row may go, without a trace.
<1>2. ASSUME Begins,
             IF Expired(k) THEN _remove_expired_entry_locked(k)
             ELSE UNCHANGED <<rows, counters>>,
             Entries' = EntriesOf(table')
      PROVE  Contract!MayDrop(k)
  <2>1. CASE Expired(k)
    <3>1. EntriesOf(table') = [entries EXCEPT ![k] = None]
      BY <1>0, <1>2, <2>1, RowToEntry
      DEF _remove_expired_entry_locked, _remove_entry_locked, Table
    <3> QED
      BY <1>0, <1>1, <1>2, <2>1, <3>1, RowSeen, SharedDefinitions
      DEF Contract!MayDrop, Contract!Stale, Contract!Without
  <2>2. CASE ~Expired(k)
    BY <1>1, <1>2, <2>2 DEF rows, Contract!MayDrop
  <2> QED BY <2>1, <2>2
\* The write goes on, with the old row in its frame or without one.
<1>3. ASSUME Begins, NEW op \in {"set", "set_if_absent", "compare_and_set"},
             NEW old \in Row \cup {None},
             holder' = Frame(op, k, v, t, old),
             op = "compare_and_set" => old # None
      PROVE  /\ Pending' = [op |-> op, key |-> k, entry |-> CacheEntry(v, t, clock),
                            expected |-> IF op = "compare_and_set"
                                         THEN old.entry.value ELSE None]
             /\ old = None => Entries' = EntriesOf(table')
             /\ old # None /\ old = table[k] /\ table' = [table EXCEPT ![k] = None] =>
                  Entries' = entries
  <2>1. CacheEntry(v, t, clock) \in Entry
    BY <1>0, <1>3, CacheEntryType
  <2>2. holder' \in WriteFrame /\ holder'.op = op /\ holder'.key = k /\ holder'.old = old
        /\ holder'.entry = CacheEntry(v, t, clock)
    BY <1>1, <1>3, <2>1 DEF Frame, WriteFrame
  <2>3. holder' # None /\ Writing'
    BY <1>3, <2>2, NoneIsNoFrame DEF Writing
  <2>4. Pending' = [op |-> op, key |-> k, entry |-> CacheEntry(v, t, clock),
                    expected |-> IF op = "compare_and_set" THEN old.entry.value ELSE None]
    BY <2>2, <2>3 DEF Pending
  <2>5. Popped' <=> old # None
    BY <2>2, <2>3 DEF Popped
  <2>6. old = None => Entries' = EntriesOf(table')
    BY <2>5 DEF Entries, Held, EntriesOf
  <2>7. ASSUME old # None, table' = [table EXCEPT ![k] = None], old = table[k]
        PROVE  Entries' = entries
    <3>1. \A j \in Keys : Held(j)' = IF j = k THEN old.entry ELSE EntriesOf(table')[j]
      BY <2>2, <2>5, <2>7 DEF Held, EntriesOf
    <3>2. \A j \in Keys : Held(j)' = entries[j]
      BY <1>0, <2>7, <3>1 DEF EntriesOf, Table
    <3> QED BY <3>2 DEF Entries, EntriesOf
  <2> QED BY <2>4, <2>6, <2>7
<1>4. ASSUME set(k, v, t) PROVE Contract!StartSet(k, v, t)
  <2>1. holder' = Frame("set", k, v, t, table[k]) /\ reply' = reply
    BY <1>4 DEF set
  <2>2. Pending' = [op |-> "set", key |-> k, entry |-> CacheEntry(v, t, clock),
                    expected |-> None]
    BY <1>0, <1>3, <1>4, <2>1 DEF Table
  <2>3. Entries' = entries
    <3>1. CASE table[k] = None
      BY <1>3, <1>4, <2>1, <3>1 DEF set, rows
    <3>2. CASE table[k] # None
      BY <1>0, <1>3, <1>4, <2>1, <3>2 DEF set, _remove_entry_locked, Table
    <3> QED BY <3>1, <3>2
  <2> QED
    BY <1>1, <1>4, <2>1, <2>2, <2>3, SharedDefinitions
    DEF Contract!StartSet, Contract!Start
<1>5. ASSUME set_if_absent(k, v, t)
      PROVE  Contract!StartSetIfAbsent(k, v, t) \/ Contract!RefuseSetIfAbsent(k)
  <2>1. CASE Live(k)
    <3>1. /\ table' = table /\ holder' = holder
          /\ reply' = Returned("set_if_absent", k, None, "EXISTS")
      BY <1>5, <2>1 DEF set_if_absent, rows
    <3>2. Pending' = None /\ Entries' = entries
      BY <1>1, <1>5, <3>1, NoFrame, ViewAfter
    <3>3. Contract!Live(k)
      BY <1>0, <1>1, <1>5, <2>1, RowSeen, SharedDefinitions DEF Contract!Live
    <3> QED
      BY <1>1, <1>5, <3>1, <3>2, <3>3, SharedDefinitions
      DEF Contract!RefuseSetIfAbsent, Contract!Answer
  <2>2. CASE ~Live(k)
    <3>1. /\ holder' = Frame("set_if_absent", k, v, t, None) /\ reply' = reply
          /\ IF Expired(k) THEN _remove_expired_entry_locked(k)
             ELSE UNCHANGED <<rows, counters>>
      BY <1>5, <2>2 DEF set_if_absent
    <3>2. /\ Pending' = [op |-> "set_if_absent", key |-> k,
                         entry |-> CacheEntry(v, t, clock), expected |-> None]
          /\ Entries' = EntriesOf(table')
      BY <1>3, <1>5, <3>1
    <3>3. Contract!MayDrop(k)
      BY <1>2, <1>5, <3>1, <3>2
    <3>4. ~Contract!Live(k)
      BY <1>0, <1>1, <1>5, <2>2, RowSeen, SharedDefinitions DEF Contract!Live
    <3> QED
      BY <1>1, <1>5, <3>1, <3>2, <3>3, <3>4, SharedDefinitions
      DEF Contract!StartSetIfAbsent, Contract!Start
  <2> QED BY <2>1, <2>2
<1>6. ASSUME NEW expected \in Values, compare_and_set(k, expected, v, t)
      PROVE  \/ Contract!StartCompareAndSet(k, expected, v, t)
             \/ Contract!RefuseCompareAndSet(k, expected)
  <2>1. CASE ~Live(k)
    <3>1. /\ holder' = holder
          /\ reply' = Returned("compare_and_set", k, expected, "NOT_FOUND")
          /\ IF Expired(k) THEN _remove_expired_entry_locked(k)
             ELSE UNCHANGED <<rows, counters>>
      BY <1>6, <2>1 DEF compare_and_set
    <3>2. Pending' = None /\ Entries' = EntriesOf(table')
      BY <1>1, <1>6, <3>1, NoFrame, ViewAfter
    <3>3. Contract!MayDrop(k)
      BY <1>2, <1>6, <3>1, <3>2
    <3>4. ~Contract!Live(k)
      BY <1>0, <1>1, <1>6, <2>1, RowSeen, SharedDefinitions DEF Contract!Live
    <3> QED
      BY <1>1, <1>6, <3>1, <3>2, <3>3, <3>4, SharedDefinitions
      DEF Contract!RefuseCompareAndSet, Contract!Answer
  <2>2. CASE Live(k) /\ table[k].entry.value # expected
    <3>1. /\ table' = table /\ holder' = holder
          /\ reply' = Returned("compare_and_set", k, expected, "MISMATCH")
      BY <1>6, <2>2 DEF compare_and_set, rows
    <3>2. Pending' = None /\ Entries' = entries
      BY <1>1, <1>6, <3>1, NoFrame, ViewAfter
    <3>3. Contract!Live(k) /\ Entries[k].value # expected
      BY <1>0, <1>1, <1>6, <2>2, RowSeen, SharedDefinitions DEF Contract!Live
    <3> QED
      BY <1>1, <1>6, <3>1, <3>2, <3>3, SharedDefinitions
      DEF Contract!RefuseCompareAndSet, Contract!Answer
  <2>3. CASE Live(k) /\ table[k].entry.value = expected
    <3>1. /\ table' = [table EXCEPT ![k] = None] /\ reply' = reply
          /\ holder' = Frame("compare_and_set", k, v, t, table[k])
      BY <1>6, <2>3 DEF compare_and_set, _remove_entry_locked
    <3>2. table[k] \in Row
      BY <1>0, <2>3 DEF Live, Table
    <3>3. /\ Pending' = [op |-> "compare_and_set", key |-> k,
                         entry |-> CacheEntry(v, t, clock), expected |-> expected]
          /\ Entries' = entries
      BY <1>3, <1>6, <2>3, <3>1, <3>2 DEF Live
    <3>4. Contract!Live(k) /\ Entries[k].value = expected
      BY <1>0, <1>1, <1>6, <2>3, RowSeen, SharedDefinitions DEF Contract!Live
    <3> QED
      BY <1>1, <1>6, <3>1, <3>3, <3>4, SharedDefinitions
      DEF Contract!StartCompareAndSet, Contract!Start
  <2> QED BY <2>1, <2>2, <2>3
<1> HIDE DEF Begins, entries
<1> QED BY <1>4, <1>5, <1>6

\* The later steps of a write: an eviction, a rejection, the end, a failure.
LEMMA RefineWrite ==
    ASSUME RInv
    PROVE  /\ \A k \in Keys : _evict_lru_locked(k) => Contract!Evict(k)
           /\ RejectOversize => Contract!Reject
           /\ StoreOrExhausted => Contract!Commit
<1> DEFINE entries == EntriesOf(table)
<1>0. Table(table) /\ clock \in Nat
  BY TableAndClock
<1>1. ASSUME Writing
      PROVE  /\ entries \in [Keys -> Entry \cup {None}]
             /\ holder \in WriteFrame /\ holder.key \in Keys /\ holder.entry \in Entry
             /\ table[holder.key] = None /\ entries[holder.key] = None
             /\ Pending # None
             /\ Pending.op = holder.op /\ Pending.key = holder.key
             /\ Pending.entry = holder.entry
             /\ Pending.expected = IF holder.op = "compare_and_set"
                                   THEN holder.old.entry.value ELSE None
             /\ holder.old \in Row \cup {None}
             /\ size_bytes(holder.entry) \in Nat
             /\ Popped <=> holder.old # None
  <2>1. holder \in WriteFrame /\ table[holder.key] = None
    BY <1>1, View
  <2>2. Popped <=> holder.old # None
    BY <1>1 DEF Popped
  <2>3. entries[holder.key] = None
    BY <1>0, <2>1, RowSeen DEF WriteFrame
  <2> QED BY <1>1, <2>1, <2>2, <2>3, View, SizePositive DEF WriteFrame
<1>2. ASSUME Writing, NEW st, FinishWrite(st)
      PROVE  /\ Entries' = EntriesOf(table') /\ Pending' = None /\ clock' = clock
             /\ reply' = Returned(Pending.op, Pending.key, Pending.expected,
                                  WriteResult(Pending.op, st))
  <2>1. ~Writing' /\ clock' = clock
    BY <1>2, NoFrame DEF FinishWrite, Process
  <2> QED BY <1>1, <1>2, <2>1, ViewAfter DEF FinishWrite
<1>3. ASSUME NEW k \in Keys, _evict_lru_locked(k) PROVE Contract!Evict(k)
  <2>1. /\ Writing /\ ~Oversize /\ holder' = holder /\ table[k] # None
        /\ table' = [table EXCEPT ![k] = None]
        /\ UNCHANGED <<clock, reply>>
    BY <1>3 DEF _evict_lru_locked, _remove_entry_locked, Process, Coldest, Present
  <2>2. EntriesOf(table') = [entries EXCEPT ![k] = None]
    BY <1>0, <2>1, RowToEntry DEF Table
  <2>3. k # holder.key /\ Entries[k] = entries[k] /\ entries[k] # None
    BY <1>0, <1>1, <2>1, RowSeen, View
  <2>4. Pending' = Pending
    BY <2>1 DEF Pending, Writing
  <2>5. Entries' = [Entries EXCEPT ![k] = None]
    <3>1. \A j \in Keys : Held(j) = Entries[j] /\ Held(j)' = Entries'[j]
      BY DEF Entries
    <3>2. Popped' = Popped
      BY <2>1 DEF Popped, Writing
    <3>3. \A j \in Keys : Held(j)' = IF j = k THEN None ELSE Held(j)
      BY <1>1, <2>1, <2>2, <2>3, <3>2 DEF Held
    <3> QED BY <3>3 DEF Entries
  <2>6. size_bytes(holder.entry) <= max_value_bytes
    BY <1>1, <2>1, ValueLimit DEF Oversize
  <2> QED
    BY <1>1, <2>1, <2>3, <2>4, <2>5, <2>6, SharedDefinitions
    DEF Contract!Evict, Contract!Without
<1>4. ASSUME RejectOversize PROVE Contract!Reject
  <2>1. Writing /\ Oversize /\ _restore_row_locked /\ FinishWrite("VALUE_TOO_LARGE")
    BY <1>4 DEF RejectOversize
  <2>2. EntriesOf(table') = Entries
    <3>1. CASE holder.old = None
      BY <1>1, <2>1, <3>1, View DEF _restore_row_locked, rows
    <3>2. CASE holder.old # None
      <4>1. table' = [table EXCEPT ![holder.key] = holder.old]
        BY <2>1, <3>2 DEF _restore_row_locked, Insert
      <4>2. holder.old \in Row /\ holder.key \in Keys /\ Popped
        BY <1>1, <2>1, <3>2
      <4>3. PICK k \in Keys, row \in Row : k = holder.key /\ row = holder.old
        BY <4>2
      <4>4. EntriesOf([table EXCEPT ![k] = row]) = [entries EXCEPT ![k] = row.entry]
        BY <1>0, NewRowToEntry DEF Table
      <4> QED BY <4>1, <4>2, <4>3, <4>4, View
    <3> QED BY <3>1, <3>2
  <2>3. size_bytes(holder.entry) > max_value_bytes
    BY <2>1 DEF Oversize
  <2> QED
    BY <1>1, <1>2, <2>1, <2>2, <2>3, SharedDefinitions DEF Contract!Reject, Contract!Finish
<1>5. ASSUME StoreOrExhausted PROVE Contract!Commit
  <2>1. Writing /\ ~Oversize
    BY <1>5 DEF StoreOrExhausted
  <2>2. size_bytes(holder.entry) <= max_value_bytes
    BY <1>1, <2>1, ValueLimit DEF Oversize
  <2>3. _insert_row_locked(holder.key, holder.entry) /\ FinishWrite("OK")
    BY <1>5, RoomIsLeft DEF StoreOrExhausted, RInv
  <2>4. EntriesOf(table') = [entries EXCEPT ![holder.key] = holder.entry]
    <3> DEFINE row == [entry |-> holder.entry, last_accessed |-> clock]
    <3>1. table' = [table EXCEPT ![holder.key] = row]
      BY <2>3 DEF _insert_row_locked, Insert
    <3>2. row \in Row /\ row.entry = holder.entry
      BY <1>0, <1>1, <2>1 DEF Row
    <3> HIDE DEF row
    <3>3. PICK k \in Keys : k = holder.key
      BY <1>1, <2>1
    <3>4. EntriesOf([table EXCEPT ![k] = row]) = [entries EXCEPT ![k] = row.entry]
      BY <1>0, <3>2, NewRowToEntry DEF Table
    <3> QED BY <3>1, <3>2, <3>3, <3>4
  <2>5. EntriesOf(table') = [Entries EXCEPT ![holder.key] = holder.entry]
    BY <1>1, <2>1, <2>4, View
  <2> QED
    BY <1>1, <1>2, <2>1, <2>2, <2>3, <2>5, SharedDefinitions
    DEF Contract!Commit, Contract!Finish
<1> QED BY <1>3, <1>4, <1>5

\* stats, clear, the cleaner and the clock.
LEMMA RefineRest ==
    ASSUME RInv
    PROVE  /\ stats => UNCHANGED Contract!cvars
           /\ StatsReturn => Contract!Stats
           /\ clear => Contract!Clear
           /\ \A k \in Keys : StatsVisit(k) \/ _remove_if_expired(k) =>
                Contract!Expire(k) \/ UNCHANGED Contract!cvars
           /\ Tick => Contract!Pass
           /\ UNCHANGED vars \/ stop \/ Close \/ Start \/ CleanerSnapshot
                \/ CleanerCheck \/ CleanerError \/ CleanerExit =>
                UNCHANGED Contract!cvars
<1> DEFINE entries == EntriesOf(table)
<1>0. Table(table) /\ entries \in [Keys -> Entry \cup {None}]
  BY TableAndClock, View
<1>1. ASSUME LockFree \/ ReadingStats PROVE Entries = entries /\ Pending = None /\ ~Popped
  <2>1. ~Writing
    BY <1>1, FrameKinds DEF RInv, IInv, RestTyped
  <2> QED BY <2>1, View DEF Popped
<1>2. ASSUME table' = table, holder' = holder PROVE Entries' = Entries /\ Pending' = Pending
  BY <1>2 DEF Entries, Held, EntriesOf, Popped, Writing, Pending
<1>3. ASSUME stats PROVE UNCHANGED Contract!cvars
  <2>1. LockFree /\ table' = table /\ holder'.op = "stats" /\ UNCHANGED <<clock, reply>>
    BY <1>3 DEF stats, Call, Process, rows
  <2>2. ~Writing'
    BY <2>1 DEF Writing
  <2> QED BY <1>1, <2>1, <2>2, ViewAfter DEF Contract!cvars
<1>4. ASSUME StatsReturn PROVE Contract!Stats
  <2>1. /\ ReadingStats /\ holder' = None /\ table' = table /\ clock' = clock
        /\ reply' = [op |-> "stats", size |-> entry_count,
                     memory_usage_bytes |-> current_memory_bytes]
    BY <1>4 DEF StatsReturn, Process, rows
  <2>2. Entries = entries /\ Entries' = entries /\ Pending = None /\ Pending' = None
    BY <1>1, <2>1, NoFrame, ViewAfter
  <2>3. Exact
    BY <2>1 DEF RInv, IInv, FrameConsistent, ReadingStats
  <2>4. entry_count = Cardinality({k \in Keys : entries[k] # None})
    <3>1. {k \in Keys : entries[k] # None} = {k \in Keys : table[k] # None}
      BY <1>0, RowSeen
    <3> QED BY <2>3, <3>1 DEF Exact, _load_entry_count
  <2>5. Contract!BytesOf(entries) = BytesOf(entries)
    BY DEF Contract!BytesOf, BytesOf, Contract!size_bytes, size_bytes
  <2>6. current_memory_bytes = Cardinality(Contract!BytesOf(entries))
    BY <2>3, <2>5 DEF Exact, _load_current_memory_bytes
  <2> HIDE DEF entries
  <2>7. reply' = [op |-> "stats",
                  size |-> Cardinality({k \in Keys : Entries[k] # None}),
                  memory_usage_bytes |-> Cardinality(Contract!BytesOf(Entries))]
    BY <2>1, <2>2, <2>4, <2>6
  <2>8. UNCHANGED <<Entries, clock, Pending>>
    BY <2>1, <2>2
  <2>9. \A S : Contract!Cardinality(S) = Cardinality(S)
    BY DEF Contract!Cardinality, Cardinality
  <2> QED BY <2>2, <2>7, <2>8, <2>9, Zenon DEF Contract!Stats
<1>5. ASSUME clear PROVE Contract!Clear
  <2>1. /\ LockFree /\ holder' = None /\ clock' = clock /\ reply' = [op |-> "clear"]
        /\ table' = [k \in Keys |-> None]
    BY <1>5 DEF clear, Call, Process, LockFree
  <2>2. EntriesOf(table') = [k \in Keys |-> None]
    BY <2>1 DEF EntriesOf
  <2>3. Pending = None /\ Entries' = [k \in Keys |-> None] /\ Pending' = None
    BY <1>1, <2>1, <2>2, NoFrame, ViewAfter
  <2> QED BY <2>1, <2>3 DEF Contract!Clear
<1>6. ASSUME NEW k \in Keys, StatsVisit(k) \/ _remove_if_expired(k)
      PROVE  Contract!Expire(k) \/ UNCHANGED Contract!cvars
  <2>1. /\ LockFree \/ ReadingStats
        /\ ~Writing' /\ UNCHANGED <<clock, reply>>
    <3>1. CASE StatsVisit(k)
      <4>1. ReadingStats /\ holder \in StatsFrame
        BY <3>1, FrameKinds DEF StatsVisit, RInv, IInv, RestTyped
      <4>2. holder'.op = "stats"
        BY <3>1, <4>1 DEF StatsVisit, StatsFrame
      <4> QED BY <3>1, <4>1, <4>2 DEF StatsVisit, Process, Writing
    <3>2. CASE _remove_if_expired(k)
      BY <3>2, NoFrame DEF _remove_if_expired, NotCleaner, LockFree
    <3> QED BY <1>6, <3>1, <3>2
  <2>2. Pending' = Pending /\ Entries = entries /\ Entries' = EntriesOf(table')
    BY <1>1, <2>1, ViewAfter
  <2>3. CASE Expired(k)
    <3>1. table' = [table EXCEPT ![k] = None]
      BY <1>6, <2>3
      DEF StatsVisit, _remove_if_expired, _remove_expired_entry_locked, _remove_entry_locked
    <3>2. EntriesOf(table') = [entries EXCEPT ![k] = None]
      BY <1>0, <3>1, RowToEntry DEF Table
    <3> QED
      BY <1>0, <2>1, <2>2, <2>3, <3>2, RowSeen, SharedDefinitions
      DEF Contract!Expire, Contract!Stale, Contract!Without
  <2>4. CASE ~Expired(k)
    <3>1. table' = table
      BY <1>6, <2>4 DEF StatsVisit, _remove_if_expired, rows
    <3> QED BY <2>1, <2>2, <3>1 DEF Contract!cvars
  <2> QED BY <2>3, <2>4
<1>7. ASSUME Tick PROVE Contract!Pass
  BY <1>2, <1>7 DEF Tick, rows, Contract!Pass
<1>8. ASSUME \/ UNCHANGED vars \/ stop \/ Close \/ Start
             \/ CleanerSnapshot \/ CleanerCheck \/ CleanerError \/ CleanerExit
      PROVE  UNCHANGED Contract!cvars
  <2>1. UNCHANGED <<table, holder, clock, reply>>
    BY <1>8 DEF vars, rows, stop, Close, Start, CleanerSnapshot, CleanerCheck,
       CleanerError, CleanerExit, NotCleaner
  <2> QED BY <1>2, <2>1 DEF Contract!cvars
<1> HIDE DEF entries
<1> QED BY <1>3, <1>4, <1>5, <1>6, <1>7, <1>8

\* A write that a failed statement or the end of the process interrupts is not
\* stored, and may have cost its key the row that it had.
LEMMA RefineFailure ==
    ASSUME RInv, Exit \/ Crash \/ StatementFails
    PROVE  Contract!Fail \/ UNCHANGED Contract!cvars
<1>1. table' = table /\ holder' = None /\ UNCHANGED <<clock, reply>>
  BY DEF Exit, Crash, StatementFails, Forget, rows
<1>2. Entries' = EntriesOf(table) /\ Pending' = None
  BY <1>1, NoFrame, ViewAfter
<1>3. CASE ~Writing
  <2>1. Entries = EntriesOf(table) /\ Pending = None
    BY <1>3, View DEF Popped
  <2> QED BY <1>1, <1>2, <2>1 DEF Contract!cvars
<1>4. CASE Writing
  <2>1. holder \in WriteFrame /\ Pending # None /\ Pending.key = holder.key
    BY <1>4, View
  <2>2. EntriesOf(table)[holder.key] = None
    BY <2>1, View, TableAndClock, RowSeen, <1>4 DEF WriteFrame
  <2>3. CASE ~Popped
    <3>1. Entries' = Entries
      BY <1>2, <2>3, View
    <3> QED BY <1>1, <1>2, <2>1, <3>1 DEF Contract!Fail
  <2>4. CASE Popped
    <3>1. Entries' = [Entries EXCEPT ![Pending.key] = None]
      BY <1>2, <2>1, <2>2, <2>4, View DEF WriteFrame
    <3> QED BY <1>1, <1>2, <2>1, <3>1 DEF Contract!Fail, Contract!Without
  <2> QED BY <2>3, <2>4
<1> QED BY <1>3, <1>4

\* The rows of the file are the map that the contract starts with.
LEMMA RefineInit == Init => Contract!Init
<1> SUFFICES ASSUME Init PROVE Contract!Init
  OBVIOUS
<1>1. ~Writing /\ ~Popped
  BY DEF Init, Writing, Popped
<1>2. Entries = EntriesOf(table) /\ Pending = None
  BY <1>1 DEF Entries, Held, EntriesOf, Pending
<1> QED BY <1>2, SharedDefinitions DEF Init, Contract!Init

\* Every step is a step of the contract or changes nothing that it shows, as
\* long as the clock does not start over.
LEMMA RefineNext ==
    "reboot" \notin Mishaps =>
      (RInv /\ [Next]_vars => [Contract!Next]_(Contract!cvars))
<1> SUFFICES ASSUME "reboot" \notin Mishaps, RInv, [Next]_vars
             PROVE  Contract!Next \/ UNCHANGED Contract!cvars
  OBVIOUS
<1>1. ASSUME NEW k \in Keys, get(k) \/ GetFails(k) \/ delete(k)
      PROVE  Contract!Next \/ UNCHANGED Contract!cvars
  BY <1>1, RefineRead DEF Contract!Next
<1>2. ASSUME NEW k \in Keys, NEW v \in Values, NEW t \in Ttls,
             \/ set(k, v, t)
             \/ set_if_absent(k, v, t)
             \/ \E expected \in Values : compare_and_set(k, expected, v, t)
      PROVE  Contract!Next
  BY <1>2, RefineStart DEF Contract!Next
<1>3. ASSUME RejectOversize \/ StoreOrExhausted \/ \E k \in Keys : _evict_lru_locked(k)
      PROVE  Contract!Next
  BY <1>3, RefineWrite DEF Contract!Next
<1>4. ASSUME \/ UNCHANGED vars \/ stats \/ StatsReturn \/ clear \/ stop \/ Close \/ Start
             \/ CleanerSnapshot \/ CleanerCheck \/ CleanerError \/ CleanerExit \/ Tick
      PROVE  Contract!Next \/ UNCHANGED Contract!cvars
  BY <1>4, RefineRest DEF Contract!Next
<1>7. ASSUME NEW k \in Keys, StatsVisit(k) \/ _remove_if_expired(k)
      PROVE  Contract!Next \/ UNCHANGED Contract!cvars
  BY <1>7, RefineRest DEF Contract!Next
<1>5. ASSUME Exit \/ Crash \/ StatementFails
      PROVE  Contract!Next \/ UNCHANGED Contract!cvars
  BY <1>5, RefineFailure DEF Contract!Next
<1>6. ~Reboot
  BY DEF Reboot, Happens
<1> QED BY <1>1, <1>2, <1>3, <1>4, <1>5, <1>6, <1>7 DEF Next

-----------------------------------------------------------------------------
(* Theorems.                                                               *)

\* The store satisfies its inductive invariant, whatever file it finds and
\* whatever fails.
THEOREM Invariance == Spec => []IInv
BY InitIInv, NextIInv, PTL DEF Spec

\* Type correctness; no number becomes negative, whatever fails.
THEOREM TypeCorrect == Spec => []TypeOK
BY Invariance, IInvImplies, PTL

\* The two numbers agree with the rows of the file, through crashes, errors,
\* restarts and restored rows.
THEOREM AccountingCorrect == Spec => []AccountingExact
BY Invariance, IInvImplies, PTL

\* CAPACITY_EXHAUSTED is never answered, not even in a file over the limits.
THEOREM NoCapacityRejection == Spec => []NeverExhausted
<1>1. IInv => NeverExhausted
  BY DEF IInv
<1> QED BY <1>1, Invariance, PTL

\* No call makes the file grow beyond the limits.
THEOREM GrowthLimited == Spec => GrowthWithinLimits
BY InitIInv, NextIInv, PTL DEF Spec, GrowthWithinLimits

\* A row that has not expired survives restarts, errors and rejected writes,
\* but for the key of a write that a failure interrupts.
THEOREM LiveEntriesKept == Spec => LiveEntryKept
<1>1. IInv /\ [Next]_vars => [LiveEntryStep]_vars
  BY LiveEntryLemma
<1> QED BY <1>1, InitIInv, NextIInv, PTL DEF Spec, LiveEntryKept

\* Through crashes, errors, stops and starts the store implements the contract,
\* as long as the host does not reboot.
THEOREM ContractImplemented == "reboot" \notin Mishaps => (Spec => ImplementsContract)
<1> SUFFICES ASSUME "reboot" \notin Mishaps PROVE Spec => ImplementsContract
  OBVIOUS
<1>1. RInv /\ [Next]_vars => [Contract!Next]_(Contract!cvars)
  BY RefineNext
<1> QED BY <1>1, RInvInit, RInvNext, RefineInit, PTL DEF Spec, ImplementsContract, Contract!Spec

\* What leaves a running store unasked is counted once, under one of two names.
THEOREM LossesAreCounted == Spec => LossesCounted
<1> DEFINE Losses == /\ ~clear /\ \A k \in Keys : ~delete(k)
                     /\ process = "up" /\ mishaps' = mishaps
                     => LossStep
<1>1. IInv /\ [Next]_vars => Losses
  BY LossLemma, Zenon
<1>2. IInv /\ [Next]_vars => [Losses]_vars
  BY <1>1
<1> QED BY <1>2, Invariance, PTL DEF Spec, LossesCounted, LossStep, Lost

\* The rows of the first file were last used at readings of this clock, none of
\* them in the future.
RowsOfThisBoot ==
    \A t \in Persisted : \A k \in Keys : t[k] # None => t[k].last_accessed = 0

\* Across errors, crashes and restarts the row that was used last is the hottest:
\* its last_accessed is no less than any other. It takes a clock that does not
\* start over: after a reboot of the host all rows used before it are hotter.
THEOREM LastUsedIsHottest ==
    "reboot" \notin Mishaps /\ RowsOfThisBoot => (Spec => []LastUsedHottest)
<1> SUFFICES ASSUME "reboot" \notin Mishaps, RowsOfThisBoot
             PROVE  Spec => []LastUsedHottest
  OBVIOUS
<1>1. Init => HotInv
  <2> SUFFICES ASSUME Init PROVE HotInv
    OBVIOUS
  <2>1. /\ table \in Persisted /\ clock = 0 /\ holder = None
        /\ reply.op = "none"
    BY DEF Init, NoReply
  <2>2. ~Used /\ LastUsedHottest
    BY <2>1 DEF Used, LastUsedHottest
  <2>3. ~Popped
    BY <2>1 DEF Popped, Writing
  <2>4. \A k \in Keys : table[k] # None => table[k].last_accessed <= clock
    BY <2>1 DEF RowsOfThisBoot
  <2> QED BY <2>2, <2>3, <2>4 DEF HotInv
<1>2. HotInv => LastUsedHottest
  BY DEF HotInv
<1> QED BY <1>1, <1>2, NextHotInv, Invariance, PTL DEF Spec
=============================================================================
