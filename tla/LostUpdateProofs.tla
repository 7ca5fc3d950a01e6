-------------------------- MODULE LostUpdateProofs --------------------------
(***************************************************************************)
(* No lost update: a value of a key is replaced by compare_and_set at most *)
(* once for every time it was written, for every set of calls and workers  *)
(* and whatever is evicted, expires, fails or is cancelled meanwhile.      *)
(***************************************************************************)
EXTENDS GrpcServiceProofs

-----------------------------------------------------------------------------
(* The invariant.  A value in the cache, or one that a compare_and_set has *)
(* found there and is about to replace, has been written once more than it *)
(* has been replaced.                                                      *)

Holds(k, v) == cache[k] # None /\ cache[k].value = v

Replacing(k, v) ==
    /\ caller # None /\ Op(caller) = "CompareAndSet"
    /\ Current(caller).key = k /\ Current(caller).expected = v

Available(k, v) == Holds(k, v) \/ Replacing(k, v)

Balanced(k, v) ==
    Cardinality(Replaced(k, v)) + (IF Available(k, v) THEN 1 ELSE 0)
      <= Cardinality(Stored(k, v))

\* The step at which a write takes effect.
Commits(r) ==
    EndWrite(r) /\ Store!Commit /\ committed' = committed \cup {<<r, Here(r)>>}

\* The part of it that does not depend on who else shares the pool.
UInv(S) ==
    /\ CallsInv(S)
    /\ IsFiniteSet(committed)
    /\ \A k \in Keys, v \in Values : Balanced(k, v)

-----------------------------------------------------------------------------
(* The history of the writes.                                              *)

\* A call keeps its request.
LEMMA RequestKept ==
    ASSUME NEW S \in SUBSET Rpcs, CallsInv(S), CallsMove,
           NEW r \in Rpcs, rpc[r].phase # "idle"
    PROVE  rpc'[r].request = rpc[r].request
<1>1. CASE WorkerMoves
  BY <1>1, WorkerStepsKeep
<1> QED BY <1>1 DEF CallsMove, HandlersMove

\* A write in progress belongs to one caller, who does not change.
LEMMA CallerKept ==
    ASSUME NEW S \in SUBSET Rpcs, CallsInv(S), CallsMove, caller # None, caller' = caller
    PROVE  Current(caller)' = Current(caller) /\ Op(caller)' = Op(caller)
<1>1. AtItem(caller) /\ caller \in Rpcs
  BY DEF CallsInv, StoreShape
<1>2. rpc'[caller].request = rpc[caller].request
  BY <1>1, RequestKept, AtAnItem
<1>3. job'[caller].outcomes = job[caller].outcomes
  <2>1. ASSUME NEW r \in Rpcs, r # caller, NEW o, Outcome(r, o)
        PROVE  job'[caller].outcomes = job[caller].outcomes
    BY <1>1, <2>1 DEF Outcome, CallsInv, Shape
  <2>2. ASSUME NEW r \in Rpcs, NEW p, job' = [job EXCEPT ![r].pc = p]
        PROVE  job'[caller].outcomes = job[caller].outcomes
    BY <1>1, <2>2 DEF CallsInv, Shape, Jobs
  <2>3. ASSUME NEW r \in Rpcs,
               InvalidItem(r) \/ StoreRaises(r) \/ CallStore(r) \/ EndWrite(r) \/ WriteRaises(r)
        PROVE  job'[caller].outcomes = job[caller].outcomes
    <3>1. r # caller
      BY <2>3, RequestsAssumption
         DEF InvalidItem, StoreRaises, CallStore, EndWrite, WriteRaises, Valid
    <3>2. \E o : Outcome(r, o)
      BY <2>3 DEF InvalidItem, StoreRaises, CallStore, EndWrite, WriteRaises
    <3> QED BY <2>1, <3>1, <3>2
  <2>4. CASE StartJob
    <3>1. Head(queue) \in Rpcs
      BY <2>4 DEF StartJob, CallsInv, QueueShape
    <3> QED BY <2>2, <2>4, <3>1 DEF StartJob
  <2>5. ASSUME NEW r \in Rpcs, EndJob(r)
        PROVE  job'[caller].outcomes = job[caller].outcomes
    BY <2>2, <2>5 DEF EndJob
  <2>6. CASE HandlersMove
    BY <1>1, <2>6 DEF HandlersMove, AtItem
  <2>7. CASE UNCHANGED job
    BY <2>7
  <2> QED BY <2>3, <2>4, <2>5, <2>6, <2>7
          DEF CallsMove, WorkerMoves, StartWrite, StoreStep
<1> QED BY <1>2, <1>3 DEF Current, Items, Here, Op

\* The history is finite, so its parts can be counted.
LEMMA Counts ==
    ASSUME IsFiniteSet(committed), NEW k, NEW v
    PROVE  /\ IsFiniteSet(Stored(k, v)) /\ Cardinality(Stored(k, v)) \in Nat
           /\ IsFiniteSet(Replaced(k, v)) /\ Cardinality(Replaced(k, v)) \in Nat
<1>1. Stored(k, v) \subseteq committed /\ Replaced(k, v) \subseteq committed
  BY DEF Stored, Replaced
<1> QED BY <1>1, FS_Subset, FS_CardinalityType

\* What has been stored stays what it was.
LEMMA HistoryKept ==
    ASSUME NEW S \in SUBSET Rpcs, CallsInv(S), CallsMove, NEW c \in committed
    PROVE  Items(c[1])' = Items(c[1]) /\ Op(c[1])' = Op(c[1])
<1>1. c[1] \in Rpcs /\ c[2] \in Nat /\ <<c[1], c[2]>> \in committed
  BY DEF CallsInv
<1>2. rpc[c[1]].phase # "idle"
  BY <1>1 DEF CallsInv, Booked, IsWrite, InStep
<1> QED BY <1>1, <1>2, RequestKept DEF Items, Op

-----------------------------------------------------------------------------
(* The steps that store nothing.                                           *)

\* A step that adds nothing to the history keeps the counts of the writers.
LEMMA NothingStored ==
    ASSUME NEW S \in SUBSET Rpcs, UInv(S), CallsMove, UNCHANGED committed,
           NEW k \in Keys, NEW v \in Values, Available(k, v)' => Available(k, v)
    PROVE  Balanced(k, v)'
<1>1. Stored(k, v)' = Stored(k, v) /\ Replaced(k, v)' = Replaced(k, v)
  BY HistoryKept DEF UInv, Stored, Replaced
<1>2. /\ Cardinality(Stored(k, v)) \in Nat /\ Cardinality(Replaced(k, v)) \in Nat
      /\ Balanced(k, v)
  BY Counts DEF UInv
<1> HIDE DEF Available
<1>3. PICK n \in Nat : n = Cardinality(Stored(k, v))
  BY <1>2
<1>4. PICK m \in Nat : m = Cardinality(Replaced(k, v))
  BY <1>2
<1>5. m + (IF Available(k, v) THEN 1 ELSE 0) <= n
  BY <1>2, <1>3, <1>4 DEF Balanced
<1>6. m + (IF Available(k, v)' THEN 1 ELSE 0) <= n
  BY <1>5
<1> QED BY <1>1, <1>3, <1>4, <1>6 DEF Balanced

\* All that they do to the cache is to drop entries.
LEMMA CacheShrinks ==
    ASSUME NEW S \in SUBSET Rpcs, CallsInv(S), CallsMove, ~\E r \in Rpcs : Commits(r)
    PROVE  \A k \in Keys : cache'[k] \in {cache[k], None}
<1>1. cache \in [Keys -> Entry \cup {None}]
  BY DEF CallsInv, StoreShape
<1>2. ASSUME NEW k \in Keys, cache' = cache \/ cache' = Store!Without(k)
      PROVE  \A j \in Keys : cache'[j] \in {cache[j], None}
  BY <1>1, <1>2 DEF Store!Without
<1>3. ASSUME NEW r \in Rpcs, CallStore(r) \/ StartWrite(r)
      PROVE  \A j \in Keys : cache'[j] \in {cache[j], None}
  <2>1. Op(r) # "Stats" => Current(r).key \in Keys
    BY <1>3, ValidItem DEF CallStore, StartWrite
  <2>2. \/ cache' = cache
        \/ Op(r) # "Stats" /\ cache' = Store!Without(Current(r).key)
    <3>1. CASE CallStore(r)
      BY <3>1 DEF CallStore, Store!Get, Store!Delete, Store!Stats, Store!RefuseSetIfAbsent,
           Store!RefuseCompareAndSet, Store!MayDrop
    <3>2. CASE StartWrite(r)
      BY <3>2 DEF StartWrite, Store!StartSet, Store!StartSetIfAbsent,
           Store!StartCompareAndSet, Store!MayDrop
    <3> QED BY <1>3, <3>1, <3>2
  <2> QED BY <1>2, <2>1, <2>2
<1>4. ASSUME NEW r \in Rpcs, EndWrite(r) \/ WriteRaises(r)
      PROVE  \A j \in Keys : cache'[j] \in {cache[j], None}
  <2>1. pending.key \in Keys
    BY <1>4, WriteInProgress DEF EndWrite, WriteRaises
  <2>2. cache' = cache \/ cache' = Store!Without(pending.key)
    BY <1>4 DEF Commits, EndWrite, WriteRaises, Store!Reject, Store!Fail
  <2> QED BY <1>2, <2>1, <2>2
<1>5. CASE StoreStep
  BY <1>2, <1>5 DEF StoreStep, Store!Evict, Store!Expire, Store!Pass
<1>6. CASE UNCHANGED cache
  BY <1>6
<1> QED BY <1>3, <1>4, <1>5, <1>6
        DEF CallsMove, WorkerMoves, HandlersMove, store, InvalidItem, StoreRaises, EndJob,
            StartJob

\* compare_and_set begins only where it has found the value.
LEMMA NothingGained ==
    ASSUME NEW S \in SUBSET Rpcs, CallsInv(S), CallsMove, ~\E r \in Rpcs : Commits(r),
           NEW k \in Keys, NEW v \in Values, Available(k, v)'
    PROVE  Available(k, v)
<1>1. CASE Holds(k, v)'
  BY <1>1, CacheShrinks DEF Holds, Available
<1>2. CASE Replacing(k, v)'
  <2>1. CASE caller' = caller
    BY <1>2, <2>1, CallerKept DEF Replacing, Available
  <2>2. CASE caller' # caller
    <3>1. PICK r \in Rpcs : StartWrite(r)
      BY <1>2, <2>2 DEF Replacing, CallsMove, WorkerMoves, HandlersMove, InvalidItem,
         StoreRaises, CallStore, EndWrite, WriteRaises, EndJob, StartJob, StoreStep
    <3>2. caller' = r /\ UNCHANGED <<job, rpc>>
      BY <3>1 DEF StartWrite, Elsewhere
    <3>3. Op(r) = "CompareAndSet" /\ Current(r).key = k /\ Current(r).expected = v
      BY <1>2, <3>2 DEF Replacing, Op, Current, Items, Here
    <3>4. Store!StartCompareAndSet(Current(r).key, Current(r).expected,
                                   Current(r).value, Current(r).ttl)
      BY <3>1, <3>3 DEF StartWrite
    <3> QED BY <3>3, <3>4 DEF Store!StartCompareAndSet, Store!Live, Holds, Available
  <2> QED BY <2>1, <2>2
<1> QED BY <1>1, <1>2 DEF Available

\* Only the end of a successful write changes the history and the values.
LEMMA OnlyCommitsStore ==
    ASSUME CallsMove, ~\E r \in Rpcs : Commits(r)
    PROVE  UNCHANGED committed
  BY DEF CallsMove, WorkerMoves, HandlersMove, InvalidItem, StoreRaises, CallStore,
         StartWrite, Commits, EndWrite, WriteRaises, EndJob, StartJob, StoreStep

-----------------------------------------------------------------------------
(* The step that stores a value, and replaces the one that was expected.   *)

\* The history after a write was stored.
LEMMA CommitHistory ==
    ASSUME NEW S \in SUBSET Rpcs, UInv(S), CallsMove, NEW r \in Rpcs, Commits(r),
           NEW k \in Keys, NEW v \in Values
    PROVE  /\ Cardinality(Stored(k, v))' = Cardinality(Stored(k, v)) +
                (IF Current(r).key = k /\ Current(r).value = v THEN 1 ELSE 0)
           /\ Cardinality(Replaced(k, v))' = Cardinality(Replaced(k, v)) +
                (IF /\ Op(r) = "CompareAndSet"
                    /\ Current(r).key = k /\ Current(r).expected = v THEN 1 ELSE 0)
           /\ IsFiniteSet(committed')
<1>c. PICK c : c = <<r, Here(r)>>
  OBVIOUS
<1>1. AtItem(r) /\ IsWrite(r) /\ Here(r) \in Nat
  BY WriteInProgress, AtAnItem DEF UInv, Commits, EndWrite, Here
<1>2. committed' = committed \cup {c} /\ UNCHANGED rpc
  BY <1>c DEF Commits, EndWrite, Elsewhere
<1>3. c \notin committed
  <2>1. Here(r) \notin DOMAIN job[r].outcomes
    BY <1>1 DEF Here, UInv, CallsInv, Shape, Jobs
  <2> QED BY <1>c, <1>1, <2>1 DEF UInv, CallsInv, Booked
<1>4. /\ Items(c[1])' = Items(r) /\ Op(c[1])' = Op(r) /\ Items(r)[c[2]] = Current(r)
  BY <1>c, <1>2 DEF Items, Op, Current
<1>5. /\ Stored(k, v)' = IF Current(r).key = k /\ Current(r).value = v
                         THEN Stored(k, v) \cup {c} ELSE Stored(k, v)
      /\ Replaced(k, v)' = IF /\ Op(r) = "CompareAndSet"
                              /\ Current(r).key = k /\ Current(r).expected = v
                           THEN Replaced(k, v) \cup {c} ELSE Replaced(k, v)
  <2>1. ASSUME NEW d \in committed
        PROVE  /\ d \in Stored(k, v)' <=> d \in Stored(k, v)
               /\ d \in Replaced(k, v)' <=> d \in Replaced(k, v)
    <3>1. Items(d[1])' = Items(d[1]) /\ Op(d[1])' = Op(d[1]) /\ d \in committed'
      BY <1>2, HistoryKept DEF UInv
    <3> QED BY <3>1 DEF Stored, Replaced
  <2>2. /\ c \in Stored(k, v)' <=> Current(r).key = k /\ Current(r).value = v
        /\ c \in Replaced(k, v)' <=> /\ Op(r) = "CompareAndSet"
                                     /\ Current(r).key = k /\ Current(r).expected = v
    BY <1>2, <1>4 DEF Stored, Replaced
  <2>3. /\ Stored(k, v)' \subseteq committed \cup {c} /\ Stored(k, v) \subseteq committed
        /\ Replaced(k, v)' \subseteq committed \cup {c} /\ Replaced(k, v) \subseteq committed
    BY <1>2 DEF Stored, Replaced
  <2>4. Stored(k, v)' = IF Current(r).key = k /\ Current(r).value = v
                        THEN Stored(k, v) \cup {c} ELSE Stored(k, v)
    BY <2>1, <2>2, <2>3
  <2>5. Replaced(k, v)' = IF /\ Op(r) = "CompareAndSet"
                             /\ Current(r).key = k /\ Current(r).expected = v
                          THEN Replaced(k, v) \cup {c} ELSE Replaced(k, v)
    BY <2>1, <2>2, <2>3
  <2> QED BY <2>4, <2>5
<1>6. c \notin Stored(k, v) /\ c \notin Replaced(k, v)
  BY <1>3 DEF Stored, Replaced
<1>7. IsFiniteSet(committed')
  BY <1>2, FS_AddElement DEF UInv
<1>8. /\ IsFiniteSet(Stored(k, v)) /\ Cardinality(Stored(k, v)) \in Nat
      /\ IsFiniteSet(Replaced(k, v)) /\ Cardinality(Replaced(k, v)) \in Nat
  BY Counts DEF UInv
<1>9. /\ Cardinality(Stored(k, v) \cup {c}) = Cardinality(Stored(k, v)) + 1
      /\ Cardinality(Replaced(k, v) \cup {c}) = Cardinality(Replaced(k, v)) + 1
  BY <1>6, <1>8, FS_AddElement
<1> QED BY <1>5, <1>7, <1>8, <1>9

\* A stored write keeps the balance of every key and value.
LEMMA CommitBalanced ==
    ASSUME NEW S \in SUBSET Rpcs, UInv(S), CallsMove, NEW r \in Rpcs, Commits(r),
           NEW k \in Keys, NEW v \in Values
    PROVE  Balanced(k, v)'
<1> DEFINE stores == Current(r).key = k /\ Current(r).value = v
           replaces == /\ Op(r) = "CompareAndSet"
                       /\ Current(r).key = k /\ Current(r).expected = v
<1>1. Available(k, v)' => stores \/ (Current(r).key # k /\ Holds(k, v))
  <2>1. /\ pending.key \in Keys /\ pending.key = Current(r).key
        /\ pending.entry.value = Current(r).value
    BY WriteInProgress DEF UInv, Commits, EndWrite
  <2>2. caller' = None /\ cache' = [cache EXCEPT ![pending.key] = pending.entry]
    BY DEF Commits, EndWrite, Store!Commit
  <2>3. cache'[k] = IF Current(r).key = k THEN pending.entry ELSE cache[k]
    BY <2>1, <2>2 DEF UInv, CallsInv, StoreShape
  <2> QED BY <2>1, <2>2, <2>3 DEF Available, Replacing, Holds
<1>2. replaces => Available(k, v)
  BY RequestsAssumption DEF Commits, EndWrite, Available, Replacing
<1>3. Holds(k, v) => Available(k, v)
  BY DEF Available
<1>4. PICK n \in Nat : n = Cardinality(Stored(k, v))
  BY Counts DEF UInv
<1>5. PICK m \in Nat : m = Cardinality(Replaced(k, v))
  BY Counts DEF UInv
<1>6. m + (IF Available(k, v) THEN 1 ELSE 0) <= n
  BY <1>4, <1>5 DEF UInv, Balanced
<1>7. /\ Cardinality(Stored(k, v))' = n + (IF stores THEN 1 ELSE 0)
      /\ Cardinality(Replaced(k, v))' = m + (IF replaces THEN 1 ELSE 0)
  BY <1>4, <1>5, CommitHistory
<1> HIDE DEF Available, Holds
<1>8. replaces => Current(r).key = k
  OBVIOUS
<1> HIDE DEF stores, replaces
<1>9. m + (IF replaces THEN 1 ELSE 0) + (IF Available(k, v)' THEN 1 ELSE 0)
        <= n + (IF stores THEN 1 ELSE 0)
  BY <1>1, <1>2, <1>3, <1>6, <1>8
<1> QED BY <1>7, <1>9 DEF Balanced

-----------------------------------------------------------------------------
\* The inductive invariant holds at the start,
LEMMA InitUInv ==
    ASSUME NEW S \in SUBSET Rpcs, Init
    PROVE  UInv(S)
<1>1. CallsInv(S) /\ IsFiniteSet(committed)
  BY InitCallsInv, FS_EmptySet DEF Init
<1>2. ASSUME NEW k \in Keys, NEW v \in Values PROVE Balanced(k, v)
  <2>1. ~Available(k, v)
    BY DEF Init, Store!Init, Available, Holds, Replacing
  <2>2. Stored(k, v) = {} /\ Replaced(k, v) = {}
    BY DEF Init, Stored, Replaced
  <2> QED BY <2>1, <2>2, FS_EmptySet DEF Balanced
<1> QED BY <1>1, <1>2 DEF UInv

\* and every step keeps it that keeps the calls in step with their jobs.
LEMMA NextUInv ==
    ASSUME NEW S \in SUBSET Rpcs, UInv(S), CallsMove, CallsInv(S)'
    PROVE  UInv(S)'
<1>1. CASE \E r \in Rpcs : Commits(r)
  <2>1. PICK r \in Rpcs : Commits(r)
    BY <1>1
  <2>2. \A k \in Keys, v \in Values : Balanced(k, v)'
    BY <2>1, CommitBalanced
  <2>3. IsFiniteSet(committed')
    <3>1. committed' = committed \cup {<<r, Here(r)>>}
      BY <2>1 DEF Commits
    <3> QED BY <3>1, FS_AddElement DEF UInv
  <2> QED BY <2>2, <2>3 DEF UInv
<1>2. CASE ~\E r \in Rpcs : Commits(r)
  <2>1. UNCHANGED committed
    BY <1>2, OnlyCommitsStore
  <2>2. \A k \in Keys, v \in Values : Balanced(k, v)'
    BY <1>2, <2>1, NothingGained, NothingStored DEF UInv
  <2> QED BY <2>1, <2>2 DEF UInv
<1> QED BY <1>1, <1>2

\* With the balance no value has been replaced more often than written.
LEMMA BalanceSuffices ==
    ASSUME NEW S \in SUBSET Rpcs, UInv(S)
    PROVE  NoLostUpdate
<1> SUFFICES ASSUME NEW k \in Keys, NEW v \in Values
             PROVE  Cardinality(Replaced(k, v)) <= Cardinality(Stored(k, v))
  BY DEF NoLostUpdate
<1>1. /\ Cardinality(Stored(k, v)) \in Nat /\ Cardinality(Replaced(k, v)) \in Nat
      /\ Balanced(k, v)
  BY Counts DEF UInv
<1>2. PICK m, n \in Nat : m = Cardinality(Replaced(k, v)) /\ n = Cardinality(Stored(k, v))
  BY <1>1
<1>3. m + (IF Available(k, v) THEN 1 ELSE 0) <= n
  BY <1>1, <1>2 DEF Balanced
<1> QED BY <1>2, <1>3

\* A value of a key is there as often as it was written and not replaced, in
\* every reachable state: the balance that NoLostUpdate follows from.
THEOREM UpdatesInvariance == Spec => []UInv(Rpcs)
<1>1. Init => UInv(Rpcs)
  BY InitUInv
<1>2. GInv /\ UInv(Rpcs) /\ [Next]_vars => UInv(Rpcs)'
  <2>1. GInv /\ [Next]_vars => CallsMove /\ CallsInv(Rpcs)'
    BY NextCallsMove, NextGInv DEF GInv
  <2> QED BY <2>1, NextUInv
<1> QED BY <1>1, <1>2, CallsInvariance, PTL DEF Spec

\* Of the calls that race to replace a value of a key one wins, for every time
\* that the value was written: the comparison and the write of compare_and_set
\* are one step for everybody else, whatever the store drops in between.
THEOREM UpdatesAreNotLost == Spec => []NoLostUpdate
<1>1. UInv(Rpcs) => NoLostUpdate
  BY BalanceSuffices
<1> QED BY <1>1, UpdatesInvariance, PTL
=============================================================================
