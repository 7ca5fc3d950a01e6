------------------------- MODULE CacheModelsProofs -------------------------
(***************************************************************************)
(* What both stores need to know about entries, their bytes and their      *)
(* limits.                                                                 *)
(***************************************************************************)
EXTENDS CacheModels, FiniteSets, FiniteSetTheorems, TLAPS

-----------------------------------------------------------------------------
(* The bytes of a store.                                                   *)

\* What an entry added under a free key occupies is added to the total.
LEMMA BytesOfPut ==
    ASSUME NEW s \in [Keys -> Entry \cup {None}], IsFiniteSet(BytesOf(s)),
           NEW k \in Keys, s[k] = None, NEW e \in Entry
    PROVE  LET t == [s EXCEPT ![k] = e]
           IN  /\ IsFiniteSet(BytesOf(t))
               /\ Cardinality(BytesOf(t)) = Cardinality(BytesOf(s)) + size_bytes(e)
<1> DEFINE t == [s EXCEPT ![k] = e]
           new == {k} \X (1..size_bytes(e))
<1>1. size_bytes(e) \in Nat
  BY ModelsAssumption DEF size_bytes, Entry
<1>2. IsFiniteSet(new) /\ Cardinality(new) = size_bytes(e)
  <2>1. IsFiniteSet({k}) /\ Cardinality({k}) = 1
    BY FS_Singleton
  <2>2. /\ IsFiniteSet(1..size_bytes(e))
        /\ Cardinality(1..size_bytes(e)) = size_bytes(e)
    BY <1>1, FS_Interval
  <2> DEFINE A == {k}
             B == 1..size_bytes(e)
  <2> HIDE DEF A, B
  <2>3. /\ IsFiniteSet(A \X B)
        /\ Cardinality(A \X B) = Cardinality(A) * Cardinality(B)
    BY <2>1, <2>2, FS_Product DEF A, B
  <2>4. Cardinality(A) * Cardinality(B) = size_bytes(e)
    BY <1>1, <2>1, <2>2 DEF A, B
  <2> QED BY <2>3, <2>4 DEF A, B
<1>3. BytesOf(t) = BytesOf(s) \cup new
  <2>1. e # None
    BY NoneIsNoEntry
  <2>2. {j \in Keys : t[j] # None} = {j \in Keys : s[j] # None} \cup {k}
    BY <2>1
  <2>3. t[k] = e /\ \A j \in Keys : s[j] # None => t[j] = s[j]
    OBVIOUS
  <2> QED BY <2>2, <2>3 DEF BytesOf
<1>4. BytesOf(s) \cap new = {}
  BY DEF BytesOf
<1>5. /\ IsFiniteSet(BytesOf(s) \cup new)
      /\ Cardinality(BytesOf(s) \cup new)
           = Cardinality(BytesOf(s)) + Cardinality(new) - Cardinality({})
  BY <1>2, <1>4, FS_Union
<1>6. Cardinality({}) = 0 /\ Cardinality(BytesOf(s)) \in Nat
  BY FS_EmptySet, FS_CardinalityType
<1>7. Cardinality(BytesOf(s) \cup new) = Cardinality(BytesOf(s)) + size_bytes(e)
  BY <1>1, <1>2, <1>5, <1>6
<1> HIDE DEF new
<1> QED BY <1>3, <1>5, <1>7

\* What a removed entry occupied is taken off the total.
LEMMA BytesOfRemove ==
    ASSUME NEW s \in [Keys -> Entry \cup {None}], IsFiniteSet(BytesOf(s)),
           NEW k \in Keys, s[k] # None
    PROVE  LET t == [s EXCEPT ![k] = None]
           IN  /\ IsFiniteSet(BytesOf(t))
               /\ Cardinality(BytesOf(s)) = Cardinality(BytesOf(t)) + size_bytes(s[k])
<1> DEFINE t == [s EXCEPT ![k] = None]
<1>1. t \in [Keys -> Entry \cup {None}] /\ t[k] = None /\ s[k] \in Entry
  OBVIOUS
<1>2. BytesOf(t) \subseteq BytesOf(s)
  BY DEF BytesOf
<1>3. IsFiniteSet(BytesOf(t))
  BY <1>2, FS_Subset
<1>4. s = [t EXCEPT ![k] = s[k]]
  OBVIOUS
<1> HIDE DEF t
<1>5. Cardinality(BytesOf([t EXCEPT ![k] = s[k]]))
        = Cardinality(BytesOf(t)) + size_bytes(s[k])
  BY <1>1, <1>3, BytesOfPut
<1> QED BY <1>3, <1>4, <1>5 DEF t

-----------------------------------------------------------------------------
(* One entry.                                                              *)

\* A stored entry occupies at least one byte.
LEMMA SizePositive == \A e \in Entry : size_bytes(e) \in Nat \ {0}
BY ModelsAssumption DEF size_bytes, Entry

\* CacheEntry turns every ttl argument into one an entry may have.
LEMMA CacheEntryType ==
    ASSUME NEW v \in Values, NEW t \in Ttls, NEW now \in Nat
    PROVE  CacheEntry(v, t, now) \in Entry
BY ModelsAssumption DEF CacheEntry, Entry

\* What has expired stays expired.
LEMMA ExpiryIsFinal ==
    ASSUME NEW e \in Entry, NEW t \in Nat, NEW u \in Nat, t <= u,
           is_expired(e, t)
    PROVE  is_expired(e, u)
BY ModelsAssumption DEF is_expired, Entry

\* The limit on one value never exceeds the limit on all of them.
LEMMA ValueLimit == max_value_bytes \in Nat \ {0} /\ max_value_bytes <= max_memory_bytes
BY ModelsAssumption DEF max_value_bytes
=============================================================================
