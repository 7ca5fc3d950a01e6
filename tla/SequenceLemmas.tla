--------------------------- MODULE SequenceLemmas ---------------------------
(***************************************************************************)
(* Sequences without repetitions: the recency order of the memory store    *)
(* and the queue of the thread pool.                                       *)
(***************************************************************************)
EXTENDS Integers, SequencesExt, SequenceTheorems, FiniteSetTheorems,
        FunctionTheorems, TLAPS

\* RemoveFirst closes the gap that the element leaves.
LEMMA RemoveFirstAt ==
    ASSUME NEW S, NEW s \in Seq(S), IsInjective(s), NEW i \in 1..Len(s)
    PROVE  LET r == RemoveFirst(s, s[i])
           IN  /\ r \in Seq(S) /\ Len(r) = Len(s) - 1
               /\ \A j \in 1..(Len(s) - 1) : r[j] = IF j < i THEN s[j] ELSE s[j+1]
<1>1. PICK k : k = s[i]
  OBVIOUS
<1>2. {j \in 1..Len(s) : s[j] = k} = {i}
  BY <1>1 DEF IsInjective
<1>3. SelectInSeq(s, LAMBDA v : v = k) = i
  BY <1>1, <1>2 DEF SelectInSeq, Min
<1> DEFINE a == SubSeq(s, 1, i-1)
           b == SubSeq(s, i+1, Len(s))
           r == a \o b
<1>4. RemoveFirst(s, k) = r
  BY <1>1, <1>3 DEF RemoveFirst, RemoveAt
<1>5. /\ r \in Seq(S) /\ Len(r) = Len(s) - 1
      /\ \A j \in 1..(Len(s) - 1) : r[j] = IF j < i THEN s[j] ELSE s[j+1]
  <2>0. Len(s) \in Nat /\ i \in Nat /\ i <= Len(s) /\ 1 <= i
        /\ \A j \in 1..Len(s) : s[j] \in S
    BY <1>1
  <2>1. a \in Seq(S) /\ Len(a) = i - 1 /\ \A j \in 1..(i-1) : a[j] = s[j]
    BY <2>0, SubSeqProperties
  <2>2. /\ b \in Seq(S) /\ Len(b) = Len(s) - i
        /\ \A j \in 1..(Len(s) - i) : b[j] = s[i + j]
    <3>1. CASE i = Len(s)
      BY <2>0, <3>1
    <3>2. CASE i < Len(s)
      BY <2>0, <3>2, SubSeqProperties
    <3> QED BY <2>0, <3>1, <3>2
  <2> HIDE DEF a, b
  <2>3. /\ r \in Seq(S) /\ Len(r) = Len(a) + Len(b)
        /\ \A j \in 1..(Len(a) + Len(b)) :
              r[j] = IF j <= Len(a) THEN a[j] ELSE b[j - Len(a)]
    BY <2>1, <2>2, ConcatProperties
  <2>4. ASSUME NEW j \in 1..(Len(s) - 1)
        PROVE  r[j] = IF j < i THEN s[j] ELSE s[j+1]
    <3>1. CASE j < i
      BY <2>0, <2>1, <2>2, <2>3, <3>1
    <3>2. CASE ~(j < i)
      <4>1. j - (i - 1) \in 1..(Len(s) - i) /\ i + (j - (i - 1)) = j + 1
        BY <2>0, <3>2
      <4>2. b[j - (i - 1)] = s[j + 1]
        BY <2>2, <4>1
      <4>3. r[j] = b[j - (i - 1)]
        BY <2>0, <2>1, <2>2, <2>3, <3>2
      <4> QED BY <4>2, <4>3, <3>2
    <3> QED BY <3>1, <3>2
  <2> QED BY <2>0, <2>1, <2>2, <2>3, <2>4
<1> HIDE DEF r
<1> QED BY <1>1, <1>4, <1>5

\* RemoveFirst takes one element out of a sequence without repetitions, and
\* nothing else: OrderedDict.pop, and a job that is taken out of its queue.
LEMMA RemoveFirstProperties ==
    ASSUME NEW S, NEW s \in Seq(S), IsInjective(s), NEW k
    PROVE  /\ RemoveFirst(s, k) \in Seq(S)
           /\ IsInjective(RemoveFirst(s, k))
           /\ ToSet(RemoveFirst(s, k)) = ToSet(s) \ {k}
           /\ k \in ToSet(s) => Len(RemoveFirst(s, k)) = Len(s) - 1
<1>1. CASE ~\E i \in 1..Len(s) : s[i] = k
  <2>1. RemoveFirst(s, k) = s
    BY <1>1 DEF RemoveFirst
  <2>2. k \notin ToSet(s)
    BY <1>1 DEF ToSet
  <2> QED BY <2>1, <2>2
<1>2. CASE \E i \in 1..Len(s) : s[i] = k
  <2>1. PICK i \in 1..Len(s) : s[i] = k
    BY <1>2
  <2> DEFINE r == RemoveFirst(s, k)
  <2>5. /\ r \in Seq(S) /\ Len(r) = Len(s) - 1
        /\ \A j \in 1..(Len(s) - 1) : r[j] = IF j < i THEN s[j] ELSE s[j+1]
    BY <2>1, RemoveFirstAt
  <2> HIDE DEF r
  <2>6. IsInjective(r)
    BY <2>1, <2>5 DEF IsInjective
  <2>7. ToSet(r) \subseteq ToSet(s) \ {k}
    BY <2>1, <2>5 DEF IsInjective, ToSet
  <2>8. ASSUME NEW x \in ToSet(s) \ {k} PROVE x \in ToSet(r)
    <3>1. PICK j \in 1..Len(s) : s[j] = x /\ j # i
      BY <2>1, <2>8 DEF ToSet
    <3>2. CASE j < i
      BY <2>1, <2>5, <3>1, <3>2 DEF ToSet
    <3>3. CASE j > i
      <4>1. j - 1 \in 1..(Len(s) - 1) /\ r[j - 1] = x
        BY <2>1, <2>5, <3>1, <3>3
      <4> QED BY <4>1, <2>5 DEF ToSet
    <3> QED BY <2>1, <3>1, <3>2, <3>3
  <2> QED BY <2>1, <2>5, <2>6, <2>7, <2>8 DEF r
<1> QED BY <1>1, <1>2

\* Taking out another element leaves the last one last.
LEMMA RemoveFirstKeepsLast ==
    ASSUME NEW S, NEW s \in Seq(S), IsInjective(s), s # <<>>, NEW k, k # s[Len(s)]
    PROVE  LET r == RemoveFirst(s, k)
           IN  r # <<>> /\ r[Len(r)] = s[Len(s)]
<1>0. Len(s) \in Nat \ {0}
  OBVIOUS
<1>1. CASE ~\E i \in 1..Len(s) : s[i] = k
  <2>1. RemoveFirst(s, k) = s
    BY <1>1 DEF RemoveFirst
  <2> QED BY <2>1
<1>2. CASE \E i \in 1..Len(s) : s[i] = k
  <2>1. PICK i \in 1..Len(s) : s[i] = k
    BY <1>2
  <2>2. i < Len(s)
    BY <1>0, <2>1
  <2> DEFINE r == RemoveFirst(s, k)
  <2>3. /\ r \in Seq(S) /\ Len(r) = Len(s) - 1
        /\ \A j \in 1..(Len(s) - 1) : r[j] = IF j < i THEN s[j] ELSE s[j+1]
    BY <2>1, RemoveFirstAt
  <2> HIDE DEF r
  <2>4. Len(s) - 1 \in 1..(Len(s) - 1) /\ ~(Len(s) - 1 < i) /\ (Len(s) - 1) + 1 = Len(s)
    BY <1>0, <2>1, <2>2
  <2>5. r[Len(s) - 1] = s[Len(s)]
    BY <2>3, <2>4
  <2>6. r # <<>>
    BY <1>0, <2>1, <2>2, <2>3
  <2> QED BY <2>3, <2>5, <2>6 DEF r
<1> QED BY <1>1, <1>2

\* A new element may be appended to a sequence without repetitions.
LEMMA AppendNew ==
    ASSUME NEW S, NEW s \in Seq(S), IsInjective(s), NEW k \in S, k \notin ToSet(s)
    PROVE  /\ Append(s, k) \in Seq(S)
           /\ IsInjective(Append(s, k))
           /\ ToSet(Append(s, k)) = ToSet(s) \cup {k}
           /\ Len(Append(s, k)) = Len(s) + 1
<1> DEFINE r == Append(s, k)
<1>1. /\ r \in Seq(S) /\ Len(r) = Len(s) + 1
      /\ \A i \in 1..Len(s) : r[i] = s[i]
      /\ r[Len(s) + 1] = k
  OBVIOUS
<1>2. IsInjective(r)
  BY <1>1 DEF IsInjective, ToSet
<1>3. ToSet(r) = ToSet(s) \cup {k}
  BY <1>1 DEF ToSet
<1> QED BY <1>1, <1>2, <1>3

\* A sequence without repetitions is as long as it has elements: len() of an
\* OrderedDict.
LEMMA LengthIsCardinality ==
    ASSUME NEW S, NEW s \in Seq(S), IsInjective(s)
    PROVE  IsFiniteSet(ToSet(s)) /\ Cardinality(ToSet(s)) = Len(s)
<1>1. Len(s) \in Nat /\ s \in [1..Len(s) -> ToSet(s)]
  BY DEF ToSet
<1>2. \A x \in ToSet(s) : \E i \in 1..Len(s) : s[i] = x
  BY DEF ToSet
<1>3. \A i, j \in 1..Len(s) : s[i] = s[j] => i = j
  BY DEF IsInjective
<1>4. s \in Bijection(1..Len(s), ToSet(s))
  BY <1>1, <1>2, <1>3, Fun_IsBij
<1>5. ExistsBijection(1..Len(s), ToSet(s))
  BY <1>4, Fun_ExistsBij
<1>6. IsFiniteSet(1..Len(s)) /\ Cardinality(1..Len(s)) = Len(s)
  BY <1>1, FS_Interval
<1> QED BY <1>5, <1>6, FS_Bijection
=============================================================================
