-------------------------- MODULE StorageKeyProofs --------------------------
(***************************************************************************)
(* Proofs about the encoding of namespaces and keys: a storage key can be  *)
(* taken apart in one way only, so it is only read by callers that named   *)
(* the namespace and the key of the one who wrote it.                      *)
(***************************************************************************)
EXTENDS StorageKey, SequenceTheorems, WellFoundedInduction, TLAPS

\* Every character that an encoded key may have.
Chars ==
    (UNION {{s[i] : i \in DOMAIN s} : s \in Strings \cup Headers})
      \cup AlphaNumeric \cup {":"}

\* The namespaces that validate_namespace lets through.
NormalNamespaces ==
    {n \in Seq(Chars) :
        n # <<>> /\ Len(n) <= MAX_NAMESPACE_LENGTH /\ MatchesPattern(n)}

Callers == [namespace : {None} \cup NormalNamespaces, key : Seq(Chars)]

\* This caller's key and namespace have the given storage key.
Encodes(caller, storage_key) ==
    IF caller.namespace = None THEN storage_key = caller.key
    ELSE storage_key = Namespaced(caller.namespace, caller.key)

\* The inductive invariant: the entry has the storage key of the one who wrote
\* it and of the last one who read it.
KeyInv ==
    \/ entry = Invalid /\ author = Nobody /\ reader = Nobody
    \/ /\ valid_key(entry)
       /\ author \in Callers /\ Encodes(author, entry)
       /\ \/ reader = Nobody
          \/ reader \in Callers /\ Encodes(reader, entry)

-----------------------------------------------------------------------------
(* Sequences.                                                              *)

\* The colon is a character, of a sequence as long as one.
LEMMA ColonIsString ==
    /\ ":" \in Chars /\ <<":">> \in Seq(Chars)
    /\ Len(<<":">>) = 1 /\ <<":">>[1] = ":"
<1>1. ":" \in Chars
  BY DEF Chars
<1> HIDE DEF Chars
<1> QED BY <1>1

\* A colon in front of a string.
LEMMA ColonBefore ==
    ASSUME NEW r \in Seq(Chars)
    PROVE  /\ <<":">> \o r \in Seq(Chars)
           /\ Len(<<":">> \o r) = Len(r) + 1
           /\ (<<":">> \o r)[1] = ":"
           /\ \A i \in 1..Len(r) : (<<":">> \o r)[i + 1] = r[i]
<1> DEFINE c == <<":">>
<1>1. c \in Seq(Chars) /\ Len(c) = 1 /\ c[1] = ":"
  BY ColonIsString
<1> HIDE DEF c
<1>2. Len(r) \in Nat
  OBVIOUS
<1>3. /\ c \o r \in Seq(Chars) /\ Len(c \o r) = Len(c) + Len(r)
      /\ \A i \in 1..(Len(c) + Len(r)) :
            (c \o r)[i] = IF i <= Len(c) THEN c[i] ELSE r[i - Len(c)]
  BY <1>1, ConcatProperties
<1>4. ASSUME NEW i \in 1..Len(r) PROVE (c \o r)[i + 1] = r[i]
  <2>1. i + 1 \in 1..(1 + Len(r)) /\ ~(i + 1 <= 1) /\ (i + 1) - 1 = i
    BY <1>2
  <2> QED BY <1>1, <1>3, <2>1
<1>5. (c \o r)[1] = ":"
  BY <1>1, <1>2, <1>3
<1> QED BY <1>2, <1>3, <1>4, <1>5 DEF c

\* Min is the least element of a set of naturals that is not empty.
LEMMA LeastExists ==
    ASSUME NEW U \in SUBSET Nat, U # {}
    PROVE  Min(U) \in U /\ \A y \in U : Min(U) <= y
<1> DEFINE R == OpToRel(<, Nat)
<1>0. \A x, y \in Nat : y < x => <<y, x>> \in R
  BY DEF OpToRel
<1>1. PICK x \in U : \A y \in U : ~(<<y, x>> \in R)
  BY NatLessThanWellFounded, WFMin
<1> HIDE DEF R
<1>2. ASSUME NEW y \in U PROVE x <= y
  <2>1. x \in Nat /\ y \in Nat
    OBVIOUS
  <2>2. ~(y < x)
    BY <1>0, <1>1, <2>1
  <2> QED BY <2>1, <2>2
<1> QED BY <1>2 DEF Min

\* Max is the greatest element of a bounded one.
LEMMA GreatestExists ==
    ASSUME NEW n \in Nat, NEW U \in SUBSET (0..n), U # {}
    PROVE  Max(U) \in U /\ \A y \in U : y <= Max(U)
<1> DEFINE V == {n - x : x \in U}
<1>1. V \in SUBSET Nat /\ V # {}
  <2>1. \A x \in U : n - x \in Nat
    OBVIOUS
  <2> QED BY <2>1
<1> HIDE DEF V
<1>2. PICK m \in V : \A y \in V : m <= y
  BY <1>1, LeastExists
<1>3. PICK x \in U : m = n - x
  BY <1>2 DEF V
<1>4. ASSUME NEW y \in U PROVE y <= x
  <2>1. n - y \in V /\ y \in Nat /\ x \in Nat
    BY DEF V
  <2>2. n - x <= n - y
    BY <1>2, <1>3, <2>1
  <2> QED BY <2>1, <2>2
<1> QED BY <1>4 DEF Max

\* strip() gives a string of the same characters.
LEMMA TrimmedIsString ==
    ASSUME NEW s \in Seq(Chars)
    PROVE  Trimmed(s) \in Seq(Chars)
<1> DEFINE used == {i \in DOMAIN s : s[i] # " "}
<1>1. CASE used = {}
  <2>1. Trimmed(s) = <<>>
    BY <1>1 DEF Trimmed
  <2> QED BY <2>1
<1>2. CASE used # {}
  <2>0. Len(s) \in Nat /\ DOMAIN s = 1..Len(s) /\ \A i \in 1..Len(s) : s[i] \in Chars
    BY LenProperties
  <2>1. used \subseteq DOMAIN s
    BY Zenon
  <2>2. Trimmed(s) = SubSeq(s, Min(used), Max(used))
    BY <1>2 DEF Trimmed
  <2> HIDE DEF used
  <2>3. Min(used) \in 1..Len(s) /\ Max(used) \in 1..Len(s)
    <3>1. used \subseteq 1..Len(s) /\ used \in SUBSET Nat
          /\ used \in SUBSET (0..Len(s))
      BY <2>0, <2>1
    <3> QED BY <1>2, <2>0, <3>1, LeastExists, GreatestExists
  <2> QED BY <2>0, <2>2, <2>3, SubSeqProperties
<1> QED BY <1>1, <1>2

\* A sequence can be split at its first colon in one way only.
LEMMA SplitAtFirstColon ==
    ASSUME NEW a \in Seq(Chars), NEW b \in Seq(Chars),
           NEW r \in Seq(Chars), NEW s \in Seq(Chars),
           \A i \in 1..Len(a) : a[i] # ":",
           \A i \in 1..Len(b) : b[i] # ":",
           a \o (<<":">> \o r) = b \o (<<":">> \o s)
    PROVE  a = b /\ r = s
<1> DEFINE cr == <<":">> \o r
           cs == <<":">> \o s
<1>1. /\ cr \in Seq(Chars) /\ Len(cr) = Len(r) + 1 /\ cr[1] = ":"
      /\ \A i \in 1..Len(r) : cr[i + 1] = r[i]
  BY ColonBefore
<1>2. /\ cs \in Seq(Chars) /\ Len(cs) = Len(s) + 1 /\ cs[1] = ":"
      /\ \A i \in 1..Len(s) : cs[i + 1] = s[i]
  BY ColonBefore
<1>3. a \o cr = b \o cs
  OBVIOUS
<1> HIDE DEF cr, cs
<1> DEFINE w == a \o cr
           v == b \o cs
<1>4. /\ Len(w) = Len(a) + Len(cr)
      /\ \A i \in 1..(Len(a) + Len(cr)) :
            w[i] = IF i <= Len(a) THEN a[i] ELSE cr[i - Len(a)]
  BY <1>1, ConcatProperties
<1>5. /\ Len(v) = Len(b) + Len(cs)
      /\ \A i \in 1..(Len(b) + Len(cs)) :
            v[i] = IF i <= Len(b) THEN b[i] ELSE cs[i - Len(b)]
  BY <1>2, ConcatProperties
<1> HIDE DEF w, v
<1>3a. w = v
  BY <1>3 DEF w, v
<1>6. Len(a) \in Nat /\ Len(b) \in Nat /\ Len(r) \in Nat /\ Len(s) \in Nat
  OBVIOUS
<1>7. Len(a) = Len(b)
  <2>1. w[Len(a) + 1] = ":" /\ v[Len(b) + 1] = ":"
    <3>1. /\ Len(a) + 1 \in 1..(Len(a) + Len(cr)) /\ ~(Len(a) + 1 <= Len(a))
          /\ (Len(a) + 1) - Len(a) = 1
      BY <1>1, <1>6
    <3>2. w[Len(a) + 1] = ":"
      BY <1>1, <1>4, <3>1
    <3>3. /\ Len(b) + 1 \in 1..(Len(b) + Len(cs)) /\ ~(Len(b) + 1 <= Len(b))
          /\ (Len(b) + 1) - Len(b) = 1
      BY <1>2, <1>6
    <3>4. v[Len(b) + 1] = ":"
      BY <1>2, <1>5, <3>3
    <3> QED BY <3>2, <3>4
  <2>2. CASE Len(a) < Len(b)
    <3>1. Len(a) + 1 \in 1..Len(b) /\ Len(a) + 1 \in 1..(Len(b) + Len(cs))
      BY <1>2, <1>6, <2>2
    <3>2. v[Len(a) + 1] = b[Len(a) + 1]
      BY <1>5, <3>1
    <3> QED BY <2>1, <3>1, <3>2, <1>3a
  <2>3. CASE Len(b) < Len(a)
    <3>1. Len(b) + 1 \in 1..Len(a) /\ Len(b) + 1 \in 1..(Len(a) + Len(cr))
      BY <1>1, <1>6, <2>3
    <3>2. w[Len(b) + 1] = a[Len(b) + 1]
      BY <1>4, <3>1
    <3> QED BY <2>1, <3>1, <3>2, <1>3a
  <2> QED BY <1>6, <2>2, <2>3
<1>8. a = b
  <2>1. ASSUME NEW i \in 1..Len(a) PROVE a[i] = b[i]
    BY <1>1, <1>2, <1>3a, <1>4, <1>5, <1>6, <1>7
  <2> QED BY <1>7, <2>1, SeqEqual
<1>9. r = s
  <2>1. Len(r) = Len(s)
    BY <1>1, <1>2, <1>3a, <1>4, <1>5, <1>6, <1>7
  <2>2. ASSUME NEW i \in 1..Len(r) PROVE r[i] = s[i]
    <3> DEFINE l == Len(a) + (i + 1)
    <3>1. /\ l \in 1..(Len(a) + Len(cr)) /\ ~(l <= Len(a)) /\ l - Len(a) = i + 1
      BY <1>1, <1>6
    <3>2. /\ l \in 1..(Len(b) + Len(cs)) /\ ~(l <= Len(b)) /\ l - Len(b) = i + 1
      BY <1>2, <1>6, <1>7, <2>1
    <3> HIDE DEF l
    <3>3. w[l] = cr[i + 1]
      BY <1>4, <3>1
    <3>4. v[l] = cs[i + 1]
      BY <1>5, <3>2
    <3> QED BY <1>1, <1>2, <1>3a, <2>1, <3>3, <3>4
  <2> QED BY <2>1, <2>2, SeqEqual
<1> QED BY <1>8, <1>9

-----------------------------------------------------------------------------
(* The encoding.                                                           *)

\* The limits of validation.py are numbers.
LEMMA LimitTypes ==
    /\ MAX_NAMESPACE_LENGTH \in Nat /\ MAX_NAMESPACE_LENGTH <= 99
    /\ MAX_KEY_LENGTH \in Nat
<1>1. MAX_NAMESPACE_LENGTH \in 1..99 /\ MAX_KEY_LENGTH \in Nat \ {0}
  BY StorageKeyAssumption, Zenon
<1> QED BY <1>1

\* The decimal form of a length has no colon.
LEMMA DecimalHasNoColon ==
    ASSUME NEW n \in 1..99
    PROVE  /\ Decimal(n) \in Seq(Chars)
           /\ \A i \in 1..Len(Decimal(n)) : Decimal(n)[i] # ":"
<1>1. \A d \in 0..9 : Digit[d] \in Chars /\ Digit[d] # ":"
  BY StorageKeyAssumption DEF Chars
<1>2. CASE n < 10
  <2>1. PICK c \in Chars : c = Digit[n] /\ c # ":"
    BY <1>1, <1>2
  <2>2. Decimal(n) = <<c>>
    BY <1>2, <2>1 DEF Decimal
  <2> QED BY <2>1, <2>2
<1>3. CASE n >= 10
  <2>1. n \div 10 \in 0..9 /\ n % 10 \in 0..9
    OBVIOUS
  <2>2. PICK c \in Chars : c = Digit[n \div 10] /\ c # ":"
    BY <1>1, <2>1
  <2>3. PICK d \in Chars : d = Digit[n % 10] /\ d # ":"
    BY <1>1, <2>1
  <2>4. Decimal(n) = <<c, d>>
    BY <1>3, <2>2, <2>3 DEF Decimal
  <2> QED BY <2>2, <2>3, <2>4
<1> QED BY <1>2, <1>3

\* Neither has a namespace that was let through.
LEMMA NamespaceHasNoColon ==
    ASSUME NEW n \in NormalNamespaces
    PROVE  /\ n \in Seq(Chars) /\ Len(n) \in 1..99
           /\ \A i \in 1..Len(n) : n[i] # ":"
<1>1. n \in Seq(Chars) /\ n # <<>> /\ Len(n) <= MAX_NAMESPACE_LENGTH
  BY DEF NormalNamespaces
<1>2. Len(n) \in 1..99
  <2>1. MAX_NAMESPACE_LENGTH \in Nat /\ MAX_NAMESPACE_LENGTH <= 99
    BY LimitTypes
  <2>2. Len(n) \in Nat \ {0}
    BY <1>1, EmptySeq
  <2>3. PICK l \in Nat \ {0} : l = Len(n)
    BY <2>2
  <2>4. l <= MAX_NAMESPACE_LENGTH
    BY <1>1, <2>3
  <2>5. l \in 1..99
    BY <2>1, <2>4
  <2> QED BY <2>3, <2>5, Zenon
<1>3. \A i \in 1..Len(n) : n[i] \in AlphaNumeric \cup {"_", ".", "-"}
  <2>1. MatchesPattern(n)
    BY DEF NormalNamespaces
  <2>2. DOMAIN n = 1..Len(n)
    BY <1>1, LenProperties
  <2> QED BY <2>1, <2>2 DEF MatchesPattern
<1>4. ":" \notin AlphaNumeric \cup {"_", ".", "-"}
  BY StorageKeyAssumption
<1> QED BY <1>1, <1>2, <1>3, <1>4

\* The parts of a storage key, grouped as a reader of it would find them.
LEMMA NamespacedGrouped ==
    ASSUME NEW n \in NormalNamespaces, NEW k \in Seq(Chars)
    PROVE  /\ Namespaced(n, k) \in Seq(Chars)
           /\ Namespaced(n, k)
                = Decimal(Len(n)) \o (<<":">> \o (n \o (<<":">> \o k)))
<1>1. /\ n \in Seq(Chars) /\ Decimal(Len(n)) \in Seq(Chars)
  BY NamespaceHasNoColon, DecimalHasNoColon
<1> DEFINE d == Decimal(Len(n))
           c == <<":">>
<1>2. c \in Seq(Chars)
  BY ColonIsString
<1> HIDE DEF c
<1>3. Namespaced(n, k) = (((d \o c) \o n) \o c) \o k
  BY DEF Namespaced, c
<1> HIDE DEF d
<1>4. d \in Seq(Chars)
  BY <1>1 DEF d
<1>5. /\ d \o c \in Seq(Chars) /\ (d \o c) \o n \in Seq(Chars)
      /\ c \o k \in Seq(Chars) /\ n \o (c \o k) \in Seq(Chars)
      /\ c \o (n \o (c \o k)) \in Seq(Chars)
  BY <1>1, <1>2, <1>4, ConcatProperties
<1>6. \A t, u, v \in Seq(Chars) : (t \o u) \o v = t \o (u \o v)
  BY ConcatAssociative
<1>7. (((d \o c) \o n) \o c) \o k = d \o (c \o (n \o (c \o k)))
  <2>1. (((d \o c) \o n) \o c) \o k = ((d \o c) \o n) \o (c \o k)
    <3>1. PICK x \in Seq(Chars) : x = (d \o c) \o n
      BY <1>5
    <3>2. (x \o c) \o k = x \o (c \o k)
      BY <1>2, <1>6
    <3> QED BY <3>1, <3>2, Zenon
  <2>2. ((d \o c) \o n) \o (c \o k) = (d \o c) \o (n \o (c \o k))
    <3>1. PICK x \in Seq(Chars) : x = d \o c
      BY <1>5
    <3>2. PICK y \in Seq(Chars) : y = c \o k
      BY <1>5
    <3>3. (x \o n) \o y = x \o (n \o y)
      BY <1>1, <1>6
    <3> QED BY <3>1, <3>2, <3>3, Zenon
  <2>3. (d \o c) \o (n \o (c \o k)) = d \o (c \o (n \o (c \o k)))
    BY <1>2, <1>4, <1>5, <1>6, Zenon
  <2> QED BY <2>1, <2>2, <2>3, Zenon
<1>9. d \o (c \o (n \o (c \o k))) \in Seq(Chars)
  BY <1>4, <1>5, ConcatProperties
<1> QED BY <1>3, <1>7, <1>9 DEF c, d

\* A storage key tells the namespace and the key that it was made of, whatever
\* characters the key has.
LEMMA EncodingIsInjective ==
    ASSUME NEW n \in NormalNamespaces, NEW m \in NormalNamespaces,
           NEW k \in Seq(Chars), NEW j \in Seq(Chars),
           Namespaced(n, k) = Namespaced(m, j)
    PROVE  n = m /\ k = j
<1> DEFINE rn == n \o (<<":">> \o k)
           rm == m \o (<<":">> \o j)
<1>1. /\ n \in Seq(Chars) /\ Decimal(Len(n)) \in Seq(Chars)
      /\ \A i \in 1..Len(n) : n[i] # ":"
      /\ \A i \in 1..Len(Decimal(Len(n))) : Decimal(Len(n))[i] # ":"
  BY NamespaceHasNoColon, DecimalHasNoColon
<1>2. /\ m \in Seq(Chars) /\ Decimal(Len(m)) \in Seq(Chars)
      /\ \A i \in 1..Len(m) : m[i] # ":"
      /\ \A i \in 1..Len(Decimal(Len(m))) : Decimal(Len(m))[i] # ":"
  BY NamespaceHasNoColon, DecimalHasNoColon
<1>3. <<":">> \in Seq(Chars)
  BY ColonIsString
<1>4. rn \in Seq(Chars) /\ rm \in Seq(Chars)
  BY <1>1, <1>2, ColonBefore, ConcatProperties
<1>5. Decimal(Len(n)) \o (<<":">> \o rn) = Decimal(Len(m)) \o (<<":">> \o rm)
  <2>1. Namespaced(n, k) = Decimal(Len(n)) \o (<<":">> \o rn)
    BY NamespacedGrouped
  <2>2. Namespaced(m, j) = Decimal(Len(m)) \o (<<":">> \o rm)
    BY NamespacedGrouped
  <2> QED BY <2>1, <2>2
<1>6. rn = rm
  <2> HIDE DEF rn, rm
  <2> QED BY <1>1, <1>2, <1>4, <1>5, SplitAtFirstColon
<1> QED BY <1>1, <1>2, <1>6, SplitAtFirstColon

-----------------------------------------------------------------------------
(* The entry and its callers.                                              *)

\* Keys and namespaces that arrive are strings.
LEMMA InputsAreStrings ==
    ASSUME NEW s \in Strings \cup Headers
    PROVE  s \in Seq(Chars)
<1>1. s \in Seq({s[i] : i \in DOMAIN s})
  BY StringsAreSequences
<1>2. {s[i] : i \in DOMAIN s} \subseteq Chars
  BY DEF Chars
<1> QED BY <1>1, <1>2, SeqMonotonic

\* What validate_namespace answers.
LEMMA NamespaceIsNormal ==
    ASSUME NEW namespace \in Headers \cup {None}
    PROVE  validate_namespace(namespace) \in NormalNamespaces \cup {None, Invalid}
<1>1. CASE namespace = None
  BY <1>1 DEF validate_namespace
<1>2. CASE namespace # None
  <2> DEFINE normalized == Trimmed(namespace)
  <2>1. normalized \in Seq(Chars)
    BY <1>2, InputsAreStrings, TrimmedIsString
  <2>2. validate_namespace(namespace)
          = IF normalized = <<>> THEN None
            ELSE IF Len(normalized) > MAX_NAMESPACE_LENGTH
                    \/ ~MatchesPattern(normalized) THEN Invalid
            ELSE normalized
    BY <1>2, Zenon DEF validate_namespace
  <2> HIDE DEF normalized
  <2>3. Len(normalized) \in Nat /\ MAX_NAMESPACE_LENGTH \in Nat
    BY <2>1, LimitTypes
  <2> QED BY <2>1, <2>2, <2>3 DEF NormalNamespaces
<1> QED BY <1>1, <1>2

\* A call that gets past the checks uses the storage key of its caller, which
\* the store will accept.
LEMMA StorageKeyEncodes ==
    ASSUME NEW key \in Strings, NEW namespace \in Headers \cup {None},
           _storage_key(key, namespace) # Invalid
    PROVE  /\ Caller(key, namespace) \in Callers
           /\ Encodes(Caller(key, namespace), _storage_key(key, namespace))
           /\ valid_key(_storage_key(key, namespace))
<1> DEFINE normalized == validate_namespace(namespace)
<1>1. normalized # Invalid /\ valid_key(key)
  BY DEF _storage_key
<1>2. normalized \in NormalNamespaces \cup {None}
  BY <1>1, NamespaceIsNormal
<1>3. key \in Seq(Chars)
  BY InputsAreStrings
<1>4. Caller(key, namespace) = [namespace |-> normalized, key |-> key]
  BY DEF Caller
<1>5. CASE normalized = None
  <2>1. _storage_key(key, namespace) = key
    BY <1>1, <1>5 DEF _storage_key
  <2> HIDE DEF normalized
  <2> QED BY <1>1, <1>2, <1>3, <1>4, <1>5, <2>1 DEF Callers, Encodes
<1>6. CASE normalized # None
  <2>1. /\ _storage_key(key, namespace) = Namespaced(normalized, key)
        /\ ~(Len(Namespaced(normalized, key)) > MAX_KEY_LENGTH)
    BY <1>1, <1>6 DEF _storage_key
  <2> HIDE DEF normalized
  <2>2. PICK n \in NormalNamespaces : n = normalized
    BY <1>2, <1>6
  <2>3. Namespaced(n, key) \in Seq(Chars)
    BY <1>3, NamespacedGrouped
  <2>4. Namespaced(n, key) # <<>>
    <3>1. Namespaced(n, key) = Decimal(Len(n)) \o (<<":">> \o (n \o (<<":">> \o key)))
      BY <1>3, NamespacedGrouped
    <3>2. <<":">> \in Seq(Chars) /\ n \in Seq(Chars) /\ Decimal(Len(n)) \in Seq(Chars)
      BY NamespaceHasNoColon, DecimalHasNoColon, ColonIsString
    <3>3. n \o (<<":">> \o key) \in Seq(Chars)
      BY <1>3, <3>2, ConcatProperties
    <3>4. <<":">> # <<>> /\ <<":">> \o (n \o (<<":">> \o key)) \in Seq(Chars)
      BY <3>2, <3>3, ConcatProperties
    <3> QED BY <3>1, <3>2, <3>3, <3>4, ConcatEqualIffEmpty
  <2>5. Len(Namespaced(n, key)) <= MAX_KEY_LENGTH
    BY <2>1, <2>2, <2>3, LimitTypes
  <2> QED BY <1>2, <1>3, <1>4, <1>6, <2>1, <2>2, <2>4, <2>5
          DEF Callers, Encodes, valid_key
<1> QED BY <1>5, <1>6

\* The entry is kept under the storage key of its author and its last reader.
THEOREM KeyInvariance == Spec => []KeyInv
<1>1. Init => KeyInv
  BY DEF Init, KeyInv
<1>2. KeyInv /\ [Next]_vars => KeyInv'
  <2> SUFFICES ASSUME KeyInv, [Next]_vars PROVE KeyInv'
    OBVIOUS
  <2>1. ASSUME NEW key \in Strings, NEW namespace \in Headers \cup {None},
               Set(key, namespace)
        PROVE  KeyInv'
    <3>1. /\ Caller(key, namespace) \in Callers
          /\ Encodes(Caller(key, namespace), entry')
          /\ valid_key(entry')
      BY <2>1, StorageKeyEncodes DEF Set
    <3> QED BY <2>1, <3>1 DEF Set, KeyInv
  <2>2. ASSUME NEW key \in Strings, NEW namespace \in Headers \cup {None},
               Get(key, namespace)
        PROVE  KeyInv'
    <3>1. /\ Caller(key, namespace) \in Callers
          /\ Encodes(Caller(key, namespace), entry)
          /\ entry # Invalid
      BY <2>2, StorageKeyEncodes DEF Get
    <3> QED BY <2>2, <3>1 DEF Get, KeyInv
  <2>3. CASE UNCHANGED vars
    BY <2>3 DEF vars, KeyInv
  <2> QED BY <2>1, <2>2, <2>3 DEF Next
<1> QED BY <1>1, <1>2, PTL DEF Spec

\* The store accepts every key that it is given by the service.
THEOREM KeysAreAccepted == Spec => []StoreAcceptsKey
<1>1. KeyInv => StoreAcceptsKey
  BY DEF KeyInv, StoreAcceptsKey
<1> QED BY <1>1, KeyInvariance, PTL

\* Two callers that named namespaces meet in an entry only if they named the
\* same one and the same key.
THEOREM NamespacesAreIsolated == Spec => []NamespacesIsolated
<1>1. KeyInv => NamespacesIsolated
  <2> SUFFICES ASSUME KeyInv, author.namespace # None, reader.namespace # None
               PROVE  reader = author
    BY DEF NamespacesIsolated
  <2>1. /\ author \in Callers /\ Encodes(author, entry)
        /\ reader \in Callers /\ Encodes(reader, entry)
    BY DEF KeyInv, Nobody
  <2>2. /\ author.namespace \in NormalNamespaces /\ author.key \in Seq(Chars)
        /\ reader.namespace \in NormalNamespaces /\ reader.key \in Seq(Chars)
        /\ Namespaced(author.namespace, author.key)
             = Namespaced(reader.namespace, reader.key)
    BY <2>1 DEF Callers, Encodes
  <2>3. author.namespace = reader.namespace /\ author.key = reader.key
    BY <2>2, EncodingIsInjective
  <2> QED BY <2>1, <2>3 DEF Callers
<1> QED BY <1>1, KeyInvariance, PTL

\* A call without a namespace finds what one without a namespace wrote only
\* under its own key.
THEOREM SharedKeysAreExact == Spec => []SharedKeyspaceExact
<1>1. KeyInv => SharedKeyspaceExact
  <2> SUFFICES ASSUME KeyInv, reader # Nobody, author.namespace = None,
                      reader.namespace = None
               PROVE  reader = author
    BY DEF SharedKeyspaceExact
  <2>1. /\ author \in Callers /\ author.key = entry
        /\ reader \in Callers /\ reader.key = entry
    BY DEF KeyInv, Encodes
  <2> QED BY <2>1 DEF Callers
<1> QED BY <1>1, KeyInvariance, PTL
=============================================================================
