----------------------------- MODULE StorageKey -----------------------------
(***************************************************************************)
(* How CacheApplicationService maps a namespace and a key to the key that  *)
(* the store sees (service.py, domain/validation.py), and what a caller    *)
(* can read as a consequence.  Strings are sequences of characters.  One   *)
(* entry of the store is followed: who wrote it, and who reads it.         *)
(***************************************************************************)
EXTENDS Integers, Sequences, FiniteSetsExt

CONSTANTS
    Strings,            \* keys that callers send
    Headers,            \* namespaces that callers send
    None,               \* no namespace
    Invalid,            \* a ValueError was raised
    Digit,              \* 0..9 -> the character
    AlphaNumeric,       \* [A-Za-z0-9]
    MAX_KEY_LENGTH,
    MAX_NAMESPACE_LENGTH

ASSUME StorageKeyAssumption ==
    /\ MAX_KEY_LENGTH \in Nat \ {0}
    /\ MAX_NAMESPACE_LENGTH \in 1..99
    /\ \A d \in 0..9 : Digit[d] \in AlphaNumeric
    /\ AlphaNumeric \cap {":", " ", "_", ".", "-"} = {}

\* A string is a finite sequence of its characters.
ASSUME StringsAreSequences ==
    \A s \in Strings \cup Headers : s \in Seq({s[i] : i \in DOMAIN s})

-----------------------------------------------------------------------------
valid_key(key) == key # <<>> /\ Len(key) <= MAX_KEY_LENGTH

\* str.strip()
Trimmed(s) ==
    LET used == {i \in DOMAIN s : s[i] # " "}
    IN IF used = {} THEN <<>> ELSE SubSeq(s, Min(used), Max(used))

\* ^[A-Za-z0-9][A-Za-z0-9_.-]*$
MatchesPattern(s) ==
    /\ s[1] \in AlphaNumeric
    /\ \A i \in DOMAIN s : s[i] \in AlphaNumeric \cup {"_", ".", "-"}

validate_namespace(namespace) ==
    IF namespace = None THEN None
    ELSE LET normalized == Trimmed(namespace) IN
         IF normalized = <<>> THEN None
         ELSE IF Len(normalized) > MAX_NAMESPACE_LENGTH
                 \/ ~MatchesPattern(normalized) THEN Invalid
         ELSE normalized

\* f"{n}" for the length of a namespace
Decimal(n) ==
    IF n < 10 THEN <<Digit[n]>> ELSE <<Digit[n \div 10], Digit[n % 10]>>

\* A bug: nothing marks where the namespace ends.
PrefixedOnly(namespace, key) == namespace \o key

Namespaced(namespace, key) ==
    Decimal(Len(namespace)) \o <<":">> \o namespace \o <<":">> \o key

\* A bug: the length is checked without the prefix.
KeyWithLongPrefix(key, namespace) ==
    LET normalized == validate_namespace(namespace) IN
    IF ~valid_key(key) \/ normalized = Invalid THEN Invalid
    ELSE IF normalized = None THEN key
    ELSE Namespaced(normalized, key)

\* A bug: what is too long is cut off.
KeyCutToLength(key, namespace) ==
    LET normalized == validate_namespace(namespace)
        storage_key == IF normalized \in {None, Invalid} THEN key
                       ELSE Namespaced(normalized, key)
    IN IF key = <<>> \/ normalized = Invalid THEN Invalid
       ELSE SubSeq(storage_key, 1, Min({MAX_KEY_LENGTH, Len(storage_key)}))

_storage_key(key, namespace) ==
    LET normalized == validate_namespace(namespace) IN
    IF ~valid_key(key) \/ normalized = Invalid THEN Invalid
    ELSE IF normalized = None THEN key
    ELSE LET storage_key == Namespaced(normalized, key)
         IN IF Len(storage_key) > MAX_KEY_LENGTH THEN Invalid ELSE storage_key

-----------------------------------------------------------------------------
VARIABLES
    entry,              \* the storage key of the entry, Invalid if there is none
    author,             \* namespace and key of the call that wrote it
    reader              \* namespace and key of the last call that read it

vars == <<entry, author, reader>>

Nobody == [namespace |-> None, key |-> <<>>]

Caller(key, namespace) ==
    [namespace |-> validate_namespace(namespace), key |-> key]

Init == entry = Invalid /\ author = Nobody /\ reader = Nobody

Set(key, namespace) ==
    /\ _storage_key(key, namespace) # Invalid
    /\ entry' = _storage_key(key, namespace)
    /\ author' = Caller(key, namespace)
    /\ reader' = Nobody

\* A get that hits the entry.
Get(key, namespace) ==
    /\ entry # Invalid /\ _storage_key(key, namespace) = entry
    /\ reader' = Caller(key, namespace)
    /\ UNCHANGED <<entry, author>>

Next ==
    \E key \in Strings, namespace \in Headers \cup {None} :
        Set(key, namespace) \/ Get(key, namespace)

Spec == Init /\ [][Next]_vars

-----------------------------------------------------------------------------
\* The store validates the key that it is given once more, and must not find
\* a key too long that the caller could not have known to be.
StoreAcceptsKey == entry # Invalid => valid_key(entry)

\* Callers that name different namespaces never meet in one entry, whatever
\* characters their keys have.
NamespacesIsolated ==
    author.namespace # None /\ reader.namespace # None => reader = author

\* Callers without a namespace share all entries under their own keys.
SharedKeyspaceExact ==
    reader # Nobody /\ author.namespace = None /\ reader.namespace = None
    => reader = author

\* docs/specification.md:22 "omitted or blank metadata uses the shared
\* keyspace": a call without a namespace does not reach into one.
SharedKeysApart ==
    reader # Nobody => (reader.namespace = None <=> author.namespace = None)
=============================================================================
