---------------------------- MODULE MCStorageKey ----------------------------
(* Instances of StorageKey for TLC. *)
EXTENDS StorageKey

Upto(chars, n) == UNION {[1..m -> chars] : m \in 0..n}

KeyChars == {"1", ":", "a"}

\* Short keys, keys that look like an encoded one, and two that are too long.
SomeStrings ==
    Upto(KeyChars, 3) \cup {<<"1", ":">> \o s : s \in [1..3 -> KeyChars]}
      \cup {<<"1", ":", "a", ":", "a", "a", c>> : c \in {"1", "a"}}

SomeHeaders == Upto({"1", "a", " ", "-", ":"}, 2) \cup {<<"1", "a", "1">>}

Digits == [d \in 0..9 |->
             <<"0", "1", "2", "3", "4", "5", "6", "7", "8", "9">>[d + 1]]
Letters == {Digits[d] : d \in 0..9} \cup {"a"}
=============================================================================
