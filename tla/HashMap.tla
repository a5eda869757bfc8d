------------------------------ MODULE HashMap ------------------------------
(***************************************************************************)
(* The operations of std::collections::HashMap that the crate uses, on a   *)
(* map seen as a function whose domain is the set of its keys.  A missing  *)
(* key is a key outside the domain, so `map.get(&k).unwrap()` is map[k]    *)
(* and is safe exactly where k \in DOMAIN map.                             *)
(***************************************************************************)
EXTENDS Functions

\* HashMap::new
EmptyMap == [k \in {} |-> k]

\* insert: a new key, or a new value for a key that is there
Put(map, key, value) ==
    [k \in DOMAIN map \cup {key} |-> IF k = key THEN value ELSE map[k]]

\* remove, for every key of a set; a key that is not there is ignored
Without(map, keys) == Restrict(map, DOMAIN map \ keys)
=============================================================================
