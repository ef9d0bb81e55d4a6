------------------------------ MODULE HashMaps ------------------------------
(***************************************************************************)
(* The hash maps the kernel keeps its tables in (hashbrown::HashMap): a    *)
(* map is a function whose domain is the set of keys present.  Only the    *)
(* operations the kernel calls are here; contains_key(k) is k \in DOMAIN m *)
(* and get(k) is m[k] for such a k.                                        *)
(***************************************************************************)
EXTENDS Functions

(* HashMap::new: no key is present. *)
EmptyMap == [k \in {} |-> k]

(* HashMap::insert: a value already stored under k is replaced. *)
Insert(m, k, v) == [x \in DOMAIN m \cup {k} |-> IF x = k THEN v ELSE m[x]]

(* HashMap::remove: nothing happens if k is absent. *)
Remove(m, k) == Restrict(m, DOMAIN m \ {k})

=============================================================================
