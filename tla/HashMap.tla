------------------------------ MODULE HashMap ------------------------------
(***************************************************************************)
(* std::collections::HashMap as the stores of SnapPipe use it: a function  *)
(* whose domain is the set of keys that are present.                       *)
(***************************************************************************)

empty == [k \in {} |-> k]

(* HashMap::insert: a key that is present gets the new value. *)
insert(map, k, v) == [x \in DOMAIN map \cup {k} |-> IF x = k THEN v ELSE map[x]]

(* HashMap::retain, by the set of keys that stay; remove keeps all but one. *)
retain(map, S) == [x \in DOMAIN map \cap S |-> map[x]]

=============================================================================
