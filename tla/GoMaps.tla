------------------------------- MODULE GoMaps -------------------------------
(***************************************************************************)
(* Go maps as functions whose domain is the set of keys present.  The      *)
(* server keeps its in-memory indexes in such maps, and the two SQLite     *)
(* tables are read and written row by row in the same way.                 *)
(***************************************************************************)

EmptyMap == [k \in {} |-> {}]

\* m[k] = v
MapPut(m, k, v) == [x \in DOMAIN m \cup {k} |-> IF x = k THEN v ELSE m[x]]

\* delete(m, k): a no-op when k is absent, as in Go
MapDelete(m, k) == [x \in DOMAIN m \ {k} |-> m[x]]

\* m maps some of the keys K to values in V
IsMap(m, K, V) == DOMAIN m \subseteq K /\ m \in [DOMAIN m -> V]

=============================================================================
