-------------------------------- MODULE Maps --------------------------------
(* The unordered maps of the library: an entry erased, an entry put.       *)

EmptyMap == [x \in {} |-> {}]
Without(f, k) == [x \in DOMAIN f \ {k} |-> f[x]]
With(f, k, v) == [x \in DOMAIN f \cup {k} |-> IF x = k THEN v ELSE f[x]]
=============================================================================
