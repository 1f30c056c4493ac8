--------------------------- MODULE MCCacheManager ---------------------------
(* A small cache: experts of four sizes, the last too large to be admitted. *)
EXTENDS CacheManager

CONSTANTS e1, e2, e3, e4, e5

MCSize ==
  [e \in Expert |-> CASE e \in {e1, e2} -> 1 [] e = e3 -> 2
                      [] e = e4 -> 3 [] OTHER -> 6]

=============================================================================
