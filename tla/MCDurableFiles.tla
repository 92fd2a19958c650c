--------------------------- MODULE MCDurableFiles ---------------------------
(* Instances of DurableFiles for TLC. *)
EXTENDS DurableFiles, TLC

CONSTANTS s1, s2, c1, c2, o1, o2, m1, m2

Alike == Permutations({s1, s2}) \cup Permutations({c1, c2})
           \cup Permutations({o1, o2}) \cup Permutations({m1, m2})
=============================================================================
