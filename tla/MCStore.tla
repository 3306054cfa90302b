------------------------------- MODULE MCStore -------------------------------
(* Store and CApi with keys and values that are symmetric: no operator chooses among   *)
(* them.  (It does among the members of maps and sets.)                       *)
EXTENDS CApi

Symmetry == Permutations(Keys) \cup Permutations(Values)
=============================================================================
