----------------------------- MODULE MCSkiplist -----------------------------
(* Five keys: two share a hash and one has the hash of the header.         *)
EXTENDS Skiplist, TLC

CONSTANTS k1, k2, k3, k4, k5

FiveKeys == {k1, k2, k3, k4, k5}

Hashes == k1 :> 1 @@ k2 :> 2 @@ k3 :> 2 @@ k4 :> 3 @@ k5 :> 4

\* The keys of one hash can be exchanged.
Symmetry == Permutations({k2, k3})
=============================================================================
