------------------------------- MODULE MCDict -------------------------------
(* Small instances of Dict for TLC. *)
EXTENDS Dict, TLC

CONSTANTS t1, t2, k1, k2, k3, v0, v1, v2

\* k1 and k3 meet in every table of up to 4 buckets, k2 joins them in a table
\* of one bucket.
MCHash == (k1 :> 0) @@ (k2 :> 1) @@ (k3 :> 4)
MCKeysOf == (t1 :> {k1, k2}) @@ (t2 :> {k3})
PairHash == (k1 :> 0) @@ (k3 :> 4)
PairKeysOf == (t1 :> {k1}) @@ (t2 :> {k3})
OneKeysOf == (t1 :> {k1, k3}) @@ (t2 :> {})
MCValuesOf == (t1 :> {v0}) @@ (t2 :> {v1, v2})
Symmetry == Permutations({v1, v2})
OneValuesOf == (t1 :> {v1}) @@ (t2 :> {v1})
=============================================================================
