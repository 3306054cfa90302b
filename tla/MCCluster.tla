------------------------------ MODULE MCCluster ------------------------------
(* Instances of Cluster: the slots of the keys, and symmetric values.       *)
EXTENDS Cluster, TLC

CONSTANTS s1, k1

OneKey == k1 :> s1
NoKeys == [k \in {} |-> s1]
Symmetry == Permutations(Values)

\* A second operation is followed as long as the key is not disturbed: of one
\* that is, MigrationKeepsData says nothing any more.
Followed == disturbed = {} \/ tasks < 2
=============================================================================
