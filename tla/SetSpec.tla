------------------------------- MODULE SetSpec -------------------------------
(***************************************************************************)
(* What the skiplist promises the set and the hashmap above it: a plain    *)
(* set of keys, changed and asked in single steps, each with the right     *)
(* answer.                                                                 *)
(***************************************************************************)
CONSTANTS Keys,
          NoAnswer    \* nothing was asked yet

VARIABLES members,    \* the keys in the set
          answer      \* the last operation and what it returned

Answered(op, k, ok) == answer' = [op |-> op, key |-> k, ok |-> ok]

Init == members = {} /\ answer = NoAnswer

Add(k) ==
    /\ Answered("add", k, k \notin members)
    /\ members' = members \cup {k}

Remove(k) ==
    /\ Answered("remove", k, k \in members)
    /\ members' = members \ {k}

Contains(k) ==
    /\ Answered("contains", k, k \in members)
    /\ UNCHANGED members

Clear == members' = {} /\ UNCHANGED answer

Next == Clear \/ \E k \in Keys : Add(k) \/ Remove(k) \/ Contains(k)

Spec == Init /\ [][Next]_<<members, answer>>
=============================================================================
