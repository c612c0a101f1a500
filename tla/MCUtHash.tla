------------------------------ MODULE MCUtHash ------------------------------
(***************************************************************************)
(* An instance of UtHash: two groups of keys that collide in every number  *)
(* of buckets. All keys are set to one value, one of them to a second.     *)
(***************************************************************************)
EXTENDS UtHash, TLC

CONSTANTS Even, Odd    \* the groups, hashed to 0 and to 1

GroupHash == [k \in Even \cup Odd |-> IF k \in Even THEN 0 ELSE 1]

CONSTANTS a1, v1, v2

OneKeyTwoValues ==
    [op : {"set", "get", "delete"}, key : Even \cup Odd, val : {v1}]
    \cup {[op |-> "set", key |-> a1, val |-> v2]}

Groups == Permutations(Even \ {a1}) \cup Permutations(Odd)
=============================================================================
