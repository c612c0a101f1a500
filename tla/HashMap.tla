------------------------------ MODULE HashMap ------------------------------
(***************************************************************************)
(* What htable_set, htable_get and htable_delete promise (hash_table.h):   *)
(* a finite map, of which a get returns the value that was set last.       *)
(***************************************************************************)
CONSTANTS Key, Val, NULL

VARIABLES store,    \* the value of every key, NULL without one
          res       \* what a get just returned, and for which key

Init ==
    /\ store = [k \in Key |-> NULL]
    /\ res = NULL

Set(k, v) == store' = [store EXCEPT ![k] = v] /\ UNCHANGED res
Get(k) == res' = [key |-> k, val |-> store[k]] /\ UNCHANGED store
Delete(k) == store' = [store EXCEPT ![k] = NULL] /\ UNCHANGED res

\* The caller goes on.
Forget == res' = NULL /\ UNCHANGED store

Next == Forget \/ \E k \in Key : (\E v \in Val : Set(k, v)) \/ Get(k) \/ Delete(k)

Spec == Init /\ [][Next]_<<store, res>>
=============================================================================
