------------------------------- MODULE UtHash -------------------------------
(***************************************************************************)
(* The macros of uthash.h below the tables of a peer, at the level of      *)
(* their pointers: the application-order list of all entries, the bucket   *)
(* chains, and the expansion of the buckets, driven by the calls of        *)
(* hash_table.c. An entry is named by its key: htable_set frees the old    *)
(* entry of a key before it allocates the new one. The search and the      *)
(* expansion take one step per entry they visit.                           *)
(***************************************************************************)
EXTENDS Naturals, FiniteSets

CONSTANTS Key, Val,
          Calls,     \* the calls the program may make: operation, key and value
          Hash,      \* HASH_VALUE: the unsigned hash of a key
          InitLog2,  \* HASH_INITIAL_NUM_BUCKETS_LOG2
          Thresh,    \* HASH_BKT_CAPACITY_THRESH
          MaxLog2,   \* bound: nothing is set in a table of TwoTo[MaxLog2] buckets
          NULL,
          Freed      \* what a pointer of an entry outside the table holds

ASSUME HashAssumption ==
    /\ IsFiniteSet(Key)
    /\ Hash \in [Key -> Nat]
    /\ Calls \subseteq [op : {"set", "get", "delete"}, key : Key, val : Val]
    /\ InitLog2 \in Nat /\ MaxLog2 \in Nat /\ Thresh \in Nat \ {0}
    /\ NULL \notin Key \cup Val
    /\ Freed \notin Key \cup Val \cup {NULL}

VARIABLES head,      \* *ht, the first entry, NULL without a table
          tbl,       \* head->hh.tbl, the UT_hash_table, zeros without one
          next, prev,        \* the list in application order
          hh_next, hh_prev,  \* the chain of a bucket
          value,     \* entry->value
          pc,        \* where the call is
          call,      \* its operation, key and value
          out,       \* the entry the search has come to
          fresh, bkt_i, thh, \* new buckets, position of an expansion
          store, res \* history: what was set, what a get just returned, and for which key

list == <<head, next, prev>>
chains == <<hh_next, hh_prev>>
moving == <<fresh, bkt_i, thh>>
vars == <<list, chains, tbl, value, pc, call, out, moving, store, res>>

Ptr == Key \cup {NULL}
\* 1 << n
TwoTo[n \in Nat] == IF n = 0 THEN 1 ELSE 2 * TwoTo[n - 1]

Bucket == [hh_head : Ptr, count : Nat, expand_mult : Nat]

\* hashv & (num_bkts - 1), for a power of two.
HASH_TO_BKT(hashv, num_bkts) == hashv % num_bkts

NewBuckets(n) ==
    [b \in 0..(n - 1) |-> [hh_head |-> NULL, count |-> 0, expand_mult |-> 0]]

\* A UT_hash_table of zeros; hho and the signatures are left out.
ZeroTable ==
    [buckets |-> NewBuckets(0), num_buckets |-> 0, log2_num_buckets |-> 0,
     num_items |-> 0, tail |-> NULL, ideal_chain_maxlen |-> 0, nonideal_items |-> 0,
     ineff_expands |-> 0, noexpand |-> FALSE]

\* Mutated HASH_MAKE_TABLE: the two forms of the number of buckets disagree.
MakeTableLog2(k) ==
    [ZeroTable EXCEPT !.buckets = NewBuckets(TwoTo[InitLog2]), !.num_buckets = TwoTo[InitLog2],
                      !.log2_num_buckets = InitLog2 + 1, !.tail = k]

\* The table made for a first entry k.
HASH_MAKE_TABLE(k) ==
    [ZeroTable EXCEPT !.buckets = NewBuckets(TwoTo[InitLog2]), !.num_buckets = TwoTo[InitLog2],
                      !.log2_num_buckets = InitLog2, !.tail = k]

TypeOK ==
    /\ head \in Ptr
    /\ head # NULL =>
         /\ tbl.log2_num_buckets \in Nat
         /\ tbl.num_buckets = TwoTo[tbl.log2_num_buckets]
         /\ tbl.buckets \in [0..(tbl.num_buckets - 1) -> Bucket]
         /\ tbl.num_items \in 1..Cardinality(Key)
         /\ tbl.tail \in Key
    /\ \A f \in {next, prev, hh_next, hh_prev} : f \in [Key -> Ptr \cup {Freed}]
    /\ value \in [Key -> Val \cup {Freed}]
    /\ pc \in {"idle", "find", "expand", "move"}
    /\ call \in Calls \cup {NULL}
    /\ out \in Ptr
    /\ thh \in Ptr
    /\ bkt_i \in Nat

Init ==
    /\ head = NULL /\ tbl = ZeroTable
    /\ next = [k \in Key |-> Freed] /\ prev = next
    /\ hh_next = next /\ hh_prev = next
    /\ value = next
    /\ pc = "idle" /\ call = NULL /\ out = NULL
    /\ fresh = NULL /\ bkt_i = 0 /\ thh = NULL
    /\ store = [k \in Key |-> NULL] /\ res = NULL

\* The assignment x->field = y where x may be NULL, in which case it is skipped.
Assign(field, x, y) == IF x = NULL THEN field ELSE [field EXCEPT ![x] = y]

Return == pc' = "idle" /\ call' = NULL /\ out' = NULL

-----------------------------------------------------------------------------
(* Every call begins with HASH_FIND.                                       *)

\* The bucket of the key, and the head of its chain.
HASH_FIND(k) ==
    IF head = NULL THEN NULL
                   ELSE tbl.buckets[HASH_TO_BKT(Hash[k], tbl.num_buckets)].hh_head

Begin(c) ==
    /\ pc = "idle"
    /\ c.op = "set" /\ head # NULL => tbl.log2_num_buckets < MaxLog2
    /\ pc' = "find"
    /\ call' = c
    /\ out' = HASH_FIND(c.key)
    /\ res' = NULL
    /\ UNCHANGED <<list, chains, tbl, value, moving, store>>

\* Mutated Matches: only the hashes are compared.
MatchesHash == Hash[out] = Hash[call.key]

Matches == Hash[out] = Hash[call.key] /\ out = call.key

\* HASH_FIND_IN_BKT: on to the next entry of the chain.
FindNext ==
    /\ pc = "find" /\ out # NULL /\ ~Matches
    /\ out' = hh_next[out]
    /\ UNCHANGED <<list, chains, tbl, value, pc, call, moving, store, res>>

Found == pc = "find" /\ out # NULL /\ Matches
NotFound == pc = "find" /\ out = NULL

htable_get ==
    /\ Found \/ NotFound
    /\ call.op = "get"
    /\ res' = [key |-> call.key, val |-> IF out = NULL THEN NULL ELSE value[out]]
    /\ Return
    /\ UNCHANGED <<list, chains, tbl, value, moving, store>>

\* htable_delete of a key that has no entry.
DeleteNothing ==
    /\ NotFound /\ call.op = "delete"
    /\ Return
    /\ UNCHANGED <<list, chains, tbl, value, moving, store, res>>

-----------------------------------------------------------------------------
(* HASH_DELETE                                                             *)

\* Mutated HASH_DEL_IN_BKT: the head of the chain is not moved on.
DelInBktKeepsHead(bkt, d) == [bkt EXCEPT !.count = @ - 1]

\* The bucket without its entry d.
HASH_DEL_IN_BKT(bkt, d) ==
    [bkt EXCEPT !.count = @ - 1, !.hh_head = IF @ = d THEN hh_next[d] ELSE @]

\* One entry of several leaves list and bucket.
LeaveList(d) ==
    /\ head' = IF prev[d] = NULL THEN next[d] ELSE head
    /\ next' = [Assign(next, prev[d], next[d]) EXCEPT ![d] = Freed]
    /\ prev' = [Assign(prev, next[d], prev[d]) EXCEPT ![d] = Freed]
    /\ LET b == HASH_TO_BKT(Hash[d], tbl.num_buckets) IN
       tbl' = [tbl EXCEPT !.tail = IF @ = d THEN prev[d] ELSE @,
                          !.buckets[b] = HASH_DEL_IN_BKT(@, d),
                          !.num_items = @ - 1]

\* The only entry takes the table with it.
FreeTable(d) ==
    /\ head' = NULL
    /\ tbl' = ZeroTable
    /\ next' = [next EXCEPT ![d] = Freed]
    /\ prev' = [prev EXCEPT ![d] = Freed]

\* HASH_DELETE_HH and free, as htable_delete and htable_set do it; a set goes on
\* to add the new entry.
DeleteEntry ==
    /\ Found /\ call.op # "get"
    /\ IF prev[out] = NULL /\ next[out] = NULL THEN FreeTable(out) ELSE LeaveList(out)
    /\ hh_next' = [Assign(hh_next, hh_prev[out], hh_next[out]) EXCEPT ![out] = Freed]
    /\ hh_prev' = [Assign(hh_prev, hh_next[out], hh_prev[out]) EXCEPT ![out] = Freed]
    /\ value' = [value EXCEPT ![out] = Freed]
    /\ IF call.op = "set" THEN out' = NULL /\ UNCHANGED <<pc, call, store>>
                          ELSE Return /\ store' = [store EXCEPT ![call.key] = NULL]
    /\ UNCHANGED <<moving, res>>

-----------------------------------------------------------------------------
(* HASH_ADD_KEYPTR                                                         *)

\* The list with k behind its last entry, or the list of k alone.
HASH_APPEND_LIST(k) ==
    /\ head' = IF head = NULL THEN k ELSE head
    /\ next' = [Assign(next, IF head = NULL THEN NULL ELSE tbl.tail, k) EXCEPT ![k] = NULL]
    /\ prev' = [prev EXCEPT ![k] = IF head = NULL THEN NULL ELSE tbl.tail]

\* Mutated Crowded: the expansion is due one entry late.
CrowdedLate(bkt) == bkt.count > (bkt.expand_mult + 1) * Thresh

\* A bucket whose chain is to be shortened by an expansion.
Crowded(bkt) == bkt.count >= (bkt.expand_mult + 1) * Thresh

\* k becomes the head of the chain of its bucket, and may make it too long.
HASH_ADD_TO_BKT(bkt, k) ==
    /\ hh_next' = [hh_next EXCEPT ![k] = bkt.hh_head]
    /\ hh_prev' = [Assign(hh_prev, bkt.hh_head, k) EXCEPT ![k] = NULL]
    /\ IF Crowded([bkt EXCEPT !.count = @ + 1]) /\ ~tbl'.noexpand
         THEN pc' = "expand" /\ UNCHANGED <<call, out>>
         ELSE Return

\* The table t is given the entry k.
HASH_ADD_TO_TABLE(t, k) ==
    LET b == HASH_TO_BKT(Hash[k], t.num_buckets) IN
    /\ tbl' = [t EXCEPT !.num_items = @ + 1, !.buckets[b].count = @ + 1, !.buckets[b].hh_head = k]
    /\ HASH_ADD_TO_BKT(t.buckets[b], k)

\* HASH_ADD_KEYPTR, as the end of htable_set.
AddEntry ==
    LET k == call.key IN
    /\ NotFound /\ call.op = "set"
    /\ HASH_APPEND_LIST(k)
    /\ HASH_ADD_TO_TABLE(IF head = NULL THEN HASH_MAKE_TABLE(k) ELSE [tbl EXCEPT !.tail = k], k)
    /\ value' = [value EXCEPT ![k] = call.val]
    /\ store' = [store EXCEPT ![k] = call.val]
    /\ UNCHANGED <<moving, res>>

-----------------------------------------------------------------------------
(* HASH_EXPAND_BUCKETS                                                     *)

\* The number of entries per bucket, rounded up, when there are twice as many buckets.
IdealChain(t) ==
    t.num_items \div TwoTo[t.log2_num_buckets + 1]
    + (IF t.num_items % (2 * t.num_buckets) # 0 THEN 1 ELSE 0)

ExpandBegin ==
    /\ pc = "expand" /\ pc' = "move"
    /\ tbl' = [tbl EXCEPT !.ideal_chain_maxlen = IdealChain(tbl), !.nonideal_items = 0]
    /\ fresh' = NewBuckets(2 * tbl.num_buckets)
    /\ bkt_i' = 0
    /\ thh' = tbl.buckets[0].hh_head
    /\ UNCHANGED <<list, chains, value, call, out, store, res>>

\* The new bucket with one more entry k in it, the c-th.
Grown(bkt, k, c) ==
    LET ideal == tbl.ideal_chain_maxlen IN
    [hh_head |-> k, count |-> c,
     expand_mult |-> bkt.expand_mult + (IF c > ideal /\ c > bkt.expand_mult * ideal THEN 1 ELSE 0)]

\* The bucket of an entry among twice as many.
NewBkt(k) == HASH_TO_BKT(Hash[k], tbl.num_buckets * 2)

ExpandMove ==
    LET b == NewBkt(thh)
        c == fresh[b].count + 1
    IN
    /\ pc = "move" /\ thh # NULL
    /\ fresh' = [fresh EXCEPT ![b] = Grown(@, thh, c)]
    /\ tbl' = [tbl EXCEPT !.nonideal_items = IF c > tbl.ideal_chain_maxlen THEN @ + 1 ELSE @]
    /\ hh_next' = [hh_next EXCEPT ![thh] = fresh[b].hh_head]
    /\ hh_prev' = [Assign(hh_prev, fresh[b].hh_head, thh) EXCEPT ![thh] = NULL]
    /\ thh' = hh_next[thh]
    /\ UNCHANGED <<list, value, pc, call, out, bkt_i, store, res>>

ExpandNextBucket ==
    /\ pc = "move" /\ thh = NULL /\ bkt_i + 1 < tbl.num_buckets
    /\ bkt_i' = bkt_i + 1
    /\ thh' = tbl.buckets[bkt_i'].hh_head
    /\ UNCHANGED <<list, chains, tbl, value, pc, call, out, fresh, store, res>>

ExpandEnd ==
    LET ineff == IF tbl.nonideal_items > tbl.num_items \div 2 THEN tbl.ineff_expands + 1 ELSE 0 IN
    /\ pc = "move" /\ thh = NULL /\ bkt_i + 1 = tbl.num_buckets
    /\ tbl' = [tbl EXCEPT !.buckets = fresh, !.num_buckets = @ * 2, !.log2_num_buckets = @ + 1,
                          !.ineff_expands = ineff, !.noexpand = @ \/ ineff > 1]
    /\ fresh' = NULL /\ bkt_i' = 0
    /\ Return
    /\ UNCHANGED <<list, chains, value, thh, store, res>>

-----------------------------------------------------------------------------
Step ==
    \/ FindNext \/ htable_get \/ DeleteNothing \/ DeleteEntry \/ AddEntry
    \/ ExpandBegin \/ ExpandMove \/ ExpandNextBucket \/ ExpandEnd

Next == (\E c \in Calls : Begin(c)) \/ Step

Spec == Init /\ [][Next]_vars

-----------------------------------------------------------------------------
(* HASH_FSCK, the check that uthash.h makes of itself when it is debugged. *)

\* The entries met from x on along a link, NULL behind the last.
Walk(x, link) ==
    LET w[n \in 0..Cardinality(Key)] ==
          IF n = 0 THEN x ELSE IF w[n - 1] \in Key THEN link[w[n - 1]] ELSE NULL
    IN  w

Entries(x, link) == {Walk(x, link)[n] : n \in 0..Cardinality(Key)} \ {NULL}

\* The list from x on ends, holds allocated entries, and its two links agree.
Linked(x, link, back) ==
    LET w == Walk(x, link) IN
    /\ w[Cardinality(Key)] = NULL
    /\ Entries(x, link) \subseteq Key
    /\ x # NULL => back[x] = NULL
    /\ \A n \in 1..Cardinality(Key) : w[n] # NULL => back[w[n]] = w[n - 1]

\* A chain is intact, counted, and holds the entries whose hashes lead to it.
BucketIntact(b) ==
    LET bkt == tbl.buckets[b] IN
    /\ Linked(bkt.hh_head, hh_next, hh_prev)
    /\ bkt.count = Cardinality(Entries(bkt.hh_head, hh_next))
    /\ Entries(bkt.hh_head, hh_next) =
         {k \in Entries(head, next) : HASH_TO_BKT(Hash[k], tbl.num_buckets) = b}

(***************************************************************************)
(* Between calls the table is intact (HASH_FSCK, and the tail that it      *)
(* leaves out): list and chains are well linked in both directions, hold   *)
(* the same entries, which are those with a value set, and every count is  *)
(* right, after any sequence of additions, deletions and expansions.       *)
(***************************************************************************)
Intact ==
    pc = "idle" =>
        /\ Entries(head, next) = {k \in Key : store[k] # NULL}
        /\ head # NULL =>
             /\ Linked(head, next, prev)
             /\ tbl.num_items = Cardinality(Entries(head, next))
             /\ tbl.tail \in Entries(head, next) /\ next[tbl.tail] = NULL
             /\ \A b \in DOMAIN tbl.buckets : BucketIntact(b)

(***************************************************************************)
(* Unless expansion has been given up, a chain is shorter than the         *)
(* threshold of its bucket or no longer than that multiple of the ideal    *)
(* length at the last expansion (HASH_EXPAND_BUCKETS: "by expanding        *)
(* buckets the hash keeps a bound on the chain length"). The threshold     *)
(* alone is no bound: crowded buckets can put expansion off until even     *)
(* the ideal length has reached it.                                        *)
(***************************************************************************)
ChainsBounded ==
    pc = "idle" /\ head # NULL /\ ~tbl.noexpand =>
        \A b \in DOMAIN tbl.buckets :
            LET bkt == tbl.buckets[b] IN
            \/ bkt.count < (bkt.expand_mult + 1) * Thresh
            \/ bkt.count <= (bkt.expand_mult + 1) * tbl.ideal_chain_maxlen

(***************************************************************************)
(* hash_table.c implements a map: a get finds the value set last, and      *)
(* nothing after a delete, although entries move between buckets and are   *)
(* replaced by new ones.                                                   *)
(***************************************************************************)
Map == INSTANCE HashMap
IsMap == Map!Spec
=============================================================================
