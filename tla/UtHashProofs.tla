---------------------------- MODULE UtHashProofs ----------------------------
(***************************************************************************)
(* Proofs about the hash table of a peer, for every finite set of keys,    *)
(* every hash function, every threshold and number of buckets: between     *)
(* calls the table passes HASH_FSCK, its chains are bounded, and to its    *)
(* callers it is a map.                                                    *)
(***************************************************************************)
EXTENDS UtHash, FunctionTheorems, FiniteSetTheorems, WellFoundedInduction, TLAPS

-----------------------------------------------------------------------------
(* The inductive invariant.                                                *)

\* The entries that are allocated.
InTable == {k \in Key : value[k] # Freed}

\* Along the link every entry has a higher rank than the one before it.
Ordered(R, link) ==
    \E rank \in [R -> Nat] : \A k \in R : link[k] # NULL => rank[k] < rank[link[k]]

\* The entries R are the rest of a doubly linked list, from x on.
Rest(x, R, link, back) ==
    /\ x \in R \cup {NULL}
    /\ x # NULL => back[x] \notin R
    /\ \A k \in R : /\ link[k] \in R \cup {NULL}
                    /\ link[k] # NULL => back[link[k]] = k
                    /\ k # x => back[k] \in R /\ link[back[k]] = k
    /\ Ordered(R, link)

\* The entries R are a doubly linked list with the head x.
Chain(x, R, link, back) == Rest(x, R, link, back) /\ (x # NULL => back[x] = NULL)

\* Those of M that belong to bucket b of n.
Members(b, n, M) == {k \in M : HASH_TO_BKT(Hash[k], n) = b}

\* The bucket has the entries R in its chain, and counts them.
Holds(bkt, R) == Chain(bkt.hh_head, R, hh_next, hh_prev) /\ bkt.count = Cardinality(R)

\* The chain is as long as the last expansion may have left it.
Ideal(bkt, ideal) == bkt.count <= (bkt.expand_mult + 1) * ideal

Table ==
    [buckets : UNION {[0 .. (n - 1) -> Bucket] : n \in Nat}, num_buckets : Nat \ {0},
     log2_num_buckets : Nat, num_items : Nat, tail : Key, ideal_chain_maxlen : Nat,
     nonideal_items : Nat, ineff_expands : Nat, noexpand : BOOLEAN]

Typed ==
    /\ head \in Ptr
    /\ head # NULL => /\ tbl \in Table
                      /\ tbl.num_buckets = TwoTo[tbl.log2_num_buckets]
                      /\ tbl.buckets \in [0 .. (tbl.num_buckets - 1) -> Bucket]
    /\ next \in [Key -> Ptr \cup {Freed}] /\ prev \in [Key -> Ptr \cup {Freed}]
    /\ hh_next \in [Key -> Ptr \cup {Freed}] /\ hh_prev \in [Key -> Ptr \cup {Freed}]
    /\ value \in [Key -> Val \cup {Freed}]
    /\ store \in [Key -> Val \cup {NULL}]
    /\ pc \in {"idle", "find", "expand", "move"}
    /\ call = NULL \/ call \in Calls
    /\ pc # "idle" => call \in Calls
    /\ pc \in {"expand", "move"} => head # NULL
    /\ out \in Ptr /\ thh \in Ptr /\ bkt_i \in Nat

\* The list of all entries.
Listed ==
    /\ Chain(head, InTable, next, prev)
    /\ head # NULL => /\ tbl.tail \in InTable /\ next[tbl.tail] = NULL
                      /\ tbl.num_items = Cardinality(InTable)

\* The chains, unless they are being rebuilt.
Chained ==
    head # NULL /\ pc # "move" =>
        \A b \in 0 .. (tbl.num_buckets - 1) :
            Holds(tbl.buckets[b], Members(b, tbl.num_buckets, InTable))

\* The key of a call is in what is left of the chain, if it is in the table.
Searching ==
    pc = "find" => \E R \in SUBSET InTable :
        Rest(out, R, hh_next, hh_prev) /\ (call.key \in InTable => call.key \in R)

\* The entries M are in the new buckets: all of the buckets before bkt_i and those
\* of bkt_i that are before thh.  The buckets behind it are as they were.
Moved(M) ==
    LET n == tbl.num_buckets IN
    /\ bkt_i \in 0 .. (n - 1)
    /\ \A k \in InTable : HASH_TO_BKT(Hash[k], n) < bkt_i => k \in M
    /\ \A k \in M : HASH_TO_BKT(Hash[k], n) <= bkt_i
    /\ fresh \in [0 .. (2 * n - 1) -> Bucket]
    /\ \A b \in 0 .. (2 * n - 1) : /\ Holds(fresh[b], Members(b, 2 * n, M))
                                   /\ Ideal(fresh[b], tbl.ideal_chain_maxlen)
    /\ Rest(thh, Members(bkt_i, n, InTable) \ M, hh_next, hh_prev)
    /\ \A b \in (bkt_i + 1) .. (n - 1) :
         Chain(tbl.buckets[b].hh_head, Members(b, n, InTable), hh_next, hh_prev)

Moving ==
    pc = "move" => tbl.ideal_chain_maxlen # 0 /\ \E M \in SUBSET InTable : Moved(M)

\* No chain is longer than it may be.
Bounded ==
    pc \in {"idle", "find"} /\ head # NULL /\ ~tbl.noexpand =>
        \A b \in 0 .. (tbl.num_buckets - 1) :
            \/ tbl.buckets[b].count < (tbl.buckets[b].expand_mult + 1) * Thresh
            \/ Ideal(tbl.buckets[b], tbl.ideal_chain_maxlen)

\* The values are those of the map, but for a key whose entry is being replaced.
Agreed ==
    \A k \in Key :
        /\ k \in InTable => store[k] = value[k]
        /\ k \notin InTable => store[k] = NULL \/ (pc = "find" /\ call.op = "set" /\ call.key = k)

Inv == Typed /\ Listed /\ Chained /\ Searching /\ Moving /\ Bounded /\ Agreed

-----------------------------------------------------------------------------
(* Powers of two.                                                          *)

\* Every set of numbers that is not empty has a least one.
LEMMA LeastNumber ==
    ASSUME NEW T, T \subseteq Nat, T # {}
    PROVE  \E n \in T : \A m \in T : ~(m < n)
<1> DEFINE R == OpToRel(<, Nat)
<1>1. \A m, n \in Nat : m < n => <<m, n>> \in R
  BY DEF OpToRel
<1>2. IsWellFoundedOn(R, Nat)
  BY NatLessThanWellFounded, Zenon
<1> HIDE DEF R
<1>3. \E x \in T : \A y \in T : ~(<<y, x>> \in R)
  BY <1>2, WFMin, Zenon
<1> QED
  BY <1>1, <1>3

\* The first n powers of two.
Doubles(f, n) == f = [i \in 0 .. n |-> IF i = 0 THEN 1 ELSE 2 * f[i - 1]]

LEMMA DoublesExist ==
    ASSUME NEW n \in Nat
    PROVE  \E f : Doubles(f, n)
<1> DEFINE T == {m \in Nat : ~\E f : Doubles(f, m)}
<1> SUFFICES ASSUME T # {} PROVE FALSE
  OBVIOUS
<1>1. PICK m \in T : \A l \in T : ~(l < m)
  BY LeastNumber
<1>2. CASE m = 0
  <2> DEFINE g == [i \in 0 .. 0 |-> 1]
  <2>1. ASSUME NEW i \in 0 .. 0 PROVE g[i] = IF i = 0 THEN 1 ELSE 2 * g[i - 1]
    OBVIOUS
  <2>2. g = [i \in 0 .. 0 |-> IF i = 0 THEN 1 ELSE 2 * g[i - 1]]
    BY <2>1
  <2>3. Doubles(g, 0)
    BY <2>2 DEF Doubles
  <2> QED
    BY <1>1, <1>2, <2>3
<1>3. CASE m # 0
  <2>1. m - 1 \in Nat /\ m - 1 \notin T /\ m \in Nat
    BY <1>1, <1>3
  <2>2. PICK f : Doubles(f, m - 1)
    BY <2>1
  <2> DEFINE g == [i \in 0 .. m |-> IF i < m THEN f[i] ELSE 2 * f[m - 1]]
  <2>3. ASSUME NEW i \in 0 .. m
        PROVE  g[i] = IF i = 0 THEN 1 ELSE 2 * g[i - 1]
    <3>1. CASE i < m
      <4>1. i \in 0 .. (m - 1) /\ (i # 0 => i - 1 \in 0 .. m /\ i - 1 < m)
        BY <2>1, <3>1
      <4>2. f[i] = IF i = 0 THEN 1 ELSE 2 * f[i - 1]
        BY <2>2, <4>1 DEF Doubles
      <4> QED
        BY <3>1, <4>1, <4>2
    <3>2. CASE i = m
      <4>1. i # 0 /\ m - 1 \in 0 .. m /\ m - 1 < m /\ ~(m < m)
        BY <1>3, <2>1, <3>2
      <4> QED
        BY <3>2, <4>1
    <3> QED
      BY <2>1, <3>1, <3>2
  <2>4. g = [i \in 0 .. m |-> IF i = 0 THEN 1 ELSE 2 * g[i - 1]]
    BY <2>3
  <2>5. Doubles(g, m)
    BY <2>4 DEF Doubles
  <2> QED
    BY <1>1, <2>5
<1> QED
  BY <1>2, <1>3

LEMMA DoublesOnce ==
    ASSUME NEW m \in Nat, NEW n \in Nat, NEW f, NEW g, Doubles(f, m), Doubles(g, n),
           NEW i \in Nat, i <= m, i <= n
    PROVE  f[i] = g[i]
<1> DEFINE T == {j \in Nat : j <= m /\ j <= n /\ f[j] # g[j]}
<1> SUFFICES ASSUME T # {} PROVE FALSE
  OBVIOUS
<1>1. PICK j \in T : \A l \in T : ~(l < j)
  BY LeastNumber
<1>2. /\ f[j] = IF j = 0 THEN 1 ELSE 2 * f[j - 1]
      /\ g[j] = IF j = 0 THEN 1 ELSE 2 * g[j - 1]
  <2>1. j \in 0 .. m /\ j \in 0 .. n
    OBVIOUS
  <2> QED
    BY <2>1 DEF Doubles
<1>3. CASE j = 0
  BY <1>1, <1>2, <1>3
<1>4. CASE j # 0
  <2>1. j - 1 \in Nat /\ j - 1 < j /\ j - 1 <= m /\ j - 1 <= n
    BY <1>4
  <2>2. f[j - 1] = g[j - 1]
    BY <1>1, <2>1
  <2> QED
    BY <1>1, <1>2, <1>4, <2>2
<1> QED
  BY <1>3, <1>4

\* The equation that defines TwoTo has a solution.
LEMMA TwoToEquation == TwoTo = [n \in Nat |-> IF n = 0 THEN 1 ELSE 2 * TwoTo[n - 1]]
<1> DEFINE F(n) == CHOOSE f : Doubles(f, n)
           G == [n \in Nat |-> F(n)[n]]
<1>1. ASSUME NEW n \in Nat PROVE Doubles(F(n), n)
  BY DoublesExist
<1> HIDE DEF F
<1>2. ASSUME NEW n \in Nat PROVE G[n] = IF n = 0 THEN 1 ELSE 2 * G[n - 1]
  <2>1. F(n)[n] = IF n = 0 THEN 1 ELSE 2 * F(n)[n - 1]
    <3>1. Doubles(F(n), n) /\ n \in 0 .. n
      BY <1>1
    <3> QED
      BY <3>1 DEF Doubles
  <2>2. CASE n = 0
    BY <2>1, <2>2
  <2>3. CASE n # 0
    <3>1. n - 1 \in Nat /\ n - 1 <= n /\ n - 1 <= n - 1
      BY <2>3
    <3>2. Doubles(F(n), n) /\ Doubles(F(n - 1), n - 1)
      BY <1>1, <3>1
    <3>3. F(n)[n - 1] = F(n - 1)[n - 1]
      BY <3>1, <3>2, DoublesOnce
    <3> QED
      BY <2>1, <2>3, <3>1, <3>3
  <2> QED
    BY <2>2, <2>3
<1>3. G = [n \in Nat |-> IF n = 0 THEN 1 ELSE 2 * G[n - 1]]
  BY <1>2
<1>4. \E g : g = [n \in Nat |-> IF n = 0 THEN 1 ELSE 2 * g[n - 1]]
  BY <1>3
<1> QED
  BY <1>4 DEF TwoTo

LEMMA TwoToIs ==
    /\ TwoTo[0] = 1
    /\ \A n \in Nat : TwoTo[n + 1] = 2 * TwoTo[n] /\ TwoTo[n] \in Nat \ {0}
<1>1. \A n \in Nat : TwoTo[n] = IF n = 0 THEN 1 ELSE 2 * TwoTo[n - 1]
  BY TwoToEquation
<1>2. ASSUME NEW n \in Nat PROVE TwoTo[n] \in Nat \ {0}
  <2> DEFINE T == {m \in Nat : TwoTo[m] \notin Nat \ {0}}
  <2> SUFFICES ASSUME T # {} PROVE FALSE
    OBVIOUS
  <2>1. PICK m \in T : \A l \in T : ~(l < m)
    BY LeastNumber
  <2>2. CASE m = 0
    BY <1>1, <2>1, <2>2
  <2>3. CASE m # 0
    <3>1. m - 1 \in Nat /\ m - 1 < m /\ m \in Nat
      BY <2>3
    <3>2. TwoTo[m - 1] \in Nat \ {0}
      BY <2>1, <3>1
    <3> QED
      BY <1>1, <2>1, <2>3, <3>1, <3>2
  <2> QED
    BY <2>2, <2>3
<1>3. ASSUME NEW n \in Nat PROVE TwoTo[n + 1] = 2 * TwoTo[n]
  <2>1. n + 1 \in Nat /\ n + 1 # 0 /\ (n + 1) - 1 = n
    OBVIOUS
  <2> QED
    BY <1>1, <2>1
<1> QED
  BY <1>1, <1>2, <1>3

-----------------------------------------------------------------------------
(* Lists and chains.                                                       *)

\* A list without a head is empty: the entry of lowest rank would be its head.
LEMMA NoHead ==
    ASSUME NEW R, R \subseteq Key, NEW link, NEW back, Rest(NULL, R, link, back)
    PROVE  R = {}
<1> SUFFICES ASSUME R # {} PROVE FALSE
  OBVIOUS
<1>1. PICK rank \in [R -> Nat] : \A k \in R : link[k] # NULL => rank[k] < rank[link[k]]
  BY DEF Rest, Ordered
<1> DEFINE T == {rank[k] : k \in R}
<1>2. T \subseteq Nat /\ T # {}
  OBVIOUS
<1>3. PICK n \in T : \A m \in T : ~(m < n)
  BY <1>2, LeastNumber
<1>4. PICK k \in R : rank[k] = n
  BY <1>3
<1>5. k # NULL /\ back[k] \in R /\ link[back[k]] = k
  BY HashAssumption DEF Rest
<1>6. rank[back[k]] < rank[k] /\ rank[back[k]] \in T
  BY <1>1, <1>5
<1> QED
  BY <1>3, <1>4, <1>6

\* The list behind its first entry.
LEMMA RestNext ==
    ASSUME NEW R, R \subseteq Key, NEW x, x # NULL, NEW link, NEW back, Rest(x, R, link, back)
    PROVE  x \in R /\ Rest(link[x], R \ {x}, link, back)
<1>1. x \in R /\ back[x] \notin R
  BY DEF Rest
<1>2. \A k \in R : /\ link[k] \in R \cup {NULL}
                   /\ link[k] # NULL => back[link[k]] = k
                   /\ k # x => back[k] \in R /\ link[back[k]] = k
  BY DEF Rest
<1>3. \A k \in R : link[k] # x
  BY <1>1, <1>2
<1>4. Ordered(R \ {x}, link)
  <2>1. PICK rank \in [R -> Nat] : \A k \in R : link[k] # NULL => rank[k] < rank[link[k]]
    BY DEF Rest, Ordered
  <2> DEFINE r == [k \in R \ {x} |-> rank[k]]
  <2>2. r \in [R \ {x} -> Nat]
    OBVIOUS
  <2>3. \A k \in R \ {x} : link[k] # NULL => r[k] < r[link[k]]
    BY <1>2, <1>3, <2>1
  <2> QED
    BY <2>2, <2>3 DEF Ordered
<1>5. link[x] \in (R \ {x}) \cup {NULL}
  BY <1>1, <1>2, <1>3
<1>6. link[x] # NULL => back[link[x]] \notin R \ {x}
  BY <1>1, <1>2
<1>7. ASSUME NEW k \in R \ {x}
      PROVE  /\ link[k] \in (R \ {x}) \cup {NULL}
             /\ link[k] # NULL => back[link[k]] = k
             /\ k # link[x] => back[k] \in R \ {x} /\ link[back[k]] = k
  BY <1>2, <1>3
<1> QED
  BY <1>1, <1>4, <1>5, <1>6, <1>7 DEF Rest

\* What happens to other entries does not concern a list.
LEMMA RestFrame ==
    ASSUME NEW R, NEW x, NEW link, NEW back, Rest(x, R, link, back), NULL \notin R,
           NEW l, NEW b, \A k \in R : l[k] = link[k] /\ b[k] = back[k]
    PROVE  Rest(x, R, l, b)
<1>1. Ordered(R, l)
  BY DEF Rest, Ordered
<1> QED
  BY <1>1 DEF Rest

LEMMA ChainFrame ==
    ASSUME NEW R, NEW x, NEW link, NEW back, Chain(x, R, link, back), NULL \notin R,
           NEW l, NEW b, \A k \in R : l[k] = link[k] /\ b[k] = back[k]
    PROVE  Chain(x, R, l, b)
<1>1. Rest(x, R, l, b)
  BY RestFrame DEF Chain
<1>2. x # NULL => x \in R
  BY DEF Chain, Rest
<1> QED
  BY <1>1, <1>2 DEF Chain

LEMMA EmptyChain ==
    ASSUME NEW link, NEW back
    PROVE  Chain(NULL, {}, link, back)
<1>1. Ordered({}, link)
  <2>1. [k \in {} |-> 0] \in [{} -> Nat]
    OBVIOUS
  <2> QED
    BY <2>1 DEF Ordered
<1> QED
  BY <1>1 DEF Chain, Rest

\* HASH_ADD_TO_BKT and the expansion: a new head.
LEMMA Prepended ==
    ASSUME NEW R, R \subseteq Key, NEW x, NEW link, NEW back, Chain(x, R, link, back),
           NEW k \in Key, k \notin R,
           NEW l, NEW b, \A j \in R : l[j] = link[j] /\ (j # x => b[j] = back[j]),
           l[k] = x, b[k] = NULL, x # NULL => b[x] = k
    PROVE  Chain(k, R \cup {k}, l, b)
<1>0. k # NULL /\ NULL \notin R
  BY HashAssumption
<1>1. /\ x \in R \cup {NULL}
      /\ x # NULL => back[x] = NULL
      /\ \A j \in R : /\ link[j] \in R \cup {NULL}
                      /\ link[j] # NULL => back[link[j]] = j
                      /\ j # x => back[j] \in R /\ link[back[j]] = j
  BY DEF Chain, Rest
<1>2. \A j \in R : link[j] # NULL => link[j] # x
  BY <1>0, <1>1
<1>3. Ordered(R \cup {k}, l)
  <2>1. PICK rank \in [R -> Nat] : \A j \in R : link[j] # NULL => rank[j] < rank[link[j]]
    BY DEF Chain, Rest, Ordered
  <2> DEFINE r == [j \in R \cup {k} |-> IF j = k THEN 0 ELSE rank[j] + 1]
  <2>2. r \in [R \cup {k} -> Nat]
    OBVIOUS
  <2>3. ASSUME NEW j \in R \cup {k}, l[j] # NULL PROVE r[j] < r[l[j]]
    <3>1. CASE j = k
      <4>1. l[j] \in R /\ l[j] # k
        BY <1>1, <2>3, <3>1
      <4>2. r[l[j]] = rank[l[j]] + 1 /\ r[j] = 0 /\ rank[l[j]] \in Nat
        BY <3>1, <4>1
      <4> QED
        BY <4>2
    <3>2. CASE j # k
      <4>1. j \in R /\ l[j] = link[j] /\ l[j] \in R /\ l[j] # k
        BY <1>1, <2>3, <3>2
      <4>2. r[l[j]] = rank[l[j]] + 1 /\ r[j] = rank[j] + 1 /\ rank[l[j]] \in Nat /\ rank[j] \in Nat
        BY <3>2, <4>1
      <4>3. rank[j] < rank[l[j]]
        BY <2>1, <2>3, <4>1
      <4> QED
        BY <4>2, <4>3
    <3> QED
      BY <3>1, <3>2
  <2> QED
    BY <2>2, <2>3 DEF Ordered
<1>4. ASSUME NEW j \in R \cup {k}
      PROVE  /\ l[j] \in (R \cup {k}) \cup {NULL}
             /\ l[j] # NULL => b[l[j]] = j
             /\ j # k => b[j] \in R \cup {k} /\ l[b[j]] = j
  BY <1>0, <1>1, <1>2
<1> QED
  BY <1>0, <1>3, <1>4 DEF Chain, Rest

\* HASH_APPEND_LIST: a new entry behind the last.
LEMMA Appended ==
    ASSUME NEW R, R \subseteq Key, NEW x, NEW link, NEW back, Chain(x, R, link, back),
           NEW t \in R, link[t] = NULL, NEW k \in Key, k \notin R,
           NEW l, NEW b, \A j \in R : b[j] = back[j] /\ (j # t => l[j] = link[j]),
           l[t] = k, l[k] = NULL, b[k] = t
    PROVE  Chain(x, R \cup {k}, l, b)
<1>0. k # NULL /\ NULL \notin R
  BY HashAssumption
<1>1. /\ x \in R \cup {NULL}
      /\ x # NULL => back[x] = NULL
      /\ \A j \in R : /\ link[j] \in R \cup {NULL}
                      /\ link[j] # NULL => back[link[j]] = j
                      /\ j # x => back[j] \in R /\ link[back[j]] = j
  BY DEF Chain, Rest
<1>2. x # NULL
  <2>1. CASE x = NULL
    <3>1. R = {}
      BY <2>1, NoHead DEF Chain
    <3> QED
      BY <3>1
  <2> QED
    BY <2>1
<1>3. Ordered(R \cup {k}, l)
  <2>1. PICK rank \in [R -> Nat] : \A j \in R : link[j] # NULL => rank[j] < rank[link[j]]
    BY DEF Chain, Rest, Ordered
  <2> DEFINE r == [j \in R \cup {k} |-> IF j = k THEN rank[t] + 1 ELSE rank[j]]
  <2>2. r \in [R \cup {k} -> Nat]
    OBVIOUS
  <2>3. ASSUME NEW j \in R \cup {k}, l[j] # NULL PROVE r[j] < r[l[j]]
    <3>1. CASE j = t
      <4>1. r[l[j]] = rank[t] + 1 /\ r[j] = rank[t] /\ rank[t] \in Nat
        BY <3>1
      <4> QED
        BY <4>1
    <3>2. CASE j # t
      <4>1. j \in R /\ j # k /\ l[j] = link[j] /\ l[j] \in R /\ l[j] # k
        BY <1>1, <2>3, <3>2
      <4>2. rank[j] < rank[l[j]] /\ r[j] = rank[j] /\ r[l[j]] = rank[l[j]]
        BY <2>1, <2>3, <4>1
      <4> QED
        BY <4>2
    <3> QED
      BY <3>1, <3>2
  <2> QED
    BY <2>2, <2>3 DEF Ordered
<1>4. ASSUME NEW j \in R \cup {k}
      PROVE  /\ l[j] \in (R \cup {k}) \cup {NULL}
             /\ l[j] # NULL => b[l[j]] = j
             /\ j # x => b[j] \in R \cup {k} /\ l[b[j]] = j
  <2>1. CASE j = k
    BY <1>0, <1>1, <1>2, <2>1
  <2>2. CASE j \in R
    BY <1>0, <1>1, <2>2
  <2> QED
    BY <2>1, <2>2
<1> QED
  BY <1>0, <1>1, <1>2, <1>3, <1>4 DEF Chain, Rest

\* The new links l and b of the entries R but d lead past d.
Bypassed(R, d, link, back, l, b) ==
    \A j \in R \ {d} : /\ l[j] = IF j = back[d] THEN link[d] ELSE link[j]
                       /\ b[j] = IF j = link[d] THEN back[d] ELSE back[j]

\* HASH_DELETE_HH and HASH_DEL_IN_BKT: an entry less.
LEMMA Removed ==
    ASSUME NEW R, R \subseteq Key, NEW x, NEW link, NEW back, Chain(x, R, link, back),
           NEW d \in R, NEW l, NEW b, Bypassed(R, d, link, back, l, b)
    PROVE  /\ x = d => Chain(link[d], R \ {d}, l, b)
           /\ x # d => Chain(x, R \ {d}, l, b)
           /\ x = d => back[d] = NULL
           /\ back[d] = NULL => x = d
<1> USE DEF Bypassed
<1>0. d # NULL /\ NULL \notin R
  BY HashAssumption
<1>1. /\ x \in R \cup {NULL}
      /\ x # NULL => back[x] = NULL
      /\ \A j \in R : /\ link[j] \in R \cup {NULL}
                      /\ link[j] # NULL => back[link[j]] = j
                      /\ j # x => back[j] \in R /\ link[back[j]] = j
  BY DEF Chain, Rest
<1>2. PICK rank \in [R -> Nat] : \A j \in R : link[j] # NULL => rank[j] < rank[link[j]]
  BY DEF Chain, Rest, Ordered
<1>3. link[d] # d /\ back[d] # d
  BY <1>0, <1>1, <1>2
<1>4. Ordered(R \ {d}, l)
  <2> DEFINE r == [j \in R \ {d} |-> rank[j]]
  <2>1. r \in [R \ {d} -> Nat]
    OBVIOUS
  <2>2. ASSUME NEW j \in R \ {d}, l[j] # NULL PROVE r[j] < r[l[j]]
    <3>1. CASE j = back[d]
      <4>1. link[j] = d /\ link[d] \in R \ {d} /\ l[j] = link[d]
        BY <1>0, <1>1, <1>3, <2>2, <3>1
      <4>2. rank[j] < rank[d] /\ rank[d] < rank[link[d]]
        BY <1>0, <1>2, <4>1
      <4>3. /\ r[j] = rank[j] /\ r[l[j]] = rank[link[d]]
            /\ rank[j] \in Nat /\ rank[d] \in Nat /\ rank[link[d]] \in Nat
        BY <4>1
      <4> QED
        BY <4>2, <4>3
    <3>2. CASE j # back[d]
      <4>1. l[j] = link[j] /\ link[j] \in R \ {d}
        BY <1>0, <1>1, <2>2, <3>2
      <4> QED
        BY <1>2, <2>2, <4>1
    <3> QED
      BY <3>1, <3>2
  <2> QED
    BY <2>1, <2>2 DEF Ordered
<1>5. (x = d => back[d] = NULL) /\ (back[d] = NULL => x = d)
  BY <1>0, <1>1
<1> DEFINE y == IF x = d THEN link[d] ELSE x
<1>6. y \in (R \ {d}) \cup {NULL} /\ (y # NULL => b[y] = NULL)
  <2>1. CASE x = d
    <3>1. y = link[d] /\ y \in (R \ {d}) \cup {NULL}
      BY <1>1, <1>3, <2>1
    <3>2. y # NULL => b[y] = back[d]
      BY <3>1
    <3> QED
      BY <1>5, <2>1, <3>1, <3>2
  <2>2. CASE x # d
    <3>1. y = x
      BY <2>2
    <3>2. x # NULL => b[x] = NULL
      BY <1>0, <1>1, <2>2
    <3> QED
      BY <1>1, <2>2, <3>1, <3>2
  <2> QED
    BY <2>1, <2>2
<1>7. ASSUME NEW j \in R \ {d}
      PROVE  /\ l[j] \in (R \ {d}) \cup {NULL}
             /\ l[j] # NULL => b[l[j]] = j
  <2>1. CASE j = back[d]
    <3>1. l[j] = link[d] /\ link[d] \in (R \ {d}) \cup {NULL}
      BY <1>1, <1>3, <2>1
    <3> QED
      BY <2>1, <3>1
  <2>2. CASE j # back[d]
    <3>1. l[j] = link[j] /\ link[j] # d
      BY <1>0, <1>1, <2>2
    <3>2. l[j] \in (R \ {d}) \cup {NULL}
      BY <1>1, <3>1
    <3>3. l[j] # NULL => back[l[j]] = j /\ l[j] # link[d]
      BY <1>1, <3>1
    <3> QED
      BY <3>2, <3>3
  <2> QED
    BY <2>1, <2>2
<1>8. ASSUME NEW j \in R \ {d}, j # y
      PROVE  b[j] \in R \ {d} /\ l[b[j]] = j
  <2>1. CASE j = link[d]
    <3>1. x # d /\ back[d] \in R \ {d} /\ b[j] = back[d]
      BY <1>1, <1>3, <1>8, <2>1
    <3> QED
      BY <2>1, <3>1
  <2>2. CASE j # link[d]
    <3>1. j # x
      <4>1. CASE x = d
        BY <4>1
      <4>2. CASE x # d
        BY <1>8, <4>2
      <4> QED
        BY <4>1, <4>2
    <3>2. back[j] \in R /\ link[back[j]] = j /\ b[j] = back[j]
      BY <1>1, <2>2, <3>1
    <3>3. back[j] # d
      BY <2>2, <3>2
    <3>4. back[j] # back[d]
      <4>1. CASE x = d
        BY <1>0, <1>5, <3>2, <4>1
      <4>2. CASE x # d
        BY <1>1, <3>2, <4>2
      <4> QED
        BY <4>1, <4>2
    <3> QED
      BY <3>2, <3>3, <3>4
  <2> QED
    BY <2>1, <2>2
<1>9. y # NULL => b[y] \notin R \ {d}
  BY <1>0, <1>6
<1> HIDE DEF y
<1>10. Chain(y, R \ {d}, l, b)
  BY <1>4, <1>6, <1>7, <1>8, <1>9 DEF Chain, Rest
<1> QED
  BY <1>5, <1>10 DEF y

-----------------------------------------------------------------------------
(* What HASH_FSCK sees of a chain.                                         *)

\* The first n steps along the link.
Steps(f, x, link, n) ==
    f = [i \in 0 .. n |-> IF i = 0 THEN x ELSE IF f[i - 1] \in Key THEN link[f[i - 1]] ELSE NULL]

LEMMA StepsExist ==
    ASSUME NEW x, NEW link, NEW n \in Nat
    PROVE  \E f : Steps(f, x, link, n)
<1> DEFINE T == {m \in Nat : ~\E f : Steps(f, x, link, m)}
<1> SUFFICES ASSUME T # {} PROVE FALSE
  OBVIOUS
<1>1. PICK m \in T : \A l \in T : ~(l < m)
  BY LeastNumber
<1>2. CASE m = 0
  <2> DEFINE g == [i \in 0 .. 0 |-> x]
  <2>1. ASSUME NEW i \in 0 .. 0
        PROVE  g[i] = IF i = 0 THEN x ELSE IF g[i - 1] \in Key THEN link[g[i - 1]] ELSE NULL
    OBVIOUS
  <2>2. g = [i \in 0 .. 0 |-> IF i = 0 THEN x ELSE IF g[i - 1] \in Key THEN link[g[i - 1]] ELSE NULL]
    BY <2>1
  <2>3. Steps(g, x, link, 0)
    BY <2>2 DEF Steps
  <2> QED
    BY <1>1, <1>2, <2>3
<1>3. CASE m # 0
  <2>1. m - 1 \in Nat /\ m - 1 \notin T /\ m \in Nat
    BY <1>1, <1>3
  <2>2. PICK f : Steps(f, x, link, m - 1)
    BY <2>1
  <2> DEFINE g == [i \in 0 .. m |-> IF i < m THEN f[i] ELSE IF f[m - 1] \in Key THEN link[f[m - 1]] ELSE NULL]
  <2>3. ASSUME NEW i \in 0 .. m
        PROVE  g[i] = IF i = 0 THEN x ELSE IF g[i - 1] \in Key THEN link[g[i - 1]] ELSE NULL
    <3>1. CASE i < m
      <4>1. i \in 0 .. (m - 1) /\ (i # 0 => i - 1 \in 0 .. m /\ i - 1 < m)
        BY <2>1, <3>1
      <4>2. f[i] = IF i = 0 THEN x ELSE IF f[i - 1] \in Key THEN link[f[i - 1]] ELSE NULL
        BY <2>2, <4>1 DEF Steps
      <4> QED
        BY <3>1, <4>1, <4>2
    <3>2. CASE i = m
      <4>1. i # 0 /\ m - 1 \in 0 .. m /\ m - 1 < m /\ ~(m < m)
        BY <1>3, <2>1, <3>2
      <4> QED
        BY <3>2, <4>1
    <3> QED
      BY <2>1, <3>1, <3>2
  <2>4. g = [i \in 0 .. m |-> IF i = 0 THEN x ELSE IF g[i - 1] \in Key THEN link[g[i - 1]] ELSE NULL]
    BY <2>3
  <2>5. Steps(g, x, link, m)
    BY <2>4 DEF Steps
  <2> QED
    BY <1>1, <2>5
<1> QED
  BY <1>2, <1>3

LEMMA KeyCount == Cardinality(Key) \in Nat
BY HashAssumption, FS_CardinalityType

LEMMA WalkIs ==
    ASSUME NEW x, NEW link, NEW w, w = Walk(x, link)
    PROVE  /\ w[0] = x
           /\ \A n \in 1 .. Cardinality(Key) :
                w[n] = IF w[n - 1] \in Key THEN link[w[n - 1]] ELSE NULL
<1>1. PICK N \in Nat : N = Cardinality(Key)
  BY KeyCount
<1>2. \E f : f = [i \in 0 .. N |-> IF i = 0 THEN x ELSE IF f[i - 1] \in Key THEN link[f[i - 1]] ELSE NULL]
  <2>1. PICK f : Steps(f, x, link, N)
    BY StepsExist
  <2> QED
    BY <2>1 DEF Steps
<1>3. w = [i \in 0 .. N |-> IF i = 0 THEN x ELSE IF w[i - 1] \in Key THEN link[w[i - 1]] ELSE NULL]
  BY <1>1, <1>2 DEF Walk
<1> QED
  BY <1>1, <1>3

\* A list of entries passes HASH_FSCK, which meets exactly these entries: the walk
\* along it stays in it, climbs in rank, leaves none out and comes to the end.
LEMMA ChainLinked ==
    ASSUME NEW R, R \subseteq Key, NEW x, NEW link, NEW back, Chain(x, R, link, back)
    PROVE  Entries(x, link) = R /\ Linked(x, link, back)
<1> DEFINE w == Walk(x, link)
<1>0. NULL \notin Key /\ IsFiniteSet(Key)
  BY HashAssumption
<1>1. PICK N \in Nat : N = Cardinality(Key)
  BY KeyCount
<1>2. w[0] = x /\ \A n \in 1 .. N : w[n] = IF w[n - 1] \in Key THEN link[w[n - 1]] ELSE NULL
  BY <1>1, WalkIs
<1> HIDE DEF w
<1>3. /\ x \in R \cup {NULL}
      /\ \A k \in R : /\ link[k] \in R \cup {NULL}
                      /\ link[k] # NULL => back[link[k]] = k
                      /\ k # x => back[k] \in R /\ link[back[k]] = k
  BY DEF Chain, Rest
<1>4. PICK rank \in [R -> Nat] : \A k \in R : link[k] # NULL => rank[k] < rank[link[k]]
  BY DEF Chain, Rest, Ordered
<1>5. ASSUME NEW n \in 0 .. N PROVE w[n] \in R \cup {NULL}
  <2> DEFINE T == {m \in 0 .. N : w[m] \notin R \cup {NULL}}
  <2> SUFFICES ASSUME T # {} PROVE FALSE
    OBVIOUS
  <2>1. T \subseteq Nat
    OBVIOUS
  <2>2. PICK m \in T : \A l \in T : ~(l < m)
    BY <2>1, LeastNumber
  <2>3. m # 0
    BY <1>2, <1>3
  <2>4. m - 1 \in 0 .. N /\ m - 1 < m /\ m \in 1 .. N
    BY <2>3
  <2>5. w[m - 1] \in R \cup {NULL}
    BY <2>2, <2>4
  <2>6. w[m] \in R \cup {NULL}
    BY <1>0, <1>2, <1>3, <2>4, <2>5
  <2> QED
    BY <2>6
<1>6. ASSUME NEW m \in 0 .. N, w[m] = NULL, NEW n \in 0 .. N, m <= n PROVE w[n] = NULL
  <2> DEFINE T == {l \in 0 .. N : m <= l /\ w[l] # NULL}
  <2> SUFFICES ASSUME T # {} PROVE FALSE
    BY <1>6
  <2>1. T \subseteq Nat
    OBVIOUS
  <2>2. PICK l \in T : \A i \in T : ~(i < l)
    BY <2>1, LeastNumber
  <2>3. l # m
    BY <1>6
  <2>4. l - 1 \in 0 .. N /\ l - 1 < l /\ l \in 1 .. N /\ m <= l - 1
    BY <2>3
  <2>5. w[l - 1] = NULL
    BY <2>2, <2>4
  <2> QED
    BY <1>0, <1>2, <2>4, <2>5
<1>7. ASSUME NEW m \in 0 .. N, NEW n \in 0 .. N, m < n, w[n] # NULL
      PROVE  rank[w[m]] < rank[w[n]]
  <2> DEFINE T == {l \in 0 .. N : m < l /\ w[l] # NULL /\ ~(rank[w[m]] < rank[w[l]])}
  <2> SUFFICES ASSUME T # {} PROVE FALSE
    BY <1>7
  <2>1. T \subseteq Nat
    OBVIOUS
  <2>2. PICK l \in T : \A i \in T : ~(i < l)
    BY <2>1, LeastNumber
  <2>3. l - 1 \in 0 .. N /\ l - 1 < l /\ l \in 1 .. N /\ m <= l - 1
    OBVIOUS
  <2>4. w[l - 1] # NULL /\ w[m] # NULL
    BY <1>6, <2>3
  <2>5. w[l - 1] \in R /\ w[m] \in R /\ w[l] \in R
    BY <1>5, <2>3, <2>4
  <2>6. rank[w[l - 1]] < rank[w[l]]
    BY <1>2, <1>4, <2>3, <2>5
  <2>7. rank[w[m]] \in Nat /\ rank[w[l - 1]] \in Nat /\ rank[w[l]] \in Nat
    BY <2>5
  <2>8. CASE m = l - 1
    BY <2>6, <2>8
  <2>9. CASE m # l - 1
    <3>1. rank[w[m]] < rank[w[l - 1]]
      BY <2>2, <2>3, <2>4, <2>9
    <3> QED
      BY <2>6, <2>7, <3>1
  <2> QED
    BY <2>8, <2>9
<1>8. w[N] = NULL
  <2> SUFFICES ASSUME w[N] # NULL PROVE FALSE
    OBVIOUS
  <2>1. \A n \in 0 .. N : w[n] \in R /\ w[n] # NULL
    BY <1>5, <1>6
  <2> DEFINE f == [n \in 0 .. N |-> w[n]]
  <2>2. f \in [0 .. N -> Key]
    BY <2>1
  <2>3. IsFiniteSet(0 .. N) /\ Cardinality(0 .. N) = N + 1
    BY FS_Interval
  <2>4. \E m, n \in 0 .. N : m # n /\ f[m] = f[n]
    <3>1. Cardinality(Key) < Cardinality(0 .. N)
      BY <1>1, <2>3
    <3> HIDE DEF f
    <3> QED
      BY <1>0, <2>2, <2>3, <3>1, FS_PigeonHole
  <2>5. PICK m \in 0 .. N, n \in 0 .. N : m # n /\ w[m] = w[n]
    BY <2>4
  <2>6. m < n \/ n < m
    BY <2>5
  <2>7. rank[w[m]] \in Nat /\ rank[w[n]] \in Nat
    BY <2>1
  <2>8. rank[w[m]] < rank[w[n]] \/ rank[w[n]] < rank[w[m]]
    BY <1>7, <2>1, <2>6
  <2> QED
    BY <2>5, <2>7, <2>8
<1>9. ASSUME NEW k \in R PROVE \E n \in 0 .. N : w[n] = k
  <2> DEFINE U == {j \in R : ~\E n \in 0 .. N : w[n] = j}
             T == {rank[j] : j \in U}
  <2> SUFFICES ASSUME U # {} PROVE FALSE
    OBVIOUS
  <2>1. T \subseteq Nat /\ T # {}
    OBVIOUS
  <2>2. PICK r \in T : \A i \in T : ~(i < r)
    BY <2>1, LeastNumber
  <2>3. PICK j \in U : rank[j] = r
    BY <2>2
  <2>4. j # x
    BY <1>2
  <2>5. back[j] \in R /\ link[back[j]] = j /\ j # NULL
    BY <1>0, <1>3, <2>4
  <2>6. rank[back[j]] < rank[j]
    BY <1>4, <2>5
  <2>7. back[j] \notin U
    BY <2>2, <2>3, <2>6
  <2>8. PICK n \in 0 .. N : w[n] = back[j]
    BY <2>5, <2>7
  <2>9. n # N
    BY <1>0, <1>8, <2>5, <2>8
  <2>10. n + 1 \in 1 .. N /\ (n + 1) - 1 = n /\ n + 1 \in 0 .. N
    BY <2>9
  <2>11. w[n + 1] = j
    BY <1>2, <2>5, <2>8, <2>10
  <2> QED
    BY <2>10, <2>11
<1>10. ASSUME NEW n \in 1 .. N, w[n] # NULL PROVE back[w[n]] = w[n - 1]
  <2>1. w[n - 1] \in Key /\ w[n] = link[w[n - 1]]
    BY <1>2, <1>10
  <2>2. n - 1 \in 0 .. N
    OBVIOUS
  <2>3. w[n - 1] \in R
    BY <1>0, <1>5, <2>1, <2>2
  <2> QED
    BY <1>3, <1>10, <2>1, <2>3
<1>11. Entries(x, link) = R
  BY <1>0, <1>1, <1>5, <1>9 DEF Entries, w
<1> QED
  BY <1>1, <1>8, <1>10, <1>11 DEF Linked, Chain, w

-----------------------------------------------------------------------------
(* Facts about tables and buckets.                                         *)

LEMMA InTableKeys ==
    /\ InTable \subseteq Key /\ NULL \notin InTable
    /\ \A M \in SUBSET InTable : IsFiniteSet(M) /\ Cardinality(M) \in Nat
<1>1. InTable \subseteq Key
  BY DEF InTable
<1>2. \A M \in SUBSET InTable : M \in SUBSET Key
  BY <1>1
<1>3. \A M \in SUBSET Key : IsFiniteSet(M) /\ Cardinality(M) \in Nat
  BY HashAssumption, FS_Subset, FS_CardinalityType
<1> QED
  BY <1>1, <1>2, <1>3, HashAssumption

\* The masked hash is the number of a bucket.
LEMMA BktNumber ==
    ASSUME NEW k \in Key, NEW n \in Nat \ {0}
    PROVE  HASH_TO_BKT(Hash[k], n) \in 0 .. (n - 1)
<1>1. Hash[k] \in Nat
  BY HashAssumption
<1> QED
  BY <1>1 DEF HASH_TO_BKT

LEMMA TableFields ==
    ASSUME NEW t \in Table
    PROVE  /\ t.num_buckets \in Nat \ {0} /\ t.log2_num_buckets \in Nat
           /\ t.num_items \in Nat /\ t.tail \in Key
           /\ t.ideal_chain_maxlen \in Nat /\ t.nonideal_items \in Nat
           /\ t.ineff_expands \in Nat /\ t.noexpand \in BOOLEAN
BY DEF Table

LEMMA BucketFields ==
    ASSUME NEW bkt \in Bucket
    PROVE  bkt.hh_head \in Ptr /\ bkt.count \in Nat /\ bkt.expand_mult \in Nat
BY DEF Bucket

LEMMA CallFields ==
    ASSUME NEW c \in Calls
    PROVE  c.op \in {"set", "get", "delete"} /\ c.key \in Key /\ c.val \in Val
BY HashAssumption

\* Without a table there are no entries.
LEMMA NoTable ==
    ASSUME Typed, Listed, head = NULL
    PROVE  InTable = {}
BY NoHead, InTableKeys DEF Typed, Listed, Chain

\* With an entry there is a table.
LEMMA SomeTable ==
    ASSUME Typed, Listed, InTable # {}
    PROVE  head # NULL
BY NoTable

-----------------------------------------------------------------------------
(* The steps that leave the entries alone.                                 *)

LEMMA InitInv == Init => Inv
<1> SUFFICES ASSUME Init PROVE Inv
  OBVIOUS
<1>1. InTable = {}
  BY DEF Init, InTable
<1>2. Typed
  BY HashAssumption DEF Init, Typed, Ptr
<1>3. Chain(NULL, {}, next, prev)
  BY EmptyChain
<1>4. Listed
  BY <1>1, <1>3 DEF Init, Listed
<1>5. Chained /\ Searching /\ Moving /\ Bounded
  BY DEF Init, Chained, Searching, Moving, Bounded
<1>6. Agreed
  BY <1>1 DEF Init, Agreed
<1> QED
  BY <1>2, <1>4, <1>5, <1>6 DEF Inv

\* What depends on the entries alone.
LEMMA Untouched ==
    ASSUME Inv, UNCHANGED <<list, chains, tbl, value, store>>
    PROVE  /\ InTable' = InTable
           /\ Listed'
           /\ \A b \in 0 .. (tbl.num_buckets - 1) :
                Holds(tbl.buckets[b], Members(b, tbl.num_buckets, InTable)) =>
                Holds(tbl.buckets[b], Members(b, tbl.num_buckets, InTable))'
BY DEF Inv, list, chains, InTable, Listed, Holds, Members

LEMMA BeginInv ==
    ASSUME Inv, NEW c \in Calls, Begin(c)
    PROVE  Inv'
<1>1. UNCHANGED <<list, chains, tbl, value, store>>
  BY DEF Begin
<1>2. InTable' = InTable /\ Listed'
  BY <1>1, Untouched
<1>3. c.key \in Key
  BY CallFields
<1>4. /\ out' \in Ptr
      /\ \E R \in SUBSET InTable : Rest(out', R, hh_next, hh_prev) /\ (c.key \in InTable => c.key \in R)
  <2>1. CASE head = NULL
    <3>1. out' = NULL
      BY <2>1 DEF Begin, HASH_FIND
    <3>2. InTable = {}
      BY <2>1, NoTable DEF Inv, Typed
    <3>3. Rest(NULL, {}, hh_next, hh_prev)
      BY EmptyChain DEF Chain
    <3> QED
      BY <3>1, <3>2, <3>3 DEF Ptr
  <2>2. CASE head # NULL
    <3>1. head # NULL /\ tbl \in Table /\ tbl.buckets \in [0 .. (tbl.num_buckets - 1) -> Bucket]
      BY <2>2 DEF Inv, Typed
    <3>2. PICK n \in Nat \ {0} : n = tbl.num_buckets
      BY <3>1, TableFields
    <3>3. PICK b \in 0 .. (n - 1) : b = HASH_TO_BKT(Hash[c.key], n)
      BY <1>3, BktNumber
    <3>4. out' = tbl.buckets[b].hh_head
      BY <2>2, <3>2, <3>3 DEF Begin, HASH_FIND
    <3>5. tbl.buckets[b] \in Bucket
      BY <3>1, <3>2
    <3>6. Holds(tbl.buckets[b], Members(b, n, InTable))
      BY <3>1, <3>2 DEF Inv, Chained, Begin
    <3>7. Rest(out', Members(b, n, InTable), hh_next, hh_prev)
      BY <3>4, <3>6 DEF Holds, Chain
    <3>8. Members(b, n, InTable) \in SUBSET InTable /\ (c.key \in InTable => c.key \in Members(b, n, InTable))
      BY <3>3 DEF Members
    <3> QED
      BY <3>4, <3>5, <3>7, <3>8, BucketFields
  <2> QED
    BY <2>1, <2>2
<1>5. Typed'
  BY <1>4 DEF Inv, Typed, Begin, list, chains, moving
<1>6. Searching'
  BY <1>2, <1>4 DEF Searching, Begin, chains
<1>7. Chained'
  BY <1>1, <1>2, Untouched DEF Inv, Chained, Begin, list
<1>8. Moving'
  BY DEF Begin, Moving
<1>9. Bounded'
  BY <1>1 DEF Inv, Bounded, Begin, Ideal, list
<1>10. Agreed'
  BY <1>1, <1>2 DEF Inv, Agreed, Begin
<1> QED
  BY <1>2, <1>5, <1>6, <1>7, <1>8, <1>9, <1>10 DEF Inv

LEMMA FindNextInv ==
    ASSUME Inv, FindNext
    PROVE  Inv'
<1>1. UNCHANGED <<list, chains, tbl, value, store>> /\ pc = "find" /\ pc' = "find" /\ call' = call
      /\ UNCHANGED moving
  BY DEF FindNext
<1>2. InTable' = InTable /\ Listed'
  BY <1>1, Untouched
<1>3. PICK R \in SUBSET InTable :
        Rest(out, R, hh_next, hh_prev) /\ (call.key \in InTable => call.key \in R)
  BY <1>1 DEF Inv, Searching
<1>4. out # NULL /\ out # call.key /\ out' = hh_next[out]
  BY DEF FindNext, Matches
<1>5. R \subseteq Key
  BY InTableKeys
<1>6. out \in R /\ Rest(hh_next[out], R \ {out}, hh_next, hh_prev)
  BY <1>3, <1>4, <1>5, RestNext
<1>7. out' \in Ptr
  BY <1>4, <1>5, <1>6 DEF Rest, Ptr
<1>8. Typed'
  BY <1>1, <1>7 DEF Inv, Typed, list, chains, moving
<1>9. Searching'
  <2>1. R \ {out} \in SUBSET InTable /\ (call.key \in InTable => call.key \in R \ {out})
    BY <1>3, <1>4
  <2> QED
    BY <1>1, <1>2, <1>4, <1>6, <2>1 DEF Searching, chains
<1>10. Chained'
  BY <1>1, <1>2, Untouched DEF Inv, Chained, list
<1>11. Moving'
  BY <1>1 DEF Moving
<1>12. Bounded'
  BY <1>1 DEF Inv, Bounded, Ideal, list
<1>13. Agreed'
  BY <1>1, <1>2 DEF Inv, Agreed
<1> QED
  BY <1>2, <1>8, <1>9, <1>10, <1>11, <1>12, <1>13 DEF Inv

\* When the search has come to the end, the key is not in the table.
LEMMA SearchedAll ==
    ASSUME Inv, NotFound
    PROVE  call.key \notin InTable
<1>1. PICK R \in SUBSET InTable :
        Rest(NULL, R, hh_next, hh_prev) /\ (call.key \in InTable => call.key \in R)
  BY DEF Inv, Searching, NotFound
<1>2. R = {}
  BY <1>1, NoHead, InTableKeys
<1> QED
  BY <1>1, <1>2

\* When it has found an entry, it is the one of the key.
LEMMA SearchedFound ==
    ASSUME Inv, Found
    PROVE  out = call.key /\ call.key \in InTable
<1>1. PICK R \in SUBSET InTable : Rest(out, R, hh_next, hh_prev)
  BY DEF Inv, Searching, Found
<1>2. out # NULL /\ out = call.key
  BY DEF Found, Matches
<1> QED
  BY <1>1, <1>2 DEF Rest

LEMMA ReturnInv ==
    ASSUME Inv, htable_get \/ DeleteNothing
    PROVE  Inv'
<1>1. /\ UNCHANGED <<list, chains, tbl, value, store>> /\ UNCHANGED moving
      /\ pc = "find" /\ pc' = "idle" /\ call' = NULL /\ out' = NULL /\ call.op # "set"
  BY DEF htable_get, DeleteNothing, Found, NotFound, Return
<1>2. InTable' = InTable /\ Listed'
  BY <1>1, Untouched
<1>3. Typed'
  BY <1>1 DEF Inv, Typed, list, chains, moving, Ptr
<1>4. Chained'
  BY <1>1, <1>2, Untouched DEF Inv, Chained, list
<1>5. Searching' /\ Moving'
  BY <1>1 DEF Searching, Moving
<1>6. Bounded'
  BY <1>1 DEF Inv, Bounded, Ideal, list
<1>7. Agreed'
  BY <1>1, <1>2 DEF Inv, Agreed
<1> QED
  BY <1>2, <1>3, <1>4, <1>5, <1>6, <1>7 DEF Inv

-----------------------------------------------------------------------------
(* HASH_EXPAND_BUCKETS                                                     *)

\* The ideal length of a chain is not 0.
LEMMA IdealPositive ==
    ASSUME NEW i \in Nat \ {0}, NEW m \in Nat \ {0}
    PROVE  (i \div m) + (IF i % m # 0 THEN 1 ELSE 0) \in Nat \ {0}
<1>1. i \div m \in Nat /\ i % m \in 0 .. (m - 1)
  OBVIOUS
<1>2. i = m * (i \div m) + (i % m)
  OBVIOUS
<1>3. PICK q \in Nat, r \in Nat : q = i \div m /\ r = i % m
  BY <1>1
<1>4. q = 0 => m * q = 0
  OBVIOUS
<1>5. r # 0 \/ q # 0
  BY <1>2, <1>3, <1>4
<1> QED
  BY <1>3, <1>5

\* The multiplier keeps up with the chain.
LEMMA MultKeepsUp ==
    ASSUME NEW c \in Nat, NEW m \in Nat, NEW i \in Nat \ {0}, c <= (m + 1) * i
    PROVE  c + 1 <= ((m + (IF c + 1 > i /\ c + 1 > m * i THEN 1 ELSE 0)) + 1) * i
<1>1. PICK p \in Nat : p = m * i
  OBVIOUS
<1>2. (m + 1) * i = p + i /\ (m + 1 + 1) * i = p + i + i
  BY <1>1
<1>3. CASE c + 1 > i /\ c + 1 > m * i
  BY <1>2, <1>3
<1>4. CASE ~(c + 1 > i /\ c + 1 > m * i)
  <2>1. c + 1 <= p + i
    BY <1>1, <1>4
  <2>2. (m + 0) + 1 = m + 1
    OBVIOUS
  <2> QED
    BY <1>2, <1>4, <2>1, <2>2
<1> QED
  BY <1>3, <1>4

\* k is put before the head h of a chain: no entry but these two is touched.
LEMMA FrontLinks ==
    ASSUME Typed, NEW k \in Key, NEW h \in Ptr, h # k,
           hh_next' = [hh_next EXCEPT ![k] = h],
           hh_prev' = [Assign(hh_prev, h, k) EXCEPT ![k] = NULL]
    PROVE  /\ hh_next' \in [Key -> Ptr \cup {Freed}] /\ hh_prev' \in [Key -> Ptr \cup {Freed}]
           /\ hh_next'[k] = h /\ hh_prev'[k] = NULL
           /\ h # NULL => hh_prev'[h] = k
           /\ \A j \in Key : j # k => hh_next'[j] = hh_next[j]
           /\ \A j \in Key : j # k /\ j # h => hh_prev'[j] = hh_prev[j]
<1>1. hh_next \in [Key -> Ptr \cup {Freed}] /\ hh_prev \in [Key -> Ptr \cup {Freed}]
  BY DEF Typed
<1>2. k \in Ptr /\ NULL \in Ptr /\ (h # NULL => h \in Key) /\ k # NULL
  BY HashAssumption DEF Ptr
<1>3. PICK f : f = Assign(hh_prev, h, k)
  OBVIOUS
<1>4. /\ f \in [Key -> Ptr \cup {Freed}]
      /\ h # NULL => f[h] = k
      /\ \A j \in Key : j # h => f[j] = hh_prev[j]
  <2>1. CASE h = NULL
    BY <1>1, <1>3, <2>1 DEF Assign
  <2>2. CASE h # NULL
    BY <1>1, <1>2, <1>3, <2>2 DEF Assign
  <2> QED
    BY <2>1, <2>2
<1>5. hh_prev' = [f EXCEPT ![k] = NULL]
  BY <1>3
<1> QED
  BY <1>1, <1>2, <1>4, <1>5

LEMMA ExpandBeginInv ==
    ASSUME Inv, ExpandBegin
    PROVE  Inv'
<1>1. /\ pc = "expand" /\ pc' = "move" /\ bkt_i' = 0 /\ thh' = tbl.buckets[0].hh_head
      /\ UNCHANGED <<list, chains, value, call, out, store>>
      /\ fresh' = NewBuckets(2 * tbl.num_buckets)
      /\ tbl' = [tbl EXCEPT !.ideal_chain_maxlen = IdealChain(tbl), !.nonideal_items = 0]
  BY DEF ExpandBegin
<1>2. /\ head # NULL /\ tbl \in Table /\ tbl.num_buckets = TwoTo[tbl.log2_num_buckets]
      /\ tbl.buckets \in [0 .. (tbl.num_buckets - 1) -> Bucket]
  BY <1>1 DEF Inv, Typed
<1>3. PICK n \in Nat \ {0} : n = tbl.num_buckets
  BY <1>2, TableFields
<1>4. PICK i : i = IdealChain(tbl)
  OBVIOUS
<1>5. i \in Nat \ {0}
  <2>1. tbl.log2_num_buckets \in Nat /\ TwoTo[tbl.log2_num_buckets + 1] = 2 * n
    BY <1>2, <1>3, TableFields, TwoToIs
  <2>2. tbl.num_items \in Nat \ {0}
    <3>1. InTable # {} /\ tbl.num_items = Cardinality(InTable) /\ IsFiniteSet(InTable)
      BY <1>2, InTableKeys DEF Inv, Listed
    <3> QED
      BY <3>1, <1>2, TableFields, FS_EmptySet
  <2>3. PICK m \in Nat \ {0} : m = 2 * n
    OBVIOUS
  <2> QED
    BY <1>3, <1>4, <2>1, <2>2, <2>3, IdealPositive DEF IdealChain
<1>6. /\ tbl' \in Table /\ head' # NULL /\ tbl'.num_buckets = n /\ tbl'.buckets = tbl.buckets
      /\ tbl'.log2_num_buckets = tbl.log2_num_buckets /\ tbl'.tail = tbl.tail
      /\ tbl'.num_items = tbl.num_items /\ tbl'.ideal_chain_maxlen = i
  <2>1. tbl' = [tbl EXCEPT !.ideal_chain_maxlen = i, !.nonideal_items = 0]
    BY <1>1, <1>4
  <2>2. tbl' \in Table
    BY <1>2, <1>5, <2>1 DEF Table
  <2>3. head' # NULL
    BY <1>1, <1>2 DEF list
  <2> QED
    BY <1>2, <1>3, <2>1, <2>2, <2>3 DEF Table
<1>7. InTable' = InTable
  BY <1>1 DEF InTable
<1>8. 0 \in 0 .. (n - 1) /\ tbl.buckets[0] \in Bucket
  BY <1>2, <1>3
<1>9. Typed'
  BY <1>1, <1>2, <1>3, <1>6, <1>8, BucketFields DEF Inv, Typed, list, chains
<1>10. Listed'
  BY <1>1, <1>2, <1>6, <1>7 DEF Inv, Listed, list
<1>11. Chained' /\ Searching' /\ Bounded'
  BY <1>1 DEF Chained, Searching, Bounded
<1>12. Agreed'
  BY <1>1, <1>7 DEF Inv, Agreed
<1>13. Moved({})'
  <2>1. \A b \in 0 .. (n - 1) : Holds(tbl.buckets[b], Members(b, n, InTable))
    BY <1>1, <1>2, <1>3 DEF Inv, Chained
  <2>2. \A b \in 0 .. (n - 1) : Chain(tbl.buckets[b].hh_head, Members(b, n, InTable), hh_next', hh_prev')
    BY <1>1, <2>1 DEF Holds, chains
  <2>3. Members(0, n, InTable) \ {} = Members(0, n, InTable)
    OBVIOUS
  <2>4. Rest(thh', Members(bkt_i', n, InTable) \ {}, hh_next', hh_prev')
    BY <1>1, <1>8, <2>2, <2>3 DEF Chain
  <2>5. fresh' = [b \in 0 .. (2 * n - 1) |-> [hh_head |-> NULL, count |-> 0, expand_mult |-> 0]]
    BY <1>1, <1>3 DEF NewBuckets
  <2>6. fresh' \in [0 .. (2 * n - 1) -> Bucket]
    BY <2>5 DEF Bucket, Ptr
  <2>7. ASSUME NEW b \in 0 .. (2 * n - 1)
        PROVE  Holds(fresh[b], Members(b, 2 * n, {}))' /\ Ideal(fresh'[b], i)
    <3>1. fresh'[b].hh_head = NULL /\ fresh'[b].count = 0 /\ fresh'[b].expand_mult = 0
      BY <2>5
    <3>2. Members(b, 2 * n, {}) = {} /\ Cardinality({}) = 0
      BY FS_EmptySet DEF Members
    <3>3. Chain(NULL, {}, hh_next', hh_prev')
      BY EmptyChain
    <3>4. Members(b, 2 * n, {})' = {}
      BY DEF Members
    <3> QED
      BY <1>5, <3>1, <3>2, <3>3, <3>4 DEF Holds, Ideal
  <2>8. \A b \in (bkt_i' + 1) .. (n - 1) :
          Chain(tbl'.buckets[b].hh_head, Members(b, n, InTable), hh_next', hh_prev')
    BY <1>1, <1>6, <2>2
  <2>9. \A k \in Key : HASH_TO_BKT(Hash[k], n) \in 0 .. (n - 1)
    BY BktNumber
  <2>10. \A k \in InTable : ~(HASH_TO_BKT(Hash[k], n) < bkt_i')
    BY <1>1, <2>9, InTableKeys
  <2>11. \A b : Members(b, n, InTable)' = Members(b, n, InTable)
    BY <1>7 DEF Members
  <2> QED
    BY <1>1, <1>3, <1>6, <1>7, <1>8, <2>4, <2>6, <2>7, <2>8, <2>10, <2>11 DEF Moved
<1>14. Moving'
  BY <1>5, <1>6, <1>13 DEF Moving
<1> QED
  BY <1>9, <1>10, <1>11, <1>12, <1>14 DEF Inv

LEMMA ExpandNextBucketInv ==
    ASSUME Inv, ExpandNextBucket
    PROVE  Inv'
<1>1. /\ pc = "move" /\ pc' = "move" /\ thh = NULL /\ bkt_i + 1 < tbl.num_buckets /\ bkt_i' = bkt_i + 1
      /\ thh' = tbl.buckets[bkt_i'].hh_head
      /\ UNCHANGED <<list, chains, tbl, value, call, out, fresh, store>>
  BY DEF ExpandNextBucket
<1>2. head # NULL /\ tbl \in Table /\ tbl.buckets \in [0 .. (tbl.num_buckets - 1) -> Bucket] /\ bkt_i \in Nat
  BY <1>1 DEF Inv, Typed
<1>3. PICK n \in Nat \ {0} : n = tbl.num_buckets
  BY <1>2, TableFields
<1>4. InTable' = InTable /\ Listed'
  BY <1>1, Untouched
<1>5. bkt_i' \in 0 .. (n - 1) /\ bkt_i' \in (bkt_i + 1) .. (n - 1) /\ tbl.buckets[bkt_i'] \in Bucket
  BY <1>1, <1>2, <1>3
<1>6. Typed'
  BY <1>1, <1>2, <1>5, BucketFields DEF Inv, Typed, list, chains
<1>7. PICK M \in SUBSET InTable : Moved(M)
  BY <1>1 DEF Inv, Moving
<1>8. Members(bkt_i, n, InTable) \ M = {}
  <2>1. Rest(NULL, Members(bkt_i, n, InTable) \ M, hh_next, hh_prev)
    BY <1>1, <1>3, <1>7 DEF Moved
  <2>2. Members(bkt_i, n, InTable) \ M \subseteq Key
    BY InTableKeys DEF Members
  <2> QED
    BY <2>1, <2>2, NoHead
<1>9. \A k \in InTable : HASH_TO_BKT(Hash[k], n) \in 0 .. (n - 1)
  BY InTableKeys, BktNumber
<1>10. \A k \in InTable : HASH_TO_BKT(Hash[k], n) < bkt_i' => k \in M
  <2> SUFFICES ASSUME NEW k \in InTable, HASH_TO_BKT(Hash[k], n) < bkt_i' PROVE k \in M
    OBVIOUS
  <2>1. HASH_TO_BKT(Hash[k], n) < bkt_i \/ HASH_TO_BKT(Hash[k], n) = bkt_i
    BY <1>1, <1>2, <1>9
  <2>2. CASE HASH_TO_BKT(Hash[k], n) < bkt_i
    BY <1>3, <1>7, <2>2 DEF Moved
  <2>3. CASE HASH_TO_BKT(Hash[k], n) = bkt_i
    BY <1>8, <2>3 DEF Members
  <2> QED
    BY <2>1, <2>2, <2>3
<1>11. \A k \in M : HASH_TO_BKT(Hash[k], n) <= bkt_i' /\ HASH_TO_BKT(Hash[k], n) # bkt_i'
  <2>1. \A k \in M : HASH_TO_BKT(Hash[k], n) <= bkt_i
    BY <1>3, <1>7 DEF Moved
  <2> QED
    BY <1>1, <1>2, <1>9, <2>1
<1>12. Rest(thh', Members(bkt_i', n, InTable) \ M, hh_next', hh_prev')
  <2>1. Members(bkt_i', n, InTable) \ M = Members(bkt_i', n, InTable)
    BY <1>11 DEF Members
  <2>2. Chain(tbl.buckets[bkt_i'].hh_head, Members(bkt_i', n, InTable), hh_next, hh_prev)
    BY <1>3, <1>5, <1>7 DEF Moved
  <2> QED
    BY <1>1, <2>1, <2>2 DEF Chain, chains
<1>13. Moved(M)'
  <2>1. \A b, L : Members(b, L, InTable)' = Members(b, L, InTable) /\ Members(b, L, M)' = Members(b, L, M)
    BY <1>4 DEF Members
  <2>2. \A b \in 0 .. (2 * n - 1) : /\ Holds(fresh[b], Members(b, 2 * n, M))
                                    /\ Ideal(fresh[b], tbl.ideal_chain_maxlen)
    BY <1>3, <1>7 DEF Moved
  <2>3. \A b \in 0 .. (2 * n - 1) : /\ Holds(fresh[b], Members(b, 2 * n, M))'
                                    /\ Ideal(fresh[b], tbl.ideal_chain_maxlen)'
    BY <1>1, <2>1, <2>2 DEF Holds, Ideal, chains
  <2>4. \A b \in (bkt_i' + 1) .. (n - 1) :
          Chain(tbl.buckets[b].hh_head, Members(b, n, InTable), hh_next, hh_prev)
    BY <1>1, <1>2, <1>3, <1>7 DEF Moved
  <2>5. fresh' \in [0 .. (2 * n - 1) -> Bucket]
    BY <1>1, <1>3, <1>7 DEF Moved
  <2> QED
    BY <1>1, <1>3, <1>4, <1>5, <1>10, <1>11, <1>12, <2>1, <2>3, <2>4, <2>5 DEF Moved, chains
<1>14. Moving'
  BY <1>1, <1>4, <1>13 DEF Inv, Moving
<1>15. Chained' /\ Searching' /\ Bounded'
  BY <1>1 DEF Chained, Searching, Bounded
<1>16. Agreed'
  BY <1>1, <1>4 DEF Inv, Agreed
<1> QED
  BY <1>4, <1>6, <1>14, <1>15, <1>16 DEF Inv

LEMMA ExpandMoveInv ==
    ASSUME Inv, ExpandMove
    PROVE  Inv'
<1>1. /\ pc = "move" /\ pc' = "move" /\ thh # NULL /\ bkt_i' = bkt_i /\ thh' = hh_next[thh]
      /\ UNCHANGED <<list, value, call, out, store>>
  BY DEF ExpandMove
<1>2. /\ head # NULL /\ tbl \in Table /\ bkt_i \in Nat
      /\ tbl.buckets \in [0 .. (tbl.num_buckets - 1) -> Bucket]
  BY <1>1 DEF Inv, Typed
<1>3. PICK n \in Nat \ {0} : n = tbl.num_buckets
  BY <1>2, TableFields
<1>4. PICK i \in Nat \ {0} : i = tbl.ideal_chain_maxlen
  BY <1>1, <1>2, TableFields DEF Inv, Moving
<1>5. PICK M \in SUBSET InTable : Moved(M)
  BY <1>1 DEF Inv, Moving
<1>6. InTable' = InTable
  BY <1>1 DEF InTable
<1>7. PICK R : R = Members(bkt_i, n, InTable) \ M
  OBVIOUS
<1>8. R \subseteq InTable /\ R \subseteq Key /\ Rest(thh, R, hh_next, hh_prev)
  BY <1>3, <1>5, <1>7, InTableKeys DEF Moved, Members
<1>9. PICK x : x = thh
  OBVIOUS
<1>10. /\ x \in R /\ x \in Key /\ x \in InTable /\ x \notin M /\ HASH_TO_BKT(Hash[x], n) = bkt_i
       /\ Rest(hh_next[x], R \ {x}, hh_next, hh_prev)
  <2>1. x \in R /\ Rest(hh_next[x], R \ {x}, hh_next, hh_prev)
    BY <1>1, <1>8, <1>9, RestNext
  <2> QED
    BY <1>7, <1>8, <2>1 DEF Members
<1>11. PICK b \in 0 .. (2 * n - 1) : b = NewBkt(x)
  <2>1. 2 * n \in Nat \ {0} /\ n * 2 = 2 * n
    OBVIOUS
  <2> QED
    BY <1>3, <1>10, <2>1, BktNumber DEF NewBkt
<1>12. HASH_TO_BKT(Hash[x], 2 * n) = b
  <2>1. n * 2 = 2 * n
    OBVIOUS
  <2> QED
    BY <1>3, <1>11, <2>1 DEF NewBkt
<1>13. /\ fresh \in [0 .. (2 * n - 1) -> Bucket]
       /\ \A d \in 0 .. (2 * n - 1) : Holds(fresh[d], Members(d, 2 * n, M)) /\ Ideal(fresh[d], i)
  BY <1>3, <1>4, <1>5 DEF Moved
<1>14. PICK h, c0, m : h = fresh[b].hh_head /\ c0 = fresh[b].count /\ m = fresh[b].expand_mult
  OBVIOUS
<1>15. h \in Ptr /\ c0 \in Nat /\ m \in Nat
  BY <1>13, <1>14, BucketFields
<1>16. /\ Chain(h, Members(b, 2 * n, M), hh_next, hh_prev)
       /\ c0 = Cardinality(Members(b, 2 * n, M))
       /\ c0 <= (m + 1) * i
  BY <1>13, <1>14 DEF Holds, Ideal
<1>17. h \in Members(b, 2 * n, M) \cup {NULL} /\ h # x
  <2>1. h \in Members(b, 2 * n, M) \cup {NULL}
    BY <1>16 DEF Chain, Rest
  <2>2. x # NULL
    BY <1>10, HashAssumption
  <2> QED
    BY <1>10, <2>1, <2>2 DEF Members
<1>18. PICK g : g = m + (IF c0 + 1 > i /\ c0 + 1 > m * i THEN 1 ELSE 0)
  OBVIOUS
<1>19. g \in Nat /\ c0 + 1 <= (g + 1) * i
  BY <1>15, <1>16, <1>18, MultKeepsUp
<1>20. /\ hh_next' = [hh_next EXCEPT ![x] = h]
       /\ hh_prev' = [Assign(hh_prev, h, x) EXCEPT ![x] = NULL]
       /\ fresh' = [fresh EXCEPT ![b] = [hh_head |-> x, count |-> c0 + 1, expand_mult |-> g]]
       /\ tbl' = [tbl EXCEPT !.nonideal_items = IF c0 + 1 > i THEN @ + 1 ELSE @]
  BY <1>4, <1>9, <1>11, <1>13, <1>14, <1>18 DEF ExpandMove, Grown
<1>21. /\ hh_next' \in [Key -> Ptr \cup {Freed}] /\ hh_prev' \in [Key -> Ptr \cup {Freed}]
       /\ hh_next'[x] = h /\ hh_prev'[x] = NULL
       /\ h # NULL => hh_prev'[h] = x
       /\ \A j \in Key : j # x => hh_next'[j] = hh_next[j]
       /\ \A j \in Key : j # x /\ j # h => hh_prev'[j] = hh_prev[j]
  BY <1>10, <1>15, <1>17, <1>20, FrontLinks DEF Inv
<1>22. /\ tbl' \in Table /\ tbl'.num_buckets = n /\ tbl'.buckets = tbl.buckets
       /\ tbl'.log2_num_buckets = tbl.log2_num_buckets /\ tbl'.tail = tbl.tail
       /\ tbl'.num_items = tbl.num_items /\ tbl'.ideal_chain_maxlen = i
  <2>0. PICK q : q = IF c0 + 1 > i THEN tbl.nonideal_items + 1 ELSE tbl.nonideal_items
    OBVIOUS
  <2>1. q \in Nat /\ tbl' = [tbl EXCEPT !.nonideal_items = q]
    <3>1. tbl.nonideal_items \in Nat
      BY <1>2, TableFields
    <3> QED
      BY <1>20, <2>0, <3>1
  <2> QED
    BY <1>2, <1>3, <1>4, <2>1 DEF Table
<1>23. thh' \in Ptr
  BY <1>8, <1>9, <1>1, <1>10 DEF Rest, Ptr
<1>24. head' = head
  BY <1>1 DEF list
<1>25. Typed'
  BY <1>1, <1>2, <1>3, <1>21, <1>22, <1>23 DEF Inv, Typed, list
<1>26. Listed'
  BY <1>1, <1>2, <1>6, <1>22 DEF Inv, Listed, list
<1>27. Chained' /\ Searching' /\ Bounded'
  BY <1>1 DEF Chained, Searching, Bounded
<1>28. Agreed'
  BY <1>1, <1>6 DEF Inv, Agreed
<1> DEFINE L == M \cup {x}
<1>29. \A d, p : Members(d, p, InTable)' = Members(d, p, InTable) /\ Members(d, p, L)' = Members(d, p, L)
  BY <1>6 DEF Members
<1>30. fresh' \in [0 .. (2 * n - 1) -> Bucket]
  BY <1>10, <1>13, <1>15, <1>19, <1>20 DEF Bucket, Ptr
<1>31. ASSUME NEW d \in 0 .. (2 * n - 1)
       PROVE  Holds(fresh[d], Members(d, 2 * n, L))' /\ Ideal(fresh'[d], i)
  <2>1. CASE d = b
    <3>1. Members(b, 2 * n, L) = Members(b, 2 * n, M) \cup {x}
      BY <1>12 DEF Members
    <3>2. Members(b, 2 * n, M) \subseteq Key /\ x \notin Members(b, 2 * n, M)
      BY <1>10, InTableKeys DEF Members
    <3>3. Chain(x, Members(b, 2 * n, M) \cup {x}, hh_next', hh_prev')
      <4>1. \A j \in Members(b, 2 * n, M) :
              hh_next'[j] = hh_next[j] /\ (j # h => hh_prev'[j] = hh_prev[j])
        BY <1>10, <1>21, <3>2
      <4> QED
        BY <1>10, <1>16, <1>21, <3>2, <4>1, Prepended
    <3>4. Cardinality(Members(b, 2 * n, M) \cup {x}) = c0 + 1
      <4>1. IsFiniteSet(Members(b, 2 * n, M))
        BY InTableKeys DEF Members
      <4> QED
        BY <1>16, <3>2, <4>1, FS_AddElement
    <3>5. fresh'[d].hh_head = x /\ fresh'[d].count = c0 + 1 /\ fresh'[d].expand_mult = g
      BY <1>13, <1>20, <2>1
    <3> QED
      BY <1>19, <1>29, <2>1, <3>1, <3>3, <3>4, <3>5 DEF Holds, Ideal
  <2>2. CASE d # b
    <3>1. Members(d, 2 * n, L) = Members(d, 2 * n, M)
      BY <1>12, <2>2 DEF Members
    <3>2. fresh'[d] = fresh[d]
      BY <1>13, <1>20, <2>2
    <3>3. ASSUME NEW k \in Members(d, 2 * n, M)
          PROVE  hh_next'[k] = hh_next[k] /\ hh_prev'[k] = hh_prev[k]
      <4>1. k \in M /\ k \in Key /\ k # x /\ HASH_TO_BKT(Hash[k], 2 * n) = d
        BY <1>10, InTableKeys DEF Members
      <4>2. k # h
        <5>1. k # NULL
          BY <4>1, HashAssumption
        <5> QED
          BY <1>17, <2>2, <4>1, <5>1 DEF Members
      <4> QED
        BY <1>21, <4>1, <4>2
    <3>4. Chain(fresh[d].hh_head, Members(d, 2 * n, M), hh_next, hh_prev)
      BY <1>13 DEF Holds
    <3>5. NULL \notin Members(d, 2 * n, M)
      BY InTableKeys DEF Members
    <3>6. Chain(fresh[d].hh_head, Members(d, 2 * n, M), hh_next', hh_prev')
      BY <3>3, <3>4, <3>5, ChainFrame
    <3> QED
      BY <1>13, <1>29, <3>1, <3>2, <3>6 DEF Holds
  <2> QED
    BY <2>1, <2>2
<1>32. Rest(thh', Members(bkt_i', n, InTable) \ L, hh_next', hh_prev')
  <2>1. Members(bkt_i', n, InTable) \ L = R \ {x}
    BY <1>1, <1>7
  <2>2. ASSUME NEW k \in R \ {x} PROVE hh_next'[k] = hh_next[k] /\ hh_prev'[k] = hh_prev[k]
    <3>1. k \in Key /\ k # x /\ k \notin M /\ k # NULL
      BY <1>7, <1>8, HashAssumption
    <3>2. k # h
      BY <1>17, <3>1 DEF Members
    <3> QED
      BY <1>21, <3>1, <3>2
  <2>3. NULL \notin R \ {x}
    BY <1>8, HashAssumption
  <2>4. Rest(hh_next[x], R \ {x}, hh_next', hh_prev')
    BY <1>10, <2>2, <2>3, RestFrame
  <2> QED
    BY <1>1, <1>9, <2>1, <2>4
<1>33. ASSUME NEW d \in (bkt_i' + 1) .. (n - 1)
       PROVE  Chain(tbl'.buckets[d].hh_head, Members(d, n, InTable), hh_next', hh_prev')
  <2>1. Chain(tbl.buckets[d].hh_head, Members(d, n, InTable), hh_next, hh_prev)
    BY <1>1, <1>3, <1>5 DEF Moved
  <2>2. ASSUME NEW k \in Members(d, n, InTable)
        PROVE  hh_next'[k] = hh_next[k] /\ hh_prev'[k] = hh_prev[k]
    <3>1. k \in Key /\ k # NULL /\ HASH_TO_BKT(Hash[k], n) = d
      BY InTableKeys, HashAssumption DEF Members
    <3>2. bkt_i < d /\ d \in Nat
      BY <1>1, <1>2
    <3>3. k # x
      BY <1>10, <3>1, <3>2
    <3>4. k \notin M
      BY <1>2, <1>3, <1>5, <3>1, <3>2 DEF Moved
    <3>5. k # h
      BY <1>17, <3>1, <3>4 DEF Members
    <3> QED
      BY <1>21, <3>1, <3>3, <3>5
  <2>3. NULL \notin Members(d, n, InTable)
    BY InTableKeys DEF Members
  <2> QED
    BY <1>22, <2>1, <2>2, <2>3, ChainFrame
<1>34. Moved(L)'
  <2>1. bkt_i' \in 0 .. (n - 1)
    BY <1>1, <1>3, <1>5 DEF Moved
  <2>2. \A k \in InTable : HASH_TO_BKT(Hash[k], n) < bkt_i' => k \in L
    BY <1>1, <1>3, <1>5 DEF Moved
  <2>3. \A k \in L : HASH_TO_BKT(Hash[k], n) <= bkt_i'
    BY <1>1, <1>2, <1>3, <1>5, <1>10 DEF Moved
  <2> HIDE DEF L
  <2> QED
    BY <1>6, <1>22, <1>29, <1>30, <1>31, <1>32, <1>33, <2>1, <2>2, <2>3 DEF Moved
<1>35. Moving'
  <2>1. L \in SUBSET InTable'
    BY <1>6, <1>10
  <2> QED
    BY <1>22, <1>34, <2>1 DEF Moving
<1> QED
  BY <1>25, <1>26, <1>27, <1>28, <1>35 DEF Inv

LEMMA ExpandEndInv ==
    ASSUME Inv, ExpandEnd
    PROVE  Inv'
<1>1. /\ pc = "move" /\ pc' = "idle" /\ thh = NULL /\ bkt_i + 1 = tbl.num_buckets
      /\ bkt_i' = 0 /\ thh' = thh /\ call' = NULL /\ out' = NULL
      /\ UNCHANGED <<list, chains, value, store>>
  BY DEF ExpandEnd, Return
<1>2. /\ head # NULL /\ tbl \in Table /\ bkt_i \in Nat /\ tbl.num_buckets = TwoTo[tbl.log2_num_buckets]
      /\ tbl.buckets \in [0 .. (tbl.num_buckets - 1) -> Bucket]
  BY <1>1 DEF Inv, Typed
<1>3. PICK n \in Nat \ {0} : n = tbl.num_buckets
  BY <1>2, TableFields
<1>4. PICK M \in SUBSET InTable : Moved(M)
  BY <1>1 DEF Inv, Moving
<1>5. InTable' = InTable
  BY <1>1 DEF InTable
<1>6. M = InTable
  <2>1. Members(bkt_i, n, InTable) \ M = {}
    <3>1. Rest(NULL, Members(bkt_i, n, InTable) \ M, hh_next, hh_prev)
      BY <1>1, <1>3, <1>4 DEF Moved
    <3>2. Members(bkt_i, n, InTable) \ M \subseteq Key
      BY InTableKeys DEF Members
    <3> QED
      BY <3>1, <3>2, NoHead
  <2>2. ASSUME NEW k \in InTable PROVE k \in M
    <3>1. HASH_TO_BKT(Hash[k], n) \in 0 .. (n - 1)
      BY InTableKeys, BktNumber
    <3>2. HASH_TO_BKT(Hash[k], n) < bkt_i \/ HASH_TO_BKT(Hash[k], n) = bkt_i
      BY <1>1, <1>2, <1>3, <3>1
    <3>3. CASE HASH_TO_BKT(Hash[k], n) < bkt_i
      BY <1>3, <1>4, <3>3 DEF Moved
    <3>4. CASE HASH_TO_BKT(Hash[k], n) = bkt_i
      BY <2>1, <3>4 DEF Members
    <3> QED
      BY <3>2, <3>3, <3>4
  <2> QED
    BY <2>2
<1>7. /\ fresh \in [0 .. (2 * n - 1) -> Bucket]
      /\ \A d \in 0 .. (2 * n - 1) : /\ Holds(fresh[d], Members(d, 2 * n, InTable))
                                     /\ Ideal(fresh[d], tbl.ideal_chain_maxlen)
  BY <1>3, <1>4, <1>6 DEF Moved
<1>8. /\ tbl' \in Table /\ tbl'.num_buckets = 2 * n /\ tbl'.buckets = fresh
      /\ tbl'.log2_num_buckets = tbl.log2_num_buckets + 1 /\ tbl'.tail = tbl.tail
      /\ tbl'.num_items = tbl.num_items /\ tbl'.ideal_chain_maxlen = tbl.ideal_chain_maxlen
  <2>1. PICK q : q = IF tbl.nonideal_items > tbl.num_items \div 2 THEN tbl.ineff_expands + 1 ELSE 0
    OBVIOUS
  <2>2. q \in Nat /\ tbl.log2_num_buckets \in Nat /\ tbl.noexpand \in BOOLEAN
    BY <1>2, <2>1, TableFields
  <2>3. PICK e : e = (tbl.noexpand \/ q > 1)
    OBVIOUS
  <2>4. e \in BOOLEAN
    BY <2>3
  <2>5. fresh \in UNION {[0 .. (p - 1) -> Bucket] : p \in Nat}
    <3>1. 2 * n \in Nat
      OBVIOUS
    <3> QED
      BY <1>7, <3>1
  <2>6. tbl' = [tbl EXCEPT !.buckets = fresh, !.num_buckets = n * 2,
                           !.log2_num_buckets = tbl.log2_num_buckets + 1,
                           !.ineff_expands = q, !.noexpand = e]
    BY <1>3, <2>1, <2>3 DEF ExpandEnd
  <2>7. n * 2 = 2 * n /\ n * 2 \in Nat \ {0}
    OBVIOUS
  <2>8. tbl.log2_num_buckets + 1 \in Nat
    BY <2>2
  <2> QED
    BY <1>2, <1>3, <2>2, <2>4, <2>5, <2>6, <2>7, <2>8 DEF Table
<1>9. tbl'.num_buckets = TwoTo[tbl'.log2_num_buckets]
  BY <1>2, <1>3, <1>8, TableFields, TwoToIs
<1>10. Typed'
  BY <1>1, <1>7, <1>8, <1>9 DEF Inv, Typed, list, chains, Ptr
<1>11. Listed'
  BY <1>1, <1>2, <1>5, <1>8 DEF Inv, Listed, list
<1>12. Chained'
  <2>1. \A d : Members(d, 2 * n, InTable)' = Members(d, 2 * n, InTable)
    BY <1>5 DEF Members
  <2> QED
    BY <1>1, <1>5, <1>7, <1>8, <2>1 DEF Chained, Holds, chains
<1>13. Searching' /\ Moving'
  BY <1>1 DEF Searching, Moving
<1>14. Bounded'
  BY <1>7, <1>8 DEF Bounded
<1>15. Agreed'
  BY <1>1, <1>5 DEF Inv, Agreed
<1> QED
  BY <1>10, <1>11, <1>12, <1>13, <1>14, <1>15 DEF Inv

-----------------------------------------------------------------------------
(* HASH_DELETE                                                             *)

\* The values of a link of the entries.
Links == [Key -> Ptr \cup {Freed}]

\* The assignments of HASH_DELETE_HH and HASH_DEL_IN_BKT to the links f and g.
Unlink(d, f, g, l, b) ==
    /\ l = [Assign(f, g[d], f[d]) EXCEPT ![d] = Freed]
    /\ b = [Assign(g, f[d], g[d]) EXCEPT ![d] = Freed]

\* The list from x on is that of R without d: the neighbours of d are linked and no
\* other entry is touched.
LeftOut(x, R, d, f, g, l, b) ==
    /\ l \in Links /\ b \in Links
    /\ x = d => Chain(f[d], R \ {d}, l, b)
    /\ x # d => Chain(x, R \ {d}, l, b)
    /\ x = d => g[d] = NULL
    /\ g[d] = NULL => x = d
    /\ f[d] \in (R \ {d}) \cup {NULL} /\ g[d] \in (R \ {d}) \cup {NULL}
    /\ g[d] # NULL => f[g[d]] = d
    /\ \A j \in Key \ {d} : l[j] = IF j = g[d] THEN f[d] ELSE f[j]
    /\ \A j \in Key \ R : l[j] = f[j] /\ b[j] = g[j]

LEMMA Unlinked ==
    ASSUME NEW R, R \subseteq Key, NEW x, NEW d \in R,
           NEW f \in Links, NEW g \in Links,
           Chain(x, R, f, g), NEW l, NEW b, Unlink(d, f, g, l, b)
    PROVE  LeftOut(x, R, d, f, g, l, b)
<1> USE DEF Links
<1>0. d # NULL /\ NULL \notin R /\ NULL \notin Key /\ d \in Key
  BY HashAssumption
<1>1. /\ x \in R \cup {NULL}
      /\ x # NULL => g[x] = NULL
      /\ \A j \in R : /\ f[j] \in R \cup {NULL}
                      /\ f[j] # NULL => g[f[j]] = j
                      /\ j # x => g[j] \in R /\ f[g[j]] = j
  BY DEF Chain, Rest
<1>2. PICK rank \in [R -> Nat] : \A j \in R : f[j] # NULL => rank[j] < rank[f[j]]
  BY DEF Chain, Rest, Ordered
<1>3. f[d] # d /\ g[d] # d
  BY <1>0, <1>1, <1>2
<1>4. f[d] \in (R \ {d}) \cup {NULL} /\ g[d] \in (R \ {d}) \cup {NULL}
  BY <1>0, <1>1, <1>3
<1>5. g[d] # NULL => f[g[d]] = d
  BY <1>0, <1>1
<1>6. PICK p, q : p = g[d] /\ q = f[d]
  OBVIOUS
<1>7. p \in Ptr /\ q \in Ptr /\ (p # NULL => p \in Key) /\ (q # NULL => q \in Key) /\ p # d /\ q # d
  BY <1>3, <1>4, <1>6 DEF Ptr
<1>8. PICK u, v : u = Assign(f, p, q) /\ v = Assign(g, q, p)
  OBVIOUS
<1>9. u \in Links /\ \A j \in Key : u[j] = IF j = p THEN q ELSE f[j]
  <2>1. CASE p = NULL
    BY <1>0, <1>8, <2>1 DEF Assign
  <2>2. CASE p # NULL
    BY <1>7, <1>8, <2>2 DEF Assign
  <2> QED
    BY <2>1, <2>2
<1>10. v \in Links /\ \A j \in Key : v[j] = IF j = q THEN p ELSE g[j]
  <2>1. CASE q = NULL
    BY <1>0, <1>8, <2>1 DEF Assign
  <2>2. CASE q # NULL
    BY <1>7, <1>8, <2>2 DEF Assign
  <2> QED
    BY <2>1, <2>2
<1>11. l = [u EXCEPT ![d] = Freed] /\ b = [v EXCEPT ![d] = Freed]
  BY <1>6, <1>8 DEF Unlink
<1>12. l \in Links /\ b \in Links
  BY <1>9, <1>10, <1>11
<1>13. \A j \in Key \ {d} : /\ l[j] = IF j = g[d] THEN f[d] ELSE f[j]
                            /\ b[j] = IF j = f[d] THEN g[d] ELSE g[j]
  BY <1>6, <1>9, <1>10, <1>11
<1>14. Bypassed(R, d, f, g, l, b)
  BY <1>13 DEF Bypassed
<1>15. /\ x = d => Chain(f[d], R \ {d}, l, b)
       /\ x # d => Chain(x, R \ {d}, l, b)
       /\ x = d => g[d] = NULL
       /\ g[d] = NULL => x = d
  BY <1>14, Removed
<1>16. \A j \in Key \ R : l[j] = f[j] /\ b[j] = g[j]
  BY <1>0, <1>4, <1>13
<1> QED
  BY <1>4, <1>5, <1>12, <1>13, <1>15, <1>16 DEF LeftOut

\* The entry that DeleteEntry removes, and what becomes of the list.
LEMMA DeleteList ==
    ASSUME Inv, DeleteEntry, NEW d, d = out
    PROVE  /\ d \in Key /\ d \in InTable /\ d = call.key /\ head # NULL
           /\ InTable' = InTable \ {d}
           /\ value' \in [Key -> Val \cup {Freed}] /\ \A k \in InTable \ {d} : value'[k] = value[k]
           /\ next' \in Links /\ prev' \in Links
           /\ Chain(head', InTable \ {d}, next', prev')
           /\ head' # NULL =>
                /\ LeaveList(d)
                /\ (IF tbl.tail = d THEN prev[d] ELSE tbl.tail) \in InTable \ {d}
                /\ next'[IF tbl.tail = d THEN prev[d] ELSE tbl.tail] = NULL
<1>1. Found
  BY DEF DeleteEntry
<1>2. d = call.key /\ d \in InTable
  BY <1>1, SearchedFound
<1>3. d \in Key /\ d # NULL /\ InTable \subseteq Key /\ NULL \notin InTable
  BY <1>2, InTableKeys
<1>4. head # NULL
  BY <1>2, SomeTable DEF Inv
<1>5. value \in [Key -> Val \cup {Freed}] /\ value' = [value EXCEPT ![d] = Freed]
  BY DEF Inv, Typed, DeleteEntry
<1>6. InTable' = InTable \ {d}
  BY <1>5 DEF InTable
<1>7. next \in Links /\ prev \in Links /\ Chain(head, InTable, next, prev)
  BY DEF Inv, Typed, Listed, Links
<1>8. /\ Unlink(d, next, prev, next', prev')
      /\ head' = IF prev[d] = NULL THEN next[d] ELSE head
      /\ (prev[d] = NULL /\ next[d] = NULL) \/ LeaveList(d)
  <2>1. CASE prev[d] = NULL /\ next[d] = NULL
    <3>1. FreeTable(d)
      BY <2>1 DEF DeleteEntry
    <3>2. Assign(next, prev[d], next[d]) = next /\ Assign(prev, next[d], prev[d]) = prev
      BY <2>1 DEF Assign
    <3> QED
      BY <2>1, <3>1, <3>2 DEF FreeTable, Unlink
  <2>2. CASE ~(prev[d] = NULL /\ next[d] = NULL)
    <3>1. LeaveList(d)
      BY <2>2 DEF DeleteEntry
    <3> QED
      BY <3>1 DEF LeaveList, Unlink
  <2> QED
    BY <2>1, <2>2
<1>9. /\ next' \in Links /\ prev' \in Links
      /\ head = d => Chain(next[d], InTable \ {d}, next', prev')
      /\ head # d => Chain(head, InTable \ {d}, next', prev')
      /\ head = d => prev[d] = NULL
      /\ prev[d] = NULL => head = d
      /\ prev[d] \in (InTable \ {d}) \cup {NULL}
      /\ prev[d] # NULL => next[prev[d]] = d
      /\ \A j \in Key \ {d} : next'[j] = IF j = prev[d] THEN next[d] ELSE next[j]
  <2>1. LeftOut(head, InTable, d, next, prev, next', prev')
    BY <1>2, <1>3, <1>7, <1>8, Unlinked
  <2> QED
    BY <2>1 DEF LeftOut
<1>10. Chain(head', InTable \ {d}, next', prev')
  BY <1>8, <1>9
<1>11. ASSUME head' # NULL
       PROVE  /\ LeaveList(d)
              /\ (IF tbl.tail = d THEN prev[d] ELSE tbl.tail) \in InTable \ {d}
              /\ next'[IF tbl.tail = d THEN prev[d] ELSE tbl.tail] = NULL
  <2>1. LeaveList(d)
    BY <1>8, <1>11
  <2>2. tbl.tail \in InTable /\ next[tbl.tail] = NULL
    BY <1>4 DEF Inv, Listed
  <2>3. CASE tbl.tail = d
    <3>1. next[d] = NULL /\ prev[d] # NULL
      BY <1>8, <1>11, <2>2, <2>3
    <3>2. prev[d] \in InTable \ {d} /\ prev[d] \in Key \ {d}
      BY <1>3, <1>9, <3>1
    <3> QED
      BY <1>9, <2>1, <2>3, <3>1, <3>2
  <2>4. CASE tbl.tail # d
    <3>1. tbl.tail # prev[d]
      BY <1>3, <1>9, <2>2
    <3>2. tbl.tail \in InTable \ {d} /\ tbl.tail \in Key \ {d}
      BY <1>3, <2>2, <2>4
    <3> QED
      BY <1>9, <2>1, <2>2, <2>4, <3>1, <3>2
  <2> QED
    BY <2>3, <2>4
<1>12. value' \in [Key -> Val \cup {Freed}] /\ \A k \in InTable \ {d} : value'[k] = value[k]
  BY <1>3, <1>5
<1> QED
  BY <1>2, <1>3, <1>4, <1>6, <1>9, <1>10, <1>11, <1>12

LEMMA DeleteEntryInv ==
    ASSUME Inv, DeleteEntry
    PROVE  Inv'
<1>1. PICK d : d = out
  OBVIOUS
<1>2. /\ d \in Key /\ d \in InTable /\ d = call.key /\ head # NULL
      /\ InTable' = InTable \ {d}
      /\ value' \in [Key -> Val \cup {Freed}] /\ \A k \in InTable \ {d} : value'[k] = value[k]
      /\ next' \in Links /\ prev' \in Links
      /\ Chain(head', InTable \ {d}, next', prev')
      /\ head' # NULL =>
           /\ LeaveList(d)
           /\ (IF tbl.tail = d THEN prev[d] ELSE tbl.tail) \in InTable \ {d}
           /\ next'[IF tbl.tail = d THEN prev[d] ELSE tbl.tail] = NULL
  BY <1>1, DeleteList
<1>3. /\ pc = "find" /\ call \in Calls /\ call.op \in {"set", "delete"} /\ UNCHANGED <<moving>>
      /\ Unlink(d, hh_next, hh_prev, hh_next', hh_prev')
      /\ out' = NULL
  BY <1>1, CallFields DEF Inv, Typed, DeleteEntry, Found, Return, Unlink
<1>4. \/ /\ call.op = "set" /\ pc' = "find" /\ call' = call /\ store' = store
      \/ /\ call.op = "delete" /\ pc' = "idle" /\ call' = NULL /\ store' = [store EXCEPT ![d] = NULL]
  BY <1>2, <1>3 DEF DeleteEntry, Return
<1>5. /\ tbl \in Table /\ tbl.num_buckets = TwoTo[tbl.log2_num_buckets]
      /\ tbl.buckets \in [0 .. (tbl.num_buckets - 1) -> Bucket]
  BY <1>2 DEF Inv, Typed
<1>6. PICK n \in Nat \ {0} : n = tbl.num_buckets
  BY <1>5, TableFields
<1>7. PICK b \in 0 .. (n - 1) : b = HASH_TO_BKT(Hash[d], n)
  BY <1>2, BktNumber
<1>8. PICK h, c, m : h = tbl.buckets[b].hh_head /\ c = tbl.buckets[b].count /\ m = tbl.buckets[b].expand_mult
  OBVIOUS
<1>9. \A e \in 0 .. (n - 1) : Holds(tbl.buckets[e], Members(e, n, InTable)) /\ tbl.buckets[e] \in Bucket
  BY <1>2, <1>3, <1>5, <1>6 DEF Inv, Chained
<1>10. h \in Ptr /\ c \in Nat /\ m \in Nat
  BY <1>8, <1>9, BucketFields
<1>11. PICK R : R = Members(b, n, InTable)
  OBVIOUS
<1>12. /\ R \subseteq Key /\ R \subseteq InTable /\ IsFiniteSet(R) /\ d \in R
       /\ Chain(h, R, hh_next, hh_prev) /\ c = Cardinality(R)
  BY <1>2, <1>7, <1>8, <1>9, <1>11, InTableKeys DEF Members, Holds
<1>13. hh_next \in Links /\ hh_prev \in Links
  BY DEF Inv, Typed, Links
<1>14. PICK y : y = IF h = d THEN hh_next[d] ELSE h
  OBVIOUS
<1>15. /\ hh_next' \in Links /\ hh_prev' \in Links
       /\ Chain(y, R \ {d}, hh_next', hh_prev')
       /\ \A j \in Key \ R : hh_next'[j] = hh_next[j] /\ hh_prev'[j] = hh_prev[j]
  <2>1. LeftOut(h, R, d, hh_next, hh_prev, hh_next', hh_prev')
    BY <1>3, <1>12, <1>13, Unlinked
  <2> QED
    BY <1>14, <2>1 DEF LeftOut
<1>16. y \in Ptr
  BY <1>12, <1>15 DEF Chain, Rest, Ptr
<1>17. c - 1 \in Nat /\ Cardinality(R \ {d}) = c - 1
  <2>1. IsFiniteSet(R \ {d}) /\ Cardinality(R \ {d}) = c - 1
    BY <1>12, FS_RemoveElement
  <2>2. Cardinality(R \ {d}) \in Nat
    BY <2>1, FS_CardinalityType
  <2> QED
    BY <2>1, <2>2
<1>18. PICK t : t = IF tbl.tail = d THEN prev[d] ELSE tbl.tail
  OBVIOUS
<1>19. PICK B : B = [tbl.buckets EXCEPT ![b] = [hh_head |-> y, count |-> c - 1, expand_mult |-> m]]
  OBVIOUS
<1>20. ASSUME head' # NULL
       PROVE  /\ t \in InTable \ {d} /\ t \in Key /\ next'[t] = NULL
              /\ tbl' = [tbl EXCEPT !.tail = t, !.buckets = B, !.num_items = tbl.num_items - 1]
              /\ tbl.num_items - 1 \in Nat /\ tbl.num_items - 1 = Cardinality(InTable \ {d})
  <2>1. t \in InTable \ {d} /\ t \in Key /\ next'[t] = NULL
    BY <1>2, <1>18, <1>20, InTableKeys
  <2>2. tbl' = [tbl EXCEPT !.tail = t, !.buckets = B, !.num_items = tbl.num_items - 1]
    <3>1. tbl' = [tbl EXCEPT !.tail = t, !.buckets[b] = HASH_DEL_IN_BKT(@, d), !.num_items = tbl.num_items - 1]
      BY <1>2, <1>5, <1>6, <1>7, <1>18, <1>20 DEF LeaveList, Table
    <3>2. HASH_DEL_IN_BKT(tbl.buckets[b], d) = [hh_head |-> y, count |-> c - 1, expand_mult |-> m]
      <4>1. PICK k \in Bucket : k = tbl.buckets[b]
        BY <1>9
      <4>2. k.hh_head = h /\ k.count = c /\ k.expand_mult = m
        BY <1>8, <4>1
      <4>3. HASH_DEL_IN_BKT(k, d) = [k EXCEPT !.count = c - 1, !.hh_head = y]
        BY <1>14, <4>2 DEF HASH_DEL_IN_BKT, Bucket
      <4> QED
        BY <4>1, <4>2, <4>3 DEF Bucket
    <3> QED
      BY <1>5, <1>19, <3>1, <3>2 DEF Table
  <2>3. tbl.num_items - 1 \in Nat /\ tbl.num_items - 1 = Cardinality(InTable \ {d})
    <3>1. IsFiniteSet(InTable) /\ tbl.num_items = Cardinality(InTable)
      BY <1>2, InTableKeys DEF Inv, Listed
    <3>2. IsFiniteSet(InTable \ {d}) /\ Cardinality(InTable \ {d}) = tbl.num_items - 1
      BY <1>2, <3>1, FS_RemoveElement
    <3>3. Cardinality(InTable \ {d}) \in Nat
      BY <3>2, FS_CardinalityType
    <3> QED
      BY <3>2, <3>3
  <2> QED
    BY <2>1, <2>2, <2>3
<1>21. B \in [0 .. (n - 1) -> Bucket]
  BY <1>5, <1>6, <1>10, <1>16, <1>17, <1>19 DEF Bucket
<1>22. ASSUME head' # NULL
       PROVE  /\ tbl' \in Table /\ tbl'.num_buckets = n /\ tbl'.buckets = B
              /\ tbl'.log2_num_buckets = tbl.log2_num_buckets /\ tbl'.tail = t
              /\ tbl'.num_items = tbl.num_items - 1 /\ tbl'.ideal_chain_maxlen = tbl.ideal_chain_maxlen
              /\ tbl'.noexpand = tbl.noexpand
  <2>1. B \in UNION {[0 .. (p - 1) -> Bucket] : p \in Nat}
    BY <1>21
  <2> QED
    BY <1>5, <1>6, <1>20, <1>22, <2>1 DEF Table
<1>23. Typed'
  <2>1. head' \in Ptr
    BY <1>2, InTableKeys DEF Chain, Rest, Ptr
  <2>2. head' # NULL => /\ tbl' \in Table /\ tbl'.num_buckets = TwoTo[tbl'.log2_num_buckets]
                        /\ tbl'.buckets \in [0 .. (tbl'.num_buckets - 1) -> Bucket]
    BY <1>5, <1>6, <1>21, <1>22
  <2>3. store' \in [Key -> Val \cup {NULL}]
    BY <1>4 DEF Inv, Typed
  <2>4. pc' \in {"idle", "find"} /\ (call' = NULL \/ call' \in Calls) /\ (pc' # "idle" => call' \in Calls)
    BY <1>3, <1>4
  <2>5. out' \in Ptr /\ thh' \in Ptr /\ bkt_i' \in Nat
    BY <1>3 DEF Inv, Typed, moving, Ptr
  <2> QED
    BY <1>2, <1>15, <2>1, <2>2, <2>3, <2>4, <2>5 DEF Typed, Links
<1>24. Listed'
  BY <1>2, <1>20, <1>22 DEF Listed
<1>25. \A e : Members(e, n, InTable)' = Members(e, n, InTable) \ {d}
  BY <1>2 DEF Members
<1>26. Chained'
  <2> SUFFICES ASSUME head' # NULL, NEW e \in 0 .. (n - 1)
               PROVE  /\ Chain(B[e].hh_head, Members(e, n, InTable) \ {d}, hh_next', hh_prev')
                      /\ B[e].count = Cardinality(Members(e, n, InTable) \ {d})
    BY <1>22, <1>25 DEF Chained, Holds
  <2>1. CASE e = b
    <3>1. B[e].hh_head = y /\ B[e].count = c - 1
      BY <1>5, <1>6, <1>19, <2>1
    <3> QED
      BY <1>11, <1>15, <1>17, <2>1, <3>1
  <2>2. CASE e # b
    <3>1. B[e] = tbl.buckets[e]
      BY <1>5, <1>6, <1>19, <2>2
    <3>2. PICK S : S = Members(e, n, InTable)
      OBVIOUS
    <3>3. Members(e, n, InTable) \ {d} = S
      BY <1>2, <1>7, <2>2, <3>2 DEF Members
    <3>4. Chain(tbl.buckets[e].hh_head, S, hh_next, hh_prev) /\ tbl.buckets[e].count = Cardinality(S)
      BY <1>9, <3>2 DEF Holds
    <3>5. NULL \notin S /\ \A j \in S : j \in Key \ R
      BY <1>11, <2>2, <3>2, InTableKeys DEF Members
    <3>6. \A j \in S : hh_next'[j] = hh_next[j] /\ hh_prev'[j] = hh_prev[j]
      BY <1>15, <3>5
    <3>7. Chain(tbl.buckets[e].hh_head, S, hh_next', hh_prev')
      BY <3>4, <3>5, <3>6, ChainFrame
    <3> QED
      BY <3>1, <3>3, <3>4, <3>7
  <2> QED
    BY <2>1, <2>2
<1>27. Searching'
  <2>1. Rest(NULL, {}, hh_next', hh_prev')
    BY <1>3, EmptyChain DEF Chain
  <2>2. pc' = "find" => call'.key = d
    BY <1>2, <1>4
  <2> QED
    BY <1>2, <1>3, <2>1, <2>2 DEF Searching
<1>28. Moving'
  BY <1>4 DEF Moving
<1>29. Bounded'
  <2> SUFFICES ASSUME head' # NULL, ~tbl'.noexpand, NEW e \in 0 .. (n - 1)
               PROVE  B[e].count < (B[e].expand_mult + 1) * Thresh \/ Ideal(B[e], tbl.ideal_chain_maxlen)
    BY <1>19, <1>22 DEF Bounded, Ideal
  <2>1. ~tbl.noexpand
    BY <1>22
  <2>2. \A a \in 0 .. (n - 1) : \/ tbl.buckets[a].count < (tbl.buckets[a].expand_mult + 1) * Thresh
                               \/ Ideal(tbl.buckets[a], tbl.ideal_chain_maxlen)
    BY <1>2, <1>3, <1>6, <2>1 DEF Inv, Bounded
  <2>3. CASE e = b
    <3>1. B[e].count = c - 1 /\ B[e].expand_mult = m
      BY <1>5, <1>6, <1>19, <2>3
    <3>2. c < (m + 1) * Thresh \/ c <= (m + 1) * tbl.ideal_chain_maxlen
      BY <1>8, <2>2 DEF Ideal
    <3>3. PICK p, q : p = (m + 1) * Thresh /\ q = (m + 1) * tbl.ideal_chain_maxlen
      OBVIOUS
    <3>4. p \in Nat /\ q \in Nat
      <4>1. Thresh \in Nat /\ tbl.ideal_chain_maxlen \in Nat /\ m + 1 \in Nat
        BY <1>5, <1>10, TableFields, HashAssumption
      <4> QED
        BY <3>3, <4>1
    <3> QED
      BY <1>10, <3>1, <3>2, <3>3, <3>4 DEF Ideal
  <2>4. CASE e # b
    <3>1. B[e] = tbl.buckets[e]
      BY <1>5, <1>6, <1>19, <2>4
    <3> QED
      BY <2>2, <3>1
  <2> QED
    BY <2>3, <2>4
<1>30. Agreed'
  <2> SUFFICES ASSUME NEW k \in Key
               PROVE  /\ k \in InTable \ {d} => store'[k] = value'[k]
                      /\ k \notin InTable \ {d} =>
                           store'[k] = NULL \/ (pc' = "find" /\ call'.op = "set" /\ call'.key = k)
    BY <1>2 DEF Agreed
  <2>1. store \in [Key -> Val \cup {NULL}]
    BY DEF Inv, Typed
  <2>2. /\ k \in InTable => store[k] = value[k]
        /\ k \notin InTable => store[k] = NULL
    BY <1>2 DEF Inv, Agreed
  <2>3. CASE k = d
    BY <1>2, <1>4, <2>1, <2>3
  <2>4. CASE k # d
    BY <1>2, <1>4, <2>1, <2>2, <2>4
  <2> QED
    BY <2>3, <2>4
<1> QED
  BY <1>23, <1>24, <1>26, <1>27, <1>28, <1>29, <1>30 DEF Inv

-----------------------------------------------------------------------------
(* HASH_ADD_KEYPTR                                                         *)

\* The table that is to be given the entry k: all of it holds but its tail.
Ready(t, k) ==
    /\ t \in Table /\ t.num_buckets = TwoTo[t.log2_num_buckets]
    /\ t.buckets \in [0 .. (t.num_buckets - 1) -> Bucket]
    /\ t.tail = k /\ t.num_items = Cardinality(InTable)
    /\ \A b \in 0 .. (t.num_buckets - 1) :
         /\ Holds(t.buckets[b], Members(b, t.num_buckets, InTable))
         /\ ~t.noexpand => \/ t.buckets[b].count < (t.buckets[b].expand_mult + 1) * Thresh
                           \/ Ideal(t.buckets[b], t.ideal_chain_maxlen)

\* HASH_MAKE_TABLE: all buckets are empty.
LEMMA MadeReady ==
    ASSUME InTable = {}, NEW k \in Key, NEW t, t = HASH_MAKE_TABLE(k)
    PROVE  Ready(t, k)
<1>1. PICK n \in Nat \ {0} : n = TwoTo[InitLog2]
  BY HashAssumption, TwoToIs
<1>2. PICK B : B = [b \in 0 .. (n - 1) |-> [hh_head |-> NULL, count |-> 0, expand_mult |-> 0]]
  OBVIOUS
<1>3. t = [buckets |-> B, num_buckets |-> n, log2_num_buckets |-> InitLog2,
           num_items |-> 0, tail |-> k, ideal_chain_maxlen |-> 0, nonideal_items |-> 0,
           ineff_expands |-> 0, noexpand |-> FALSE]
  <2>1. NewBuckets(TwoTo[InitLog2]) = B
    BY <1>1, <1>2 DEF NewBuckets
  <2>2. t = [ZeroTable EXCEPT !.buckets = B, !.num_buckets = n, !.log2_num_buckets = InitLog2, !.tail = k]
    BY <1>1, <2>1 DEF HASH_MAKE_TABLE
  <2> QED
    BY <2>2 DEF ZeroTable
<1>4. B \in [0 .. (n - 1) -> Bucket]
  BY <1>2 DEF Bucket, Ptr
<1>5. t \in Table
  <2>1. B \in UNION {[0 .. (p - 1) -> Bucket] : p \in Nat}
    BY <1>4
  <2>2. InitLog2 \in Nat
    BY HashAssumption
  <2> QED
    BY <1>3, <2>1, <2>2 DEF Table
<1>6. ASSUME NEW b \in 0 .. (n - 1)
      PROVE  Holds(B[b], Members(b, n, InTable)) /\ B[b].count < (B[b].expand_mult + 1) * Thresh
  <2>1. B[b].hh_head = NULL /\ B[b].count = 0 /\ B[b].expand_mult = 0
    BY <1>2
  <2>2. Members(b, n, InTable) = {} /\ Cardinality({}) = 0
    BY FS_EmptySet DEF Members
  <2>3. Chain(NULL, {}, hh_next, hh_prev)
    BY EmptyChain
  <2>4. 0 < (0 + 1) * Thresh
    BY HashAssumption
  <2> QED
    BY <2>1, <2>2, <2>3, <2>4 DEF Holds
<1>7. Cardinality(InTable) = 0
  BY FS_EmptySet
<1>8. t.buckets = B /\ t.num_buckets = n /\ t.log2_num_buckets = InitLog2 /\ t.tail = k /\ t.num_items = 0
  BY <1>3
<1> QED
  BY <1>1, <1>4, <1>5, <1>6, <1>7, <1>8 DEF Ready

\* The table of the entries before k.
LEMMA KeptReady ==
    ASSUME Inv, pc = "find", head # NULL, NEW k \in Key, NEW t, t = [tbl EXCEPT !.tail = k]
    PROVE  Ready(t, k)
<1>1. tbl \in Table /\ tbl.num_buckets = TwoTo[tbl.log2_num_buckets]
      /\ tbl.buckets \in [0 .. (tbl.num_buckets - 1) -> Bucket]
  BY DEF Inv, Typed
<1>2. /\ t \in Table /\ t.buckets = tbl.buckets /\ t.num_buckets = tbl.num_buckets /\ t.tail = k
      /\ t.log2_num_buckets = tbl.log2_num_buckets /\ t.num_items = tbl.num_items
      /\ t.ideal_chain_maxlen = tbl.ideal_chain_maxlen /\ t.noexpand = tbl.noexpand
  BY <1>1 DEF Table
<1>3. tbl.num_items = Cardinality(InTable)
  BY DEF Inv, Listed
<1>4. \A b \in 0 .. (tbl.num_buckets - 1) : Holds(tbl.buckets[b], Members(b, tbl.num_buckets, InTable))
  BY DEF Inv, Chained
<1>5. ~tbl.noexpand => \A b \in 0 .. (tbl.num_buckets - 1) :
        \/ tbl.buckets[b].count < (tbl.buckets[b].expand_mult + 1) * Thresh
        \/ Ideal(tbl.buckets[b], tbl.ideal_chain_maxlen)
  BY DEF Inv, Bounded
<1> QED
  BY <1>1, <1>2, <1>3, <1>4, <1>5 DEF Ready

\* HASH_APPEND_LIST
LEMMA AppendList ==
    ASSUME Inv, NEW k \in Key, k \notin InTable, HASH_APPEND_LIST(k)
    PROVE  /\ head' \in Key /\ head' # NULL
           /\ next' \in [Key -> Ptr \cup {Freed}] /\ prev' \in [Key -> Ptr \cup {Freed}]
           /\ Chain(head', InTable \cup {k}, next', prev')
           /\ next'[k] = NULL
<1>0. NULL \notin Key /\ InTable \subseteq Key
  BY HashAssumption, InTableKeys
<1>1. /\ next \in [Key -> Ptr \cup {Freed}] /\ prev \in [Key -> Ptr \cup {Freed}]
      /\ Chain(head, InTable, next, prev) /\ head \in Ptr
  BY DEF Inv, Typed, Listed
<1>2. CASE head = NULL
  <2>1. InTable = {}
    BY <1>2, NoTable DEF Inv
  <2>2. head' = k /\ next' = [next EXCEPT ![k] = NULL] /\ prev' = [prev EXCEPT ![k] = NULL]
    BY <1>2 DEF HASH_APPEND_LIST, Assign
  <2>3. next'[k] = NULL /\ prev'[k] = NULL
    BY <1>1, <2>2
  <2>4. next' \in [Key -> Ptr \cup {Freed}] /\ prev' \in [Key -> Ptr \cup {Freed}]
    BY <1>1, <2>2 DEF Ptr
  <2>5. Chain(NULL, {}, next, prev) /\ {} \subseteq Key /\ k \notin {}
    BY EmptyChain
  <2>6. Chain(k, {} \cup {k}, next', prev')
    <3>1. \A j \in {} : next'[j] = next[j] /\ (j # NULL => prev'[j] = prev[j])
      OBVIOUS
    <3> QED
      BY <2>3, <2>5, <3>1, Prepended
  <2> QED
    BY <1>0, <2>1, <2>2, <2>3, <2>4, <2>6
<1>3. CASE head # NULL
  <2>1. PICK t : t = tbl.tail
    OBVIOUS
  <2>2. t \in InTable /\ next[t] = NULL
    BY <1>3, <2>1 DEF Inv, Listed
  <2>3. t \in Key /\ t # NULL /\ t # k
    BY <1>0, <2>2
  <2>4. PICK f : f = [next EXCEPT ![t] = k]
    OBVIOUS
  <2>5. head' = head /\ next' = [f EXCEPT ![k] = NULL] /\ prev' = [prev EXCEPT ![k] = t]
    BY <1>3, <2>1, <2>3, <2>4 DEF HASH_APPEND_LIST, Assign
  <2>6. f \in [Key -> Ptr \cup {Freed}] /\ f[t] = k /\ \A j \in Key : j # t => f[j] = next[j]
    BY <1>1, <2>3, <2>4 DEF Ptr
  <2>7. next' \in [Key -> Ptr \cup {Freed}] /\ prev' \in [Key -> Ptr \cup {Freed}]
    BY <1>1, <2>3, <2>5, <2>6 DEF Ptr
  <2>8. next'[t] = k /\ next'[k] = NULL /\ prev'[k] = t
    BY <1>1, <2>3, <2>5, <2>6
  <2>9. \A j \in InTable : prev'[j] = prev[j] /\ (j # t => next'[j] = next[j])
    BY <1>0, <1>1, <2>5, <2>6
  <2>10. Chain(head, InTable \cup {k}, next', prev')
    BY <1>0, <1>1, <2>2, <2>8, <2>9, Appended
  <2> QED
    BY <1>0, <1>1, <1>3, <2>5, <2>7, <2>8, <2>10 DEF Ptr
<1> QED
  BY <1>2, <1>3

LEMMA AddEntryInv ==
    ASSUME Inv, AddEntry
    PROVE  Inv'
<1>1. PICK k : k = call.key
  OBVIOUS
<1>2. PICK t : t = IF head = NULL THEN HASH_MAKE_TABLE(k) ELSE [tbl EXCEPT !.tail = k]
  OBVIOUS
<1>3. /\ NotFound /\ pc = "find" /\ call.op = "set" /\ HASH_APPEND_LIST(k) /\ HASH_ADD_TO_TABLE(t, k)
      /\ value' = [value EXCEPT ![k] = call.val] /\ store' = [store EXCEPT ![k] = call.val]
      /\ UNCHANGED moving
  BY <1>1, <1>2 DEF AddEntry, NotFound
<1>4. call \in Calls /\ out \in Ptr /\ thh' \in Ptr /\ bkt_i' \in Nat
  BY <1>3 DEF Inv, Typed, moving
<1>5. PICK v : v = call.val
  OBVIOUS
<1>6. k \in Key /\ v \in Val /\ v # Freed /\ k \notin InTable /\ k # NULL
  BY <1>1, <1>3, <1>4, <1>5, CallFields, SearchedAll, HashAssumption
<1>7. Ready(t, k)
  <2>1. CASE head = NULL
    <3>1. InTable = {}
      BY <2>1, NoTable DEF Inv
    <3> QED
      BY <1>2, <1>6, <2>1, <3>1, MadeReady
  <2>2. CASE head # NULL
    BY <1>2, <1>3, <1>6, <2>2, KeptReady
  <2> QED
    BY <2>1, <2>2
<1>8. /\ head' \in Key /\ head' # NULL
      /\ next' \in [Key -> Ptr \cup {Freed}] /\ prev' \in [Key -> Ptr \cup {Freed}]
      /\ Chain(head', InTable \cup {k}, next', prev')
      /\ next'[k] = NULL
  BY <1>3, <1>6, AppendList
<1>9. value \in [Key -> Val \cup {Freed}] /\ store \in [Key -> Val \cup {NULL}]
  BY DEF Inv, Typed
<1>10. /\ value' \in [Key -> Val \cup {Freed}] /\ store' \in [Key -> Val \cup {NULL}]
       /\ value'[k] = v /\ store'[k] = v
       /\ \A j \in Key : j # k => value'[j] = value[j] /\ store'[j] = store[j]
  BY <1>3, <1>5, <1>6, <1>9
<1>11. InTable' = InTable \cup {k}
  BY <1>6, <1>10 DEF InTable
<1>12. /\ t \in Table /\ t.num_buckets = TwoTo[t.log2_num_buckets]
       /\ t.buckets \in [0 .. (t.num_buckets - 1) -> Bucket]
       /\ t.tail = k /\ t.num_items = Cardinality(InTable)
  BY <1>7 DEF Ready
<1>13. PICK n \in Nat \ {0} : n = t.num_buckets
  BY <1>12, TableFields
<1>14. PICK b \in 0 .. (n - 1) : b = HASH_TO_BKT(Hash[k], n)
  BY <1>6, BktNumber
<1>15. PICK h, c, m : h = t.buckets[b].hh_head /\ c = t.buckets[b].count /\ m = t.buckets[b].expand_mult
  OBVIOUS
<1>16. \A e \in 0 .. (n - 1) : Holds(t.buckets[e], Members(e, n, InTable)) /\ t.buckets[e] \in Bucket
  BY <1>7, <1>12, <1>13 DEF Ready
<1>17. h \in Ptr /\ c \in Nat /\ m \in Nat
  BY <1>15, <1>16, BucketFields
<1>18. PICK R : R = Members(b, n, InTable)
  OBVIOUS
<1>19. /\ R \subseteq Key /\ R \subseteq InTable /\ IsFiniteSet(R) /\ k \notin R
       /\ Chain(h, R, hh_next, hh_prev) /\ c = Cardinality(R)
  BY <1>6, <1>15, <1>16, <1>18, InTableKeys DEF Members, Holds
<1>20. h \in R \cup {NULL} /\ h # k
  BY <1>6, <1>19 DEF Chain, Rest
<1>21. PICK B : B = [t.buckets EXCEPT ![b] = [hh_head |-> k, count |-> c + 1, expand_mult |-> m]]
  OBVIOUS
<1>22. PICK w : w = t.buckets[b]
  OBVIOUS
<1>23. /\ tbl' = [t EXCEPT !.num_items = @ + 1, !.buckets[b].count = @ + 1, !.buckets[b].hh_head = k]
       /\ HASH_ADD_TO_BKT(w, k)
  BY <1>3, <1>13, <1>14, <1>22 DEF HASH_ADD_TO_TABLE
<1>24. w \in Bucket /\ w.hh_head = h /\ w.count = c /\ w.expand_mult = m
  BY <1>15, <1>16, <1>22
<1>25. /\ hh_next' = [hh_next EXCEPT ![k] = h]
       /\ hh_prev' = [Assign(hh_prev, h, k) EXCEPT ![k] = NULL]
  BY <1>23, <1>24 DEF HASH_ADD_TO_BKT
<1>26. \/ pc' = "expand" /\ call' = call /\ out' = out
       \/ /\ pc' = "idle" /\ call' = NULL /\ out' = NULL
          /\ c + 1 < (m + 1) * Thresh \/ tbl'.noexpand
  <2>1. PICK u : u = [w EXCEPT !.count = @ + 1]
    OBVIOUS
  <2>2. u.count = c + 1 /\ u.expand_mult = m
    BY <1>24, <2>1 DEF Bucket
  <2>3. Thresh \in Nat /\ (m + 1) * Thresh \in Nat
    <3>1. Thresh \in Nat /\ m + 1 \in Nat
      BY <1>17, HashAssumption
    <3> QED
      BY <3>1
  <2>4. ~Crowded(u) => c + 1 < (m + 1) * Thresh
    BY <1>17, <2>2, <2>3 DEF Crowded
  <2>5. IF Crowded(u) /\ ~tbl'.noexpand THEN pc' = "expand" /\ UNCHANGED <<call, out>> ELSE Return
    BY <1>23, <2>1 DEF HASH_ADD_TO_BKT
  <2> QED
    BY <2>4, <2>5 DEF Return
<1>27. tbl' = [t EXCEPT !.num_items = t.num_items + 1, !.buckets = B]
  <2>1. tbl' = [t EXCEPT !.num_items = t.num_items + 1,
                         !.buckets = [t.buckets EXCEPT ![b] = [w EXCEPT !.count = c + 1, !.hh_head = k]]]
    BY <1>12, <1>13, <1>22, <1>23, <1>24 DEF Table, Bucket
  <2>2. [w EXCEPT !.count = c + 1, !.hh_head = k] = [hh_head |-> k, count |-> c + 1, expand_mult |-> m]
    <3>1. w = [hh_head |-> h, count |-> c, expand_mult |-> m]
      BY <1>24 DEF Bucket
    <3>2. PICK w1 : w1 = [hh_head |-> h, count |-> c + 1, expand_mult |-> m]
      OBVIOUS
    <3>3. [w EXCEPT !.count = c + 1] = w1
      BY <3>1, <3>2
    <3>4. [w1 EXCEPT !.hh_head = k] = [hh_head |-> k, count |-> c + 1, expand_mult |-> m]
      BY <3>2
    <3> QED
      BY <3>3, <3>4
  <2> QED
    BY <1>21, <2>1, <2>2
<1>28. B \in [0 .. (n - 1) -> Bucket]
  BY <1>6, <1>12, <1>13, <1>17, <1>21 DEF Bucket, Ptr
<1>29. /\ tbl' \in Table /\ tbl'.num_buckets = n /\ tbl'.buckets = B
       /\ tbl'.log2_num_buckets = t.log2_num_buckets /\ tbl'.tail = k
       /\ tbl'.num_items = t.num_items + 1 /\ tbl'.ideal_chain_maxlen = t.ideal_chain_maxlen
       /\ tbl'.noexpand = t.noexpand
  <2>1. B \in UNION {[0 .. (p - 1) -> Bucket] : p \in Nat}
    BY <1>28
  <2>2. t.num_items + 1 \in Nat
    BY <1>12, TableFields
  <2> QED
    BY <1>12, <1>13, <1>27, <2>1, <2>2 DEF Table
<1>30. /\ hh_next' \in [Key -> Ptr \cup {Freed}] /\ hh_prev' \in [Key -> Ptr \cup {Freed}]
       /\ hh_next'[k] = h /\ hh_prev'[k] = NULL
       /\ h # NULL => hh_prev'[h] = k
       /\ \A j \in Key : j # k => hh_next'[j] = hh_next[j]
       /\ \A j \in Key : j # k /\ j # h => hh_prev'[j] = hh_prev[j]
  BY <1>6, <1>17, <1>20, <1>25, FrontLinks DEF Inv
<1>31. Typed'
  <2>1. head' \in Ptr /\ out' \in Ptr
    BY <1>4, <1>8, <1>26 DEF Ptr
  <2>2. /\ tbl'.num_buckets = TwoTo[tbl'.log2_num_buckets]
        /\ tbl'.buckets \in [0 .. (tbl'.num_buckets - 1) -> Bucket]
    BY <1>12, <1>13, <1>28, <1>29
  <2>3. /\ pc' \in {"idle", "find", "expand", "move"} /\ (call' = NULL \/ call' \in Calls)
        /\ pc' # "idle" => call' \in Calls
    BY <1>4, <1>26
  <2> QED
    BY <1>4, <1>8, <1>10, <1>29, <1>30, <2>1, <2>2, <2>3 DEF Typed
<1>32. Listed'
  <2>1. Cardinality(InTable \cup {k}) = t.num_items + 1
    BY <1>6, <1>12, InTableKeys, FS_AddElement
  <2> QED
    BY <1>8, <1>11, <1>29, <2>1 DEF Listed
<1>33. \A e : Members(e, n, InTable)' =
                IF e = b THEN Members(e, n, InTable) \cup {k} ELSE Members(e, n, InTable)
  BY <1>11, <1>14 DEF Members
<1>34. Chained'
  <2> SUFFICES ASSUME NEW e \in 0 .. (n - 1), NEW S, S = Members(e, n, InTable)'
               PROVE  Chain(B[e].hh_head, S, hh_next', hh_prev') /\ B[e].count = Cardinality(S)
    BY <1>29 DEF Chained, Holds
  <2>1. CASE e = b
    <3>1. B[e].hh_head = k /\ B[e].count = c + 1 /\ S = R \cup {k}
      BY <1>12, <1>13, <1>18, <1>21, <1>33, <2>1
    <3>2. \A j \in R : hh_next'[j] = hh_next[j] /\ (j # h => hh_prev'[j] = hh_prev[j])
      BY <1>19, <1>30
    <3>3. Chain(k, R \cup {k}, hh_next', hh_prev')
      BY <1>6, <1>19, <1>30, <3>2, Prepended
    <3>4. Cardinality(R \cup {k}) = c + 1
      BY <1>19, FS_AddElement
    <3> QED
      BY <3>1, <3>3, <3>4
  <2>2. CASE e # b
    <3>1. B[e] = t.buckets[e] /\ S = Members(e, n, InTable)
      BY <1>12, <1>13, <1>21, <1>33, <2>2
    <3>2. Chain(t.buckets[e].hh_head, S, hh_next, hh_prev) /\ t.buckets[e].count = Cardinality(S)
      BY <1>16, <3>1 DEF Holds
    <3>3. NULL \notin S /\ S \subseteq Key /\ k \notin S
      BY <1>6, <3>1, InTableKeys DEF Members
    <3>4. h \notin S
      BY <1>18, <1>20, <2>2, <3>1, <3>3 DEF Members
    <3>5. \A j \in S : hh_next'[j] = hh_next[j] /\ hh_prev'[j] = hh_prev[j]
      BY <1>30, <3>3, <3>4
    <3>6. Chain(t.buckets[e].hh_head, S, hh_next', hh_prev')
      BY <3>2, <3>3, <3>5, ChainFrame
    <3> QED
      BY <3>1, <3>2, <3>6
  <2> QED
    BY <2>1, <2>2
<1>35. Searching' /\ Moving'
  BY <1>26 DEF Searching, Moving
<1>36. Bounded'
  <2> SUFFICES ASSUME pc' = "idle", ~tbl'.noexpand, NEW e \in 0 .. (n - 1)
               PROVE  B[e].count < (B[e].expand_mult + 1) * Thresh \/ Ideal(B[e], t.ideal_chain_maxlen)
    BY <1>26, <1>29 DEF Bounded, Ideal
  <2>1. CASE e = b
    <3>1. B[e].count = c + 1 /\ B[e].expand_mult = m
      BY <1>12, <1>13, <1>21, <2>1
    <3> QED
      BY <1>26, <3>1
  <2>2. CASE e # b
    <3>1. B[e] = t.buckets[e]
      BY <1>12, <1>13, <1>21, <2>2
    <3> QED
      BY <1>7, <1>13, <1>29, <3>1 DEF Ready
  <2> QED
    BY <2>1, <2>2
<1>37. Agreed'
  <2> SUFFICES ASSUME NEW j \in Key
               PROVE  /\ j \in InTable \cup {k} => store'[j] = value'[j]
                      /\ j \notin InTable \cup {k} => store'[j] = NULL
    BY <1>11 DEF Agreed
  <2>1. CASE j = k
    BY <1>10, <2>1
  <2>2. CASE j # k
    <3>1. /\ j \in InTable => store[j] = value[j]
          /\ j \notin InTable => store[j] = NULL
      BY <1>1, <2>2 DEF Inv, Agreed
    <3> QED
      BY <1>10, <2>2, <3>1
  <2> QED
    BY <2>1, <2>2
<1> QED
  BY <1>31, <1>32, <1>34, <1>35, <1>36, <1>37 DEF Inv

-----------------------------------------------------------------------------
(* The theorems.                                                           *)

LEMMA NextInv ==
    ASSUME Inv, [Next]_vars
    PROVE  Inv'
<1>1. CASE UNCHANGED vars
  <2>1. /\ UNCHANGED <<head, next, prev, hh_next, hh_prev, tbl, value, pc, call, out>>
        /\ UNCHANGED <<fresh, bkt_i, thh, store, res>>
    BY <1>1 DEF vars, list, chains, moving
  <2>2. InTable' = InTable
    BY <2>1 DEF InTable
  <2>3. Typed' /\ Listed' /\ Searching' /\ Bounded' /\ Agreed'
    BY <2>1, <2>2 DEF Inv, Typed, Listed, Searching, Bounded, Agreed, Ideal
  <2>4. Chained'
    BY <2>1, <2>2 DEF Inv, Chained, Holds, Members
  <2>5. Moving'
    BY <2>1, <2>2 DEF Inv, Moving, Moved, Holds, Members, Ideal
  <2> QED
    BY <2>3, <2>4, <2>5 DEF Inv
<1>2. CASE \E c \in Calls : Begin(c)
  BY <1>2, BeginInv
<1>3. CASE Step
  BY <1>3, FindNextInv, ReturnInv, DeleteEntryInv, AddEntryInv, ExpandBeginInv, ExpandMoveInv,
     ExpandNextBucketInv, ExpandEndInv DEF Step
<1> QED
  BY <1>1, <1>2, <1>3 DEF Next

LEMMA InvHolds == Spec => []Inv
<1>1. Init => Inv
  BY InitInv
<1>2. Inv /\ [Next]_vars => Inv'
  BY NextInv
<1> QED
  BY <1>1, <1>2, PTL DEF Spec

\* The entries are not more than the keys, and with a table there is one.
LEMMA ItemCount ==
    ASSUME Inv, head # NULL
    PROVE  tbl.num_items \in 1 .. Cardinality(Key)
<1>1. InTable # {} /\ tbl.num_items = Cardinality(InTable)
  BY DEF Inv, Listed
<1>2. IsFiniteSet(InTable) /\ InTable \subseteq Key /\ IsFiniteSet(Key)
  BY InTableKeys, HashAssumption
<1>3. Cardinality(InTable) \in Nat /\ Cardinality(Key) \in Nat /\ Cardinality(InTable) <= Cardinality(Key)
  BY <1>2, FS_CardinalityType, FS_Subset
<1>4. Cardinality(InTable) # 0
  BY <1>1, <1>2, FS_EmptySet
<1> QED
  BY <1>1, <1>3, <1>4

(***************************************************************************)
(* The table of uthash.h keeps its types through every addition, deletion  *)
(* and expansion: the number of buckets is the power of two that           *)
(* log2_num_buckets says, and the bucket array has this length.            *)
(***************************************************************************)
THEOREM TypeCorrect == Spec => []TypeOK
<1>1. Inv => TypeOK
  <2> SUFFICES ASSUME Inv PROVE TypeOK
    OBVIOUS
  <2>1. /\ head \in Ptr /\ next \in [Key -> Ptr \cup {Freed}] /\ prev \in [Key -> Ptr \cup {Freed}]
        /\ hh_next \in [Key -> Ptr \cup {Freed}] /\ hh_prev \in [Key -> Ptr \cup {Freed}]
        /\ value \in [Key -> Val \cup {Freed}] /\ pc \in {"idle", "find", "expand", "move"}
        /\ call \in Calls \cup {NULL} /\ out \in Ptr /\ thh \in Ptr /\ bkt_i \in Nat
    BY DEF Inv, Typed
  <2>2. head # NULL => /\ tbl.log2_num_buckets \in Nat
                       /\ tbl.num_buckets = TwoTo[tbl.log2_num_buckets]
                       /\ tbl.buckets \in [0 .. (tbl.num_buckets - 1) -> Bucket]
                       /\ tbl.num_items \in 1 .. Cardinality(Key)
                       /\ tbl.tail \in Key
    BY TableFields, ItemCount DEF Inv, Typed
  <2> QED
    BY <2>1, <2>2 DEF TypeOK
<1> QED
  BY <1>1, InvHolds, PTL

(***************************************************************************)
(* Between calls the table passes HASH_FSCK, and the test of its tail:     *)
(* whatever was added, deleted and moved, list and chains are well linked, *)
(* hold the entries that were set and not deleted, and count them.         *)
(***************************************************************************)
THEOREM IntactAlways == Spec => []Intact
<1>1. Inv => Intact
  <2> SUFFICES ASSUME Inv, pc = "idle"
               PROVE  /\ Entries(head, next) = {k \in Key : store[k] # NULL}
                      /\ head # NULL =>
                           /\ Linked(head, next, prev)
                           /\ tbl.num_items = Cardinality(Entries(head, next))
                           /\ tbl.tail \in Entries(head, next) /\ next[tbl.tail] = NULL
                           /\ \A b \in DOMAIN tbl.buckets : BucketIntact(b)
    BY DEF Intact
  <2>1. Entries(head, next) = InTable /\ Linked(head, next, prev)
    <3>1. Chain(head, InTable, next, prev)
      BY DEF Inv, Listed
    <3> QED
      BY <3>1, InTableKeys, ChainLinked
  <2>2. InTable = {k \in Key : store[k] # NULL}
    <3>1. ASSUME NEW k \in Key PROVE k \in InTable => store[k] # NULL
      BY HashAssumption DEF Inv, Agreed, Typed, InTable
    <3>2. ASSUME NEW k \in Key PROVE k \notin InTable => store[k] = NULL
      BY DEF Inv, Agreed
    <3> QED
      BY <3>1, <3>2, InTableKeys
  <2>3. ASSUME head # NULL, NEW b \in DOMAIN tbl.buckets PROVE BucketIntact(b)
    <3>1. b \in 0 .. (tbl.num_buckets - 1)
      BY <2>3 DEF Inv, Typed
    <3>2. PICK R : R = Members(b, tbl.num_buckets, InTable)
      OBVIOUS
    <3>3. /\ Chain(tbl.buckets[b].hh_head, R, hh_next, hh_prev) /\ tbl.buckets[b].count = Cardinality(R)
          /\ R \subseteq Key
      BY <2>3, <3>1, <3>2, InTableKeys DEF Inv, Chained, Holds, Members
    <3>4. Entries(tbl.buckets[b].hh_head, hh_next) = R /\ Linked(tbl.buckets[b].hh_head, hh_next, hh_prev)
      BY <3>3, ChainLinked
    <3>5. R = {k \in Entries(head, next) : HASH_TO_BKT(Hash[k], tbl.num_buckets) = b}
      BY <2>1, <3>2 DEF Members
    <3> QED
      BY <3>3, <3>4, <3>5 DEF BucketIntact
  <2>4. head # NULL => tbl.tail \in InTable /\ next[tbl.tail] = NULL /\ tbl.num_items = Cardinality(InTable)
    BY DEF Inv, Listed
  <2> QED
    BY <2>1, <2>2, <2>3, <2>4
<1> QED
  BY <1>1, InvHolds, PTL

(***************************************************************************)
(* HASH_ADD_TO_BKT and HASH_EXPAND_BUCKETS keep the chains short: between  *)
(* calls, unless expansion was given up, a chain is below the threshold of *)
(* its bucket or within that multiple of the last ideal length.            *)
(***************************************************************************)
THEOREM ChainsAreBounded == Spec => []ChainsBounded
<1>1. Inv => ChainsBounded
  <2> SUFFICES ASSUME Inv, pc = "idle", head # NULL, ~tbl.noexpand, NEW b \in DOMAIN tbl.buckets
               PROVE  \/ tbl.buckets[b].count < (tbl.buckets[b].expand_mult + 1) * Thresh
                      \/ tbl.buckets[b].count <= (tbl.buckets[b].expand_mult + 1) * tbl.ideal_chain_maxlen
    BY DEF ChainsBounded
  <2>1. b \in 0 .. (tbl.num_buckets - 1)
    BY DEF Inv, Typed
  <2> QED
    BY <2>1 DEF Inv, Bounded, Ideal
<1> QED
  BY <1>1, InvHolds, PTL

(***************************************************************************)
(* hash_table.c implements a map on uthash.h: whatever the search, the     *)
(* deletion and the expansion do to the pointers, htable_get returns the   *)
(* value that htable_set set last for its key, and none after a delete.    *)
(***************************************************************************)
THEOREM TableIsMap == Spec => IsMap
<1>1. Init => Map!Init
  BY DEF Init, Map!Init
<1>2. ASSUME Inv, [Next]_vars PROVE [Map!Next]_<<store, res>>
  <2>1. CASE UNCHANGED vars
    BY <2>1 DEF vars
  <2>2. ASSUME NEW c \in Calls, Begin(c) PROVE Map!Next
    BY <2>2 DEF Begin, Map!Next, Map!Forget
  <2>3. CASE FindNext \/ DeleteNothing \/ ExpandBegin \/ ExpandMove \/ ExpandNextBucket \/ ExpandEnd
    <3>1. UNCHANGED <<store, res>>
      BY <2>3 DEF FindNext, DeleteNothing, ExpandBegin, ExpandMove, ExpandNextBucket, ExpandEnd
    <3> QED
      BY <3>1
  <2>4. CASE htable_get
    <3>1. pc = "find" /\ call \in Calls /\ call.op = "get"
      BY <1>2, <2>4 DEF htable_get, Found, NotFound, Inv, Typed
    <3>2. call.key \in Key
      BY <3>1, CallFields
    <3>3. (IF out = NULL THEN NULL ELSE value[out]) = store[call.key]
      <4>1. CASE Found
        <5>1. out # NULL /\ out = call.key /\ call.key \in InTable
          BY <1>2, <4>1, SearchedFound DEF Found
        <5> QED
          BY <1>2, <3>2, <5>1 DEF Inv, Agreed
      <4>2. CASE NotFound
        <5>1. out = NULL /\ call.key \notin InTable
          BY <1>2, <4>2, SearchedAll DEF NotFound
        <5> QED
          BY <1>2, <3>1, <3>2, <5>1 DEF Inv, Agreed
      <4> QED
        BY <2>4, <4>1, <4>2 DEF htable_get
    <3>4. res' = [key |-> call.key, val |-> store[call.key]] /\ store' = store
      BY <2>4, <3>3 DEF htable_get
    <3> QED
      BY <3>2, <3>4 DEF Map!Next, Map!Get
  <2>5. CASE DeleteEntry
    <3>1. call \in Calls /\ res' = res
      BY <1>2, <2>5 DEF DeleteEntry, Found, Inv, Typed
    <3>2. call.key \in Key
      BY <3>1, CallFields
    <3>3. store' = store \/ store' = [store EXCEPT ![call.key] = NULL]
      BY <2>5 DEF DeleteEntry
    <3> QED
      BY <3>1, <3>2, <3>3 DEF Map!Next, Map!Delete
  <2>6. CASE AddEntry
    <3>1. call \in Calls /\ res' = res /\ store' = [store EXCEPT ![call.key] = call.val]
      BY <1>2, <2>6 DEF AddEntry, NotFound, Inv, Typed
    <3>2. call.key \in Key /\ call.val \in Val
      BY <3>1, CallFields
    <3> QED
      BY <3>1, <3>2 DEF Map!Next, Map!Set
  <2> QED
    BY <1>2, <2>1, <2>2, <2>3, <2>4, <2>5, <2>6 DEF Next, Step
<1> QED
  BY <1>1, <1>2, InvHolds, PTL DEF Spec, IsMap, Map!Spec
=============================================================================
