-------------------------- MODULE WebServerProofs --------------------------
(***************************************************************************)
(* Proofs about the web server of praxis1, for every stream of requests    *)
(* and every way in which recv may cut it into pieces: the scan loops stay *)
(* inside their buffers, the secondary buffer holds the stream without a   *)
(* gap and is never expanded, and no answer is sent without a request.     *)
(***************************************************************************)
EXTENDS WebServer, SequenceTheorems, FiniteSetTheorems, TLAPS

-----------------------------------------------------------------------------
(* The stream of bytes is one: what the flattening of a script is.         *)

\* Every set of numbers that is not empty has a least one.
LEMMA LeastNumber ==
    ASSUME NEW T, T \subseteq Nat, T # {}
    PROVE  \E n \in T : \A m \in T : ~(m < n)
<1> DEFINE R == OpToRel(<, Nat)
<1>1. \A m, n \in Nat : m < n => <<m, n>> \in R
  BY DEF OpToRel
<1>2. IsWellFoundedOn(R, Nat)
  BY NatLessThanWellFounded, Zenon
<1> HIDE DEF R
<1>3. \E x \in T : \A y \in T : ~(<<y, x>> \in R)
  BY <1>2, WFMin, Zenon
<1> QED
  BY <1>1, <1>3

\* f joins the first n elements of s, one by one.
Joins(f, s, n) == f = [i \in 1 .. n |-> IF i = 1 THEN s[i] ELSE f[i - 1] \o s[i]]

LEMMA JoinsExists ==
    ASSUME NEW s, NEW n \in Nat \ {0}
    PROVE  \E f : Joins(f, s, n)
<1> DEFINE T == {m \in Nat \ {0} : ~\E f : Joins(f, s, m)}
<1> SUFFICES ASSUME T # {} PROVE FALSE
  OBVIOUS
<1>1. PICK m \in T : \A l \in T : ~(l < m)
  BY LeastNumber
<1>2. CASE m = 1
  <2>1. Joins([i \in 1 .. 1 |-> s[i]], s, 1)
    BY DEF Joins
  <2> QED
    BY <1>2, <2>1
<1>3. CASE m # 1
  <2>1. m - 1 \in Nat \ {0} /\ m - 1 \notin T /\ m \in Nat
    BY <1>1, <1>3
  <2>2. PICK f : Joins(f, s, m - 1)
    BY <2>1
  <2> DEFINE g == [i \in 1 .. m |-> IF i < m THEN f[i] ELSE f[m - 1] \o s[m]]
  <2>3. ASSUME NEW i \in 1 .. m
        PROVE  g[i] = IF i = 1 THEN s[i] ELSE g[i - 1] \o s[i]
    <3>1. CASE i < m
      <4>1. i \in 1 .. (m - 1) /\ (i # 1 => i - 1 \in 1 .. m /\ i - 1 < m)
        BY <2>1, <3>1
      <4>2. f[i] = IF i = 1 THEN s[i] ELSE f[i - 1] \o s[i]
        BY <2>2, <4>1 DEF Joins
      <4> QED
        BY <3>1, <4>1, <4>2
    <3>2. CASE i = m
      <4>1. i # 1 /\ m - 1 \in 1 .. m /\ m - 1 < m /\ ~(m < m)
        BY <1>3, <2>1, <3>2
      <4> QED
        BY <3>2, <4>1
    <3> QED
      BY <2>1, <3>1, <3>2
  <2>4. Joins(g, s, m)
    <3>1. g = [i \in 1 .. m |-> g[i]]
      OBVIOUS
    <3> HIDE DEF g
    <3> QED
      BY <2>3, <3>1 DEF Joins
  <2> QED
    BY <1>1, <2>4
<1> QED
  BY <1>2, <1>3

LEMMA JoinsType ==
    ASSUME NEW S, NEW s \in Seq(Seq(S)), NEW f, Len(s) # 0, Joins(f, s, Len(s))
    PROVE  \A i \in 1 .. Len(s) : f[i] \in Seq(S)
<1> DEFINE T == {i \in 1 .. Len(s) : f[i] \notin Seq(S)}
<1> SUFFICES ASSUME T # {} PROVE FALSE
  OBVIOUS
<1>0. Len(s) \in Nat
  BY LenProperties
<1>1. T \subseteq Nat
  BY <1>0
<1>2. PICK m \in T : \A l \in T : ~(l < m)
  BY <1>1, LeastNumber
<1>3. m \in 1 .. Len(s) /\ m \in Nat /\ s[m] \in Seq(S)
  BY <1>0, ElementOfSeq
<1>4. f[m] = IF m = 1 THEN s[m] ELSE f[m - 1] \o s[m]
  BY <1>3 DEF Joins
<1>5. CASE m # 1
  <2>1. m - 1 \in 1 .. Len(s) /\ m - 1 < m
    BY <1>0, <1>3, <1>5
  <2>2. f[m - 1] \in Seq(S)
    BY <1>2, <2>1
  <2> QED
    BY <1>2, <1>3, <1>4, <1>5, <2>2, ConcatProperties
<1> QED
  BY <1>2, <1>3, <1>4, <1>5

LEMMA FlattenType ==
    ASSUME NEW S, NEW s \in Seq(Seq(S))
    PROVE  FlattenSeq(s) \in Seq(S)
<1>0. Len(s) \in Nat
  BY LenProperties
<1>1. CASE Len(s) = 0
  <2>1. s = <<>>
    BY <1>1, EmptySeq
  <2> QED
    BY <1>1, <2>1, EmptySeq DEF FlattenSeq
<1>2. CASE Len(s) # 0
  <2> DEFINE f == CHOOSE f : f = [i \in 1 .. Len(s) |-> IF i = 1 THEN s[i] ELSE f[i - 1] \o s[i]]
  <2>1. FlattenSeq(s) = f[Len(s)]
    BY <1>2 DEF FlattenSeq
  <2>2. Joins(f, s, Len(s))
    <3>1. \E g : Joins(g, s, Len(s))
      BY <1>0, <1>2, JoinsExists
    <3> QED
      BY <3>1 DEF Joins
  <2> HIDE DEF f
  <2>3. f[Len(s)] \in Seq(S)
    BY <1>0, <1>2, <2>2, JoinsType
  <2> QED
    BY <2>1, <2>3
<1> QED
  BY <1>1, <1>2

-----------------------------------------------------------------------------
(* The inductive invariant.                                                *)

\* The terminators of the stream that begin before position m and end by position n.
Terminators(m, n) == { i \in 0 .. (Len(input) - 4) : i < m /\ i + 4 <= n /\ TerminatorAt(input, i) }

\* How far the scan of recv_buf has come in the stream.
Scanned == taken - Len(buf) + scan

\* The first piece is all that was received while no request has been found at the
\* end of a piece: the outer loop goes back to recv only once one has.
Primary ==
    /\ buf \in Seq(Byte)
    /\ Len(buf) <= taken
    /\ pc \in {"start", "listen", "accept", "recv"} /\ ~fully => taken = 0 /\ scan = 0
    /\ pc \in {"start", "listen", "accept"} => ~fully
    /\ pc = "scan" =>
         /\ buf # <<>>
         /\ buf = SubSeq(input, taken - Len(buf) + 1, taken)
         /\ ~fully => taken = Len(buf)
    /\ fully => taken > 0

\* Nothing ever advances the position of the secondary buffer.
Secondary ==
    /\ req.scan = 0
    /\ pc \in {"recv2", "scan2"} =>
         /\ req.bytes = SubSeq(input, 1, taken)
         /\ req.space = 2 * BufSize
    /\ pc = "recv2" => Len(req.bytes) <= BufSize
    /\ pc = "scan2" => Len(req.bytes) <= 2 * BufSize

\* An answer for every terminator met, and in the first piece every terminator is met.
Counted ==
    /\ replies <= Cardinality(Terminators(Scanned, taken))
    /\ pc \in {"recv", "scan"} /\ taken = Len(buf) =>
         replies = Cardinality(Terminators(scan, taken))
    /\ pc = "recv" /\ taken = Len(buf) /\ taken > 0 => scan + 4 > taken

Inv == TypeOK /\ Primary /\ Secondary /\ Counted

-----------------------------------------------------------------------------
(* Facts about the stream and its pieces.                                  *)

LEMMA InputType ==
    ASSUME script \in Scripts
    PROVE  input \in Seq(Byte) /\ Len(input) \in Nat
<1>1. input \in Seq(Byte)
  BY ScriptsAssumption, FlattenType DEF input
<1> QED
  BY <1>1, LenProperties

LEMMA TerminatorLen == Len(http_terminator) = 4
BY DEF http_terminator

\* A part of the stream.
LEMMA PartOf ==
    ASSUME NEW s \in Seq(Byte), NEW m \in Nat, NEW n \in Nat, m <= n, n <= Len(s)
    PROVE  /\ SubSeq(s, m + 1, n) \in Seq(Byte)
           /\ Len(SubSeq(s, m + 1, n)) = n - m
<1>1. \A i \in (m + 1) .. n : s[i] \in Byte
  BY LenProperties, ElementOfSeq
<1> QED
  BY <1>1, SubSeqProperties

\* A terminator in a part of the stream is one of the stream.
LEMMA TerminatorInPart ==
    ASSUME NEW s \in Seq(Byte), NEW m \in Nat, NEW n \in Nat, m <= n, n <= Len(s),
           NEW i \in Nat, m + i + 4 <= n
    PROVE  TerminatorAt(SubSeq(s, m + 1, n), i) <=> TerminatorAt(s, m + i)
<1> DEFINE a == m + 1
           b == i + 1
           c == i + 4
<1>1. /\ a \in 1 .. Len(s) /\ n \in 1 .. Len(s)
      /\ b \in 1 .. (n - a + 1) /\ c \in 1 .. (n - a + 1)
      /\ a + b - 1 = m + i + 1 /\ a + c - 1 = m + i + 4
  BY LenProperties
<1> HIDE DEF a, b, c
<1>2. SubSeq(SubSeq(s, a, n), b, c) = SubSeq(s, a + b - 1, a + c - 1)
  BY <1>1, SubSeqOfSubSeq
<1> QED
  BY <1>1, <1>2, TerminatorLen DEF TerminatorAt, a, b, c

\* What a recv returns: a nonempty part of the stream, no more than the buffer holds.
LEMMA PieceIs ==
    ASSUME TypeOK, NEW piece \in Pieces
    PROVE  /\ piece \in Seq(Byte) /\ piece # <<>>
           /\ Len(piece) \in 1 .. BufSize /\ taken + Len(piece) <= Len(input)
           /\ piece = SubSeq(input, taken + 1, taken + Len(piece))
<1>1. PICK n \in 1 .. (IF Len(input) - taken < BufSize THEN Len(input) - taken ELSE BufSize) :
        piece = SubSeq(input, taken + 1, taken + n)
  BY DEF Pieces
<1>2. input \in Seq(Byte) /\ Len(input) \in Nat /\ taken \in Nat /\ BufSize \in Nat
  BY InputType, BufSizeAssumption DEF TypeOK
<1>3. n \in Nat /\ n >= 1 /\ n <= BufSize /\ taken + n \in Nat /\ taken + n <= Len(input)
  BY <1>2
<1>4. piece \in Seq(Byte) /\ Len(piece) = n
  BY <1>1, <1>2, <1>3, PartOf
<1>5. piece # <<>>
  BY <1>3, <1>4
<1> QED
  BY <1>1, <1>2, <1>3, <1>4, <1>5

\* The numbers of terminators.
LEMMA TerminatorsFinite ==
    ASSUME TypeOK, NEW m, NEW n
    PROVE  IsFiniteSet(Terminators(m, n)) /\ Cardinality(Terminators(m, n)) \in Nat
<1>1. Len(input) - 4 \in Int
  BY InputType DEF TypeOK
<1>2. IsFiniteSet(0 .. (Len(input) - 4))
  BY <1>1, FS_Interval
<1>3. Terminators(m, n) \subseteq 0 .. (Len(input) - 4)
  BY DEF Terminators
<1> QED
  BY <1>2, <1>3, FS_Subset, FS_CardinalityType

LEMMA TerminatorsGrow ==
    ASSUME TypeOK, NEW l \in Int, NEW m \in Int, NEW k \in Int, NEW n \in Int, l <= m, k <= n
    PROVE  Cardinality(Terminators(l, k)) <= Cardinality(Terminators(m, n))
<1>1. Terminators(l, k) \subseteq Terminators(m, n)
  BY DEF Terminators
<1> QED
  BY <1>1, TerminatorsFinite, FS_Subset

\* One position further.
LEMMA TerminatorsNext ==
    ASSUME TypeOK, NEW m \in Nat, NEW n \in Nat, m + 4 <= n, n <= Len(input)
    PROVE  Cardinality(Terminators(m + 1, n)) =
             Cardinality(Terminators(m, n)) + (IF TerminatorAt(input, m) THEN 1 ELSE 0)
<1>1. Len(input) \in Nat
  BY InputType DEF TypeOK
<1>2. m \notin Terminators(m, n)
  BY DEF Terminators
<1>3. CASE TerminatorAt(input, m)
  <2>1. Terminators(m + 1, n) = Terminators(m, n) \cup {m}
    BY <1>1, <1>3 DEF Terminators
  <2> QED
    BY <1>2, <1>3, <2>1, TerminatorsFinite, FS_AddElement
<1>4. CASE ~TerminatorAt(input, m)
  <2>1. Terminators(m + 1, n) = Terminators(m, n)
    BY <1>1, <1>4 DEF Terminators
  <2> QED
    BY <1>4, <2>1, TerminatorsFinite
<1> QED
  BY <1>3, <1>4

-----------------------------------------------------------------------------
(* Every step keeps the invariant.                                         *)

\* What the steps have of the invariant.
LEMMA InvFacts ==
    ASSUME Inv
    PROVE  /\ input \in Seq(Byte) /\ Len(input) \in Nat
           /\ taken \in Nat /\ taken <= Len(input)
           /\ buf \in Seq(Byte) /\ Len(buf) \in Nat /\ Len(buf) <= taken /\ Len(buf) <= BufSize
           /\ scan \in Nat /\ scan <= BufSize /\ begin \in Nat /\ begin <= BufSize
           /\ BufSize \in Nat /\ BufSize >= 4 /\ replies \in Nat
           /\ req \in BufStruct /\ req.bytes \in Seq(Byte) /\ Len(req.bytes) \in Nat
<1>1. input \in Seq(Byte) /\ Len(input) \in Nat
  BY InputType DEF Inv, TypeOK
<1>2. buf \in Seq(Byte) /\ Len(buf) \in Nat
  BY LenProperties DEF Inv, Primary
<1>3. req \in BufStruct /\ req.bytes \in Seq(Byte)
  BY DEF Inv, TypeOK, BufStruct
<1>4. Len(req.bytes) \in Nat
  BY <1>3, LenProperties
<1> QED
  BY <1>1, <1>2, <1>3, <1>4, BufSizeAssumption DEF Inv, TypeOK, Primary

LEMMA InvInit == Init => Inv
<1> SUFFICES ASSUME Init PROVE Inv
  OBVIOUS
<1>1. input \in Seq(Byte) /\ Len(input) \in Nat
  BY InputType DEF Init
<1>2. TypeOK
  <2>1. <<>> \in Seq(Byte) /\ Len(<<>>) = 0
    BY EmptySeq
  <2>2. req \in BufStruct
    BY <2>1 DEF Init, NoBuffer, buf_struct_init, BufStruct
  <2>3. taken \in 0 .. Len(input) /\ Len(buf) <= BufSize /\ scan \in 0 .. BufSize /\ begin \in 0 .. BufSize
    BY <1>1, <2>1, BufSizeAssumption DEF Init
  <2> QED
    BY <2>2, <2>3 DEF Init, TypeOK
<1>3. Primary
  BY EmptySeq DEF Init, Primary
<1>4. Secondary
  BY DEF Init, Secondary, NoBuffer, buf_struct_init
<1>5. Counted
  <2>1. Terminators(Scanned, taken) = {}
    BY DEF Init, Terminators
  <2> QED
    BY <2>1, FS_EmptySet DEF Init, Counted
<1> QED
  BY <1>2, <1>3, <1>4, <1>5 DEF Inv

\* Steps that leave the stream and the buffers alone.
LEMMA QuietStep ==
    ASSUME Inv, UNCHANGED <<script, taken, buf, scan, begin, fully, req, replies>>,
           closed' \in BOOLEAN,
           \/ pc' = pc
           \/ pc' = "exit"
           \/ pc \in {"start", "listen", "accept"} /\ pc' \in {"listen", "accept", "recv"}
    PROVE  Inv'
<1>1. TypeOK' /\ Secondary' /\ Scanned' = Scanned /\ input' = input
  BY DEF Inv, TypeOK, Secondary, Scanned, input
<1>2. Primary'
  BY <1>1 DEF Inv, Primary
<1>3. \A m, n : Terminators(m, n)' = Terminators(m, n)
  BY <1>1 DEF Terminators
<1>4. Counted'
  <2>1. CASE pc \in {"start", "listen", "accept"} /\ pc' \in {"listen", "accept", "recv"}
    <3>1. taken = 0 /\ scan = 0
      BY <2>1 DEF Inv, Primary
    <3>2. Terminators(Scanned, taken) = {} /\ Terminators(scan, taken) = {}
      BY <3>1 DEF Terminators
    <3>3. replies = 0
      BY <3>2, FS_EmptySet, InvFacts DEF Inv, Counted
    <3>4. Terminators(Scanned, taken)' = {} /\ Terminators(scan, taken)' = {}
      BY <3>1 DEF Terminators
    <3> QED
      BY <3>1, <3>3, <3>4, FS_EmptySet DEF Counted
  <2>2. CASE pc' = pc \/ pc' = "exit"
    BY <1>1, <1>3, <2>2 DEF Inv, Counted
  <2> QED
    BY <2>1, <2>2
<1> QED
  BY <1>1, <1>2, <1>4 DEF Inv

LEMMA RecvStep ==
    ASSUME Inv, Recv
    PROVE  Inv'
<1>1. PICK piece \in Pieces : taken' = taken + Len(piece) /\ buf' = piece
  BY DEF Recv, Received
<1>2. pc = "recv" /\ pc' = "scan" /\ UNCHANGED <<script, closed, scan, begin, fully, req, replies>>
  BY DEF Recv
<1>3. /\ piece \in Seq(Byte) /\ piece # <<>>
      /\ Len(piece) \in 1 .. BufSize /\ taken + Len(piece) <= Len(input)
      /\ piece = SubSeq(input, taken + 1, taken + Len(piece))
  BY PieceIs DEF Inv
<1>4. /\ Len(input) \in Nat /\ taken \in Nat /\ Len(buf) \in Nat /\ Len(buf) <= taken
      /\ scan \in Nat /\ BufSize \in Nat /\ replies \in Nat
  BY InvFacts
<1>5. input' = input
  BY <1>2 DEF input
<1>6. TypeOK'
  BY <1>1, <1>2, <1>3, <1>4, <1>5 DEF Inv, TypeOK
<1>7. taken' \in Nat /\ taken' - Len(piece) = taken /\ taken' >= taken /\ taken' > 0
  BY <1>1, <1>3, <1>4
<1>8. Primary'
  <2>1. buf' = SubSeq(input', taken' - Len(buf') + 1, taken')
    BY <1>1, <1>3, <1>5, <1>7
  <2>2. ~fully => taken' = Len(buf')
    BY <1>1, <1>2, <1>3, <1>4 DEF Inv, Primary
  <2> QED
    BY <1>1, <1>2, <1>3, <1>4, <1>7, <2>1, <2>2 DEF Primary
<1>9. Secondary'
  BY <1>2 DEF Inv, Secondary
<1>10. Counted'
  <2>1. \A m, n : Terminators(m, n)' = Terminators(m, n)
    BY <1>5 DEF Terminators
  <2>2. /\ Scanned \in Int /\ Scanned' \in Int /\ Scanned <= Scanned'
        /\ taken \in Int /\ taken' \in Int /\ taken <= taken'
    BY <1>1, <1>2, <1>3, <1>4, <1>7 DEF Scanned
  <2>3. Cardinality(Terminators(Scanned, taken)) <= Cardinality(Terminators(Scanned', taken'))
    BY <2>2, TerminatorsGrow DEF Inv
  <2>4. /\ Cardinality(Terminators(Scanned, taken)) \in Nat
        /\ Cardinality(Terminators(Scanned', taken')) \in Nat
    BY TerminatorsFinite DEF Inv
  <2>5. replies' <= Cardinality(Terminators(Scanned', taken'))
    BY <1>2, <1>4, <2>3, <2>4 DEF Inv, Counted
  <2>6. ASSUME taken' = Len(buf')
        PROVE  replies' = Cardinality(Terminators(scan', taken'))
    <3>1. taken = 0 /\ scan = 0
      BY <1>1, <1>2, <1>3, <1>4, <2>6 DEF Inv, Primary
    <3>2. /\ Terminators(Scanned, taken) = {} /\ Terminators(scan', taken') = {}
      BY <1>2, <3>1 DEF Terminators
    <3> QED
      BY <1>2, <1>4, <3>2, FS_EmptySet DEF Inv, Counted
  <2>7. Terminators(Scanned, taken)' = Terminators(Scanned', taken')
        /\ Terminators(scan, taken)' = Terminators(scan', taken')
    BY <1>5 DEF Terminators
  <2> QED
    BY <1>2, <2>5, <2>6, <2>7 DEF Counted
<1> QED
  BY <1>6, <1>8, <1>9, <1>10 DEF Inv

\* One turn of the outer scan loop: the position moves on by one, and an answer is
\* counted where a terminator is.
LEMMA ScanStep ==
    ASSUME Inv, pc = "scan", pc' = "scan", InScan(buf, scan), scan' = scan + 1,
           UNCHANGED <<script, taken, closed, buf, req>>,
           begin' \in 0 .. BufSize, fully' \in BOOLEAN, fully => fully',
           replies' = replies + (IF TerminatorAt(buf, scan) THEN 1 ELSE 0)
    PROVE  Inv'
<1>1. /\ input \in Seq(Byte) /\ Len(input) \in Nat /\ taken \in Nat /\ taken <= Len(input)
      /\ Len(buf) \in Nat /\ Len(buf) <= taken /\ Len(buf) <= BufSize
      /\ scan \in Nat /\ BufSize \in Nat /\ replies \in Nat
  BY InvFacts
<1>2. scan + 4 <= Len(buf)
  BY TerminatorLen DEF InScan
<1>3. input' = input
  BY DEF input
<1>4. TypeOK'
  BY <1>1, <1>2, <1>3 DEF Inv, TypeOK
<1>5. Primary'
  BY <1>1, <1>2, <1>3 DEF Inv, Primary
<1>6. Secondary'
  BY DEF Inv, Secondary
<1>7. PICK m \in Nat : m = taken - Len(buf)
  BY <1>1
<1>8. TerminatorAt(buf, scan) <=> TerminatorAt(input, m + scan)
  <2>1. buf = SubSeq(input, m + 1, taken)
    BY <1>7 DEF Inv, Primary
  <2>2. m + scan + 4 <= taken /\ m <= taken
    BY <1>1, <1>2, <1>7
  <2> QED
    BY <1>1, <2>1, <2>2, TerminatorInPart
<1>9. Cardinality(Terminators(m + scan + 1, taken)) =
        Cardinality(Terminators(m + scan, taken)) + (IF TerminatorAt(buf, scan) THEN 1 ELSE 0)
  <2>1. m + scan \in Nat /\ m + scan + 4 <= taken
    BY <1>1, <1>2, <1>7
  <2> QED
    BY <1>1, <1>8, <2>1, TerminatorsNext DEF Inv
<1>10. /\ Scanned = m + scan /\ Scanned' = m + scan + 1
       /\ taken = Len(buf) => m + scan = scan /\ m + scan + 1 = scan'
  BY <1>1, <1>7 DEF Scanned
<1>11. \A k, n : Terminators(k, n)' = Terminators(k, n)
  BY <1>3 DEF Terminators
<1>12. Cardinality(Terminators(m + scan, taken)) \in Nat
  BY TerminatorsFinite DEF Inv
<1>13. Counted'
  <2>1. replies' <= Cardinality(Terminators(m + scan + 1, taken))
    BY <1>1, <1>9, <1>10, <1>12 DEF Inv, Counted
  <2>2. taken = Len(buf) => replies' = Cardinality(Terminators(scan', taken))
    BY <1>1, <1>9, <1>10, <1>12 DEF Inv, Counted
  <2>3. Terminators(Scanned, taken)' = Terminators(m + scan + 1, taken)
        /\ Terminators(scan, taken)' = Terminators(scan', taken)
    BY <1>3, <1>10 DEF Terminators
  <2> QED
    BY <2>1, <2>2, <2>3 DEF Counted
<1> QED
  BY <1>4, <1>5, <1>6, <1>13 DEF Inv

\* The steps of the outer scan loop.
LEMMA ScanLoop ==
    ASSUME Inv, ScanSkip \/ ScanRequest
    PROVE  Inv'
<1>1. /\ Len(buf) \in Nat /\ Len(buf) <= BufSize /\ scan \in Nat /\ begin \in Nat /\ begin <= BufSize
      /\ BufSize \in Nat /\ replies \in Nat /\ fully \in BOOLEAN
  BY InvFacts DEF Inv, TypeOK
<1>2. CASE ScanSkip
  <2>1. replies' = replies + (IF TerminatorAt(buf, scan) THEN 1 ELSE 0)
    BY <1>1, <1>2 DEF ScanSkip
  <2>2. begin' \in 0 .. BufSize /\ fully' \in BOOLEAN /\ (fully => fully')
    BY <1>1, <1>2 DEF ScanSkip
  <2> QED
    BY <1>2, <2>1, <2>2, ScanStep DEF ScanSkip
<1>3. CASE ScanRequest
  <2>1. replies' = replies + (IF TerminatorAt(buf, scan) THEN 1 ELSE 0)
    BY <1>3 DEF ScanRequest, process_request
  <2>2. CASE InScan(buf, scan + 1)
    <3>1. begin' = scan + 4 /\ fully' = fully
      BY <1>3, <2>2, TerminatorLen DEF ScanRequest
    <3>2. begin' \in 0 .. BufSize
      BY <1>1, <2>2, <3>1, TerminatorLen DEF InScan
    <3> QED
      BY <1>1, <1>3, <2>1, <3>1, <3>2, ScanStep DEF ScanRequest
  <2>3. CASE ~InScan(buf, scan + 1)
    <3>1. begin' \in 0 .. BufSize /\ fully'
      BY <1>1, <1>3, <2>3 DEF ScanRequest
    <3>2. fully' \in BOOLEAN
      BY <1>3, <2>3 DEF ScanRequest
    <3> QED
      BY <1>3, <2>1, <3>1, <3>2, ScanStep DEF ScanRequest
  <2> QED
    BY <2>2, <2>3
<1> QED
  BY <1>2, <1>3

LEMMA ScanDoneStep ==
    ASSUME Inv, ScanDone
    PROVE  Inv'
<1>1. /\ input \in Seq(Byte) /\ taken \in Nat
      /\ buf \in Seq(Byte) /\ Len(buf) \in Nat /\ Len(buf) <= taken /\ Len(buf) <= BufSize
      /\ scan \in Nat /\ BufSize \in Nat /\ replies \in Nat /\ req \in BufStruct
  BY InvFacts
<1>2. /\ pc = "scan" /\ ~(scan + 4 <= Len(buf))
      /\ UNCHANGED <<script, taken, closed, buf, scan, begin, fully, replies>>
  BY TerminatorLen DEF ScanDone, InScan
<1>3. input' = input /\ Scanned' = Scanned
  BY <1>2 DEF input, Scanned
<1>4. Terminators(Scanned, taken)' = Terminators(Scanned, taken)
      /\ Terminators(scan, taken)' = Terminators(scan, taken)
  BY <1>2, <1>3 DEF Terminators
<1>5. CASE fully
  <2>1. pc' = "recv" /\ req' = req
    BY <1>5 DEF ScanDone
  <2>2. TypeOK' /\ Secondary'
    BY <1>2, <1>3, <2>1 DEF Inv, TypeOK, Secondary
  <2>3. Primary'
    BY <1>2, <1>5, <2>1 DEF Inv, Primary
  <2>4. Counted'
    BY <1>1, <1>2, <1>4, <2>1 DEF Inv, Counted
  <2> QED
    BY <2>2, <2>3, <2>4 DEF Inv
<1>6. CASE ~fully
  <2>1. pc' = "recv2" /\ req' = [bytes |-> buf, space |-> 2 * BufSize, scan |-> 0]
    BY <1>6 DEF ScanDone, ReqBuf, buf_struct_init
  <2>2. buf = SubSeq(input, 1, taken)
    <3>1. taken = Len(buf) /\ buf = SubSeq(input, taken - Len(buf) + 1, taken)
      BY <1>2, <1>6 DEF Inv, Primary
    <3>2. taken - Len(buf) + 1 = 1
      BY <1>1, <3>1
    <3> QED
      BY <3>1, <3>2
  <2>3. req' \in BufStruct
    BY <1>1, <2>1 DEF BufStruct
  <2>4. TypeOK'
    BY <1>2, <1>3, <2>1, <2>3 DEF Inv, TypeOK
  <2>5. Primary'
    BY <1>2, <2>1 DEF Inv, Primary
  <2>6. Secondary'
    BY <1>1, <1>2, <1>3, <2>1, <2>2 DEF Secondary
  <2>7. Counted'
    BY <1>2, <1>4, <2>1 DEF Inv, Counted
  <2> QED
    BY <2>4, <2>5, <2>6, <2>7 DEF Inv
<1> QED
  BY <1>5, <1>6

\* The bytes of the secondary buffer fit into its first allocation: a piece more
\* than what one recv_buf held.
LEMMA Recv2Step ==
    ASSUME Inv, Recv2
    PROVE  Inv'
<1>1. /\ input \in Seq(Byte) /\ Len(input) \in Nat /\ taken \in Nat /\ taken <= Len(input)
      /\ Len(buf) \in Nat /\ Len(buf) <= taken
      /\ scan \in Nat /\ BufSize \in Nat /\ replies \in Nat
      /\ req \in BufStruct /\ req.bytes \in Seq(Byte) /\ Len(req.bytes) \in Nat
  BY InvFacts
<1>2. /\ pc = "recv2" /\ pc' = "scan2"
      /\ UNCHANGED <<script, closed, scan, begin, fully, replies>>
  BY DEF Recv2
<1>3. /\ req.bytes = SubSeq(input, 1, taken) /\ req.space = 2 * BufSize
      /\ Len(req.bytes) <= BufSize /\ req.scan = 0
  BY <1>2 DEF Inv, Secondary
<1>4. PICK piece \in Pieces :
        LET room == IF req.space - Len(req.bytes) < Len(piece) THEN Expanded(req) ELSE req
        IN  /\ taken' = taken + Len(piece)
            /\ buf' = piece
            /\ req' = [room EXCEPT !.bytes = @ \o piece]
  BY DEF Recv2
<1>5. /\ piece \in Seq(Byte) /\ piece # <<>>
      /\ Len(piece) \in 1 .. BufSize /\ taken + Len(piece) <= Len(input)
      /\ piece = SubSeq(input, taken + 1, taken + Len(piece))
  BY PieceIs DEF Inv
<1>6. ~(req.space - Len(req.bytes) < Len(piece))
  BY <1>1, <1>3, <1>5
<1>7. req' = [req EXCEPT !.bytes = @ \o piece] /\ taken' = taken + Len(piece) /\ buf' = piece
  BY <1>4, <1>6
<1>8. /\ req.bytes \o piece \in Seq(Byte)
      /\ Len(req.bytes \o piece) = Len(req.bytes) + Len(piece)
  BY <1>1, <1>5, ConcatProperties
<1>9. /\ req' \in BufStruct /\ req'.bytes = req.bytes \o piece
      /\ req'.space = 2 * BufSize /\ req'.scan = 0
  BY <1>1, <1>3, <1>7, <1>8 DEF BufStruct
<1>10. input' = input
  BY <1>2 DEF input
<1>11. taken' \in Nat /\ taken' <= Len(input) /\ taken' > 0 /\ taken <= taken' /\ Len(buf') <= taken'
       /\ Len(buf') <= BufSize
  BY <1>1, <1>5, <1>7
<1>12. SubSeq(input, 1, taken) \o piece = SubSeq(input, 1, taken')
  <2>1. PICK n : n = taken'
    OBVIOUS
  <2>2. 1 \in 1 .. Len(input) + 1 /\ taken \in (1 - 1) .. Len(input) /\ n \in taken .. Len(input)
    BY <1>1, <1>11, <2>1
  <2>3. SubSeq(input, 1, taken) \o SubSeq(input, taken + 1, n) = SubSeq(input, 1, n)
    BY <1>1, <2>2, ConcatAdjacentSubSeq
  <2> QED
    BY <1>5, <1>7, <2>1, <2>3
<1>13. TypeOK'
  BY <1>2, <1>9, <1>10, <1>11 DEF Inv, TypeOK
<1>14. Primary'
  BY <1>2, <1>5, <1>7, <1>11 DEF Inv, Primary
<1>15. Secondary'
  <2>1. PICK l \in 1 .. BufSize : l = Len(piece)
    BY <1>5
  <2>2. Len(req'.bytes) <= 2 * BufSize
    BY <1>1, <1>3, <1>8, <1>9, <2>1
  <2>3. req'.bytes = SubSeq(input', 1, taken')
    BY <1>3, <1>9, <1>10, <1>12
  <2> QED
    BY <1>2, <1>9, <2>2, <2>3 DEF Secondary
<1>16. Counted'
  <2>1. /\ Scanned \in Int /\ Scanned' \in Int /\ Scanned <= Scanned'
        /\ taken \in Int /\ taken' \in Int /\ taken <= taken'
    <3>1. PICK l \in 1 .. BufSize : l = Len(piece)
      BY <1>5
    <3>2. taken' = taken + l /\ Len(buf') = l /\ scan' = scan
      BY <1>2, <1>7, <3>1
    <3> QED
      BY <1>1, <3>2 DEF Scanned
  <2>2. Cardinality(Terminators(Scanned, taken)) <= Cardinality(Terminators(Scanned', taken'))
    BY <2>1, TerminatorsGrow DEF Inv
  <2>3. /\ Cardinality(Terminators(Scanned, taken)) \in Nat
        /\ Cardinality(Terminators(Scanned', taken')) \in Nat
    BY TerminatorsFinite DEF Inv
  <2>4. replies' <= Cardinality(Terminators(Scanned', taken'))
    BY <1>1, <1>2, <2>2, <2>3 DEF Inv, Counted
  <2>5. Terminators(Scanned, taken)' = Terminators(Scanned', taken')
    BY <1>10 DEF Terminators
  <2> QED
    BY <1>2, <2>4, <2>5 DEF Counted
<1> QED
  BY <1>13, <1>14, <1>15, <1>16 DEF Inv

\* A short secondary buffer goes back to the inner recv.
LEMMA Scan2DoneStep ==
    ASSUME Inv, Scan2Done
    PROVE  Inv'
<1>1. BufSize \in Nat /\ BufSize >= 4 /\ Len(req.bytes) \in Nat
  BY InvFacts
<1>2. /\ pc = "scan2" /\ pc' = "recv2" /\ ~(0 + 4 <= Len(req.bytes))
      /\ UNCHANGED <<script, taken, closed, buf, scan, begin, fully, req, replies>>
  BY TerminatorLen DEF Scan2Done, InScan, Inv, Secondary
<1>3. input' = input /\ Scanned' = Scanned
  BY <1>2 DEF input, Scanned
<1>4. Terminators(Scanned, taken)' = Terminators(Scanned, taken)
  BY <1>2, <1>3 DEF Terminators
<1>5. TypeOK' /\ Primary'
  BY <1>2, <1>3 DEF Inv, TypeOK, Primary
<1>6. Secondary'
  BY <1>1, <1>2, <1>3 DEF Inv, Secondary
<1>7. Counted'
  BY <1>2, <1>4 DEF Inv, Counted
<1> QED
  BY <1>5, <1>6, <1>7 DEF Inv

LEMMA InvNext == Inv /\ [Next]_vars => Inv'
<1> SUFFICES ASSUME Inv, [Next]_vars PROVE Inv'
  OBVIOUS
<1>0. closed \in BOOLEAN
  BY DEF Inv, TypeOK
<1>1. CASE Setup
  BY <1>0, <1>1, QuietStep DEF Setup
<1>2. CASE Listen
  BY <1>0, <1>2, QuietStep DEF Listen
<1>3. CASE Accept
  BY <1>0, <1>3, QuietStep DEF Accept
<1>4. CASE Close
  BY <1>4, QuietStep DEF Close
<1>5. CASE Recv
  BY <1>5, RecvStep
<1>6. CASE RecvEnds
  BY <1>0, <1>6, QuietStep DEF RecvEnds
<1>7. CASE ScanSkip \/ ScanRequest
  BY <1>7, ScanLoop
<1>8. CASE SendFails
  BY <1>0, <1>8, QuietStep DEF SendFails
<1>9. CASE ScanEmpty
  BY <1>0, <1>9, QuietStep DEF ScanEmpty
<1>10. CASE ScanDone
  BY <1>10, ScanDoneStep
<1>11. CASE Recv2
  BY <1>11, Recv2Step
<1>12. CASE Scan2
  <2>1. req.scan = 0
    BY DEF Inv, Secondary
  <2>2. pc' = pc \/ pc' = "exit"
    BY <1>12, <2>1 DEF Scan2
  <2>3. UNCHANGED <<script, taken, closed, buf, scan, begin, fully, req, replies>>
    BY <1>12, <2>1 DEF Scan2
  <2> QED
    BY <1>0, <2>2, <2>3, QuietStep
<1>13. CASE Scan2Done
  BY <1>13, Scan2DoneStep
<1>14. CASE UNCHANGED vars
  BY <1>0, <1>14, QuietStep DEF vars
<1> QED
  BY <1>1, <1>2, <1>3, <1>4, <1>5, <1>6, <1>7, <1>8, <1>9, <1>10, <1>11, <1>12, <1>13, <1>14
  DEF Next, Server

LEMMA AlwaysInv == Spec => []Inv
<1> QED
  BY InvInit, InvNext, PTL DEF Spec

-----------------------------------------------------------------------------
(* What the invariant says about the answers.                              *)

\* Of a client that sends no empty request the terminators that arrived are the ends
\* of the requests that arrived.
LEMMA TerminatorsAreEnds ==
    ASSUME TypeOK, NoEmptyRequest
    PROVE  Cardinality(Terminators(Len(input), taken)) = Ended(taken)
<1> DEFINE found == { i \in 0 .. (Len(input) - 4) :
                        SubSeq(input, i + 1, i + 4) = http_terminator }
           T == Terminators(Len(input), taken)
           E == { k \in 1 .. Len(script) : EndOf(script, k) <= taken }
           f == [k \in E |-> EndOf(script, k) - 4]
<1>1. Len(input) \in Nat /\ taken \in Nat
  BY InputType DEF TypeOK
<1>2. /\ \A i \in found : \E k \in 1 .. Len(script) : EndOf(script, k) = i + 4
      /\ \A k \in 1 .. Len(script) : \E i \in found : EndOf(script, k) = i + 4
      /\ \A j, k \in 1 .. Len(script) : EndOf(script, j) = EndOf(script, k) => j = k
  BY RequestsAssumption DEF TypeOK, NoEmptyRequest, input
<1>3. T = { i \in found : i + 4 <= taken }
  BY <1>1, TerminatorLen DEF Terminators, TerminatorAt
<1> HIDE DEF T
<1>4. found \subseteq Int
  OBVIOUS
<1> HIDE DEF found
<1>5. ASSUME NEW k \in E
      PROVE  f[k] \in T /\ f[k] \in Int /\ EndOf(script, k) = f[k] + 4
  <2>1. PICK i \in found : EndOf(script, k) = i + 4
    BY <1>2
  <2>2. f[k] = i /\ i + 4 <= taken /\ i \in Int
    BY <1>4, <2>1
  <2> QED
    BY <1>3, <2>1, <2>2
<1>6. ASSUME NEW i \in T
      PROVE  \E k \in E : f[k] = i
  <2>1. i \in found /\ i + 4 <= taken /\ i \in Int
    BY <1>3, <1>4
  <2>2. PICK k \in 1 .. Len(script) : EndOf(script, k) = i + 4
    BY <1>2, <2>1
  <2>3. k \in E
    BY <2>1, <2>2
  <2> QED
    BY <2>1, <2>2, <2>3
<1>7. ASSUME NEW j \in E, NEW k \in E, f[j] = f[k]
      PROVE  j = k
  <2>1. EndOf(script, j) = EndOf(script, k)
    BY <1>5, <1>7
  <2> QED
    BY <1>2, <2>1
<1>8. f \in [E -> T]
  BY <1>5
<1>9. IsFiniteSet(E)
  <2>1. script \in Seq(Seq(Byte))
    BY ScriptsAssumption DEF TypeOK
  <2>2. Len(script) \in Nat
    BY <2>1, LenProperties
  <2>3. IsFiniteSet(1 .. Len(script))
    BY <2>2, FS_Interval
  <2> QED
    BY <2>3, FS_Subset
<1> HIDE DEF f
<1>10. f \in Bijection(E, T)
  BY <1>6, <1>7, <1>8 DEF Bijection, Injection, Surjection, IsInjective
<1>11. Cardinality(T) = Cardinality(E)
  BY <1>9, <1>10, FS_Bijection DEF ExistsBijection
<1> QED
  BY <1>11 DEF Ended, T

\* Type correctness (TypeOK): for every stream and every cutting of it into pieces
\* scanner_index and req_begin_index stay within recv_buf, and no more bytes of it
\* are ever valid than the buffer has.
THEOREM TypeCorrect == Spec => []TypeOK
<1>1. Inv => TypeOK
  BY DEF Inv
<1> QED
  BY <1>1, AlwaysInv, PTL

\* The secondary buffer (SecondaryIntact): req_buf holds the stream from its first
\* byte without a gap and buf_struct_expand is never called.
THEOREM SecondaryKept == Spec => []SecondaryIntact
<1>1. Inv => SecondaryIntact
  <2> SUFFICES ASSUME Inv, pc \in {"recv2", "scan2"}
               PROVE  Len(req.bytes) <= req.space
    BY DEF SecondaryIntact, Inv, Secondary
  <2>1. BufSize \in Nat /\ Len(req.bytes) \in Nat
    BY InvFacts
  <2> QED
    BY <2>1 DEF Inv, Secondary
<1> QED
  BY <1>1, AlwaysInv, PTL

\* No answer without a request (NoSpuriousReply): although scanner_index and
\* req_begin_index survive from piece to piece, process_request is never called more
\* often than requests have arrived.
THEOREM NoSpurious == Spec => []NoSpuriousReply
<1>1. Inv => NoSpuriousReply
  <2> SUFFICES ASSUME Inv, NoEmptyRequest PROVE replies <= Ended(taken)
    BY DEF NoSpuriousReply
  <2>1. replies \in Nat /\ Len(input) \in Nat
    BY InvFacts
  <2>2. Terminators(Scanned, taken) \subseteq Terminators(Len(input), taken)
    BY <2>1 DEF Terminators
  <2>3. IsFiniteSet(Terminators(Len(input), taken))
        /\ Cardinality(Terminators(Len(input), taken)) \in Nat
        /\ Cardinality(Terminators(Scanned, taken)) \in Nat
    BY TerminatorsFinite DEF Inv
  <2>4. Cardinality(Terminators(Scanned, taken)) <= Cardinality(Terminators(Len(input), taken))
    BY <2>2, <2>3, FS_Subset
  <2> QED
    BY <2>1, <2>3, <2>4, TerminatorsAreEnds DEF Inv, Counted
<1> QED
  BY <1>1, AlwaysInv, PTL

\* Pipelining (FirstPieceAnswered): when the server waits again after a first piece
\* that ended with a request, the scan loop has answered every request in it.
THEOREM FirstPiece == Spec => []FirstPieceAnswered
<1>1. Inv => FirstPieceAnswered
  <2> SUFFICES ASSUME Inv, pc = "recv", Len(buf) = taken, taken > 0, NoEmptyRequest
               PROVE  replies = Ended(taken)
    BY DEF FirstPieceAnswered
  <2>1. Len(input) \in Nat /\ scan \in Nat /\ taken \in Nat
    BY InvFacts
  <2>2. scan + 4 > taken /\ replies = Cardinality(Terminators(scan, taken))
    BY DEF Inv, Counted
  <2>3. Terminators(scan, taken) = Terminators(Len(input), taken)
    BY <2>1, <2>2 DEF Terminators
  <2> QED
    BY <2>2, <2>3, TerminatorsAreEnds DEF Inv
<1> QED
  BY <1>1, AlwaysInv, PTL
=============================================================================
