-------------------------- MODULE ExchangeProofs ---------------------------
(***************************************************************************)
(* Proofs about one packet on its way: what a peer delivers is the packet  *)
(* that was meant, what the client takes for an answer is one, and the     *)
(* buffers on the way keep all bytes in order.                             *)
(*                                                                         *)
(* First the codec: packet_serialize(p) is a header of seven bytes and a   *)
(* body (Serialized); the header decodes to what it announces of p         *)
(* (HeaderDecoded) and the body to p itself (BodyDecoded) when its lengths *)
(* and their sum have not wrapped.  Then the transport: a step of recv     *)
(* moves a piece from the bytes under way to the bytes received, and what  *)
(* was received followed by what is under way stays the packet             *)
(* (Receiving) or a beginning of the answer (Answering).                   *)
(***************************************************************************)
EXTENDS Exchange, SequenceTheorems, TLAPS

-----------------------------------------------------------------------------
(* Numbers and their bytes.                                                *)

LEMMA Product ==
    ASSUME NEW b \in Nat, NEW k \in Nat, NEW l \in Nat, k <= l
    PROVE  b * k \in Nat /\ b * k <= b * l
OBVIOUS

\* Quotient and remainder of a number, and that there are no others.
LEMMA Divided ==
    ASSUME NEW b \in Nat \ {0}, NEW v \in Nat
    PROVE  /\ v \div b \in Nat /\ v % b \in 0 .. (b - 1)
           /\ v = b * (v \div b) + (v % b)
<1>1. v % b \in 0 .. (b - 1)
  OBVIOUS
<1>2. v \div b \in Int
  OBVIOUS
<1>3. v = b * (v \div b) + (v % b)
  OBVIOUS
<1>4. v \div b >= 0
  OBVIOUS
<1> QED
  BY <1>1, <1>2, <1>3, <1>4

LEMMA DividedOnly ==
    ASSUME NEW b \in Nat \ {0}, NEW q \in Nat, NEW r \in 0 .. (b - 1)
    PROVE  (b * q + r) \div b = q /\ (b * q + r) % b = r
<1> DEFINE v == b * q + r
<1>0. v \in Nat
  BY Product
<1>1. PICK d \in Nat : d = v \div b
  BY <1>0, Divided
<1>2. PICK m \in 0 .. (b - 1) : m = v % b
  BY <1>0, Divided
<1>3. v = b * d + m
  BY <1>0, <1>1, <1>2, Divided
<1>4. ~(d < q)
  <2> SUFFICES ASSUME d < q PROVE FALSE
    OBVIOUS
  <2>1. b * (d + 1) <= b * q
    BY Product
  <2>2. b * (d + 1) = b * d + b
    OBVIOUS
  <2> QED
    BY <1>3, <2>1, <2>2, Product
<1>5. ~(q < d)
  <2> SUFFICES ASSUME q < d PROVE FALSE
    OBVIOUS
  <2>1. b * (q + 1) <= b * d
    BY Product
  <2>2. b * (q + 1) = b * q + b
    OBVIOUS
  <2> QED
    BY <1>3, <2>1, <2>2, Product
<1>6. d = q
  BY <1>4, <1>5
<1>7. m = r
  BY <1>3, <1>6, Product
<1> QED
  BY <1>1, <1>2, <1>6, <1>7

LEMMA DividedBelow ==
    ASSUME NEW b \in Nat \ {0}, NEW c \in Nat, NEW v \in Nat, v < b * c
    PROVE  v \div b < c
<1>1. PICK d \in Nat : d = v \div b
  BY Divided
<1>2. b * d <= v
  BY <1>1, Divided
<1> SUFFICES ASSUME ~(d < c) PROVE FALSE
  BY <1>1
<1>3. b * c <= b * d
  BY Product
<1> QED
  BY <1>2, <1>3, Product

\* What one byte of a number holds, and the two bytes of one below Max16.
Digit == 0 .. (Base - 1)
Hi(v) == (v \div Base) % Base
Lo(v) == v % Base

LEMMA Widths ==
    /\ Base \in Nat \ {0} /\ Max16 \in Nat \ {0} /\ Max32 \in Nat \ {0}
    /\ Base <= Max16 /\ Max16 <= Max32
<1>1. Base \in Nat \ {0} /\ Base >= 1
  BY BaseAssumption
<1>2. Base * 1 <= Base * Base /\ Base * Base \in Nat
  BY <1>1, Product
<1>3. Max16 \in Nat /\ Max16 >= 1 /\ Base <= Max16
  BY <1>1, <1>2 DEF Max16
<1>4. Max16 * 1 <= Max16 * Max16 /\ Max16 * Max16 \in Nat
  BY <1>3, Product
<1> QED
  BY <1>1, <1>3, <1>4 DEF Max32

LEMMA Digits ==
    ASSUME NEW v \in Nat
    PROVE  /\ Hi(v) \in Digit /\ Lo(v) \in Digit
           /\ v < Max16 => Hi(v) * Base + Lo(v) = v
<1>0. Base \in Nat \ {0}
  BY Widths
<1>1. PICK q \in Nat : q = v \div Base
  BY <1>0, Divided
<1>2. v % Base \in Digit /\ v = Base * q + (v % Base)
  BY <1>0, <1>1, Divided DEF Digit
<1>3. q % Base \in Digit
  BY <1>0, Divided DEF Digit
<1>4. ASSUME v < Max16
      PROVE  q % Base = q
  <2>1. q < Base
    BY <1>0, <1>1, <1>4, DividedBelow DEF Max16
  <2>2. (Base * 0 + q) % Base = q
    BY <1>0, <2>1, DividedOnly
  <2> QED
    BY <1>0, <2>2
<1>5. Base * q = q * Base
  BY <1>0
<1> QED
  BY <1>1, <1>2, <1>3, <1>4, <1>5 DEF Hi, Lo

LEMMA DigitsOnly ==
    ASSUME NEW h \in Digit, NEW l \in Digit
    PROVE  h * Base + l \in 0 .. (Max16 - 1) /\ Hi(h * Base + l) = h /\ Lo(h * Base + l) = l
<1>0. Base \in Nat \ {0} /\ h \in Nat /\ l \in 0 .. (Base - 1) /\ h < Base /\ h + 1 <= Base
  BY Widths DEF Digit
<1>1. h * Base = Base * h
  BY <1>0
<1>2. (Base * h + l) \div Base = h /\ (Base * h + l) % Base = l
  BY <1>0, DividedOnly
<1>3. (Base * 0 + h) % Base = h
  BY <1>0, DividedOnly
<1>4. h % Base = h
  BY <1>0, <1>3
<1>5. Base * (h + 1) <= Base * Base /\ Base * h \in Nat
  BY <1>0, Product
<1>6. Base * (h + 1) = Base * h + Base
  BY <1>0
<1>7. Base * h + l < Max16 /\ Base * h + l >= 0
  BY <1>0, <1>5, <1>6 DEF Max16
<1> QED
  BY <1>0, <1>1, <1>2, <1>4, <1>5, <1>7, Widths DEF Hi, Lo

\* The halves of a number of four bytes.
LEMMA Halves ==
    ASSUME NEW v \in Nat, v < Max32
    PROVE  /\ v \div Max16 \in 0 .. (Max16 - 1) /\ v % Max16 \in 0 .. (Max16 - 1)
           /\ (v \div Max16) * Max16 + (v % Max16) = v
<1>0. Max16 \in Nat \ {0}
  BY Widths
<1>1. PICK q \in Nat : q = v \div Max16
  BY <1>0, Divided
<1>2. v % Max16 \in 0 .. (Max16 - 1) /\ v = Max16 * q + (v % Max16)
  BY <1>0, <1>1, Divided
<1>3. q < Max16
  BY <1>0, <1>1, DividedBelow DEF Max32
<1>4. Max16 * q = q * Max16
  BY <1>0
<1> QED
  BY <1>0, <1>1, <1>2, <1>3, <1>4

LEMMA HalvesOnly ==
    ASSUME NEW h \in 0 .. (Max16 - 1), NEW l \in 0 .. (Max16 - 1)
    PROVE  /\ h * Max16 + l \in 0 .. (Max32 - 1)
           /\ (h * Max16 + l) \div Max16 = h /\ (h * Max16 + l) % Max16 = l
<1>0. Max16 \in Nat \ {0} /\ h \in Nat /\ l \in 0 .. (Max16 - 1) /\ h + 1 <= Max16
  BY Widths
<1>1. h * Max16 = Max16 * h
  BY <1>0
<1>2. (Max16 * h + l) \div Max16 = h /\ (Max16 * h + l) % Max16 = l
  BY <1>0, DividedOnly
<1>3. Max16 * (h + 1) <= Max16 * Max16 /\ Max16 * h \in Nat
  BY <1>0, Product
<1>4. Max16 * (h + 1) = Max16 * h + Max16
  BY <1>0
<1>5. Max16 * h + l < Max32 /\ Max16 * h + l >= 0
  BY <1>0, <1>3, <1>4 DEF Max32
<1> QED
  BY <1>0, <1>1, <1>2, <1>3, <1>5, Widths

-----------------------------------------------------------------------------
(* Sequences cut into pieces.                                              *)

\* A byte of a packet, and one read where none was written.
Cell == Nat \cup {Junk}

\* Concatenation, for the steps in which it is not to be expanded.
Cat(a, b) == a \o b

\* The first k bytes of b, and the others.
LEMMA MovePiece ==
    ASSUME NEW S, NEW b \in Seq(S), NEW k \in 0 .. Len(b)
    PROVE  /\ SubSeq(b, 1, k) \in Seq(S) /\ Len(SubSeq(b, 1, k)) = k
           /\ SubSeq(b, k + 1, Len(b)) \in Seq(S) /\ Len(SubSeq(b, k + 1, Len(b))) = Len(b) - k
           /\ SubSeq(b, 1, k) \o SubSeq(b, k + 1, Len(b)) = b
<1>0. Len(b) \in Nat /\ k \in Nat /\ k <= Len(b)
  BY LenProperties
<1>1. \A i \in 1 .. Len(b) : b[i] \in S
  BY ElementOfSeq
<1>2. SubSeq(b, 1, k) \in Seq(S) /\ Len(SubSeq(b, 1, k)) = k
  BY <1>0, <1>1, SubSeqProperties
<1>3. SubSeq(b, k + 1, Len(b)) \in Seq(S) /\ Len(SubSeq(b, k + 1, Len(b))) = Len(b) - k
  BY <1>0, <1>1, SubSeqProperties
<1>4. SubSeq(b, 1, k) \o SubSeq(b, k + 1, Len(b)) = b
  <2>1. 1 \in 1 .. Len(b) + 1 /\ k \in (1 - 1) .. Len(b) /\ Len(b) \in k .. Len(b)
    BY <1>0
  <2>2. SubSeq(b, 1, k) \o SubSeq(b, k + 1, Len(b)) = SubSeq(b, 1, Len(b))
    BY <2>1, ConcatAdjacentSubSeq
  <2> QED
    BY <2>2, SubSeqFull
<1> QED
  BY <1>2, <1>3, <1>4

LEMMA Associative ==
    ASSUME NEW S, NEW a \in Seq(S), NEW x \in Seq(S), NEW v \in Seq(S)
    PROVE  /\ Cat(Cat(a, x), v) = Cat(a, Cat(x, v))
           /\ Cat(a, x) \in Seq(S) /\ Len(Cat(a, x)) = Len(a) + Len(x)
<1>1. a \o x \in Seq(S) /\ Len(a \o x) = Len(a) + Len(x)
  BY ConcatProperties
<1>2. (a \o x) \o v = a \o (x \o v)
  BY ConcatAssociative
<1> QED
  BY <1>1, <1>2 DEF Cat

LEMMA Cancel ==
    ASSUME NEW S, NEW a \in Seq(S), NEW b \in Seq(S), NEW c \in Seq(S), NEW d \in Seq(S),
           a \o b = c \o d, Len(a) = Len(c)
    PROVE  a = c /\ b = d
<1>0. Len(a) \in Nat /\ Len(b) \in Nat /\ Len(d) \in Nat
  BY LenProperties
<1>1. \A i \in 1 .. Len(a) : a[i] = c[i]
  <2>1. \A i \in 1 .. Len(a) : i \in 1 .. Len(a) + Len(b) /\ i \in 1 .. Len(c) + Len(d) /\ i <= Len(a)
    BY <1>0
  <2>2. \A i \in 1 .. Len(a) : (a \o b)[i] = a[i] /\ (c \o d)[i] = c[i]
    BY <2>1, ConcatProperties
  <2> QED
    BY <2>2
<1>2. a = c
  BY <1>1, SeqEqual
<1>3. c \o b = c \o d
  BY <1>2
<1>4. b = d
  BY <1>3, ConcatSimplifications, Zenon
<1> QED
  BY <1>2, <1>4

\* What a concatenation is, and of short tuples.
LEMMA JoinIs ==
    ASSUME NEW S, NEW s \in Seq(S), NEW t \in Seq(S), NEW u \in Seq(S),
           Len(u) = Len(s) + Len(t),
           \A i \in 1 .. Len(s) : u[i] = s[i],
           \A i \in 1 .. Len(t) : u[Len(s) + i] = t[i]
    PROVE  s \o t = u
<1>0. Len(s) \in Nat /\ Len(t) \in Nat
  BY LenProperties
<1>1. PICK v : v = s \o t
  OBVIOUS
<1>2. v \in Seq(S) /\ Len(v) = Len(s) + Len(t)
  BY <1>1, ConcatProperties
<1>3. \A i \in 1 .. Len(s) + Len(t) : v[i] = IF i <= Len(s) THEN s[i] ELSE t[i - Len(s)]
  BY <1>1, ConcatProperties
<1>4. ASSUME NEW i \in 1 .. Len(v) PROVE v[i] = u[i]
  <2>0. i \in 1 .. Len(s) + Len(t)
    BY <1>2
  <2>1. CASE i <= Len(s)
    <3>1. i \in 1 .. Len(s)
      BY <1>0, <2>0, <2>1
    <3> QED
      BY <1>3, <2>0, <2>1, <3>1
  <2>2. CASE ~(i <= Len(s))
    <3>1. i - Len(s) \in 1 .. Len(t) /\ Len(s) + (i - Len(s)) = i
      BY <1>0, <2>0, <2>2
    <3> QED
      BY <1>3, <2>0, <2>2, <3>1
  <2> QED
    BY <2>1, <2>2
<1>5. Len(v) = Len(u)
  BY <1>2
<1>6. v = u
  BY <1>2, <1>4, <1>5, SeqEqual
<1> QED
  BY <1>1, <1>6

LEMMA Tuple1and2 ==
    ASSUME NEW S, NEW a \in S, NEW b \in S, NEW c \in S
    PROVE  <<a>> \o <<b, c>> = <<a, b, c>>
<1>1. PICK s : s = <<a>>
  OBVIOUS
<1>2. PICK t : t = <<b, c>>
  OBVIOUS
<1>3. PICK u : u = <<a, b, c>>
  OBVIOUS
<1>4. s \in Seq(S) /\ t \in Seq(S) /\ u \in Seq(S) /\ Len(s) = 1 /\ Len(t) = 2 /\ Len(u) = 3
  BY <1>1, <1>2, <1>3
<1>5. /\ s[1] = a /\ t[1] = b /\ t[2] = c
      /\ u[1] = a /\ u[2] = b /\ u[3] = c
  BY <1>1, <1>2, <1>3
<1>6. \A i \in 1 .. Len(s) : u[i] = s[i]
  BY <1>4, <1>5
<1>7. \A i \in 1 .. Len(t) : u[Len(s) + i] = t[i]
  BY <1>4, <1>5
<1>8. Len(u) = Len(s) + Len(t)
  BY <1>4
<1>9. s \o t = u
  BY <1>4, <1>6, <1>7, <1>8, JoinIs, Zenon
<1> QED
  BY <1>1, <1>2, <1>3, <1>9

LEMMA Tuple2and2 ==
    ASSUME NEW S, NEW a \in S, NEW b \in S, NEW c \in S, NEW d \in S
    PROVE  <<a, b>> \o <<c, d>> = <<a, b, c, d>>
<1>1. PICK s : s = <<a, b>>
  OBVIOUS
<1>2. PICK t : t = <<c, d>>
  OBVIOUS
<1>3. PICK u : u = <<a, b, c, d>>
  OBVIOUS
<1>4. s \in Seq(S) /\ t \in Seq(S) /\ u \in Seq(S) /\ Len(s) = 2 /\ Len(t) = 2 /\ Len(u) = 4
  BY <1>1, <1>2, <1>3
<1>5. /\ s[1] = a /\ s[2] = b /\ t[1] = c /\ t[2] = d
      /\ u[1] = a /\ u[2] = b /\ u[3] = c /\ u[4] = d
  BY <1>1, <1>2, <1>3
<1>6. \A i \in 1 .. Len(s) : u[i] = s[i]
  BY <1>4, <1>5
<1>7. \A i \in 1 .. Len(t) : u[Len(s) + i] = t[i]
  BY <1>4, <1>5
<1>8. Len(u) = Len(s) + Len(t)
  BY <1>4
<1>9. s \o t = u
  BY <1>4, <1>6, <1>7, <1>8, JoinIs, Zenon
<1> QED
  BY <1>1, <1>2, <1>3, <1>9

LEMMA Tuple3and4 ==
    ASSUME NEW S, NEW a \in S, NEW b \in S, NEW c \in S, NEW d \in S, NEW e \in S, NEW f \in S, NEW g \in S
    PROVE  <<a, b, c>> \o <<d, e, f, g>> = <<a, b, c, d, e, f, g>>
<1>1. PICK s : s = <<a, b, c>>
  OBVIOUS
<1>2. PICK t : t = <<d, e, f, g>>
  OBVIOUS
<1>3. PICK u : u = <<a, b, c, d, e, f, g>>
  OBVIOUS
<1>4. s \in Seq(S) /\ t \in Seq(S) /\ u \in Seq(S) /\ Len(s) = 3 /\ Len(t) = 4 /\ Len(u) = 7
  BY <1>1, <1>2, <1>3
<1>5. /\ s[1] = a /\ s[2] = b /\ s[3] = c /\ t[1] = d /\ t[2] = e /\ t[3] = f /\ t[4] = g
      /\ u[1] = a /\ u[2] = b /\ u[3] = c /\ u[4] = d /\ u[5] = e /\ u[6] = f /\ u[7] = g
  BY <1>1, <1>2, <1>3
<1>6. \A i \in 1 .. Len(s) : u[i] = s[i]
  BY <1>4, <1>5
<1>7. \A i \in 1 .. Len(t) : u[Len(s) + i] = t[i]
  BY <1>4, <1>5
<1>8. Len(u) = Len(s) + Len(t)
  BY <1>4
<1>9. s \o t = u
  BY <1>4, <1>6, <1>7, <1>8, JoinIs, Zenon
<1> QED
  BY <1>1, <1>2, <1>3, <1>9

LEMMA Tuple3and2 ==
    ASSUME NEW S, NEW a \in S, NEW b \in S, NEW c \in S, NEW d \in S, NEW e \in S
    PROVE  <<a, b, c>> \o <<d, e>> = <<a, b, c, d, e>>
<1>1. PICK s : s = <<a, b, c>>
  OBVIOUS
<1>2. PICK t : t = <<d, e>>
  OBVIOUS
<1>3. PICK u : u = <<a, b, c, d, e>>
  OBVIOUS
<1>4. s \in Seq(S) /\ t \in Seq(S) /\ u \in Seq(S) /\ Len(s) = 3 /\ Len(t) = 2 /\ Len(u) = 5
  BY <1>1, <1>2, <1>3
<1>5. /\ s[1] = a /\ s[2] = b /\ s[3] = c /\ t[1] = d /\ t[2] = e
      /\ u[1] = a /\ u[2] = b /\ u[3] = c /\ u[4] = d /\ u[5] = e
  BY <1>1, <1>2, <1>3
<1>6. \A i \in 1 .. Len(s) : u[i] = s[i]
  BY <1>4, <1>5
<1>7. \A i \in 1 .. Len(t) : u[Len(s) + i] = t[i]
  BY <1>4, <1>5
<1>8. Len(u) = Len(s) + Len(t)
  BY <1>4
<1>9. s \o t = u
  BY <1>4, <1>6, <1>7, <1>8, JoinIs, Zenon
<1> QED
  BY <1>1, <1>2, <1>3, <1>9

LEMMA Tuple5and2 ==
    ASSUME NEW S, NEW a \in S, NEW b \in S, NEW c \in S, NEW d \in S, NEW e \in S, NEW f \in S, NEW g \in S
    PROVE  <<a, b, c, d, e>> \o <<f, g>> = <<a, b, c, d, e, f, g>>
<1>1. PICK s : s = <<a, b, c, d, e>>
  OBVIOUS
<1>2. PICK t : t = <<f, g>>
  OBVIOUS
<1>3. PICK u : u = <<a, b, c, d, e, f, g>>
  OBVIOUS
<1>4. s \in Seq(S) /\ t \in Seq(S) /\ u \in Seq(S) /\ Len(s) = 5 /\ Len(t) = 2 /\ Len(u) = 7
  BY <1>1, <1>2, <1>3
<1>5. /\ s[1] = a /\ s[2] = b /\ s[3] = c /\ s[4] = d /\ s[5] = e /\ t[1] = f /\ t[2] = g
      /\ u[1] = a /\ u[2] = b /\ u[3] = c /\ u[4] = d /\ u[5] = e /\ u[6] = f /\ u[7] = g
  BY <1>1, <1>2, <1>3
<1>6. \A i \in 1 .. Len(s) : u[i] = s[i]
  BY <1>4, <1>5
<1>7. \A i \in 1 .. Len(t) : u[Len(s) + i] = t[i]
  BY <1>4, <1>5
<1>8. Len(u) = Len(s) + Len(t)
  BY <1>4
<1>9. s \o t = u
  BY <1>4, <1>6, <1>7, <1>8, JoinIs, Zenon
<1> QED
  BY <1>1, <1>2, <1>3, <1>9

\* The bytes that a copy out of a buffer finds.
LEMMA PeekType ==
    ASSUME NEW b \in Seq(Cell), NEW i \in Nat, NEW n \in Nat
    PROVE  /\ Peek(b, i, n) \in Seq(Cell) /\ Len(Peek(b, i, n)) = n
           /\ \A k \in 1 .. n : i + k - 1 \in 1 .. Len(b) => Peek(b, i, n)[k] = b[i + k - 1]
<1>1. DOMAIN b = 1 .. Len(b) /\ \A k \in 1 .. Len(b) : b[k] \in Cell
  BY LenProperties, ElementOfSeq
<1>2. Junk \in Cell
  BY DEF Cell
<1>3. Peek(b, i, n) \in [1 .. n -> Cell]
  BY <1>1, <1>2 DEF Peek
<1>4. Peek(b, i, n) \in Seq(Cell)
  BY <1>3, SeqDef
<1>5. Len(Peek(b, i, n)) = n
  BY <1>3, <1>4, LenProperties
<1> QED
  BY <1>1, <1>4, <1>5 DEF Peek

LEMMA PeekFirst ==
    ASSUME NEW b \in Seq(Cell), NEW n \in 0 .. Len(b)
    PROVE  /\ Peek(b, 1, n) \in Seq(Cell) /\ Len(Peek(b, 1, n)) = n
           /\ \A k \in 1 .. n : Peek(b, 1, n)[k] = b[k]
<1>0. Len(b) \in Nat /\ n \in Nat /\ n <= Len(b)
  BY LenProperties
<1>1. ASSUME NEW k \in 1 .. n
      PROVE  Peek(b, 1, n)[k] = b[k]
  <2>1. 1 + k - 1 = k /\ k \in 1 .. Len(b)
    BY <1>0
  <2>2. 1 + k - 1 \in DOMAIN b
    BY <2>1, LenProperties
  <2> QED
    BY <2>1, <2>2 DEF Peek
<1>2. Peek(b, 1, n) \in Seq(Cell) /\ Len(Peek(b, 1, n)) = n
  BY <1>0, PeekType
<1> QED
  BY <1>1, <1>2

LEMMA PeekAll ==
    ASSUME NEW b \in Seq(Cell)
    PROVE  Peek(b, 1, Len(b)) = b
<1>0. Len(b) \in Nat /\ Len(b) \in 0 .. Len(b)
  BY LenProperties
<1> QED
  BY <1>0, PeekFirst, SeqEqual

\* A key and a value one behind the other.
LEMMA PeekJoined ==
    ASSUME NEW a \in Seq(Cell), NEW b \in Seq(Cell)
    PROVE  Peek(a \o b, 1, Len(a)) = a /\ Peek(a \o b, Len(a) + 1, Len(b)) = b
<1>0. Len(a) \in Nat /\ Len(b) \in Nat
  BY LenProperties
<1>1. /\ a \o b \in Seq(Cell) /\ Len(a \o b) = Len(a) + Len(b)
      /\ \A i \in 1 .. Len(a) + Len(b) : (a \o b)[i] = IF i <= Len(a) THEN a[i] ELSE b[i - Len(a)]
  BY ConcatProperties
<1>2. Peek(a \o b, 1, Len(a)) = a
  <2>0. Len(a) \in 0 .. Len(a \o b)
    BY <1>0, <1>1
  <2>1. /\ Peek(a \o b, 1, Len(a)) \in Seq(Cell) /\ Len(Peek(a \o b, 1, Len(a))) = Len(a)
        /\ \A k \in 1 .. Len(a) : Peek(a \o b, 1, Len(a))[k] = (a \o b)[k]
    BY <1>1, <2>0, PeekFirst
  <2>2. ASSUME NEW k \in 1 .. Len(a) PROVE Peek(a \o b, 1, Len(a))[k] = a[k]
    <3>1. k \in 1 .. Len(a) + Len(b) /\ k <= Len(a)
      BY <1>0
    <3> QED
      BY <1>1, <2>1, <3>1
  <2> QED
    BY <2>1, <2>2, SeqEqual
<1>3. Peek(a \o b, Len(a) + 1, Len(b)) = b
  <2>0. Len(a) + 1 \in Nat
    BY <1>0
  <2>1. /\ Peek(a \o b, Len(a) + 1, Len(b)) \in Seq(Cell)
        /\ Len(Peek(a \o b, Len(a) + 1, Len(b))) = Len(b)
        /\ \A k \in 1 .. Len(b) : Len(a) + 1 + k - 1 \in 1 .. Len(a \o b) =>
              Peek(a \o b, Len(a) + 1, Len(b))[k] = (a \o b)[Len(a) + 1 + k - 1]
    BY <1>0, <1>1, <2>0, PeekType
  <2>2. ASSUME NEW k \in 1 .. Len(b) PROVE Peek(a \o b, Len(a) + 1, Len(b))[k] = b[k]
    <3>1. /\ Len(a) + 1 + k - 1 = Len(a) + k /\ Len(a) + k \in 1 .. Len(a) + Len(b)
          /\ ~(Len(a) + k <= Len(a)) /\ Len(a) + k - Len(a) = k
      BY <1>0
    <3>2. (a \o b)[Len(a) + k] = b[k]
      BY <1>1, <3>1
    <3> QED
      BY <1>1, <2>1, <3>1, <3>2
  <2> QED
    BY <2>1, <2>2, SeqEqual
<1> QED
  BY <1>2, <1>3

-----------------------------------------------------------------------------
(* A packet and its bytes.                                                 *)

PacketType ==
    [flags : 0 .. 255, key : Seq(Cell), value : Seq(Cell), key_len : Nat, value_len : Nat,
     hash_id : Nat, node_id : Nat, node_ip : Nat, node_port : Nat]

\* The fields have no more than their widths.
InWidth(p) ==
    /\ p \in PacketType
    /\ p.key_len < Max16 /\ p.value_len < Max32
    /\ p.hash_id < Max16 /\ p.node_id < Max16 /\ p.node_ip < Max32 /\ p.node_port < Max16

\* The first seven bytes, and the others.
HeaderOf(p) ==
    IF IsCtrl(p)
    THEN <<p.flags, Hi(p.hash_id), Lo(p.hash_id), Hi(p.node_id), Lo(p.node_id),
           Hi(p.node_ip \div Max16), Lo(p.node_ip \div Max16)>>
    ELSE <<p.flags, Hi(p.key_len), Lo(p.key_len),
           Hi(p.value_len \div Max16), Lo(p.value_len \div Max16),
           Hi(p.value_len % Max16), Lo(p.value_len % Max16)>>

BodyOf(p) ==
    IF IsCtrl(p)
    THEN <<Hi(p.node_ip % Max16), Lo(p.node_ip % Max16), Hi(p.node_port), Lo(p.node_port)>>
    ELSE Peek(p.key, 1, p.key_len) \o Peek(p.value, 1, p.value_len)

\* What the header says of the packet.
Announced(p) ==
    IF IsCtrl(p)
    THEN [packet_new EXCEPT !.flags = p.flags, !.hash_id = p.hash_id, !.node_id = p.node_id,
             !.node_ip = (p.node_ip \div Max16) * Max16]
    ELSE [packet_new EXCEPT !.flags = p.flags, !.key_len = p.key_len, !.value_len = p.value_len]

LEMMA HeaderType ==
    ASSUME NEW p \in PacketType
    PROVE  HeaderOf(p) \in Seq(Cell) /\ Len(HeaderOf(p)) = 7
<1>1. \A v \in Nat : Hi(v) \in Nat /\ Lo(v) \in Nat
  BY Digits, Widths DEF Digit
<1>0. /\ p.flags \in Nat /\ p.hash_id \in Nat /\ p.node_id \in Nat /\ p.key_len \in Nat
      /\ p.node_ip \in Nat /\ p.value_len \in Nat
  <2>1. p.flags \in 0 .. 255
    BY DEF PacketType
  <2>2. p.flags \in Nat
    BY <2>1
  <2>3. p.hash_id \in Nat /\ p.node_id \in Nat /\ p.key_len \in Nat /\ p.node_ip \in Nat /\ p.value_len \in Nat
    BY DEF PacketType
  <2> QED
    BY <2>2, <2>3
<1>2. p.node_ip \div Max16 \in Nat /\ p.value_len \div Max16 \in Nat /\ p.value_len % Max16 \in Nat
  <2>1. \A v \in Nat : v \div Max16 \in Nat /\ v % Max16 \in Nat
    BY Widths, Divided
  <2> QED
    BY <1>0, <2>1
<1>4. CASE IsCtrl(p)
  <2>1. HeaderOf(p) = <<p.flags, Hi(p.hash_id), Lo(p.hash_id), Hi(p.node_id), Lo(p.node_id),
           Hi(p.node_ip \div Max16), Lo(p.node_ip \div Max16)>>
    BY <1>4 DEF HeaderOf
  <2>2. /\ p.flags \in Cell /\ Hi(p.hash_id) \in Cell /\ Lo(p.hash_id) \in Cell
        /\ Hi(p.node_id) \in Cell /\ Lo(p.node_id) \in Cell
        /\ Hi(p.node_ip \div Max16) \in Cell /\ Lo(p.node_ip \div Max16) \in Cell
    BY <1>0, <1>1, <1>2 DEF Cell
  <2> QED
    BY <2>1, <2>2
<1>5. CASE ~IsCtrl(p)
  <2>1. HeaderOf(p) = <<p.flags, Hi(p.key_len), Lo(p.key_len),
           Hi(p.value_len \div Max16), Lo(p.value_len \div Max16),
           Hi(p.value_len % Max16), Lo(p.value_len % Max16)>>
    BY <1>5 DEF HeaderOf
  <2>2. /\ p.flags \in Cell /\ Hi(p.key_len) \in Cell /\ Lo(p.key_len) \in Cell
        /\ Hi(p.value_len \div Max16) \in Cell /\ Lo(p.value_len \div Max16) \in Cell
        /\ Hi(p.value_len % Max16) \in Cell /\ Lo(p.value_len % Max16) \in Cell
    BY <1>0, <1>1, <1>2 DEF Cell
  <2> QED
    BY <2>1, <2>2
<1> QED
  BY <1>4, <1>5

LEMMA BodyType ==
    ASSUME NEW p \in PacketType
    PROVE  /\ BodyOf(p) \in Seq(Cell)
           /\ Len(BodyOf(p)) = IF IsCtrl(p) THEN 4 ELSE p.key_len + p.value_len
<1>1. \A v \in Nat : Hi(v) \in Nat /\ Lo(v) \in Nat
  BY Digits, Widths DEF Digit
<1>0. /\ p.node_port \in Nat /\ p.node_ip \in Nat /\ p.key \in Seq(Cell) /\ p.value \in Seq(Cell)
      /\ p.key_len \in Nat /\ p.value_len \in Nat
  BY DEF PacketType
<1>2. p.node_ip % Max16 \in Nat
  <2>1. \A v \in Nat : v % Max16 \in Nat
    BY Widths, Divided
  <2> QED
    BY <1>0, <2>1
<1>4. CASE IsCtrl(p)
  <2>1. BodyOf(p) = <<Hi(p.node_ip % Max16), Lo(p.node_ip % Max16), Hi(p.node_port), Lo(p.node_port)>>
    BY <1>4 DEF BodyOf
  <2>2. /\ Hi(p.node_ip % Max16) \in Cell /\ Lo(p.node_ip % Max16) \in Cell
        /\ Hi(p.node_port) \in Cell /\ Lo(p.node_port) \in Cell
    BY <1>0, <1>1, <1>2 DEF Cell
  <2> QED
    BY <1>4, <2>1, <2>2
<1>5. CASE ~IsCtrl(p)
  <2>1. BodyOf(p) = Peek(p.key, 1, p.key_len) \o Peek(p.value, 1, p.value_len)
    BY <1>5 DEF BodyOf
  <2>2. /\ Peek(p.key, 1, p.key_len) \in Seq(Cell) /\ Len(Peek(p.key, 1, p.key_len)) = p.key_len
        /\ Peek(p.value, 1, p.value_len) \in Seq(Cell) /\ Len(Peek(p.value, 1, p.value_len)) = p.value_len
    <3>1. PICK k \in Seq(Cell), v \in Seq(Cell) : k = p.key /\ v = p.value
      BY <1>0
    <3>2. /\ Peek(k, 1, p.key_len) \in Seq(Cell) /\ Len(Peek(k, 1, p.key_len)) = p.key_len
          /\ Peek(v, 1, p.value_len) \in Seq(Cell) /\ Len(Peek(v, 1, p.value_len)) = p.value_len
      BY <1>0, PeekType
    <3> QED
      BY <3>1, <3>2
  <2>3. PICK x \in Seq(Cell), y \in Seq(Cell) :
          x = Peek(p.key, 1, p.key_len) /\ y = Peek(p.value, 1, p.value_len)
    BY <2>2
  <2>4. x \o y \in Seq(Cell) /\ Len(x \o y) = Len(x) + Len(y)
    BY ConcatProperties
  <2> QED
    BY <1>5, <2>1, <2>2, <2>3, <2>4
<1> QED
  BY <1>4, <1>5


LEMMA Regroup ==
    ASSUME NEW a \in Seq(Cell), NEW x \in Seq(Cell), NEW y \in Seq(Cell), NEW r \in Seq(Cell)
    PROVE  Cat(Cat(a, Cat(x, y)), r) = Cat(Cat(a, x), Cat(y, r))
<1>1. a \o (x \o y) = (a \o x) \o y
  BY ConcatAssociative, SMTT(30)
<1>2. \A c \in Seq(Cell) : (c \o y) \o r = c \o (y \o r)
  BY ConcatAssociative, SMTT(30)
<1>3. a \o x \in Seq(Cell)
  BY ConcatProperties
<1> QED
  BY <1>1, <1>2, <1>3 DEF Cat

LEMMA FieldTypes ==
    ASSUME NEW p \in PacketType
    PROVE  /\ p.flags \in Nat /\ p.hash_id \in Nat /\ p.node_id \in Nat /\ p.node_port \in Nat
           /\ p.node_ip \in Nat /\ p.node_ip \div Max16 \in Nat /\ p.node_ip % Max16 \in Nat
           /\ p.key_len \in Nat
           /\ p.value_len \in Nat /\ p.value_len \div Max16 \in Nat /\ p.value_len % Max16 \in Nat
           /\ p.key \in Seq(Cell) /\ p.value \in Seq(Cell)
<1>1. p.flags \in 0 .. 255
  BY DEF PacketType
<1>2. p.flags \in Nat
  BY <1>1
<1>3. /\ p.hash_id \in Nat /\ p.node_id \in Nat /\ p.key_len \in Nat /\ p.node_ip \in Nat
      /\ p.value_len \in Nat /\ p.node_port \in Nat /\ p.key \in Seq(Cell) /\ p.value \in Seq(Cell)
  BY DEF PacketType
<1>4. \A v \in Nat : v \div Max16 \in Nat /\ v % Max16 \in Nat
  BY Widths, Divided
<1> QED
  BY <1>2, <1>3, <1>4

\* The two bytes of a number.
LEMMA Two ==
    ASSUME NEW v \in Nat
    PROVE  /\ Hi(v) \in Cell /\ Lo(v) \in Cell
           /\ Bytes2(v) = <<Hi(v), Lo(v)>> /\ Bytes2(v) \in Seq(Cell) /\ Len(Bytes2(v)) = 2
<1>1. Hi(v) \in Cell /\ Lo(v) \in Cell
  BY Digits, Widths DEF Digit, Cell
<1>2. Bytes2(v) = <<Hi(v), Lo(v)>>
  BY DEF Bytes2, Hi, Lo
<1> QED
  BY <1>1, <1>2

LEMMA Serialized ==
    ASSUME NEW p \in PacketType
    PROVE  packet_serialize(p) = HeaderOf(p) \o BodyOf(p)
<1>0. p.flags \in Cell
  BY FieldTypes DEF Cell
<1>1. CASE IsCtrl(p)
  <2>1. PICK h \in Nat, i \in Nat, x \in Nat, y \in Nat, r \in Nat :
          h = p.hash_id /\ i = p.node_id /\ x = p.node_ip \div Max16 /\ y = p.node_ip % Max16
          /\ r = p.node_port
    BY FieldTypes
  <2>2. packet_serialize(p) =
          (((<<p.flags>> \o Bytes2(h)) \o Bytes2(i)) \o (Bytes2(x) \o Bytes2(y))) \o Bytes2(r)
    BY <1>1, <2>1 DEF packet_serialize, packet_serialize_ctrl, Bytes4
  <2>3. Bytes2(x) \in Seq(Cell) /\ Bytes2(y) \in Seq(Cell) /\ Bytes2(r) \in Seq(Cell)
    BY Two
  <2>4. /\ Hi(h) \in Cell /\ Lo(h) \in Cell /\ Hi(i) \in Cell /\ Lo(i) \in Cell
        /\ Hi(x) \in Cell /\ Lo(x) \in Cell /\ Hi(y) \in Cell /\ Lo(y) \in Cell
        /\ Hi(r) \in Cell /\ Lo(r) \in Cell
    BY Two
  <2>5. /\ Bytes2(h) = <<Hi(h), Lo(h)>> /\ Bytes2(i) = <<Hi(i), Lo(i)>> /\ Bytes2(x) = <<Hi(x), Lo(x)>>
        /\ Bytes2(y) = <<Hi(y), Lo(y)>> /\ Bytes2(r) = <<Hi(r), Lo(r)>>
    BY Two
  <2>6. <<p.flags>> \o <<Hi(h), Lo(h)>> = <<p.flags, Hi(h), Lo(h)>>
    BY <1>0, <2>4, Tuple1and2
  <2>7. <<p.flags, Hi(h), Lo(h)>> \o <<Hi(i), Lo(i)>> = <<p.flags, Hi(h), Lo(h), Hi(i), Lo(i)>>
    BY <1>0, <2>4, Tuple3and2
  <2>8. PICK a : a = <<p.flags, Hi(h), Lo(h), Hi(i), Lo(i)>>
    OBVIOUS
  <2>9. a \in Seq(Cell)
    BY <1>0, <2>4, <2>8
  <2>10. packet_serialize(p) = (a \o (Bytes2(x) \o Bytes2(y))) \o Bytes2(r)
    BY <2>2, <2>5, <2>6, <2>7, <2>8
  <2>11. packet_serialize(p) = (a \o Bytes2(x)) \o (Bytes2(y) \o Bytes2(r))
    <3>1. PICK xs \in Seq(Cell), ys \in Seq(Cell), rs \in Seq(Cell) :
            xs = Bytes2(x) /\ ys = Bytes2(y) /\ rs = Bytes2(r)
      BY <2>3
    <3>2. Cat(Cat(a, Cat(xs, ys)), rs) = Cat(Cat(a, xs), Cat(ys, rs))
      BY <2>9, Regroup
    <3>3. packet_serialize(p) = Cat(Cat(a, Cat(xs, ys)), rs)
      BY <2>10, <3>1 DEF Cat
    <3>4. Cat(Cat(a, xs), Cat(ys, rs)) = (a \o Bytes2(x)) \o (Bytes2(y) \o Bytes2(r))
      BY <3>1 DEF Cat
    <3> QED
      BY <3>2, <3>3, <3>4, Zenon
  <2>12. a \o Bytes2(x) = HeaderOf(p)
    <3>1. <<p.flags, Hi(h), Lo(h), Hi(i), Lo(i)>> \o <<Hi(x), Lo(x)>> =
            <<p.flags, Hi(h), Lo(h), Hi(i), Lo(i), Hi(x), Lo(x)>>
      BY <1>0, <2>4, Tuple5and2, SMTT(60)
    <3> QED
      BY <1>1, <2>1, <2>5, <2>8, <3>1 DEF HeaderOf
  <2>13. Bytes2(y) \o Bytes2(r) = BodyOf(p)
    <3>1. <<Hi(y), Lo(y)>> \o <<Hi(r), Lo(r)>> = <<Hi(y), Lo(y), Hi(r), Lo(r)>>
      BY <2>4, Tuple2and2
    <3> QED
      BY <1>1, <2>1, <2>5, <3>1 DEF BodyOf
  <2> QED
    BY <2>11, <2>12, <2>13
<1>2. CASE ~IsCtrl(p)
  <2>1. PICK h \in Nat, x \in Nat, y \in Nat :
          h = p.key_len /\ x = p.value_len \div Max16 /\ y = p.value_len % Max16
    BY FieldTypes
  <2>2. PICK k, v : k = Peek(p.key, 1, p.key_len) /\ v = Peek(p.value, 1, p.value_len)
    OBVIOUS
  <2>3. packet_serialize(p) =
          (((<<p.flags>> \o Bytes2(h)) \o (Bytes2(x) \o Bytes2(y))) \o k) \o v
    BY <1>2, <2>1, <2>2 DEF packet_serialize, packet_serialize_data, Bytes4
  <2>4. /\ Hi(h) \in Cell /\ Lo(h) \in Cell
        /\ Hi(x) \in Cell /\ Lo(x) \in Cell /\ Hi(y) \in Cell /\ Lo(y) \in Cell
    BY Two
  <2>13. /\ Bytes2(h) = <<Hi(h), Lo(h)>> /\ Bytes2(x) = <<Hi(x), Lo(x)>> /\ Bytes2(y) = <<Hi(y), Lo(y)>>
    BY Two
  <2>5. <<p.flags>> \o <<Hi(h), Lo(h)>> = <<p.flags, Hi(h), Lo(h)>>
    BY <1>0, <2>4, Tuple1and2
  <2>6. <<Hi(x), Lo(x)>> \o <<Hi(y), Lo(y)>> = <<Hi(x), Lo(x), Hi(y), Lo(y)>>
    BY <2>4, Tuple2and2
  <2>7. <<p.flags, Hi(h), Lo(h)>> \o <<Hi(x), Lo(x), Hi(y), Lo(y)>> =
           <<p.flags, Hi(h), Lo(h), Hi(x), Lo(x), Hi(y), Lo(y)>>
    BY <1>0, <2>4, Tuple3and4
  <2>8. HeaderOf(p) = <<p.flags, Hi(h), Lo(h), Hi(x), Lo(x), Hi(y), Lo(y)>>
    BY <1>2, <2>1 DEF HeaderOf
  <2>9. packet_serialize(p) = (HeaderOf(p) \o k) \o v
    BY <2>3, <2>5, <2>6, <2>7, <2>8, <2>13
  <2>10. k \in Seq(Cell) /\ v \in Seq(Cell)
    <3>1. PICK a \in Seq(Cell), b \in Seq(Cell), m \in Nat, n \in Nat :
            a = p.key /\ b = p.value /\ m = p.key_len /\ n = p.value_len
      BY FieldTypes
    <3>2. Peek(a, 1, m) \in Seq(Cell) /\ Peek(b, 1, n) \in Seq(Cell)
      BY PeekType
    <3> QED
      BY <2>2, <3>1, <3>2
  <2>11. (HeaderOf(p) \o k) \o v = HeaderOf(p) \o (k \o v)
    BY <2>10, HeaderType, ConcatAssociative
  <2>12. BodyOf(p) = k \o v
    BY <1>2, <2>2 DEF BodyOf
  <2> QED
    BY <2>9, <2>11, <2>12
<1> QED
  BY <1>1, <1>2

LEMMA HeaderDecoded ==
    ASSUME NEW p, InWidth(p), NEW b, \A i \in 1 .. 7 : b[i] = HeaderOf(p)[i]
    PROVE  packet_decode_hdr(b) = Announced(p)
<1>0. p \in PacketType
  BY DEF InWidth
<1>1. b[1] = HeaderOf(p)[1] /\ b[2] = HeaderOf(p)[2] /\ b[3] = HeaderOf(p)[3] /\ b[4] = HeaderOf(p)[4]
      /\ b[5] = HeaderOf(p)[5] /\ b[6] = HeaderOf(p)[6] /\ b[7] = HeaderOf(p)[7]
  OBVIOUS
<1>2. \A v \in Nat : v < Max16 => Hi(v) * Base + Lo(v) = v
  BY Digits
<1>3. CASE IsCtrl(p)
  <2>1. PICK h \in Nat, i \in Nat, x \in Nat :
          h = p.hash_id /\ i = p.node_id /\ x = p.node_ip \div Max16
    BY <1>0, FieldTypes
  <2>2. h < Max16 /\ i < Max16
    BY <2>1 DEF InWidth
  <2>3. x < Max16
    <3>1. PICK n \in Nat : n = p.node_ip
      BY <1>0, FieldTypes
    <3>2. n \div Max16 \in 0 .. (Max16 - 1)
      BY <3>1, Halves DEF InWidth
    <3> QED
      BY <2>1, <3>1, <3>2, Widths
  <2>4. /\ b[1] = p.flags /\ b[2] = Hi(h) /\ b[3] = Lo(h) /\ b[4] = Hi(i) /\ b[5] = Lo(i)
        /\ b[6] = Hi(x) /\ b[7] = Lo(x)
    BY <1>1, <1>3, <2>1 DEF HeaderOf
  <2>5. Has(b[1], PKT_FLAG_CTRL)
    BY <1>3, <2>4 DEF IsCtrl
  <2>6. /\ b[2] * Base + b[3] = h /\ b[4] * Base + b[5] = i /\ b[6] * Base + b[7] = x
    BY <1>2, <2>2, <2>3, <2>4
  <2>7. Number2(b, 2) = h /\ Number2(b, 4) = i /\ Number2(b, 6) = x
    BY <2>6 DEF Number2
  <2> QED
    BY <1>3, <2>1, <2>4, <2>5, <2>7 DEF packet_decode_hdr, Announced
<1>4. CASE ~IsCtrl(p)
  <2>1. PICK h \in Nat, v \in Nat, x \in Nat, y \in Nat :
          h = p.key_len /\ v = p.value_len /\ x = v \div Max16 /\ y = v % Max16
    BY <1>0, FieldTypes
  <2>2. h < Max16 /\ v < Max32
    BY <2>1 DEF InWidth
  <2>3. x < Max16 /\ y < Max16 /\ x * Max16 + y = v
    <3>1. /\ v \div Max16 \in 0 .. (Max16 - 1) /\ v % Max16 \in 0 .. (Max16 - 1)
          /\ (v \div Max16) * Max16 + (v % Max16) = v
      BY <2>2, Halves
    <3>2. x * Max16 + y = v
      BY <2>1, <3>1
    <3>3. x \in 0 .. (Max16 - 1) /\ y \in 0 .. (Max16 - 1)
      BY <2>1, <3>1
    <3> QED
      BY <3>2, <3>3, Widths
  <2>4. /\ b[1] = p.flags /\ b[2] = Hi(h) /\ b[3] = Lo(h) /\ b[4] = Hi(x) /\ b[5] = Lo(x)
        /\ b[6] = Hi(y) /\ b[7] = Lo(y)
    BY <1>1, <1>4, <2>1 DEF HeaderOf
  <2>5. ~Has(b[1], PKT_FLAG_CTRL)
    BY <1>4, <2>4 DEF IsCtrl
  <2>6. /\ b[2] * Base + b[3] = h /\ b[4] * Base + b[5] = x /\ b[6] * Base + b[7] = y
    BY <1>2, <2>2, <2>3, <2>4
  <2>7. Number2(b, 2) = h /\ Number2(b, 4) = x /\ Number2(b, 6) = y /\ Number2(b, 4 + 2) = y
    BY <2>6 DEF Number2
  <2>8. Number4(b, 4) = v
    BY <2>3, <2>7 DEF Number4
  <2> QED
    BY <1>4, <2>1, <2>4, <2>5, <2>7, <2>8 DEF packet_decode_hdr, Announced
<1> QED
  BY <1>3, <1>4

\* A packet with nothing but what its bytes tell.
Whole(p) ==
    /\ InWidth(p)
    /\ IF IsCtrl(p)
       THEN p.key = <<>> /\ p.value = <<>> /\ p.key_len = 0 /\ p.value_len = 0
       ELSE /\ p.key_len = Len(p.key) /\ p.value_len = Len(p.value)
            /\ p.hash_id = 0 /\ p.node_id = 0 /\ p.node_ip = 0 /\ p.node_port = 0

\* The check of packet_decode_body does not wrap.
Summed(p) == IsCtrl(p) \/ p.key_len + p.value_len < Max32

LEMMA AnnouncedType ==
    ASSUME NEW p, InWidth(p)
    PROVE  /\ IsCtrl(Announced(p)) <=> IsCtrl(p)
           /\ packet_body_size(Announced(p)) \in Nat
           /\ packet_body_size(Announced(p)) = IF IsCtrl(p) THEN 4 ELSE (p.key_len + p.value_len) % Max32
           /\ Summed(p) => packet_body_size(Announced(p)) = Len(BodyOf(p))
<1>0. p \in PacketType
  BY DEF InWidth
<1>1. Announced(p).flags = p.flags
  BY DEF Announced, packet_new
<1>2. IsCtrl(Announced(p)) <=> IsCtrl(p)
  BY <1>1 DEF IsCtrl
<1>3. CASE IsCtrl(p)
  <2>1. packet_body_size(Announced(p)) = 4
    BY <1>2, <1>3 DEF packet_body_size
  <2> QED
    BY <1>0, <1>2, <1>3, <2>1, BodyType
<1>4. CASE ~IsCtrl(p)
  <2>1. PICK m \in Nat, n \in Nat : m = p.key_len /\ n = p.value_len
    BY <1>0, FieldTypes
  <2>2. Announced(p).key_len = m /\ Announced(p).value_len = n
    BY <1>4, <2>1 DEF Announced, packet_new
  <2>3. packet_body_size(Announced(p)) = (m + n) % Max32
    BY <1>2, <1>4, <2>2 DEF packet_body_size
  <2>4. (m + n) % Max32 \in Nat
    BY Divided, Widths
  <2>5. m + n < Max32 => (m + n) % Max32 = m + n
    <3>1. SUFFICES ASSUME m + n < Max32 PROVE (m + n) % Max32 = m + n
      OBVIOUS
    <3>2. m + n \in 0 .. (Max32 - 1) /\ Max32 * 0 + (m + n) = m + n
      BY <3>1, Widths
    <3>3. (Max32 * 0 + (m + n)) % Max32 = m + n
      BY <3>2, DividedOnly, Widths
    <3> QED
      BY <3>2, <3>3
  <2> QED
    BY <1>0, <1>2, <1>4, <2>1, <2>3, <2>4, <2>5, BodyType DEF Summed
<1> QED
  BY <1>3, <1>4

\* The fields of a packet are all there is of it.
LEMMA AnnouncedIn ==
    ASSUME NEW p \in PacketType
    PROVE  Announced(p) \in PacketType
<1>1. <<>> \in Seq(Cell) /\ 0 \in 0 .. 255
  BY EmptySeq
<1>2. PICK f, g, i, n, m, l : f = p.flags /\ g = p.hash_id /\ i = p.node_id /\ n = p.node_ip
                             /\ m = p.key_len /\ l = p.value_len
  OBVIOUS
<1>3. f \in 0 .. 255 /\ g \in Nat /\ i \in Nat /\ n \in Nat /\ m \in Nat /\ l \in Nat
  BY <1>2 DEF PacketType
<1>4. PICK d \in Nat : d = n \div Max16
  BY <1>3, Divided, Widths
<1>5. PICK v \in Nat : v = d * Max16
  BY Product, Widths
<1>6. CASE IsCtrl(p)
  <2>1. Announced(p) = [flags |-> f, key |-> <<>>, value |-> <<>>, key_len |-> 0, value_len |-> 0,
                        hash_id |-> g, node_id |-> i, node_ip |-> v, node_port |-> 0]
    BY <1>2, <1>4, <1>5, <1>6 DEF Announced, packet_new
  <2> QED
    BY <1>1, <1>3, <2>1 DEF PacketType
<1>7. CASE ~IsCtrl(p)
  <2>1. Announced(p) = [flags |-> f, key |-> <<>>, value |-> <<>>, key_len |-> m, value_len |-> l,
                        hash_id |-> 0, node_id |-> 0, node_ip |-> 0, node_port |-> 0]
    BY <1>2, <1>7 DEF Announced, packet_new
  <2> QED
    BY <1>1, <1>3, <2>1 DEF PacketType
<1> QED
  BY <1>6, <1>7

LEMMA SamePacket ==
    ASSUME NEW p \in PacketType, NEW q \in PacketType,
           p.flags = q.flags, p.key = q.key, p.value = q.value, p.key_len = q.key_len,
           p.value_len = q.value_len, p.hash_id = q.hash_id, p.node_id = q.node_id,
           p.node_ip = q.node_ip, p.node_port = q.node_port
    PROVE  p = q
BY DEF PacketType

\* Decoded from its own bytes a packet is itself.
LEMMA BodyDecoded ==
    ASSUME NEW p, Whole(p), Summed(p), NEW len \in Nat, len >= Len(BodyOf(p))
    PROVE  packet_decode_body(Announced(p), BodyOf(p), len) = p
<1>0. InWidth(p) /\ p \in PacketType
  BY DEF Whole, InWidth
<1>1. CASE IsCtrl(p)
  <2>1. PICK n \in Nat, x \in Nat, y \in Nat, r \in Nat :
          n = p.node_ip /\ x = n \div Max16 /\ y = n % Max16 /\ r = p.node_port
    BY <1>0, FieldTypes
  <2>2. x * Max16 + y = n /\ y < Max16 /\ r < Max16
    <3>1. n < Max32 /\ r < Max16
      BY <1>0, <2>1 DEF InWidth
    <3>2. (n \div Max16) * Max16 + (n % Max16) = n /\ n % Max16 \in 0 .. (Max16 - 1)
      BY <3>1, Halves
    <3> QED
      BY <2>1, <3>1, <3>2, Widths
  <2>3. BodyOf(p) = <<Hi(y), Lo(y), Hi(r), Lo(r)>>
    BY <1>1, <2>1 DEF BodyOf
  <2>4. Hi(y) * Base + Lo(y) = y /\ Hi(r) * Base + Lo(r) = r
    BY <2>2, Digits
  <2>5. Number2(BodyOf(p), 1) = y /\ Number2(BodyOf(p), 3) = r
    BY <2>3, <2>4 DEF Number2
  <2>6. PICK q : q = packet_decode_body(Announced(p), BodyOf(p), len)
    OBVIOUS
  <2>7. q = [Announced(p) EXCEPT !.node_ip = @ + Number2(BodyOf(p), 1), !.node_port = Number2(BodyOf(p), 3)]
    BY <1>0, <1>1, <2>6, AnnouncedType DEF packet_decode_body
  <2>8. Announced(p) = [packet_new EXCEPT !.flags = p.flags, !.hash_id = p.hash_id, !.node_id = p.node_id,
                           !.node_ip = x * Max16]
    BY <1>1, <2>1 DEF Announced
  <2>9. q = [flags |-> p.flags, key |-> <<>>, value |-> <<>>, key_len |-> 0, value_len |-> 0,
             hash_id |-> p.hash_id, node_id |-> p.node_id, node_ip |-> n, node_port |-> r]
    BY <2>2, <2>5, <2>7, <2>8 DEF packet_new
  <2>10. p.key = <<>> /\ p.value = <<>> /\ p.key_len = 0 /\ p.value_len = 0
    BY <1>1 DEF Whole
  <2>11. q = p
    <3>1. /\ q.flags = p.flags /\ q.key = p.key /\ q.value = p.value /\ q.key_len = p.key_len
          /\ q.value_len = p.value_len /\ q.hash_id = p.hash_id /\ q.node_id = p.node_id
          /\ q.node_ip = p.node_ip /\ q.node_port = p.node_port
      BY <2>1, <2>9, <2>10
    <3>2. q \in PacketType
      <4>1. /\ p.flags \in 0 .. 255 /\ p.key \in Seq(Cell) /\ p.value \in Seq(Cell) /\ p.key_len \in Nat
            /\ p.value_len \in Nat /\ p.hash_id \in Nat /\ p.node_id \in Nat
        BY <1>0 DEF PacketType
      <4> QED
        BY <2>9, <2>10, <4>1 DEF PacketType
    <3> QED
      BY <1>0, <3>1, <3>2, SamePacket
  <2> QED
    BY <2>6, <2>11
<1>2. CASE ~IsCtrl(p)
  <2>1. PICK k \in Seq(Cell), v \in Seq(Cell) : k = p.key /\ v = p.value
    BY <1>0, FieldTypes
  <2>2. p.key_len = Len(k) /\ p.value_len = Len(v)
    BY <1>2, <2>1 DEF Whole
  <2>3. BodyOf(p) = k \o v
    BY <1>2, <2>1, <2>2, PeekAll DEF BodyOf
  <2>4. Peek(k \o v, 1, Len(k)) = k /\ Peek(k \o v, Len(k) + 1, Len(v)) = v
    BY PeekJoined
  <2>5. ~IsCtrl(Announced(p)) /\ ~(len < packet_body_size(Announced(p)))
    <3>1. ~IsCtrl(Announced(p)) /\ packet_body_size(Announced(p)) = Len(BodyOf(p))
      BY <1>0, <1>2, AnnouncedType
    <3>2. Len(BodyOf(p)) \in Nat
      BY <1>0, BodyType, LenProperties
    <3> QED
      BY <3>1, <3>2
  <2>6. Announced(p) = [packet_new EXCEPT !.flags = p.flags, !.key_len = Len(k), !.value_len = Len(v)]
    BY <1>2, <2>2 DEF Announced
  <2>7. PICK q : q = packet_decode_body(Announced(p), BodyOf(p), len)
    OBVIOUS
  <2>8. q = [Announced(p) EXCEPT !.key = Peek(BodyOf(p), 1, Announced(p).key_len),
               !.value = Peek(BodyOf(p), Announced(p).key_len + 1, Announced(p).value_len)]
    BY <2>5, <2>7 DEF packet_decode_body
  <2>9. Announced(p).key_len = Len(k) /\ Announced(p).value_len = Len(v)
    BY <2>6 DEF packet_new
  <2>10. q = [Announced(p) EXCEPT !.key = k, !.value = v]
    BY <2>3, <2>4, <2>8, <2>9
  <2>11. q = [flags |-> p.flags, key |-> k, value |-> v, key_len |-> Len(k), value_len |-> Len(v),
             hash_id |-> 0, node_id |-> 0, node_ip |-> 0, node_port |-> 0]
    BY <2>6, <2>10 DEF packet_new
  <2>12. p.hash_id = 0 /\ p.node_id = 0 /\ p.node_ip = 0 /\ p.node_port = 0
    BY <1>2 DEF Whole
  <2>13. q = p
    <3>1. /\ q.flags = p.flags /\ q.key = p.key /\ q.value = p.value /\ q.key_len = p.key_len
          /\ q.value_len = p.value_len /\ q.hash_id = p.hash_id /\ q.node_id = p.node_id
          /\ q.node_ip = p.node_ip /\ q.node_port = p.node_port
      BY <2>1, <2>2, <2>11, <2>12
    <3>2. q \in PacketType
      <4>1. p.flags \in 0 .. 255 /\ p.key_len \in Nat /\ p.value_len \in Nat
        BY <1>0 DEF PacketType
      <4> QED
        BY <2>2, <2>11, <4>1 DEF PacketType
    <3> QED
      BY <1>0, <3>1, <3>2, SamePacket
  <2> QED
    BY <2>7, <2>13
<1> QED
  BY <1>1, <1>2

\* Decoded from any bytes a request has the lengths of its header.
LEMMA BodyCopied ==
    ASSUME NEW p, InWidth(p), ~IsCtrl(p), NEW b \in Seq(Cell), NEW q,
           q = packet_decode_body(Announced(p), b, packet_body_size(Announced(p)))
    PROVE  /\ Whole(q) /\ ~IsCtrl(q) /\ q # NoPacket /\ q.flags = p.flags
           /\ q.key_len = p.key_len /\ q.value_len = p.value_len
<1>0. p \in PacketType
  BY DEF InWidth
<1>1. PICK f \in 0 .. 255, m \in Nat, n \in Nat : f = p.flags /\ m = p.key_len /\ n = p.value_len
  BY <1>0 DEF PacketType
<1>2. Announced(p) = [packet_new EXCEPT !.flags = f, !.key_len = m, !.value_len = n]
  BY <1>1 DEF Announced
<1>3. Announced(p).key_len = m /\ Announced(p).value_len = n
  BY <1>2 DEF packet_new
<1>4. packet_body_size(Announced(p)) \in Nat /\ ~IsCtrl(Announced(p))
  BY AnnouncedType
<1>5. ~(packet_body_size(Announced(p)) < packet_body_size(Announced(p)))
  BY <1>4
<1>6. q = [Announced(p) EXCEPT !.key = Peek(b, 1, m), !.value = Peek(b, m + 1, n)]
  BY <1>3, <1>4, <1>5 DEF packet_decode_body
<1>7. PICK k \in Seq(Cell), v \in Seq(Cell) :
        k = Peek(b, 1, m) /\ v = Peek(b, m + 1, n) /\ Len(k) = m /\ Len(v) = n
  BY PeekType
<1>8. q = [flags |-> f, key |-> k, value |-> v, key_len |-> m, value_len |-> n,
           hash_id |-> 0, node_id |-> 0, node_ip |-> 0, node_port |-> 0]
  <2>0. PICK a : a = Announced(p)
    OBVIOUS
  <2>1. q = [a EXCEPT !.key = k, !.value = v]
    BY <1>6, <1>7, <2>0
  <2>2. a = [flags |-> f, key |-> <<>>, value |-> <<>>, key_len |-> m, value_len |-> n,
                        hash_id |-> 0, node_id |-> 0, node_ip |-> 0, node_port |-> 0]
    BY <1>2, <2>0 DEF packet_new
  <2> QED
    BY <2>1, <2>2
<1>9. q \in PacketType
  BY <1>8 DEF PacketType
<1>10. m < Max16 /\ n < Max32 /\ 0 < Max16 /\ 0 < Max32
  BY <1>1, Widths DEF InWidth
<1>11. InWidth(q)
  BY <1>8, <1>9, <1>10 DEF InWidth
<1>12. q.flags = p.flags /\ q.key_len = p.key_len /\ q.value_len = p.value_len
  BY <1>1, <1>8
<1>13. ~IsCtrl(q)
  BY <1>12 DEF IsCtrl
<1>14. q # NoPacket
  <2>1. NoPacket.key_len = -1
    BY DEF NoPacket, packet_new
  <2> QED
    BY <1>8, <2>1
<1> QED
  BY <1>7, <1>8, <1>11, <1>12, <1>13, <1>14 DEF Whole

\* Two packets with the same header.
LEMMA SameHeader ==
    ASSUME NEW p, NEW q, ~IsCtrl(p), ~IsCtrl(q),
           q.flags = p.flags, q.key_len = p.key_len, q.value_len = p.value_len
    PROVE  HeaderOf(q) = HeaderOf(p) /\ Announced(q) = Announced(p)
BY DEF HeaderOf, Announced

\* A copy of a request is that request.
LEMMA Copied ==
    ASSUME NEW p, Whole(p), ~IsCtrl(p)
    PROVE  packet_dup(p) = p
<1>0. p \in PacketType
  BY DEF Whole, InWidth
<1>1. PICK k \in Seq(Cell), v \in Seq(Cell) : k = p.key /\ v = p.value
  BY <1>0, FieldTypes
<1>2. p.key_len = Len(k) /\ p.value_len = Len(v)
  BY <1>1 DEF Whole
<1>3. Peek(p.key, 1, p.key_len) = p.key /\ Peek(p.value, 1, p.value_len) = p.value
  BY <1>1, <1>2, PeekAll
<1> QED
  BY <1>0, <1>3 DEF packet_dup, PacketType

-----------------------------------------------------------------------------
(* The inductive invariant.                                                *)

\* The packet that the job makes the sender send, if it sends one.
Sent == IF job.role = "client" THEN RequestPacket(job.method, job.key, Stdin)
                               ELSE Lookup(Self, job.hash)
Sendable == IF job.role = "client" THEN job.method \in {"SET", "GET", "DELETE"} ELSE Self # NoPeer

\* Its lengths lose nothing on the way.
Lossless == job.role = "client" => Fits

\* Nothing has been sent.
Untouched ==
    /\ wire = <<>> /\ srv = Idle /\ hop = 1 /\ unread = <<>> /\ back = <<>> /\ fin = "no"
    /\ got = NoPacket /\ ans = NoPacket

Typed ==
    /\ job \in Jobs /\ snd \in {"start", "stdin", "connect", "recv", "exit"}
    /\ exit \in {"none", "0", "-1"} /\ hop \in {1, 2} /\ fin \in {"no", "fin", "rst"}
    /\ wire \in Seq(Cell) /\ unread \in Seq(Cell) /\ back \in Seq(Cell)
    /\ srv \in [state : {"IDLE", "HDR_RECVD", "GONE"}, hdr : Seq(Cell), body : Seq(Cell),
                pack : PacketType \cup {NoPacket}]
    /\ buf \in [bytes : Seq(Cell), len : Int, size : Nat]
    /\ buf.len \in -1 .. buf.size /\ buf.size >= BufSize /\ Len(buf.bytes) <= buf.size

Phases ==
    /\ snd \in {"start", "stdin", "connect"} => Untouched
    /\ snd \in {"start", "connect"} => buf = NewBuf
    /\ snd \in {"stdin", "recv"} => job.role = "client"
    /\ snd = "connect" => job.role = "peer" /\ Self # NoPeer
    /\ snd = "recv" => Sendable
    /\ exit = "0" /\ job.role = "client" => snd = "exit" /\ fin # "no"
    /\ snd = "stdin" => /\ buf.len \in 0 .. Len(Stdin)
                        /\ buf.bytes = SubSeq(Stdin, 1, buf.len)

\* What has arrived of the packet, and what is still under way, are the packet.
Receiving ==
    /\ srv.state = "IDLE" =>
         /\ srv.body = <<>> /\ srv.pack = NoPacket /\ Len(srv.hdr) < PKT_HEADER_LEN
         /\ \/ srv.hdr = <<>> /\ wire = <<>>
            \/ /\ Sendable
               /\ \E b \in Seq(Cell) : /\ srv.hdr \o wire = HeaderOf(Sent) \o b
                                       /\ Lossless => b = BodyOf(Sent)
    /\ srv.state = "HDR_RECVD" =>
         /\ Sendable /\ srv.hdr = <<>> /\ srv.pack = Announced(Sent)
         /\ Len(srv.body) <= packet_body_size(srv.pack)
         /\ Lossless => srv.body \o wire = BodyOf(Sent)
    /\ srv.state = "GONE" =>
         srv.hdr = <<>> /\ srv.body = <<>> /\ srv.pack = NoPacket /\ wire = <<>>
    /\ fin # "no" => srv.state = "GONE"
    /\ got # NoPacket => Sendable /\ (Lossless => got = Sent)

\* An answer has the lengths that its fields say.
Answer(p) ==
    /\ p \in PacketType /\ ~IsCtrl(p)
    /\ p.key_len = Len(p.key) /\ p.value_len = Len(p.value) /\ p.key_len < Max16
    /\ p.hash_id = 0 /\ p.node_id = 0 /\ p.node_ip = 0 /\ p.node_port = 0

\* What recvall has and what is under way to it begin the answer, or are no bytes of
\* a packet at all.
Answering ==
    /\ ans # NoPacket => Answer(ans) /\ got # NoPacket
    /\ snd = "recv" =>
         /\ fin = "no" => buf = NewBuf /\ back = <<>>
         /\ \/ buf.len = Len(buf.bytes)
            \/ buf.len = Len(buf.bytes) - 1 /\ back = <<>> /\ fin = "fin"
         /\ \E rest \in Seq(Cell) :
              \/ ans # NoPacket /\ (buf.bytes \o back) \o rest = packet_serialize(ans)
              \/ (buf.bytes \o back) \o rest = Peek(<<>>, 1, PKT_HEADER_LEN)

Connections == [tried : Nat, open : Nat, held : Nat, usable : BOOLEAN, connected : BOOLEAN]

\* A connection that is held has a descriptor of its own, and no turn opens two.
Connecting ==
    /\ conn \in Connections
    /\ conn.held <= conn.open /\ conn.open <= conn.tried
    /\ snd # "exit" => exit # "0"
    /\ snd \notin {"connect", "exit"} => conn = NotTried

Inv == Typed /\ Phases /\ Receiving /\ Answering /\ Connecting /\ OneConnection /\ AnswerIntact

-----------------------------------------------------------------------------
(* The packet that is sent.                                                *)

LEMMA JobTypes ==
    ASSUME job \in Jobs
    PROVE  /\ job.hops \in {1, 2} /\ job.role \in {"client", "peer"}
           /\ job.role = "client" => job.key \in Seq(Nat) /\ job.value \in Seq(Nat)
           /\ job.role = "peer" =>
                /\ job.id \in 0 .. (Max16 - 1) /\ job.hash \in 0 .. (Max16 - 1)
                /\ job.host = <<>> \/ (job.host \in Seq(Digit) /\ Len(job.host) = 4)
                /\ job.port \in Int /\ job.addrs \in Nat \ {0}
BY JobsAssumption DEF Digit

LEMMA Remainder ==
    ASSUME NEW b \in Nat \ {0}, NEW v \in Int
    PROVE  v % b \in 0 .. (b - 1)
OBVIOUS

LEMMA Small ==
    ASSUME NEW b \in Nat \ {0}, NEW v \in Nat, v < b
    PROVE  v % b = v
<1>1. (b * 0 + v) % b = v
  BY DividedOnly
<1> QED
  BY <1>1

LEMMA StdinType ==
    ASSUME job \in Jobs
    PROVE  Stdin \in Seq(Nat) /\ Len(Stdin) \in Nat
<1>1. Stdin \in Seq(Nat)
  BY JobTypes, EmptySeq DEF Stdin
<1> QED
  BY <1>1, LenProperties

LEMMA RequestSent ==
    ASSUME job \in Jobs, job.role = "client", Sendable
    PROVE  /\ InWidth(Sent) /\ ~IsCtrl(Sent) /\ Sent # NoPacket
           /\ Fits => Whole(Sent) /\ Summed(Sent)
           /\ Sent.key = job.key /\ Sent.value = Stdin /\ Sent.flags = FlagOf(job.method)
<1>1. PICK k \in Seq(Nat), v \in Seq(Nat) : k = job.key /\ v = Stdin
  BY JobTypes, StdinType
<1>2. k \in Seq(Cell) /\ v \in Seq(Cell) /\ Len(k) \in Nat /\ Len(v) \in Nat
  BY SeqMonotonic, LenProperties DEF Cell
<1>3. PICK f \in {1, 2, 4} : f = FlagOf(job.method)
  BY DEF Sendable, FlagOf, PKT_FLAG_SET, PKT_FLAG_GET, PKT_FLAG_DEL
<1>4. PICK m, n : m = Len(k) % Max16 /\ n = Len(v) % Max32
  OBVIOUS
<1>5. PICK p : p = Sent
  OBVIOUS
<1>6. p = [flags |-> f, key |-> k, value |-> v, key_len |-> m, value_len |-> n,
           hash_id |-> 0, node_id |-> 0, node_ip |-> 0, node_port |-> 0]
  BY <1>1, <1>3, <1>4, <1>5 DEF Sent, RequestPacket, packet_new
<1>7. m \in Nat /\ n \in Nat /\ m < Max16 /\ n < Max32 /\ 0 < Max16 /\ 0 < Max32
  BY <1>2, <1>4, Divided, Widths
<1>8. f \in 0 .. 255
  OBVIOUS
<1>9. p \in PacketType
  BY <1>2, <1>6, <1>7, <1>8 DEF PacketType
<1>10. InWidth(p)
  BY <1>6, <1>7, <1>9 DEF InWidth
<1>11. ~IsCtrl(p)
  <2>1. p.flags = f /\ f \div 128 = 0
    BY <1>6
  <2>2. (f \div 128) % 2 # 1
    BY <2>1
  <2> QED
    BY <2>1, <2>2 DEF IsCtrl, Has, PKT_FLAG_CTRL
<1>12. p # NoPacket
  <2>1. NoPacket.key_len = -1
    BY DEF NoPacket, packet_new
  <2> QED
    BY <1>6, <1>7, <2>1
<1>13. ASSUME Fits
       PROVE  Whole(p) /\ Summed(p)
  <2>1. Len(k) < Max16 /\ Len(v) < Max32 /\ Len(k) + Len(v) < Max32
    BY <1>1, <1>13 DEF Fits
  <2>2. m = Len(k) /\ n = Len(v)
    BY <1>2, <1>4, <2>1, Small, Widths
  <2> QED
    BY <1>6, <1>10, <1>11, <2>1, <2>2 DEF Whole, Summed
<1> QED
  BY <1>1, <1>3, <1>5, <1>6, <1>10, <1>11, <1>12, <1>13

LEMMA LookupSent ==
    ASSUME job \in Jobs, job.role = "peer", Sendable
    PROVE  /\ Whole(Sent) /\ IsCtrl(Sent) /\ Sent # NoPacket
           /\ Sent.hash_id = job.hash /\ Sent.node_id = job.id
           /\ job.port >= 0 => Sent.node_port = job.port
           /\ job.host # <<>> => Bytes4(Sent.node_ip) = job.host
<1>1. PICK g \in Nat, i \in Nat, r \in Nat : g = job.hash /\ i = job.id /\ r = job.port % Max16
  <2>1. PICK v \in Int : v = job.port
    BY JobTypes
  <2>2. v % Max16 \in 0 .. (Max16 - 1)
    BY Remainder, Widths
  <2>3. job.port % Max16 \in Nat
    BY <2>1, <2>2, Widths
  <2>4. job.hash \in 0 .. (Max16 - 1) /\ job.id \in 0 .. (Max16 - 1)
    BY JobTypes
  <2>5. job.hash \in Nat /\ job.id \in Nat
    BY <2>4, Widths
  <2> QED
    BY <2>3, <2>5
<1>2. g < Max16 /\ i < Max16 /\ r < Max16 /\ 0 < Max16 /\ 0 < Max32
  <2>1. g \in 0 .. (Max16 - 1) /\ i \in 0 .. (Max16 - 1) /\ r \in 0 .. (Max16 - 1)
    BY <1>1, JobTypes, Remainder, Widths
  <2> QED
    BY <2>1, Widths
<1>3. Self = [node_id |-> i, hostname |-> job.host, port |-> r] /\ ~(job.port >= Max16)
  BY <1>1 DEF Self, peer_init, Sendable
<1>4. PICK n : n = peer_get_ip(Self)
  OBVIOUS
<1>5. n \in Nat /\ n < Max32 /\ (job.host # <<>> => Bytes4(n) = job.host)
  <2>1. CASE job.host = <<>>
    BY <1>2, <1>3, <1>4, <2>1 DEF peer_get_ip, peer_lookup
  <2>2. CASE job.host # <<>>
    <3>1. PICK h : h = job.host
      OBVIOUS
    <3>2. h \in Seq(Digit) /\ Len(h) = 4
      BY <2>2, <3>1, JobTypes
    <3>3. h[1] \in Digit /\ h[2] \in Digit /\ h[3] \in Digit /\ h[4] \in Digit
      <4>1. 1 \in 1 .. Len(h) /\ 2 \in 1 .. Len(h) /\ 3 \in 1 .. Len(h) /\ 4 \in 1 .. Len(h)
        BY <3>2
      <4> QED
        BY <3>2, <4>1, ElementOfSeq
    <3>4. PICK x, y : x = h[1] * Base + h[2] /\ y = h[3] * Base + h[4]
      OBVIOUS
    <3>5. /\ x \in 0 .. (Max16 - 1) /\ Hi(x) = h[1] /\ Lo(x) = h[2]
          /\ y \in 0 .. (Max16 - 1) /\ Hi(y) = h[3] /\ Lo(y) = h[4]
      BY <3>3, <3>4, DigitsOnly
    <3>6. peer_lookup(Self) = {Number4(h, 1)}
      BY <1>3, <2>2, <3>1 DEF peer_lookup
    <3>7. n = Number4(h, 1)
      BY <1>4, <3>6 DEF peer_get_ip
    <3>8. Number2(h, 1) = x /\ Number2(h, 1 + 2) = y
      BY <3>4 DEF Number2
    <3>9. n = x * Max16 + y
      BY <3>7, <3>8 DEF Number4
    <3>10. n \in 0 .. (Max32 - 1) /\ n \div Max16 = x /\ n % Max16 = y
      BY <3>5, <3>9, HalvesOnly
    <3>11. x \in Nat /\ y \in Nat
      BY <3>5, Widths
    <3>12. Bytes2(x) = <<h[1], h[2]>> /\ Bytes2(y) = <<h[3], h[4]>>
      BY <3>5, <3>11, Two
    <3>13. <<h[1], h[2]>> \o <<h[3], h[4]>> = <<h[1], h[2], h[3], h[4]>>
      BY <3>3, Tuple2and2
    <3>14. Bytes4(n) = <<h[1], h[2], h[3], h[4]>>
      BY <3>10, <3>12, <3>13 DEF Bytes4
    <3>15. <<h[1], h[2], h[3], h[4]>> = h
      <4>1. PICK t : t = <<h[1], h[2], h[3], h[4]>>
        OBVIOUS
      <4>2. t \in Seq(Digit) /\ Len(t) = 4 /\ t[1] = h[1] /\ t[2] = h[2] /\ t[3] = h[3] /\ t[4] = h[4]
        BY <3>3, <4>1
      <4>3. \A j \in 1 .. 4 : t[j] = h[j]
        BY <4>2
      <4>4. t = h
        BY <3>2, <4>2, <4>3, SeqEqual
      <4> QED
        BY <4>1, <4>4
    <3> QED
      BY <3>1, <3>10, <3>14, <3>15, Widths
  <2> QED
    BY <2>1, <2>2
<1>6. PICK p : p = Sent
  OBVIOUS
<1>7. p = Lookup(Self, job.hash)
  BY <1>6 DEF Sent
<1>8. p = [flags |-> 129, key |-> <<>>, value |-> <<>>, key_len |-> 0, value_len |-> 0,
           hash_id |-> g, node_id |-> i, node_ip |-> n, node_port |-> r]
  <2>1. p = [packet_new EXCEPT !.flags = PKT_FLAG_CTRL + PKT_FLAG_LKUP, !.hash_id = g,
               !.node_id = Self.node_id, !.node_ip = n, !.node_port = Self.port]
    BY <1>1, <1>4, <1>7 DEF Lookup
  <2>2. Self.node_id = i /\ Self.port = r /\ PKT_FLAG_CTRL + PKT_FLAG_LKUP = 129
    BY <1>3 DEF PKT_FLAG_CTRL, PKT_FLAG_LKUP
  <2>3. p = [packet_new EXCEPT !.flags = 129, !.hash_id = g, !.node_id = i, !.node_ip = n, !.node_port = r]
    BY <2>1, <2>2
  <2> QED
    BY <2>3 DEF packet_new
<1>9. p \in PacketType
  <2>1. <<>> \in Seq(Cell) /\ 129 \in 0 .. 255
    BY EmptySeq
  <2> QED
    BY <1>5, <1>8, <2>1 DEF PacketType
<1>10. InWidth(p)
  BY <1>2, <1>5, <1>8, <1>9 DEF InWidth
<1>11. IsCtrl(p)
  BY <1>8 DEF IsCtrl, Has, PKT_FLAG_CTRL
<1>12. Whole(p)
  BY <1>8, <1>10, <1>11 DEF Whole
<1>13. p # NoPacket
  <2>1. NoPacket.key_len = -1
    BY DEF NoPacket, packet_new
  <2> QED
    BY <1>8, <2>1
<1>14. job.port >= 0 => r = job.port
  BY <1>1, <1>3, JobTypes, Small, Widths
<1> QED
  BY <1>1, <1>5, <1>6, <1>8, <1>11, <1>12, <1>13, <1>14

LEMMA SentFacts ==
    ASSUME job \in Jobs, Sendable
    PROVE  /\ InWidth(Sent) /\ Sent \in PacketType /\ Sent # NoPacket
           /\ IsCtrl(Sent) <=> job.role = "peer"
           /\ Lossless => Whole(Sent) /\ Summed(Sent)
<1>1. CASE job.role = "client"
  BY <1>1, RequestSent DEF Lossless, InWidth
<1>2. CASE job.role = "peer"
  BY <1>2, LookupSent DEF Whole, InWidth, Summed
<1> QED
  BY <1>1, <1>2, JobTypes

\* The bytes of the packet that is sent.
LEMMA SentBytes ==
    ASSUME job \in Jobs, Sendable
    PROVE  /\ packet_serialize(Sent) = HeaderOf(Sent) \o BodyOf(Sent)
           /\ HeaderOf(Sent) \in Seq(Cell) /\ BodyOf(Sent) \in Seq(Cell) /\ Len(HeaderOf(Sent)) = 7
           /\ packet_serialize(Sent) \in Seq(Cell)
           /\ <<>> \o packet_serialize(Sent) = HeaderOf(Sent) \o BodyOf(Sent)
<1>1. PICK p : p = Sent
  OBVIOUS
<1>2. p \in PacketType
  BY <1>1, SentFacts
<1>3. HeaderOf(p) \in Seq(Cell) /\ BodyOf(p) \in Seq(Cell) /\ Len(HeaderOf(p)) = 7
  BY <1>2, HeaderType, BodyType
<1>4. PICK c : c = HeaderOf(p) \o BodyOf(p)
  OBVIOUS
<1>5. c \in Seq(Cell)
  BY <1>3, <1>4, ConcatProperties
<1>6. <<>> \o c = c
  BY <1>5, ConcatEmptySeq
<1>7. packet_serialize(p) = c
  BY <1>2, <1>4, Serialized
<1> QED
  BY <1>1, <1>3, <1>4, <1>5, <1>6, <1>7

-----------------------------------------------------------------------------
(* What the parts of the invariant depend on.                              *)

LEMMA SameJob ==
    ASSUME job' = job
    PROVE  Stdin' = Stdin /\ Sent' = Sent /\ (Sendable' <=> Sendable) /\ (Lossless' <=> Lossless)
           /\ Self' = Self
<1>1. Stdin' = Stdin /\ Self' = Self
  BY DEF Stdin, Self
<1>2. (Fits)' <=> Fits
  BY <1>1 DEF Fits
<1> QED
  BY <1>1, <1>2 DEF Sent, Sendable, Lossless

LEMMA SameReceiving ==
    ASSUME Receiving, UNCHANGED <<job, srv, wire, fin, got>>
    PROVE  Receiving'
BY SameJob DEF Receiving

\* A receiver that waits for a header.
LEMMA Waits ==
    ASSUME job' = job, fin' = "no", got' # NoPacket => Sendable /\ (Lossless => got' = Sent),
           srv'.state = "IDLE", srv'.body = <<>>, srv'.pack = NoPacket, Len(srv'.hdr) < PKT_HEADER_LEN,
           \/ srv'.hdr = <<>> /\ wire' = <<>>
           \/ /\ Sendable
              /\ \E b \in Seq(Cell) : /\ srv'.hdr \o wire' = HeaderOf(Sent) \o b
                                      /\ Lossless => b = BodyOf(Sent)
    PROVE  Receiving'
<1>1. PICK p : p = Sent /\ p = Sent'
  BY SameJob
<1>2. (Lossless' <=> Lossless) /\ (Sendable' <=> Sendable)
  BY SameJob
<1>3. \/ srv'.hdr = <<>> /\ wire' = <<>>
      \/ /\ Sendable'
         /\ \E b \in Seq(Cell) : /\ srv'.hdr \o wire' = HeaderOf(Sent') \o b
                                 /\ Lossless' => b = BodyOf(Sent')
  <2>1. CASE srv'.hdr = <<>> /\ wire' = <<>>
    BY <2>1
  <2>2. CASE ~(srv'.hdr = <<>> /\ wire' = <<>>)
    <3>1. PICK b \in Seq(Cell) : srv'.hdr \o wire' = HeaderOf(p) \o b /\ (Lossless => b = BodyOf(p))
      BY <1>1, <2>2
    <3>2. srv'.hdr \o wire' = HeaderOf(Sent') \o b /\ (Lossless' => b = BodyOf(Sent'))
      BY <1>1, <1>2, <3>1
    <3> QED
      BY <1>2, <2>2, <3>2
  <2> QED
    BY <2>1, <2>2
<1>4. got' # NoPacket => Sendable' /\ (Lossless' => got' = Sent')
  BY <1>1, <1>2
<1> QED
  BY <1>3, <1>4 DEF Receiving

\* A receiver that waits for a body.
LEMMA Expects ==
    ASSUME job' = job, fin' = "no", got' # NoPacket => Sendable /\ (Lossless => got' = Sent), Sendable,
           srv'.state = "HDR_RECVD", srv'.hdr = <<>>, srv'.pack = Announced(Sent),
           Len(srv'.body) <= packet_body_size(srv'.pack),
           Lossless => srv'.body \o wire' = BodyOf(Sent)
    PROVE  Receiving'
<1>1. PICK p : p = Sent /\ p = Sent'
  BY SameJob
<1>2. (Lossless' <=> Lossless) /\ (Sendable' <=> Sendable)
  BY SameJob
<1>3. /\ Sendable' /\ srv'.pack = Announced(Sent')
      /\ Lossless' => srv'.body \o wire' = BodyOf(Sent')
  BY <1>1, <1>2
<1>4. got' # NoPacket => Sendable' /\ (Lossless' => got' = Sent')
  BY <1>1, <1>2
<1> QED
  BY <1>3, <1>4 DEF Receiving

\* A receiver that is gone.
LEMMA Leaves ==
    ASSUME job' = job, srv' = [Idle EXCEPT !.state = "GONE"], wire' = <<>>,
           got' # NoPacket => Sendable /\ (Lossless => got' = Sent)
    PROVE  Receiving' /\ srv'.state = "GONE"
           /\ srv' \in [state : {"IDLE", "HDR_RECVD", "GONE"}, hdr : Seq(Cell), body : Seq(Cell),
                         pack : PacketType \cup {NoPacket}]
<1>1. srv' = [state |-> "GONE", hdr |-> <<>>, body |-> <<>>, pack |-> NoPacket]
  BY DEF Idle
<1>2. srv'.state = "GONE" /\ srv'.hdr = <<>> /\ srv'.body = <<>> /\ srv'.pack = NoPacket
  BY <1>1
<1>3. PICK p : p = Sent /\ p = Sent'
  BY SameJob
<1>4. (Lossless' <=> Lossless) /\ (Sendable' <=> Sendable)
  BY SameJob
<1>5. got' # NoPacket => Sendable' /\ (Lossless' => got' = Sent')
  BY <1>3, <1>4
<1>6. Receiving'
  BY <1>2, <1>5 DEF Receiving
<1> QED
  BY <1>1, <1>2, <1>6, EmptySeq

LEMMA SameAnswering ==
    ASSUME Answering, UNCHANGED <<ans, got, fin, buf, back>>, snd' = "recv" => snd = "recv"
    PROVE  Answering'
BY DEF Answering

LEMMA SameConnecting ==
    ASSUME Connecting, OneConnection, UNCHANGED <<job, conn>>,
           job.role = "peer" \/ snd' # "exit" => exit' = exit \/ (exit' = "-1" /\ exit # "0"),
           snd' = snd \/ snd \notin {"connect", "exit"}
    PROVE  Connecting' /\ OneConnection'
<1>1. Connecting'
  BY DEF Connecting, Connections, NotTried
<1>2. OneConnection'
  BY DEF OneConnection
<1> QED
  BY <1>1, <1>2

LEMMA SameAnswer ==
    ASSUME AnswerIntact, job' = job,
           exit' = "0" /\ job.role = "client" => exit = "0" /\ UNCHANGED <<buf, ans, got, out>>
    PROVE  AnswerIntact'
<1> SUFFICES ASSUME exit' = "0", job'.role = "client" PROVE AnswerIntact'
  BY DEF AnswerIntact
<1>1. exit = "0" /\ UNCHANGED <<buf, ans, got, out>>
  OBVIOUS
<1> QED
  BY <1>1 DEF AnswerIntact, Garbled

\* A sender that is done with its client's job has not been answered in vain.
LEMMA NotDone ==
    ASSUME Inv, srv.state # "GONE"
    PROVE  ~(exit = "0" /\ job.role = "client") /\ fin = "no"
BY DEF Inv, Phases, Receiving

LEMMA NewBufType == NewBuf \in [bytes : Seq(Cell), len : Int, size : Nat] /\ NewBuf.len = 0
                    /\ NewBuf.size = BufSize /\ NewBuf.bytes = <<>>
<1>1. <<>> \in Seq(Cell) /\ BufSize \in Nat
  BY EmptySeq, BufSizeAssumption
<1> QED
  BY <1>1 DEF NewBuf

LEMMA InvInit == Init => Inv
<1> SUFFICES ASSUME Init PROVE Inv
  OBVIOUS
<1>0. <<>> \in Seq(Cell) /\ Len(<<>>) = 0 /\ BufSize \in Nat
  BY EmptySeq, BufSizeAssumption
<1>1. Typed
  <2>1. srv \in [state : {"IDLE", "HDR_RECVD", "GONE"}, hdr : Seq(Cell), body : Seq(Cell),
                pack : PacketType \cup {NoPacket}]
    BY <1>0 DEF Init, Idle
  <2> QED
    BY <1>0, <2>1, NewBufType DEF Init, Typed
<1>2. Phases
  BY DEF Init, Phases, Untouched
<1>3. Receiving
  <2>1. srv.state = "IDLE" /\ srv.hdr = <<>> /\ srv.body = <<>> /\ srv.pack = NoPacket
    BY DEF Init, Idle
  <2> QED
    BY <1>0, <2>1 DEF Init, Receiving, PKT_HEADER_LEN
<1>4. Answering
  BY DEF Init, Answering
<1>5. /\ conn.tried = 0 /\ conn.open = 0 /\ conn.held = 0
      /\ conn.usable = FALSE /\ conn.connected = FALSE /\ conn \in Connections
  BY DEF Init, NotTried, Connections
<1>6. Connecting /\ OneConnection
  BY <1>5 DEF Init, Connecting, OneConnection
<1>7. AnswerIntact
  BY DEF Init, AnswerIntact
<1> QED
  BY <1>1, <1>2, <1>3, <1>4, <1>6, <1>7 DEF Inv

-----------------------------------------------------------------------------
(* The steps of the sender.                                                *)

LEMMA StartSteps ==
    ASSUME Inv, ConnectSocket \/ StartPeer
    PROVE  Inv'
<1>1. /\ snd = "start" /\ snd' \in {"stdin", "connect", "exit"}
      /\ UNCHANGED <<job, buf, conn, wire, srv, hop, unread, got, ans, back, fin, out>>
      /\ (exit' = exit /\ snd' # "exit") \/ exit' = "-1"
      /\ snd' = "stdin" => job.role = "client"
      /\ snd' = "connect" => job.role = "peer" /\ Self # NoPeer
  BY DEF ConnectSocket, StartPeer, receiver
<1>2. Typed'
  BY <1>1 DEF Inv, Typed
<1>3. Untouched /\ buf = NewBuf
  BY <1>1 DEF Inv, Phases
<1>4. Phases'
  <2>1. Untouched' /\ buf' = NewBuf'
    BY <1>1, <1>3 DEF Untouched, Idle, NewBuf
  <2>2. buf'.len \in 0 .. Len(Stdin') /\ buf'.bytes = SubSeq(Stdin', 1, buf'.len)
    <3>1. Stdin \in Seq(Nat) /\ Len(Stdin) \in Nat
      BY StdinType DEF Inv, Typed
    <3>2. SubSeq(Stdin, 1, 0) = <<>>
      BY SubSeqEmpty
    <3>3. buf'.len = 0 /\ buf'.bytes = <<>>
      BY <1>1, <1>3, NewBufType
    <3> QED
      BY <1>1, <3>1, <3>2, <3>3, SameJob
  <2> QED
    BY <1>1, <2>1, <2>2, SameJob DEF Inv, Phases
<1>5. Receiving'
  BY <1>1, SameReceiving DEF Inv
<1>6. Answering'
  BY <1>1, SameAnswering DEF Inv
<1>7. Connecting' /\ OneConnection'
  <2>1. exit # "0"
    BY <1>1 DEF Inv, Connecting
  <2> QED
    BY <1>1, <2>1, SameConnecting DEF Inv
<1>8. AnswerIntact'
  BY <1>1, SameAnswer DEF Inv
<1> QED
  BY <1>2, <1>4, <1>5, <1>6, <1>7, <1>8 DEF Inv

\* The growing buffer: there is room behind the write pointer, and what is read goes there.
BufType == [bytes : Seq(Cell), len : Int, size : Nat]

LEMMA GrownBuf ==
    ASSUME NEW b \in BufType, b.len \in -1 .. b.size, b.size >= BufSize
    PROVE  /\ Grown(b) \in BufType /\ Grown(b).bytes = b.bytes /\ Grown(b).len = b.len
           /\ Grown(b).size >= b.size /\ Grown(b).size > b.len /\ Grown(b).size \in Nat
<1>0. b.size \in Nat \ {0} /\ b.len \in Int /\ b.bytes \in Seq(Cell)
  BY BufSizeAssumption DEF BufType
<1>1. CASE b.size - b.len < 1
  <2>1. Grown(b) = [b EXCEPT !.size = 2 * @]
    BY <1>1 DEF Grown
  <2>2. PICK n \in Nat : n = 2 * b.size
    BY <1>0
  <2>3. Grown(b) = [bytes |-> b.bytes, len |-> b.len, size |-> n]
    BY <2>1, <2>2 DEF BufType
  <2>4. n >= b.size /\ n > b.len
    BY <1>0, <2>2
  <2> QED
    BY <1>0, <2>2, <2>3, <2>4 DEF BufType
<1>2. CASE ~(b.size - b.len < 1)
  BY <1>0, <1>2 DEF Grown
<1> QED
  BY <1>1, <1>2

LEMMA FilledBuf ==
    ASSUME NEW b \in BufType, b.len = Len(b.bytes), b.len \in -1 .. b.size, b.size >= BufSize,
           NEW x \in Seq(Cell), Len(x) <= Grown(b).size - b.len, NEW c, c = Filled(Grown(b), x)
    PROVE  /\ c \in BufType /\ c.bytes = b.bytes \o x /\ c.len = Len(c.bytes)
           /\ c.len = b.len + Len(x) /\ c.len \in -1 .. c.size /\ c.size >= BufSize
<1>1. PICK g : g = Grown(b)
  OBVIOUS
<1>2. /\ g \in BufType /\ g.bytes = b.bytes /\ g.len = b.len
      /\ g.size >= b.size /\ g.size > b.len /\ g.size \in Nat
  BY <1>1, GrownBuf
<1>3. PICK a \in Seq(Cell), l \in Nat, k \in Nat : a = b.bytes /\ l = Len(a) /\ k = Len(x) /\ b.len = l
  BY LenProperties DEF BufType
<1>4. SubSeq(g.bytes, 1, g.len) = a
  BY <1>2, <1>3, SubSeqFull
<1>5. c = [bytes |-> a \o x, len |-> l + k, size |-> g.size]
  <2>1. c = [g EXCEPT !.bytes = SubSeq(@, 1, g.len) \o x, !.len = @ + Len(x)]
    BY <1>1 DEF Filled
  <2>2. c = [g EXCEPT !.bytes = a \o x, !.len = l + k]
    BY <1>2, <1>3, <1>4, <2>1
  <2> QED
    BY <1>2, <2>2 DEF BufType
<1>6. a \o x \in Seq(Cell) /\ Len(a \o x) = l + k
  BY <1>3, ConcatProperties
<1>7. l + k <= g.size /\ g.size >= BufSize /\ BufSize \in Nat
  BY <1>1, <1>2, <1>3, BufSizeAssumption DEF BufType
<1> QED
  BY <1>2, <1>3, <1>5, <1>6, <1>7 DEF BufType

LEMMA ReadStep ==
    ASSUME Inv, ReadStdin
    PROVE  Inv'
<1>0. /\ snd = "stdin" /\ buf.len < Len(Stdin)
      /\ UNCHANGED <<job, snd, conn, wire, srv, hop, unread, got, ans, back, fin, exit, out>>
  BY DEF ReadStdin, receiver
<1>1. PICK i \in Seq(Cell) : i = Stdin
  BY StdinType, SeqMonotonic DEF Inv, Typed, Cell
<1>2. PICK l \in Nat : l = Len(i)
  BY LenProperties
<1>3. /\ buf \in BufType /\ buf.len \in 0 .. l /\ buf.bytes = SubSeq(i, 1, buf.len)
      /\ buf.size >= BufSize /\ buf.len \in -1 .. buf.size
  BY <1>0, <1>1, <1>2 DEF Inv, Typed, Phases, BufType
<1>4. PICK k \in Nat : k = buf.len
  BY <1>3
<1>5. PICK z \in Nat : z = Grown(buf).size /\ z > k
  BY <1>3, <1>4, GrownBuf
<1>6. PICK n \in Nat : n = Lesser(z - k, l - k) /\ n <= z - k /\ k + n <= l
  <2>1. k < l /\ k < z
    BY <1>0, <1>1, <1>2, <1>4, <1>5
  <2>2. Lesser(z - k, l - k) \in Nat /\ Lesser(z - k, l - k) <= z - k /\ k + Lesser(z - k, l - k) <= l
    BY <2>1 DEF Lesser
  <2> QED
    BY <2>2
<1>7. Len(buf.bytes) = k
  BY <1>2, <1>3, <1>4, MovePiece
<1>8. PICK x : x = SubSeq(i, k + 1, k + n)
  OBVIOUS
<1>9. x \in Seq(Cell) /\ Len(x) = n
  <2>1. \A j \in (k + 1) .. (k + n) : i[j] \in Cell
    BY <1>2, <1>6, ElementOfSeq
  <2>2. k + 1 \in Int /\ k + n \in Int
    OBVIOUS
  <2>3. SubSeq(i, k + 1, k + n) \in Seq(Cell) /\ Len(SubSeq(i, k + 1, k + n)) = n
    BY <2>1, <2>2, SubSeqProperties
  <2> QED
    BY <1>8, <2>3
<1>10. buf' = Filled(Grown(buf), x)
  BY <1>1, <1>2, <1>3, <1>4, <1>5, <1>6, <1>8, GrownBuf DEF ReadStdin
<1>11. /\ buf' \in BufType /\ buf'.bytes = buf.bytes \o x /\ buf'.len = Len(buf'.bytes)
       /\ buf'.len = k + n /\ buf'.len \in -1 .. buf'.size /\ buf'.size >= BufSize
  <2>1. buf.len = Len(buf.bytes) /\ Len(x) <= Grown(buf).size - buf.len
    BY <1>4, <1>5, <1>6, <1>7, <1>9
  <2>2. PICK c : c = buf'
    OBVIOUS
  <2>3. /\ c \in BufType /\ c.bytes = buf.bytes \o x /\ c.len = Len(c.bytes)
        /\ c.len = buf.len + Len(x) /\ c.len \in -1 .. c.size /\ c.size >= BufSize
    BY <1>3, <1>9, <1>10, <2>1, <2>2, FilledBuf
  <2> QED
    BY <1>4, <1>9, <2>2, <2>3
<1>12. buf'.bytes = SubSeq(i, 1, k + n)
  <2>1. 1 \in 1 .. Len(i) + 1 /\ k \in (1 - 1) .. Len(i) /\ k + n \in k .. Len(i)
    BY <1>2, <1>6
  <2>2. SubSeq(i, 1, k) \o SubSeq(i, k + 1, k + n) = SubSeq(i, 1, k + n)
    BY <2>1, ConcatAdjacentSubSeq
  <2> QED
    BY <1>3, <1>4, <1>8, <1>11, <2>2
<1>13. Typed'
  <2>1. Len(buf'.bytes) <= buf'.size
    BY <1>11
  <2> QED
    BY <1>0, <1>11, <2>1 DEF Inv, Typed, BufType
<1>14. Phases'
  <2>1. Untouched'
    BY <1>0 DEF Inv, Phases, Untouched, Idle
  <2>2. buf'.len \in 0 .. Len(Stdin')
    BY <1>0, <1>1, <1>2, <1>6, <1>11, SameJob
  <2>3. buf'.bytes = SubSeq(Stdin', 1, buf'.len)
    BY <1>0, <1>1, <1>11, <1>12, SameJob
  <2> QED
    BY <1>0, <2>1, <2>2, <2>3, SameJob DEF Inv, Phases
<1>15. Receiving'
  BY <1>0, SameReceiving DEF Inv
<1>16. Answering'
  BY <1>0 DEF Inv, Answering
<1>17. Connecting' /\ OneConnection'
  BY <1>0, SameConnecting DEF Inv
<1>18. AnswerIntact'
  <2>1. ~(exit' = "0" /\ job.role = "client")
    BY <1>0 DEF Inv, Phases
  <2> QED
    BY <1>0, <2>1, SameAnswer DEF Inv
<1> QED
  BY <1>13, <1>14, <1>15, <1>16, <1>17, <1>18 DEF Inv

LEMMA RequestStep ==
    ASSUME Inv, SendRequest
    PROVE  Inv'
<1>0. /\ snd = "stdin" /\ buf.len = Len(Stdin) /\ buf' = NewBuf
      /\ UNCHANGED <<job, conn, srv, hop, unread, got, ans, back, fin, out>>
      /\ job.role = "client" /\ Untouched
      /\ ~(exit = "0")
  BY DEF SendRequest, receiver, Inv, Phases
<1>1. \/ /\ Sendable /\ snd' = "recv" /\ exit' = exit
         /\ wire' = packet_serialize(RequestPacket(job.method, job.key, buf.bytes))
      \/ snd' = "exit" /\ exit' = "-1" /\ wire' = wire
  BY <1>0 DEF SendRequest, Sendable
<1>2. buf.bytes = Stdin
  <2>1. PICK i : i = Stdin /\ i \in Seq(Nat)
    BY StdinType DEF Inv, Typed
  <2>2. buf.bytes = SubSeq(i, 1, Len(i))
    BY <1>0, <2>1 DEF Inv, Phases
  <2> QED
    BY <2>1, <2>2, SubSeqFull
<1>3. srv' = Idle /\ srv'.state = "IDLE" /\ srv'.hdr = <<>> /\ srv'.body = <<>> /\ srv'.pack = NoPacket
  BY <1>0 DEF Untouched, Idle
<1>4. Sendable => /\ packet_serialize(Sent) = HeaderOf(Sent) \o BodyOf(Sent)
                  /\ BodyOf(Sent) \in Seq(Cell) /\ packet_serialize(Sent) \in Seq(Cell)
                  /\ <<>> \o packet_serialize(Sent) = HeaderOf(Sent) \o BodyOf(Sent)
  BY SentBytes DEF Inv, Typed
<1>5. snd' = "recv" => wire' = packet_serialize(Sent)
  BY <1>0, <1>1, <1>2 DEF Sent
<1>6. wire' \in Seq(Cell) /\ (snd' = "exit" => wire' = <<>>)
  BY <1>0, <1>1, <1>4, <1>5 DEF Inv, Typed, Untouched
<1>7. Typed'
  <2>1. /\ buf' \in BufType /\ buf'.len \in -1 .. buf'.size /\ buf'.size >= BufSize
        /\ Len(buf'.bytes) <= buf'.size
    BY <1>0, NewBufType, BufSizeAssumption, EmptySeq DEF BufType
  <2> QED
    BY <1>0, <1>1, <1>6, <2>1 DEF Inv, Typed, BufType
<1>8. Phases'
  BY <1>0, <1>1, SameJob DEF Inv, Phases
<1>9. Receiving'
  <2>1. fin' = "no" /\ got' = NoPacket
    BY <1>0 DEF Untouched
  <2>2. Len(<<>>) < PKT_HEADER_LEN
    BY EmptySeq DEF PKT_HEADER_LEN
  <2>3. \/ wire' = <<>>
        \/ wire' = packet_serialize(Sent) /\ Sendable
    BY <1>1, <1>5, <1>6
  <2>4. \/ srv'.hdr = <<>> /\ wire' = <<>>
        \/ /\ Sendable
           /\ \E b \in Seq(Cell) : /\ srv'.hdr \o wire' = HeaderOf(Sent) \o b
                                   /\ Lossless => b = BodyOf(Sent)
    BY <1>3, <1>4, <2>3
  <2> QED
    BY <1>0, <1>3, <2>1, <2>2, <2>4, Waits
<1>10. Answering'
  <2>1. back' = <<>> /\ fin' = "no" /\ ans' = NoPacket /\ buf' = NewBuf'
    BY <1>0 DEF Untouched, NewBuf
  <2>2. buf'.len = Len(buf'.bytes) /\ buf'.bytes = <<>>
    BY <1>0, NewBufType, EmptySeq
  <2>3. PICK j : j = Peek(<<>>, 1, PKT_HEADER_LEN)
    OBVIOUS
  <2>4. j \in Seq(Cell)
    BY <2>3, EmptySeq, PeekType DEF PKT_HEADER_LEN
  <2>5. (buf'.bytes \o back') \o j = j
    <3>1. <<>> \in Seq(Cell) /\ <<>> \o <<>> = <<>> /\ <<>> \o j = j
      BY <2>4, EmptySeq, ConcatEmptySeq
    <3> QED
      BY <2>1, <2>2, <3>1
  <2> QED
    BY <2>1, <2>2, <2>3, <2>4, <2>5 DEF Answering
<1>11. Connecting' /\ OneConnection'
  BY <1>0, <1>1, SameConnecting DEF Inv
<1>12. AnswerIntact'
  BY <1>0, <1>1, SameAnswer DEF Inv
<1> QED
  BY <1>7, <1>8, <1>9, <1>10, <1>11, <1>12 DEF Inv

LEMMA AddressStep ==
    ASSUME Inv, TryAddress
    PROVE  Inv'
<1>0. /\ snd = "connect" /\ conn.tried < job.addrs
      /\ UNCHANGED <<job, snd, buf, wire, srv, hop, unread, got, ans, back, fin, exit, out>>
  BY DEF TryAddress, receiver
<1>1. job.role = "peer"
  BY <1>0 DEF Inv, Phases
<1>2. conn \in Connections /\ conn.held <= conn.open /\ conn.open <= conn.tried /\ exit # "0"
  BY <1>0 DEF Inv, Connecting
<1>3. PICK o \in Outcomes(conn) : conn' = Tried(conn, o)
  BY DEF TryAddress
<1>4. PICK d \in {0, 1}, e \in {0, 1} :
         /\ d = (IF o = "no_socket" THEN 0 ELSE 1) /\ e = (IF o = "established" THEN 1 ELSE 0)
         /\ e <= d /\ (e = 1 <=> o = "established")
  OBVIOUS
<1>5. PICK u \in BOOLEAN, k \in BOOLEAN :
         /\ u = (o = "established")
         /\ k = (conn.connected \/ o \in {"established", "unspecified"})
  OBVIOUS
<1>6. PICK t \in Nat, n \in Nat, g \in Nat : t = conn.tried /\ n = conn.open /\ g = conn.held
  BY <1>2 DEF Connections
<1>7. conn' = [tried |-> t + 1, open |-> n + d, held |-> g + e, usable |-> u, connected |-> k]
  BY <1>3, <1>4, <1>5, <1>6 DEF Tried
<1>8. /\ conn'.tried = t + 1 /\ conn'.open = n + d /\ conn'.held = g + e
      /\ (conn'.connected <=> conn.connected \/ o \in {"established", "unspecified"})
  BY <1>5, <1>7
<1>9. Typed' /\ Phases'
  <2>1. Typed'
    BY <1>0 DEF Inv, Typed
  <2>2. Untouched' /\ buf' = NewBuf'
    BY <1>0 DEF Inv, Phases, Untouched, Idle, NewBuf
  <2> QED
    BY <1>0, <1>1, <2>1, <2>2, SameJob DEF Inv, Phases
<1>10. Connecting'
  <2>1. conn' \in Connections
    <3>1. t + 1 \in Nat /\ n + d \in Nat /\ g + e \in Nat
      OBVIOUS
    <3> QED
      BY <1>7, <3>1, Zenon DEF Connections
  <2>2. conn'.held <= conn'.open /\ conn'.open <= conn'.tried
    BY <1>2, <1>4, <1>6, <1>8
  <2> QED
    BY <1>0, <1>2, <2>1, <2>2 DEF Connecting
<1>11. OneConnection'
  <2>1. g = IF conn.connected THEN 1 ELSE 0
    BY <1>1, <1>2, <1>6 DEF Inv, OneConnection
  <2>2. CASE conn.connected
    <3>1. o # "established"
      BY <2>2 DEF Outcomes
    <3>2. conn'.connected /\ conn'.held = 1
      BY <1>4, <1>8, <2>1, <2>2, <3>1
    <3> QED
      BY <1>0, <1>2, <3>2 DEF OneConnection
  <2>3. CASE ~conn.connected
    <3>1. o # "unspecified"
      BY <2>3 DEF Outcomes
    <3>2. conn'.held = IF conn'.connected THEN 1 ELSE 0
      BY <1>4, <1>8, <2>1, <2>3, <3>1
    <3> QED
      BY <1>0, <1>2, <3>2 DEF OneConnection
  <2> QED
    BY <2>2, <2>3
<1>12. Receiving'
  BY <1>0, SameReceiving DEF Inv
<1>13. Answering'
  BY <1>0, SameAnswering DEF Inv
<1>14. AnswerIntact'
  BY <1>0, SameAnswer DEF Inv
<1> QED
  BY <1>9, <1>10, <1>11, <1>12, <1>13, <1>14 DEF Inv

LEMMA LookupStep ==
    ASSUME Inv, SendLookup
    PROVE  Inv'
<1>0. /\ snd = "connect" /\ conn.tried = job.addrs /\ snd' = "exit"
      /\ UNCHANGED <<job, buf, srv, hop, unread, got, ans, back, fin, out>>
  BY DEF SendLookup, receiver
<1>1. /\ job.role = "peer" /\ Self # NoPeer /\ Sendable /\ Untouched /\ job \in Jobs
      /\ job.role # "client"
  BY <1>0 DEF Inv, Phases, Sendable, Typed
<1>2. \/ /\ wire' = packet_serialize(Sent) /\ conn' = peer_disconnect(conn) /\ exit' = "0"
         /\ conn.connected /\ conn.usable
      \/ exit' = "-1" /\ wire' = wire /\ conn' = conn
  BY <1>1 DEF SendLookup, Sent
<1>3. conn \in Connections /\ conn.held <= conn.open /\ conn.open <= conn.tried /\ exit # "0"
  BY <1>0 DEF Inv, Connecting
<1>4. Typed'
  <2>1. wire' \in Seq(Cell)
    BY <1>1, <1>2, SentBytes DEF Inv, Typed
  <2> QED
    BY <1>0, <1>2, <2>1 DEF Inv, Typed
<1>5. Phases'
  BY <1>0, <1>1, SameJob DEF Inv, Phases
<1>6. Receiving'
  <2>1. fin' = "no" /\ got' = NoPacket /\ srv' = Idle /\ wire = <<>>
    BY <1>0, <1>1 DEF Untouched
  <2>2. srv'.state = "IDLE" /\ srv'.hdr = <<>> /\ srv'.body = <<>> /\ srv'.pack = NoPacket
    BY <2>1 DEF Idle
  <2>3. Len(<<>>) < PKT_HEADER_LEN
    BY EmptySeq DEF PKT_HEADER_LEN
  <2>4. \/ wire' = <<>>
        \/ wire' = packet_serialize(Sent)
    BY <1>2, <2>1
  <2>5. BodyOf(Sent) \in Seq(Cell) /\ <<>> \o packet_serialize(Sent) = HeaderOf(Sent) \o BodyOf(Sent)
    BY <1>1, SentBytes
  <2>6. \/ srv'.hdr = <<>> /\ wire' = <<>>
        \/ /\ Sendable
           /\ \E b \in Seq(Cell) : /\ srv'.hdr \o wire' = HeaderOf(Sent) \o b
                                   /\ Lossless => b = BodyOf(Sent)
    BY <1>1, <2>2, <2>4, <2>5
  <2> QED
    BY <1>0, <2>1, <2>2, <2>3, <2>6, Waits
<1>7. Answering'
  BY <1>0, SameAnswering DEF Inv
<1>8. Connecting' /\ OneConnection'
  <2>1. CASE exit' = "-1" /\ conn' = conn
    BY <1>0, <1>1, <1>3, <2>1 DEF Inv, Connecting, OneConnection
  <2>2. CASE conn' = peer_disconnect(conn) /\ conn.connected /\ exit' = "0"
    <3>1. conn.held = 1
      BY <1>1, <1>3, <2>2 DEF Inv, OneConnection
    <3>2. PICK t \in Nat, n \in Nat : t = conn.tried /\ n = conn.open - 1
      BY <1>3, <3>1 DEF Connections
    <3>3. conn' = [conn EXCEPT !.open = n, !.held = 0, !.usable = FALSE]
      BY <1>3, <2>2, <3>1, <3>2 DEF peer_disconnect, Connections
    <3>4. /\ conn' \in Connections /\ conn'.held = 0 /\ conn'.open = n /\ conn'.tried = t
          /\ (conn'.connected <=> conn.connected)
      BY <1>3, <3>2, <3>3 DEF Connections
    <3>5. n < t /\ t = job.addrs
      BY <1>0, <1>3, <3>2 DEF Connections
    <3>6. Connecting'
      BY <1>0, <3>2, <3>4, <3>5 DEF Connecting
    <3>7. OneConnection'
      BY <1>0, <1>1, <2>2, <3>4, <3>5 DEF OneConnection
    <3> QED
      BY <3>6, <3>7
  <2> QED
    BY <1>2, <2>1, <2>2
<1>9. AnswerIntact'
  BY <1>0, <1>1, SameAnswer DEF Inv
<1> QED
  BY <1>4, <1>5, <1>6, <1>7, <1>8, <1>9 DEF Inv

-----------------------------------------------------------------------------
(* The steps of the receiver.                                              *)

\* Bytes are under way only between the sending and the end of the connection.
LEMMA Arrives ==
    ASSUME Inv, wire # <<>>
    PROVE  /\ snd \in {"recv", "exit"} /\ srv.state # "GONE" /\ Sendable /\ fin = "no"
           /\ ~(exit = "0" /\ job.role = "client")
<1>1. snd \in {"recv", "exit"}
  BY DEF Inv, Typed, Phases, Untouched
<1>2. srv.state # "GONE" /\ Sendable
  BY DEF Inv, Typed, Receiving
<1> QED
  BY <1>1, <1>2, NotDone

LEMMA SamePhases ==
    ASSUME Phases, UNCHANGED <<job, snd, exit>>, snd \in {"recv", "exit"},
           fin' = fin \/ fin' # "no"
    PROVE  Phases'
BY SameJob DEF Phases

LEMMA HeaderStep ==
    ASSUME Inv, RecvHeader
    PROVE  Inv'
<1>0. /\ srv.state = "IDLE"
      /\ UNCHANGED <<job, snd, buf, conn, hop, unread, got, ans, back, fin, exit, out>>
  BY DEF RecvHeader
<1>1. PICK a \in Seq(Cell), w \in Seq(Cell) : a = srv.hdr /\ w = wire
  BY DEF Inv, Typed
<1>2. srv.body = <<>> /\ srv.pack = NoPacket /\ Len(a) < 7 /\ Len(a) \in Nat /\ Len(w) \in Nat
  BY <1>0, <1>1, LenProperties DEF Inv, Receiving, PKT_HEADER_LEN
<1>3. PICK x \in Pieces(7 - Len(a)) :
          /\ wire' = SubSeq(wire, Len(x) + 1, Len(wire))
          /\ srv' = IF Len(srv.hdr \o x) = 7 THEN client_decode_hdr(srv.hdr \o x)
                                             ELSE [srv EXCEPT !.hdr = srv.hdr \o x]
  BY <1>1 DEF RecvHeader, PKT_HEADER_LEN
<1>4. PICK k \in 1 .. Lesser(7 - Len(a), Len(w)) : x = SubSeq(w, 1, k)
  BY <1>1, <1>3 DEF Pieces
<1>5. k \in 0 .. Len(w) /\ k \in Nat /\ k >= 1 /\ k <= 7 - Len(a)
  BY <1>2, <1>4 DEF Lesser
<1>6. PICK h, v : h = a \o x /\ v = SubSeq(w, k + 1, Len(w))
  OBVIOUS
<1>7. /\ x \in Seq(Cell) /\ Len(x) = k /\ v \in Seq(Cell) /\ h \o v = a \o w
  <2>1. /\ SubSeq(w, 1, k) \in Seq(Cell) /\ Len(SubSeq(w, 1, k)) = k
        /\ SubSeq(w, k + 1, Len(w)) \in Seq(Cell)
    BY <1>5, MovePiece
  <2>2. SubSeq(w, 1, k) \o SubSeq(w, k + 1, Len(w)) = w
    BY <1>5, MovePiece
  <2>3. x \in Seq(Cell) /\ Len(x) = k /\ v \in Seq(Cell) /\ Cat(x, v) = w
    BY <1>4, <1>6, <2>1, <2>2 DEF Cat
  <2>4. Cat(Cat(a, x), v) = Cat(a, w)
    BY <2>3, Associative
  <2> QED
    BY <1>6, <2>3, <2>4 DEF Cat
<1>8. h \in Seq(Cell) /\ Len(h) = Len(a) + k
  BY <1>6, <1>7, ConcatProperties
<1>9. wire' = v
  BY <1>1, <1>3, <1>6, <1>7
<1>10. wire # <<>>
  BY <1>1, <1>2, <1>5, EmptySeq
<1>11. snd \in {"recv", "exit"} /\ Sendable /\ fin = "no"
  BY <1>10, Arrives
<1>12. PICK p : p = Sent
  OBVIOUS
<1>13. InWidth(p) /\ p \in PacketType
  BY <1>11, <1>12, SentFacts DEF Inv, Typed
<1>14. PICK b \in Seq(Cell) : a \o w = HeaderOf(p) \o b /\ (Lossless => b = BodyOf(p))
  BY <1>0, <1>1, <1>10, <1>12 DEF Inv, Receiving
<1>15. HeaderOf(p) \in Seq(Cell) /\ Len(HeaderOf(p)) = 7
  BY <1>13, HeaderType
<1>16. got' # NoPacket => Sendable /\ (Lossless => got' = Sent)
  BY <1>0 DEF Inv, Receiving
<1>17. Receiving' /\ srv' \in [state : {"IDLE", "HDR_RECVD", "GONE"}, hdr : Seq(Cell),
                               body : Seq(Cell), pack : PacketType \cup {NoPacket}]
  <2>1. CASE Len(h) = 7
    <3>1. srv' = client_decode_hdr(h)
      BY <1>1, <1>3, <1>6, <2>1
    <3>2. h = HeaderOf(p) /\ v = b
      BY <1>7, <1>8, <1>14, <1>15, <2>1, Cancel
    <3>3. packet_decode_hdr(h) = Announced(p)
      BY <1>13, <3>2, HeaderDecoded
    <3>4. srv' = [state |-> "HDR_RECVD", hdr |-> <<>>, body |-> <<>>, pack |-> Announced(p)]
      BY <3>1, <3>3 DEF client_decode_hdr, Idle
    <3>5. srv'.state = "HDR_RECVD" /\ srv'.hdr = <<>> /\ srv'.body = <<>> /\ srv'.pack = Announced(p)
      BY <3>4
    <3>6. Len(srv'.body) <= packet_body_size(srv'.pack)
      <4>1. packet_body_size(Announced(p)) \in Nat
        BY <1>13, AnnouncedType
      <4> QED
        BY <3>5, <4>1, EmptySeq
    <3>7. Lossless => srv'.body \o wire' = BodyOf(p)
      <4>1. <<>> \o b = b
        BY ConcatEmptySeq
      <4> QED
        BY <1>9, <1>14, <3>2, <3>5, <4>1
    <3>8. Receiving'
      BY <1>0, <1>11, <1>12, <1>16, <3>5, <3>6, <3>7, Expects
    <3>9. Announced(p) \in PacketType /\ <<>> \in Seq(Cell)
      BY <1>13, AnnouncedIn, EmptySeq
    <3> QED
      BY <3>4, <3>8, <3>9
  <2>2. CASE Len(h) # 7
    <3>1. srv' = [srv EXCEPT !.hdr = h]
      BY <1>1, <1>3, <1>6, <2>2
    <3>2. srv' \in [state : {"IDLE", "HDR_RECVD", "GONE"}, hdr : Seq(Cell),
                   body : Seq(Cell), pack : PacketType \cup {NoPacket}]
      BY <1>8, <3>1 DEF Inv, Typed
    <3>3. srv'.state = "IDLE" /\ srv'.hdr = h /\ srv'.body = <<>> /\ srv'.pack = NoPacket
      BY <1>0, <1>2, <3>1 DEF Inv, Typed
    <3>4. Len(srv'.hdr) < PKT_HEADER_LEN
      BY <1>2, <1>5, <1>8, <2>2, <3>3 DEF PKT_HEADER_LEN
    <3>5. srv'.hdr \o wire' = HeaderOf(p) \o b
      BY <1>7, <1>9, <1>14, <3>3
    <3>6. \E c \in Seq(Cell) : srv'.hdr \o wire' = HeaderOf(Sent) \o c /\ (Lossless => c = BodyOf(Sent))
      BY <1>12, <1>14, <3>5
    <3>7. Receiving'
      BY <1>0, <1>11, <1>16, <3>3, <3>4, <3>6, Waits
    <3> QED
      BY <3>2, <3>7
  <2> QED
    BY <2>1, <2>2
<1>18. Typed'
  BY <1>0, <1>7, <1>9, <1>17 DEF Inv, Typed
<1>19. Phases'
  BY <1>0, <1>11, SamePhases DEF Inv
<1>20. Answering'
  BY <1>0, SameAnswering DEF Inv
<1>21. Connecting' /\ OneConnection'
  BY <1>0, SameConnecting DEF Inv
<1>22. AnswerIntact'
  BY <1>0, SameAnswer DEF Inv
<1> QED
  BY <1>17, <1>18, <1>19, <1>20, <1>21, <1>22 DEF Inv

LEMMA BodyStep ==
    ASSUME Inv, RecvBody
    PROVE  Inv'
<1>0. /\ srv.state = "HDR_RECVD"
      /\ UNCHANGED <<job, snd, buf, conn, hop, unread, got, ans, back, fin, exit, out>>
  BY DEF RecvBody
<1>1. PICK a \in Seq(Cell), w \in Seq(Cell) : a = srv.body /\ w = wire
  BY DEF Inv, Typed
<1>2. PICK p : p = Sent
  OBVIOUS
<1>3. Sendable /\ srv.hdr = <<>> /\ srv.pack = Announced(p) /\ (Lossless => a \o w = BodyOf(p))
  BY <1>0, <1>1, <1>2 DEF Inv, Receiving
<1>4. PICK z \in Nat : z = packet_body_size(srv.pack)
  BY <1>2, <1>3, SentFacts, AnnouncedType DEF Inv, Typed
<1>5. Room = z - Len(a) /\ Len(a) \in Nat /\ Len(w) \in Nat /\ Len(a) <= z
  BY <1>0, <1>1, <1>4, LenProperties DEF Room, Inv, Receiving
<1>6. PICK x \in Pieces(Room) :
          /\ Len(x) < Room
          /\ wire' = SubSeq(wire, Len(x) + 1, Len(wire))
          /\ srv' = [srv EXCEPT !.body = @ \o x]
  BY DEF RecvBody
<1>7. PICK k \in 1 .. Lesser(Room, Len(w)) : x = SubSeq(w, 1, k)
  BY <1>1, <1>6 DEF Pieces
<1>8. k \in 0 .. Len(w) /\ k \in Nat /\ k >= 1
  BY <1>5, <1>7 DEF Lesser
<1>9. PICK h, v : h = a \o x /\ v = SubSeq(w, k + 1, Len(w))
  OBVIOUS
<1>10. /\ x \in Seq(Cell) /\ Len(x) = k /\ v \in Seq(Cell) /\ h \o v = a \o w
  <2>1. /\ SubSeq(w, 1, k) \in Seq(Cell) /\ Len(SubSeq(w, 1, k)) = k
        /\ SubSeq(w, k + 1, Len(w)) \in Seq(Cell)
    BY <1>8, MovePiece
  <2>2. SubSeq(w, 1, k) \o SubSeq(w, k + 1, Len(w)) = w
    BY <1>8, MovePiece
  <2>3. x \in Seq(Cell) /\ Len(x) = k /\ v \in Seq(Cell) /\ Cat(x, v) = w
    BY <1>7, <1>9, <2>1, <2>2 DEF Cat
  <2>4. Cat(Cat(a, x), v) = Cat(a, w)
    BY <2>3, Associative
  <2> QED
    BY <1>9, <2>3, <2>4 DEF Cat
<1>11. h \in Seq(Cell) /\ Len(h) = Len(a) + k
  BY <1>9, <1>10, ConcatProperties
<1>12. wire' = v
  BY <1>1, <1>6, <1>9, <1>10
<1>13. wire # <<>>
  BY <1>1, <1>5, <1>8, EmptySeq
<1>14. snd \in {"recv", "exit"} /\ fin = "no"
  BY <1>13, Arrives
<1>15. srv' = [srv EXCEPT !.body = h]
  BY <1>1, <1>6, <1>9
<1>16. srv' \in [state : {"IDLE", "HDR_RECVD", "GONE"}, hdr : Seq(Cell),
                body : Seq(Cell), pack : PacketType \cup {NoPacket}]
  BY <1>11, <1>15 DEF Inv, Typed
<1>17. srv'.state = "HDR_RECVD" /\ srv'.hdr = <<>> /\ srv'.body = h /\ srv'.pack = srv.pack
  BY <1>0, <1>3, <1>15 DEF Inv, Typed
<1>18. Receiving'
  <2>1. Len(srv'.body) <= packet_body_size(srv'.pack)
    BY <1>4, <1>5, <1>6, <1>10, <1>11, <1>17
  <2>2. Lossless => srv'.body \o wire' = BodyOf(Sent)
    BY <1>2, <1>3, <1>10, <1>12, <1>17
  <2>3. got' # NoPacket => Sendable /\ (Lossless => got' = Sent)
    BY <1>0 DEF Inv, Receiving
  <2> QED
    BY <1>0, <1>2, <1>3, <1>14, <1>17, <2>1, <2>2, <2>3, Expects
<1>19. Typed'
  BY <1>0, <1>10, <1>12, <1>16 DEF Inv, Typed
<1>20. Phases'
  BY <1>0, <1>14, SamePhases DEF Inv
<1>21. Answering'
  BY <1>0, SameAnswering DEF Inv
<1>22. Connecting' /\ OneConnection'
  BY <1>0, SameConnecting DEF Inv
<1>23. AnswerIntact'
  BY <1>0, SameAnswer DEF Inv
<1> QED
  BY <1>18, <1>19, <1>20, <1>21, <1>22, <1>23 DEF Inv

\* The packet that is delivered: the one that was sent, if nothing was lost, or one whose
\* key and value are not those of the client but have the lengths that the header says.
LEMMA Delivered ==
    ASSUME Inv, Full
    PROVE  /\ wire # <<>> /\ Sendable /\ Rest \in Seq(Cell)
           /\ Lossless => FullPacket = Sent
           /\ Whole(FullPacket) /\ FullPacket # NoPacket
           /\ IsCtrl(FullPacket) <=> IsCtrl(Sent)
           /\ IsCtrl(srv.pack) <=> IsCtrl(Sent)
           /\ ~IsCtrl(Sent) => HeaderOf(FullPacket) = HeaderOf(Sent)
<1>1. PICK a \in Seq(Cell), w \in Seq(Cell) : a = srv.body /\ w = wire
  BY DEF Inv, Typed
<1>2. PICK p : p = Sent
  OBVIOUS
<1>3. Sendable /\ srv.pack = Announced(p) /\ (Lossless => a \o w = BodyOf(p))
  BY <1>1, <1>2 DEF Inv, Receiving, Full
<1>4. /\ InWidth(p) /\ p \in PacketType /\ (IsCtrl(p) <=> job.role = "peer")
      /\ Lossless => Whole(p) /\ Summed(p)
  BY <1>2, <1>3, SentFacts DEF Inv, Typed
<1>5. PICK z \in Nat : /\ z = packet_body_size(Announced(p))
                       /\ Summed(p) => z = Len(BodyOf(p))
  BY <1>4, AnnouncedType
<1>6. Room = z - Len(a) /\ Len(a) \in Nat /\ Len(w) \in Nat
  BY <1>1, <1>3, <1>5, LenProperties DEF Room
<1>7. PICK r \in Nat : r = Room /\ r = z - Len(a) /\ r > 0 /\ r <= Len(w)
  BY <1>1, <1>6 DEF Full
<1>8. wire # <<>>
  BY <1>1, <1>7, EmptySeq
<1>9. r \in 0 .. Len(w)
  BY <1>6, <1>7
<1>10. SubSeq(w, 1, r) \in Seq(Cell) /\ SubSeq(w, r + 1, Len(w)) \in Seq(Cell)
  BY <1>9, MovePiece
<1>11. PICK y \in Seq(Cell) : y = SubSeq(w, 1, r)
  BY <1>10
<1>12. PICK b : b = a \o y
  OBVIOUS
<1>13. b \in Seq(Cell)
  BY <1>12, ConcatProperties
<1>14. PICK q : q = FullPacket
  OBVIOUS
<1>15. q = packet_decode_body(Announced(p), b, z)
  BY <1>1, <1>3, <1>5, <1>7, <1>11, <1>12, <1>14 DEF FullPacket
<1>16. Rest \in Seq(Cell)
  BY <1>1, <1>7, <1>10 DEF Rest
<1>17. Lossless => q = p
  <2> SUFFICES ASSUME Lossless PROVE q = p
    OBVIOUS
  <2>1. Whole(p) /\ Summed(p) /\ z = Len(BodyOf(p))
    BY <1>4, <1>5
  <2>2. Len(a \o w) = Len(a) + Len(w)
    BY ConcatProperties
  <2>3. r = Len(w)
    BY <1>3, <1>6, <1>7, <2>1, <2>2
  <2>4. SubSeq(w, 1, Len(w)) = w
    BY SubSeqFull
  <2>5. b = BodyOf(p)
    BY <1>3, <1>11, <1>12, <2>3, <2>4
  <2>6. packet_decode_body(Announced(p), BodyOf(p), z) = p
    BY <2>1, BodyDecoded
  <2> QED
    BY <1>15, <2>5, <2>6
<1>18. IsCtrl(p) => Lossless
  BY <1>4 DEF Lossless
<1>19. ~IsCtrl(p) => Whole(q) /\ ~IsCtrl(q) /\ q # NoPacket /\ HeaderOf(q) = HeaderOf(p)
  <2> SUFFICES ASSUME ~IsCtrl(p) PROVE Whole(q) /\ ~IsCtrl(q) /\ q # NoPacket /\ HeaderOf(q) = HeaderOf(p)
    OBVIOUS
  <2>1. q = packet_decode_body(Announced(p), b, packet_body_size(Announced(p)))
    BY <1>5, <1>15
  <2>2. /\ Whole(q) /\ ~IsCtrl(q) /\ q # NoPacket /\ q.flags = p.flags
        /\ q.key_len = p.key_len /\ q.value_len = p.value_len
    BY <1>4, <1>13, <2>1, BodyCopied
  <2> QED
    BY <2>2, SameHeader
<1>20. IsCtrl(srv.pack) <=> IsCtrl(p)
  BY <1>3, <1>4, AnnouncedType
<1>21. p # NoPacket
  BY <1>2, <1>3, SentFacts DEF Inv, Typed
<1>22. Whole(q) /\ q # NoPacket /\ (IsCtrl(q) <=> IsCtrl(p))
  BY <1>4, <1>17, <1>18, <1>19, <1>21
<1> QED
  BY <1>2, <1>3, <1>8, <1>14, <1>16, <1>17, <1>19, <1>20, <1>22

LEMMA PassStep ==
    ASSUME Inv, PassOn
    PROVE  Inv'
<1>0. /\ Full /\ hop' = 2 /\ unread' = Rest /\ srv' = Idle
      /\ wire' = packet_serialize(IF IsCtrl(FullPacket) THEN FullPacket ELSE packet_dup(FullPacket))
      /\ UNCHANGED <<job, snd, buf, conn, got, ans, back, fin, exit, out>>
  BY DEF PassOn
<1>1. PICK q : q = FullPacket
  OBVIOUS
<1>2. /\ wire # <<>> /\ Sendable /\ Rest \in Seq(Cell)
      /\ Lossless => q = Sent
      /\ Whole(q) /\ (IsCtrl(q) <=> IsCtrl(Sent))
      /\ ~IsCtrl(Sent) => HeaderOf(q) = HeaderOf(Sent)
  BY <1>0, <1>1, Delivered
<1>3. snd \in {"recv", "exit"} /\ fin = "no"
  BY <1>2, Arrives
<1>4. IsCtrl(Sent) => Lossless
  BY <1>2, SentFacts DEF Inv, Typed, Lossless
<1>5. HeaderOf(q) = HeaderOf(Sent)
  BY <1>2, <1>4
<1>6. wire' = packet_serialize(q)
  BY <1>0, <1>1, <1>2, Copied
<1>7. q \in PacketType
  BY <1>2 DEF Whole, InWidth
<1>8. HeaderOf(q) \in Seq(Cell) /\ BodyOf(q) \in Seq(Cell)
  BY <1>7, HeaderType, BodyType
<1>9. PICK c : c = HeaderOf(q) \o BodyOf(q)
  OBVIOUS
<1>10. c \in Seq(Cell)
  BY <1>8, <1>9, ConcatProperties
<1>11. <<>> \o c = c
  BY <1>10, ConcatEmptySeq
<1>12. wire' = c
  BY <1>6, <1>7, <1>9, Serialized
<1>13. srv'.state = "IDLE" /\ srv'.hdr = <<>> /\ srv'.body = <<>> /\ srv'.pack = NoPacket
  BY <1>0 DEF Idle
<1>14. Receiving'
  <2>1. srv'.hdr \o wire' = HeaderOf(Sent) \o BodyOf(q)
    BY <1>5, <1>9, <1>11, <1>12, <1>13
  <2>2. \E b \in Seq(Cell) : srv'.hdr \o wire' = HeaderOf(Sent) \o b /\ (Lossless => b = BodyOf(Sent))
    BY <1>2, <1>8, <2>1
  <2>3. Len(<<>>) < PKT_HEADER_LEN
    BY EmptySeq DEF PKT_HEADER_LEN
  <2>4. got' # NoPacket => Sendable /\ (Lossless => got' = Sent)
    BY <1>0 DEF Inv, Receiving
  <2> QED
    BY <1>0, <1>2, <1>3, <1>13, <2>2, <2>3, <2>4, Waits
<1>15. Typed'
  <2>1. <<>> \in Seq(Cell)
    BY EmptySeq
  <2>2. srv' \in [state : {"IDLE", "HDR_RECVD", "GONE"}, hdr : Seq(Cell), body : Seq(Cell),
                 pack : PacketType \cup {NoPacket}]
    BY <1>0, <2>1 DEF Idle
  <2> QED
    BY <1>0, <1>2, <1>10, <1>12, <2>2 DEF Inv, Typed
<1>16. Phases'
  BY <1>0, <1>3, SamePhases DEF Inv
<1>17. Answering'
  BY <1>0, SameAnswering DEF Inv
<1>18. Connecting' /\ OneConnection'
  BY <1>0, SameConnecting DEF Inv
<1>19. AnswerIntact'
  BY <1>0, SameAnswer DEF Inv
<1> QED
  BY <1>14, <1>15, <1>16, <1>17, <1>18, <1>19 DEF Inv

\* The answer to a request that was delivered.
LEMMA Acknowledged ==
    ASSUME NEW p, Whole(p), ~IsCtrl(p), NEW e \in {<<>>} \cup { <<v>> : v \in Stored }
    PROVE  Answer(Ack(p, e)) /\ Ack(p, e) # NoPacket
<1>1. PICK f \in {1, 2, 4} : f = (IF Has(p.flags, PKT_FLAG_GET) THEN PKT_FLAG_GET
                ELSE IF Has(p.flags, PKT_FLAG_SET) THEN PKT_FLAG_SET ELSE PKT_FLAG_DEL)
  BY DEF PKT_FLAG_GET, PKT_FLAG_SET, PKT_FLAG_DEL
<1>2. PICK k, m, u : k = p.key /\ m = p.key_len /\ u = Ack(p, e)
  OBVIOUS
<1>3. k \in Seq(Cell) /\ m \in Nat /\ m = Len(k) /\ m < Max16
  BY <1>2 DEF Whole, InWidth, PacketType
<1>4. PICK g \in {9, 10, 12} : g = PKT_FLAG_ACK + f
  BY DEF PKT_FLAG_ACK
<1>5. g \in 0 .. 255 /\ ~Has(g, PKT_FLAG_CTRL)
  <2>1. g \div 128 = 0
    OBVIOUS
  <2> QED
    BY <2>1 DEF Has, PKT_FLAG_CTRL
<1>6. <<>> \in Seq(Cell) /\ Len(<<>>) = 0 /\ 0 < Max16
  BY EmptySeq, Widths
<1>7. CASE f = PKT_FLAG_GET /\ e # <<>>
  <2>1. PICK v \in Seq(Cell) : e = <<v>>
    BY <1>7, StoredAssumption, SeqMonotonic DEF Cell
  <2>2. PICK n \in Nat : n = Len(v)
    BY LenProperties
  <2>3. Head(e) = v
    BY <2>1
  <2>4. u = [flags |-> g, key |-> k, value |-> v, key_len |-> m, value_len |-> n,
             hash_id |-> 0, node_id |-> 0, node_ip |-> 0, node_port |-> 0]
    <3>1. u = IF f = PKT_FLAG_GET /\ e # <<>>
              THEN [[packet_new EXCEPT !.flags = g] EXCEPT !.key = k, !.key_len = m,
                        !.value = Head(e), !.value_len = Len(Head(e))]
              ELSE [packet_new EXCEPT !.flags = g]
      BY <1>1, <1>2, <1>4 DEF Ack
    <3>2. u = [[packet_new EXCEPT !.flags = g] EXCEPT !.key = k, !.key_len = m,
                  !.value = v, !.value_len = n]
      BY <1>7, <2>2, <2>3, <3>1
    <3> QED
      BY <3>2 DEF packet_new
  <2>5. u \in PacketType /\ u.flags = g
    BY <1>3, <1>5, <2>4 DEF PacketType
  <2>6. u # NoPacket
    BY <1>3, <2>4 DEF NoPacket, packet_new
  <2>7. ~IsCtrl(u)
    BY <1>5, <2>5 DEF IsCtrl
  <2>8. Answer(u)
    BY <1>3, <2>2, <2>4, <2>5, <2>7 DEF Answer
  <2> QED
    BY <1>2, <2>6, <2>8
<1>8. CASE ~(f = PKT_FLAG_GET /\ e # <<>>)
  <2>1. u = [flags |-> g, key |-> <<>>, value |-> <<>>, key_len |-> 0, value_len |-> 0,
             hash_id |-> 0, node_id |-> 0, node_ip |-> 0, node_port |-> 0]
    BY <1>1, <1>2, <1>4, <1>8 DEF Ack, packet_new
  <2>2. u \in PacketType /\ u.flags = g
    BY <1>5, <1>6, <2>1 DEF PacketType
  <2>3. u # NoPacket
    BY <2>1 DEF NoPacket, packet_new
  <2>4. ~IsCtrl(u)
    BY <1>5, <2>2 DEF IsCtrl
  <2>5. Answer(u)
    BY <1>6, <2>1, <2>2, <2>4 DEF Answer
  <2> QED
    BY <1>2, <2>3, <2>5
<1> QED
  BY <1>7, <1>8

\* A receiver that has not answered: recvall has nothing.
LEMMA Unanswered ==
    ASSUME Inv, wire # <<>>, snd = "recv"
    PROVE  /\ buf.bytes = <<>> /\ buf.len = Len(buf.bytes) /\ back = <<>>
BY Arrives, NewBufType, EmptySeq DEF Inv, Answering

\* recvall that has nothing yet, while x is under way to it.
LEMMA Answers ==
    ASSUME ans' # NoPacket => Answer(ans') /\ got' # NoPacket,
           snd' = "recv" => buf'.bytes = <<>> /\ buf'.len = Len(buf'.bytes) /\ fin' # "no",
           back' \in Seq(Cell),
           \E rest \in Seq(Cell) :
              \/ ans' # NoPacket /\ back' \o rest = packet_serialize(ans')
              \/ back' \o rest = Peek(<<>>, 1, PKT_HEADER_LEN)
    PROVE  Answering'
<1>1. PICK rest \in Seq(Cell) :
              \/ ans' # NoPacket /\ back' \o rest = packet_serialize(ans')
              \/ back' \o rest = Peek(<<>>, 1, PKT_HEADER_LEN)
  OBVIOUS
<1>2. <<>> \o back' = back'
  BY ConcatEmptySeq
<1>3. snd' = "recv" => \/ ans' # NoPacket /\ (buf'.bytes \o back') \o rest = packet_serialize(ans')
                       \/ (buf'.bytes \o back') \o rest = Peek(<<>>, 1, PKT_HEADER_LEN)
  BY <1>1, <1>2
<1> QED
  BY <1>3 DEF Answering

\* Nothing begins everything.
LEMMA NothingBegins ==
    \E rest \in Seq(Cell) : <<>> \o rest = Peek(<<>>, 1, PKT_HEADER_LEN)
<1>1. PICK j : j = Peek(<<>>, 1, PKT_HEADER_LEN)
  OBVIOUS
<1>2. j \in Seq(Cell)
  BY <1>1, EmptySeq, PeekType DEF PKT_HEADER_LEN
<1>3. <<>> \o j = j
  BY <1>2, ConcatEmptySeq
<1> QED
  BY <1>1, <1>2, <1>3

LEMMA HandleStep ==
    ASSUME Inv, HandleOwnRequest
    PROVE  Inv'
<1>0. /\ Full /\ ~IsCtrl(srv.pack) /\ got' = FullPacket
      /\ Ends(packet_serialize(ans'), Rest) /\ srv' = [Idle EXCEPT !.state = "GONE"] /\ wire' = <<>>
      /\ UNCHANGED <<job, snd, buf, conn, hop, unread, exit, out>>
  BY DEF HandleOwnRequest
<1>1. PICK q : q = FullPacket
  OBVIOUS
<1>2. /\ wire # <<>> /\ Sendable /\ (Lossless => q = Sent)
      /\ Whole(q) /\ q # NoPacket /\ ~IsCtrl(q)
  BY <1>0, <1>1, Delivered
<1>3. /\ snd \in {"recv", "exit"} /\ ~(exit = "0" /\ job.role = "client")
  BY <1>2, Arrives
<1>4. PICK e \in {<<>>} \cup { <<v>> : v \in Stored } : ans' = Ack(q, e)
  BY <1>1 DEF HandleOwnRequest
<1>5. PICK u : u = ans'
  OBVIOUS
<1>6. Answer(u) /\ u # NoPacket
  BY <1>2, <1>4, <1>5, Acknowledged
<1>7. back' = packet_serialize(u) /\ fin' \in {"fin", "rst"}
  BY <1>0, <1>5 DEF Ends
<1>8. u \in PacketType
  BY <1>6 DEF Answer
<1>9. packet_serialize(u) \in Seq(Cell)
  <2>1. HeaderOf(u) \in Seq(Cell) /\ BodyOf(u) \in Seq(Cell)
    BY <1>8, HeaderType, BodyType
  <2>2. HeaderOf(u) \o BodyOf(u) \in Seq(Cell)
    BY <2>1, ConcatProperties
  <2> QED
    BY <1>8, <2>2, Serialized
<1>10. Receiving' /\ srv' \in [state : {"IDLE", "HDR_RECVD", "GONE"}, hdr : Seq(Cell), body : Seq(Cell),
                               pack : PacketType \cup {NoPacket}]
  BY <1>0, <1>1, <1>2, Leaves
<1>11. Typed'
  <2>1. <<>> \in Seq(Cell)
    BY EmptySeq
  <2> QED
    BY <1>0, <1>7, <1>9, <1>10, <2>1 DEF Inv, Typed
<1>12. Phases'
  BY <1>0, <1>3, <1>7, SamePhases DEF Inv
<1>13. Answering'
  <2>1. snd' = "recv" => buf'.bytes = <<>> /\ buf'.len = Len(buf'.bytes) /\ fin' # "no"
    BY <1>0, <1>2, <1>7, Unanswered
  <2>2. back' \o <<>> = back' /\ <<>> \in Seq(Cell) /\ back' \in Seq(Cell)
    BY <1>7, <1>9, EmptySeq, ConcatEmptySeq
  <2>3. \E rest \in Seq(Cell) : ans' # NoPacket /\ back' \o rest = packet_serialize(ans')
    BY <1>5, <1>6, <1>7, <2>2
  <2>4. Answer(ans') /\ got' # NoPacket
    BY <1>0, <1>1, <1>2, <1>5, <1>6
  <2> QED
    BY <2>1, <2>2, <2>3, <2>4, Answers
<1>14. Connecting' /\ OneConnection'
  BY <1>0, SameConnecting DEF Inv
<1>15. AnswerIntact'
  BY <1>0, <1>3, SameAnswer DEF Inv
<1> QED
  BY <1>10, <1>11, <1>12, <1>13, <1>14, <1>15 DEF Inv

LEMMA TakeStep ==
    ASSUME Inv, TakeLookup
    PROVE  Inv'
<1>0. /\ Full /\ got' = FullPacket /\ srv' = [Idle EXCEPT !.state = "GONE"] /\ wire' = <<>>
      /\ IsCtrl(srv.pack)
      /\ UNCHANGED <<job, snd, buf, conn, hop, unread, ans, back, fin, exit, out>>
  BY DEF TakeLookup
<1>1. /\ wire # <<>> /\ Sendable /\ (Lossless => FullPacket = Sent) /\ FullPacket # NoPacket
  BY <1>0, Delivered
<1>2. /\ snd \in {"recv", "exit"} /\ ~(exit = "0" /\ job.role = "client")
  BY <1>1, Arrives
<1>3. Receiving' /\ srv' \in [state : {"IDLE", "HDR_RECVD", "GONE"}, hdr : Seq(Cell), body : Seq(Cell),
                               pack : PacketType \cup {NoPacket}]
  BY <1>0, <1>1, Leaves
<1>4. Typed'
  <2>1. <<>> \in Seq(Cell)
    BY EmptySeq
  <2> QED
    BY <1>0, <1>3, <2>1 DEF Inv, Typed
<1>5. Phases'
  BY <1>0, <1>2, SamePhases DEF Inv
<1>6. Answering'
  BY <1>0, <1>1 DEF Inv, Answering
<1>7. Connecting' /\ OneConnection'
  BY <1>0, SameConnecting DEF Inv
<1>8. AnswerIntact'
  BY <1>0, <1>2, SameAnswer DEF Inv
<1> QED
  BY <1>3, <1>4, <1>5, <1>6, <1>7, <1>8 DEF Inv

LEMMA NothingStep ==
    ASSUME Inv, RecvNothing
    PROVE  Inv'
<1>0. /\ wire # <<>> /\ Ends(<<>>, wire) /\ srv' = [Idle EXCEPT !.state = "GONE"] /\ wire' = <<>>
      /\ UNCHANGED <<job, snd, buf, conn, hop, unread, got, ans, exit, out>>
  BY DEF RecvNothing
<1>1. back' = <<>> /\ fin' = "rst"
  BY <1>0 DEF Ends
<1>2. /\ snd \in {"recv", "exit"} /\ ~(exit = "0" /\ job.role = "client")
  BY <1>0, Arrives
<1>3. got' # NoPacket => Sendable /\ (Lossless => got' = Sent)
  BY <1>0 DEF Inv, Receiving
<1>4. Receiving' /\ srv' \in [state : {"IDLE", "HDR_RECVD", "GONE"}, hdr : Seq(Cell), body : Seq(Cell),
                               pack : PacketType \cup {NoPacket}]
  BY <1>0, <1>3, Leaves
<1>5. <<>> \in Seq(Cell)
  BY EmptySeq
<1>6. Typed'
  BY <1>0, <1>1, <1>4, <1>5 DEF Inv, Typed
<1>7. Phases'
  BY <1>0, <1>1, <1>2, SamePhases DEF Inv
<1>8. Answering'
  <2>1. snd' = "recv" => buf'.bytes = <<>> /\ buf'.len = Len(buf'.bytes) /\ fin' # "no"
    BY <1>0, <1>1, Unanswered
  <2>2. ans' # NoPacket => Answer(ans') /\ got' # NoPacket
    BY <1>0 DEF Inv, Answering
  <2>3. \E rest \in Seq(Cell) : back' \o rest = Peek(<<>>, 1, PKT_HEADER_LEN)
    BY <1>1, NothingBegins
  <2> QED
    BY <1>1, <1>5, <2>1, <2>2, <2>3, Answers
<1>9. Connecting' /\ OneConnection'
  BY <1>0, SameConnecting DEF Inv
<1>10. AnswerIntact'
  BY <1>0, <1>2, SameAnswer DEF Inv
<1> QED
  BY <1>4, <1>6, <1>7, <1>8, <1>9, <1>10 DEF Inv

-----------------------------------------------------------------------------
(* The steps of recvall.                                                   *)

\* The bytes begin the answer, or are no bytes of a packet.
Begins(x) ==
    \E rest \in Seq(Cell) :
        \/ ans # NoPacket /\ x \o rest = packet_serialize(ans)
        \/ x \o rest = Peek(<<>>, 1, PKT_HEADER_LEN)

LEMMA Shorter ==
    ASSUME NEW y \in Seq(Cell), NEW v \in Seq(Cell), NEW x, x = Cat(y, v), Begins(x)
    PROVE  Begins(y)
<1>1. PICK rest \in Seq(Cell) :
        \/ ans # NoPacket /\ Cat(x, rest) = packet_serialize(ans)
        \/ Cat(x, rest) = Peek(<<>>, 1, PKT_HEADER_LEN)
  BY DEF Begins, Cat
<1>2. PICK t : t = Cat(v, rest)
  OBVIOUS
<1>3. t \in Seq(Cell)
  BY <1>2, Associative
<1>4. Cat(Cat(y, v), rest) = Cat(y, Cat(v, rest))
  BY Associative
<1>5. Cat(y, t) = Cat(x, rest)
  BY <1>2, <1>4
<1>6. \/ ans # NoPacket /\ Cat(y, t) = packet_serialize(ans)
      \/ Cat(y, t) = Peek(<<>>, 1, PKT_HEADER_LEN)
  BY <1>1, <1>5
<1>7. \/ ans # NoPacket /\ y \o t = packet_serialize(ans)
      \/ y \o t = Peek(<<>>, 1, PKT_HEADER_LEN)
  BY <1>6 DEF Cat
<1> QED
  BY <1>3, <1>7 DEF Begins

LEMMA Continues ==
    ASSUME Inv, UNCHANGED <<ans, got>>, fin' # "no",
           \/ buf'.len = Len(buf'.bytes)
           \/ buf'.len = Len(buf'.bytes) - 1 /\ back' = <<>> /\ fin' = "fin",
           NEW x, x = Cat(buf'.bytes, back'), Begins(x)
    PROVE  Answering'
<1>1. PICK rest \in Seq(Cell) :
        \/ ans # NoPacket /\ x \o rest = packet_serialize(ans)
        \/ x \o rest = Peek(<<>>, 1, PKT_HEADER_LEN)
  BY DEF Begins
<1>2. x = buf'.bytes \o back'
  BY DEF Cat
<1>3. \/ ans' # NoPacket /\ (buf'.bytes \o back') \o rest = packet_serialize(ans')
      \/ (buf'.bytes \o back') \o rest = Peek(<<>>, 1, PKT_HEADER_LEN)
  BY <1>1, <1>2
<1>4. ans' # NoPacket => Answer(ans') /\ got' # NoPacket
  BY DEF Inv, Answering
<1> QED
  BY <1>3, <1>4 DEF Answering

\* What recvall has, before it takes a step.
LEMMA Underway ==
    ASSUME Inv, snd = "recv"
    PROVE  /\ buf \in BufType /\ buf.bytes \in Seq(Cell) /\ back \in Seq(Cell)
           /\ buf.len \in -1 .. buf.size /\ buf.size >= BufSize /\ Len(buf.bytes) <= buf.size
           /\ Begins(Cat(buf.bytes, back))
           /\ \/ buf.len = Len(buf.bytes)
              \/ buf.len = Len(buf.bytes) - 1 /\ back = <<>> /\ fin = "fin"
           /\ fin = "no" => buf = NewBuf /\ back = <<>>
           /\ ~(exit = "0" /\ job.role = "client")
           /\ got # NoPacket => Sendable /\ (Lossless => got = Sent)
           /\ fin # "no" => srv.state = "GONE" /\ wire = <<>>
<1>1. Begins(Cat(buf.bytes, back))
  BY DEF Inv, Answering, Begins, Cat
<1>2. buf.bytes \in Seq(Cell)
  BY DEF Inv, Typed
<1> QED
  BY <1>1, <1>2 DEF Inv, Typed, Phases, Receiving, Answering, BufType

LEMMA KilledStep ==
    ASSUME Inv, Killed
    PROVE  Inv'
<1>0. /\ snd = "recv" /\ (fin = "no" \/ back # <<>>) /\ fin' \in {"fin", "rst"}
      /\ srv' = [Idle EXCEPT !.state = "GONE"] /\ wire' = <<>>
      /\ UNCHANGED <<job, snd, conn, unread, got, ans, exit, out>>
      /\ \/ \E n \in 0 .. Len(back) : back' = SubSeq(back, 1, n) /\ UNCHANGED <<hop, buf>>
         \/ hop' = 1 /\ back' = <<>> /\ buf' = NewBuf
  BY DEF Killed
<1>1. PICK a \in Seq(Cell), w \in Seq(Cell) : a = buf.bytes /\ w = back
  BY <1>0, Underway
<1>2. Receiving' /\ srv' \in [state : {"IDLE", "HDR_RECVD", "GONE"}, hdr : Seq(Cell), body : Seq(Cell),
                               pack : PacketType \cup {NoPacket}]
  BY <1>0, Underway, Leaves
<1>3. Phases'
  BY <1>0, SamePhases DEF Inv
<1>4. Connecting' /\ OneConnection'
  BY <1>0, SameConnecting DEF Inv
<1>5. AnswerIntact'
  BY <1>0, Underway, SameAnswer DEF Inv
<1>6. <<>> \in Seq(Cell) /\ Len(<<>>) = 0
  BY EmptySeq
<1>7. Typed' /\ Answering'
  <2>1. CASE \E n \in 0 .. Len(back) : back' = SubSeq(back, 1, n) /\ UNCHANGED <<hop, buf>>
    <3>1. PICK n \in 0 .. Len(w) : back' = SubSeq(w, 1, n) /\ UNCHANGED <<hop, buf>>
      BY <1>1, <2>1
    <3>2. SubSeq(w, 1, n) \in Seq(Cell) /\ SubSeq(w, n + 1, Len(w)) \in Seq(Cell)
      BY MovePiece
    <3>3. SubSeq(w, 1, n) \o SubSeq(w, n + 1, Len(w)) = w
      BY MovePiece
    <3>4. PICK y \in Seq(Cell), v \in Seq(Cell) : y = back' /\ Cat(y, v) = w
      BY <3>1, <3>2, <3>3 DEF Cat
    <3>5. Typed'
      BY <1>0, <1>2, <1>6, <3>1, <3>2 DEF Inv, Typed
    <3>6. PICK x : x = Cat(a, y)
      OBVIOUS
    <3>7. x \in Seq(Cell)
      BY <3>6, Associative
    <3>8. Cat(Cat(a, y), v) = Cat(a, Cat(y, v))
      BY Associative
    <3>9. Begins(Cat(x, v))
      BY <1>0, <1>1, <3>4, <3>6, <3>8, Underway
    <3>10. Begins(x)
      BY <3>7, <3>9, Shorter
    <3>11. buf'.len = Len(buf'.bytes) /\ x = Cat(buf'.bytes, back')
      BY <1>0, <1>1, <3>1, <3>4, <3>6, Underway
    <3>12. Answering'
      BY <1>0, <3>10, <3>11, Continues
    <3> QED
      BY <3>5, <3>12
  <2>2. CASE hop' = 1 /\ back' = <<>> /\ buf' = NewBuf
    <3>1. /\ buf' \in BufType /\ buf'.len \in -1 .. buf'.size /\ buf'.size >= BufSize
          /\ Len(buf'.bytes) <= buf'.size /\ buf'.bytes = <<>> /\ buf'.len = Len(buf'.bytes)
      BY <1>6, <2>2, NewBufType, BufSizeAssumption DEF BufType
    <3>2. Typed'
      BY <1>0, <1>2, <1>6, <2>2, <3>1 DEF Inv, Typed, BufType
    <3>3. \E rest \in Seq(Cell) : back' \o rest = Peek(<<>>, 1, PKT_HEADER_LEN)
      BY <2>2, NothingBegins
    <3>4. ans' # NoPacket => Answer(ans') /\ got' # NoPacket
      BY <1>0 DEF Inv, Answering
    <3>5. Answering'
      BY <1>0, <1>6, <2>2, <3>1, <3>3, <3>4, Answers
    <3> QED
      BY <3>2, <3>5
  <2> QED
    BY <1>0, <2>1, <2>2
<1> QED
  BY <1>2, <1>3, <1>4, <1>5, <1>7 DEF Inv

LEMMA PieceStep ==
    ASSUME Inv, RecvallPiece
    PROVE  Inv'
<1>0. /\ snd = "recv" /\ back # <<>>
      /\ UNCHANGED <<job, snd, conn, wire, srv, hop, unread, got, ans, fin, exit, out>>
  BY DEF RecvallPiece, receiver
<1>1. PICK a \in Seq(Cell), w \in Seq(Cell) : a = buf.bytes /\ w = back
  BY <1>0, Underway
<1>2. /\ buf \in BufType /\ buf.len = Len(buf.bytes) /\ buf.len \in -1 .. buf.size /\ buf.size >= BufSize
      /\ fin # "no"
  BY <1>0, Underway
<1>3. PICK z \in Nat : z = Grown(buf).size /\ z > buf.len /\ Grown(buf).len = buf.len
  BY <1>2, GrownBuf
<1>4. PICK l \in Nat, m \in Nat : l = buf.len /\ m = Len(w)
  BY <1>1, <1>2, LenProperties
<1>5. PICK n \in 1 .. Lesser(z - l, m) : /\ buf' = Filled(Grown(buf), SubSeq(w, 1, n))
                                         /\ back' = SubSeq(w, n + 1, Len(w))
  BY <1>1, <1>3, <1>4 DEF RecvallPiece
<1>6. n \in 0 .. Len(w) /\ n <= z - l
  BY <1>3, <1>4, <1>5 DEF Lesser
<1>7. /\ SubSeq(w, 1, n) \in Seq(Cell) /\ SubSeq(w, n + 1, Len(w)) \in Seq(Cell)
      /\ Len(SubSeq(w, 1, n)) = n
  BY <1>6, MovePiece
<1>8. SubSeq(w, 1, n) \o SubSeq(w, n + 1, Len(w)) = w
  BY <1>6, MovePiece
<1>9. PICK y \in Seq(Cell), v \in Seq(Cell) :
          /\ y = SubSeq(w, 1, n) /\ v = back' /\ Cat(y, v) = w /\ Len(y) = n
  BY <1>5, <1>7, <1>8 DEF Cat
<1>10. PICK c : c = buf'
  OBVIOUS
<1>11. c = Filled(Grown(buf), y) /\ Len(y) <= Grown(buf).size - buf.len
  BY <1>3, <1>4, <1>5, <1>6, <1>9, <1>10
<1>12. /\ c \in BufType /\ c.bytes = buf.bytes \o y /\ c.len = Len(c.bytes)
       /\ c.len \in -1 .. c.size /\ c.size >= BufSize
  BY <1>2, <1>11, FilledBuf
<1>13. Typed'
  <2>1. Len(c.bytes) <= c.size
    BY <1>12 DEF BufType
  <2> QED
    BY <1>0, <1>9, <1>10, <1>12, <2>1 DEF Inv, Typed, BufType
<1>14. Answering'
  <2>1. PICK x : x = Cat(a, w)
    OBVIOUS
  <2>2. Begins(x)
    BY <1>0, <1>1, <2>1, Underway
  <2>3. Cat(Cat(a, y), v) = Cat(a, Cat(y, v))
    BY Associative
  <2>4. x = Cat(c.bytes, v)
    BY <1>1, <1>9, <1>12, <2>1, <2>3 DEF Cat
  <2>5. x = Cat(buf'.bytes, back') /\ buf'.len = Len(buf'.bytes) /\ fin' # "no"
    BY <1>0, <1>2, <1>9, <1>10, <1>12, <2>4
  <2> QED
    BY <1>0, <2>2, <2>5, Continues
<1>15. Phases'
  BY <1>0, SamePhases DEF Inv
<1>16. Receiving'
  BY <1>0, SameReceiving DEF Inv
<1>17. Connecting' /\ OneConnection'
  BY <1>0, SameConnecting DEF Inv
<1>18. AnswerIntact'
  BY <1>0, Underway, SameAnswer DEF Inv
<1> QED
  BY <1>13, <1>14, <1>15, <1>16, <1>17, <1>18 DEF Inv

LEMMA ResetStep ==
    ASSUME Inv, RecvallReset
    PROVE  Inv'
<1>0. /\ snd = "recv" /\ fin = "rst" /\ buf' = [Grown(buf) EXCEPT !.len = @ - 1]
      /\ back' = <<>> /\ fin' = "fin"
      /\ UNCHANGED <<job, snd, conn, wire, srv, hop, unread, got, ans, exit, out>>
  BY DEF RecvallReset, receiver
<1>1. PICK a \in Seq(Cell), w \in Seq(Cell) : a = buf.bytes /\ w = back
  BY <1>0, Underway
<1>2. /\ buf \in BufType /\ buf.len = Len(buf.bytes) /\ buf.len \in -1 .. buf.size /\ buf.size >= BufSize
      /\ Len(buf.bytes) <= buf.size
  BY <1>0, Underway
<1>3. PICK l \in Nat : l = Len(a) /\ l = buf.len
  BY <1>1, <1>2, LenProperties
<1>4. PICK g : g = Grown(buf)
  OBVIOUS
<1>5. /\ g \in BufType /\ g.bytes = a /\ g.len = l /\ g.size \in Nat
      /\ g.size >= BufSize /\ g.size > l /\ BufSize \in Nat
  <2>1. /\ g \in BufType /\ g.bytes = buf.bytes /\ g.len = buf.len
        /\ g.size >= buf.size /\ g.size > buf.len /\ g.size \in Nat
    BY <1>2, <1>4, GrownBuf
  <2>2. buf.size \in Nat /\ BufSize \in Nat
    BY <1>2, BufSizeAssumption DEF BufType
  <2> QED
    BY <1>1, <1>2, <1>3, <2>1, <2>2
<1>6. PICK m \in Int : m = l - 1
  OBVIOUS
<1>7. buf' = [g EXCEPT !.len = m]
  BY <1>0, <1>4, <1>5, <1>6
<1>8. buf' \in BufType /\ buf'.bytes = a /\ buf'.len = m /\ buf'.size = g.size
  BY <1>5, <1>7 DEF BufType
<1>9. Typed'
  <2>1. buf'.len \in -1 .. buf'.size /\ buf'.size >= BufSize /\ Len(buf'.bytes) <= buf'.size
    <3>1. PICK z \in Nat : z = g.size
      BY <1>5
    <3>2. z >= BufSize /\ z > l /\ m \in -1 .. z /\ Len(a) <= z
      BY <1>3, <1>5, <1>6, <3>1
    <3> QED
      BY <1>8, <3>1, <3>2
  <2>2. <<>> \in Seq(Cell)
    BY EmptySeq
  <2> QED
    BY <1>0, <1>8, <2>1, <2>2 DEF Inv, Typed, BufType
<1>10. Answering'
  <2>1. Begins(Cat(a, w))
    BY <1>0, <1>1, Underway
  <2>2. Begins(a)
    BY <2>1, Shorter
  <2>3. a \o <<>> = a
    BY ConcatEmptySeq
  <2>4. a = Cat(buf'.bytes, back')
    BY <1>0, <1>8, <2>3 DEF Cat
  <2>5. buf'.len = Len(buf'.bytes) - 1 /\ back' = <<>> /\ fin' = "fin"
    BY <1>0, <1>3, <1>6, <1>8
  <2> QED
    BY <1>0, <2>2, <2>4, <2>5, Continues
<1>11. Phases'
  BY <1>0, SamePhases DEF Inv
<1>12. Receiving'
  <2>1. Receiving /\ srv.state = "GONE"
    BY <1>0 DEF Inv, Receiving
  <2> QED
    BY <1>0, <2>1, SameJob DEF Receiving
<1>13. Connecting' /\ OneConnection'
  BY <1>0, SameConnecting DEF Inv
<1>14. AnswerIntact'
  BY <1>0, Underway, SameAnswer DEF Inv
<1> QED
  BY <1>9, <1>10, <1>11, <1>12, <1>13, <1>14 DEF Inv

LEMMA RelayStep ==
    ASSUME Inv, Relay
    PROVE  Inv'
<1>0. /\ snd = "recv" /\ back = <<>> /\ fin = "fin" /\ hop' = 1
      /\ srv' = [Idle EXCEPT !.state = "GONE"] /\ buf' = NewBuf
      /\ UNCHANGED <<job, snd, conn, wire, unread, got, ans, exit, out>>
      /\ back' = IF buf.len < 0 THEN Peek(<<>>, 1, PKT_HEADER_LEN) ELSE SubSeq(buf.bytes, 1, buf.len)
      /\ fin' \in {"fin", "rst"}
  BY DEF Relay, Ends
<1>1. PICK a \in Seq(Cell) : a = buf.bytes
  BY <1>0, Underway
<1>2. <<>> \in Seq(Cell) /\ Len(<<>>) = 0
  BY EmptySeq
<1>3. back' \in Seq(Cell) /\ Begins(back')
  <2>1. CASE buf.len < 0
    <3>1. PICK j : j = back'
      OBVIOUS
    <3>2. j = Peek(<<>>, 1, PKT_HEADER_LEN)
      BY <1>0, <2>1, <3>1
    <3>3. j \in Seq(Cell)
      BY <1>2, <3>2, PeekType DEF PKT_HEADER_LEN
    <3>4. j \o <<>> = j
      BY <3>3, ConcatEmptySeq
    <3>5. Begins(j)
      BY <1>2, <3>2, <3>4 DEF Begins
    <3> QED
      BY <3>1, <3>3, <3>5
  <2>2. CASE ~(buf.len < 0)
    <3>1. PICK n \in Nat : n = buf.len
      BY <1>0, <2>2, Underway DEF BufType
    <3>2. n \in 0 .. Len(a)
      <4>1. buf.len = Len(a) \/ buf.len = Len(a) - 1
        BY <1>0, <1>1, Underway
      <4>2. Len(a) \in Nat
        BY LenProperties
      <4> QED
        BY <3>1, <4>1, <4>2
    <3>3. SubSeq(a, 1, n) \in Seq(Cell) /\ SubSeq(a, n + 1, Len(a)) \in Seq(Cell)
      BY <3>2, MovePiece
    <3>4. SubSeq(a, 1, n) \o SubSeq(a, n + 1, Len(a)) = a
      BY <3>2, MovePiece
    <3>5. back' = SubSeq(a, 1, n)
      BY <1>0, <1>1, <2>2, <3>1
    <3>6. PICK y \in Seq(Cell), v \in Seq(Cell) : y = back' /\ Cat(y, v) = a
      BY <3>3, <3>4, <3>5 DEF Cat
    <3>7. a \o <<>> = a
      BY ConcatEmptySeq
    <3>8. Begins(a)
      BY <1>0, <1>1, <3>7, Underway DEF Cat
    <3>9. Begins(y)
      BY <3>6, <3>8, Shorter
    <3> QED
      BY <3>6, <3>9
  <2> QED
    BY <2>1, <2>2
<1>4. /\ buf' \in BufType /\ buf'.len \in -1 .. buf'.size /\ buf'.size >= BufSize
      /\ Len(buf'.bytes) <= buf'.size /\ buf'.bytes = <<>> /\ buf'.len = Len(buf'.bytes)
  BY <1>0, <1>2, NewBufType, BufSizeAssumption DEF BufType
<1>5. wire' = <<>>
  BY <1>0, Underway
<1>6. Receiving' /\ srv' \in [state : {"IDLE", "HDR_RECVD", "GONE"}, hdr : Seq(Cell), body : Seq(Cell),
                               pack : PacketType \cup {NoPacket}]
  BY <1>0, <1>5, Underway, Leaves
<1>7. Typed'
  BY <1>0, <1>3, <1>4, <1>6 DEF Inv, Typed, BufType
<1>8. Answering'
  <2>1. PICK x : x = back'
    OBVIOUS
  <2>2. <<>> \o x = x
    BY <1>3, <2>1, ConcatEmptySeq
  <2>3. x = Cat(buf'.bytes, back') /\ Begins(x)
    BY <1>3, <1>4, <2>1, <2>2 DEF Cat
  <2> QED
    BY <1>0, <1>4, <2>3, Continues
<1>9. Phases'
  BY <1>0, SamePhases DEF Inv
<1>10. Connecting' /\ OneConnection'
  BY <1>0, SameConnecting DEF Inv
<1>11. AnswerIntact'
  BY <1>0, Underway, SameAnswer DEF Inv
<1> QED
  BY <1>6, <1>7, <1>8, <1>9, <1>10, <1>11 DEF Inv

\* What the client decodes from a beginning of an answer.
LEMMA AnswerDecoded ==
    ASSUME NEW u, Answer(u), u.key_len + u.value_len < Max32,
           NEW b \in Seq(Cell), NEW rest \in Seq(Cell), b \o rest = packet_serialize(u),
           NEW l \in Int, l <= Len(b), NEW d, d = packet_decode(b, l), d # NoPacket
    PROVE  LET missing == Len(packet_serialize(u)) - Len(b)
           IN  missing <= PKT_HEADER_LEN /\ (missing <= 0 => d = u)
<1>1. Whole(u) /\ InWidth(u) /\ Summed(u) /\ u \in PacketType /\ ~IsCtrl(u)
  <2>1. /\ u \in PacketType /\ u.key_len \in Nat /\ u.value_len \in Nat
        /\ u.hash_id = 0 /\ u.node_id = 0 /\ u.node_ip = 0 /\ u.node_port = 0
        /\ u.key_len < Max16 /\ u.key_len = Len(u.key) /\ u.value_len = Len(u.value) /\ ~IsCtrl(u)
    BY DEF Answer, PacketType
  <2>2. u.value_len < Max32 /\ 0 < Max16 /\ 0 < Max32
    <3>1. PICK m \in Nat, n \in Nat : m = u.key_len /\ n = u.value_len
      BY <2>1
    <3>2. Max32 \in Nat /\ 0 < Max16 /\ 0 < Max32
      BY Widths
    <3>3. n < Max32
      BY <3>1, <3>2
    <3> QED
      BY <3>1, <3>2, <3>3
  <2>3. InWidth(u)
    BY <2>1, <2>2 DEF InWidth
  <2> QED
    BY <2>1, <2>3 DEF Whole, Summed
<1>2. PICK H \in Seq(Cell), B \in Seq(Cell) : H = HeaderOf(u) /\ B = BodyOf(u) /\ Len(H) = 7
  BY <1>1, HeaderType, BodyType
<1>3. packet_serialize(u) = Cat(H, B) /\ Cat(b, rest) = Cat(H, B)
  BY <1>1, <1>2, Serialized DEF Cat
<1>4. PICK n \in Nat, t \in Nat, k \in Nat : n = Len(b) /\ t = Len(rest) /\ k = Len(B)
  BY LenProperties
<1>5. Len(Cat(H, B)) = 7 + k /\ Len(Cat(b, rest)) = n + t
  BY <1>2, <1>4, Associative
<1>6. n + t = 7 + k
  BY <1>3, <1>5
<1>7. l >= 7 /\ n >= 7
  BY <1>4 DEF packet_decode, PKT_HEADER_LEN
<1>8. \A i \in 1 .. 7 : b[i] = H[i]
  <2>1. \A i \in 1 .. 7 : /\ i \in 1 .. Len(b) + Len(rest) /\ i <= Len(b)
                          /\ i \in 1 .. Len(H) + Len(B) /\ i <= Len(H)
    BY <1>2, <1>4, <1>7
  <2>2. \A i \in 1 .. 7 : (b \o rest)[i] = b[i] /\ (H \o B)[i] = H[i]
    BY <2>1, ConcatProperties
  <2>3. PICK x, y : x = b \o rest /\ y = H \o B
    OBVIOUS
  <2>4. x = y
    BY <1>3, <2>3 DEF Cat
  <2> QED
    BY <2>2, <2>3, <2>4
<1>9. packet_decode_hdr(b) = Announced(u)
  BY <1>1, <1>2, <1>8, HeaderDecoded
<1>10. PICK c : c = SubSeq(b, 8, n)
  OBVIOUS
<1>11. d = packet_decode_body(Announced(u), c, l)
  BY <1>4, <1>7, <1>9, <1>10 DEF packet_decode, PKT_HEADER_LEN
<1>12. packet_body_size(Announced(u)) = k /\ ~IsCtrl(Announced(u))
  BY <1>1, <1>2, <1>4, AnnouncedType
<1>13. l >= k
  BY <1>11, <1>12 DEF packet_decode_body
<1>14. Len(packet_serialize(u)) - Len(b) = 7 + k - n
  BY <1>3, <1>4, <1>5
<1>15. 7 + k - n <= PKT_HEADER_LEN
  BY <1>4, <1>13 DEF PKT_HEADER_LEN
<1>16. ASSUME 7 + k - n <= 0
       PROVE  d = u
  <2>1. 7 \in 0 .. Len(b) /\ t = 0
    BY <1>4, <1>6, <1>7, <1>16
  <2>2. rest = <<>>
    BY <1>4, <2>1, EmptySeq
  <2>3. b \o <<>> = b
    BY ConcatEmptySeq
  <2>4. b = Cat(H, B)
    BY <1>3, <2>2, <2>3 DEF Cat
  <2>5. 7 + 1 = 8
    OBVIOUS
  <2>6. SubSeq(b, 1, 7) \in Seq(Cell) /\ Len(SubSeq(b, 1, 7)) = 7
    BY <2>1, MovePiece
  <2>7. SubSeq(b, 7 + 1, Len(b)) \in Seq(Cell)
    BY <2>1, MovePiece
  <2>8. SubSeq(b, 1, 7) \o SubSeq(b, 7 + 1, Len(b)) = b
    BY <2>1, MovePiece
  <2>9. PICK y \in Seq(Cell) : y = SubSeq(b, 1, 7) /\ Len(y) = 7
    BY <2>6
  <2>10. c \in Seq(Cell) /\ Cat(y, c) = b
    BY <1>4, <1>10, <2>5, <2>7, <2>8, <2>9 DEF Cat
  <2>11. y \o c = H \o B
    BY <2>4, <2>10 DEF Cat
  <2>12. c = B
    BY <1>2, <2>9, <2>10, <2>11, Cancel
  <2>13. l \in Nat /\ l >= Len(BodyOf(u))
    BY <1>2, <1>4, <1>7, <1>13
  <2>14. packet_decode_body(Announced(u), BodyOf(u), l) = u
    BY <1>1, <2>13, BodyDecoded
  <2> QED
    BY <1>2, <1>11, <2>12, <2>14
<1> QED
  BY <1>14, <1>15, <1>16

LEMMA FinishStep ==
    ASSUME Inv, Finish
    PROVE  Inv'
<1>0. /\ snd = "recv" /\ back = <<>> /\ fin = "fin" /\ snd' = "exit"
      /\ UNCHANGED <<job, buf, conn, wire, srv, hop, unread, got, ans, back, fin>>
      /\ exit' \in {"0", "-1"} /\ job.role = "client"
      /\ job \in Jobs
  <2>1. exit' \in {"0", "-1"}
    BY DEF Finish
  <2> QED
    BY <2>1 DEF Finish, receiver, Inv, Phases, Typed
<1>1. Typed'
  BY <1>0 DEF Inv, Typed
<1>2. Phases'
  BY <1>0, SameJob DEF Inv, Phases
<1>3. Receiving'
  BY <1>0, SameReceiving DEF Inv
<1>4. Answering'
  BY <1>0, SameAnswering DEF Inv
<1>5. Connecting' /\ OneConnection'
  BY <1>0, SameConnecting DEF Inv
<1>6. AnswerIntact'
  <2> SUFFICES ASSUME exit' = "0", ~Garbled', ans'.key_len + ans'.value_len < Max32
               PROVE  LET missing == Len(packet_serialize(ans')) - Len(buf'.bytes)
                      IN  /\ got' # NoPacket
                          /\ missing <= PKT_HEADER_LEN
                          /\ job'.method = "GET" /\ missing <= 0 => out' = ans'.value
    BY DEF AnswerIntact
  <2>1. ~Garbled
    BY <1>0 DEF Garbled
  <2>2. PICK b \in Seq(Cell), l \in Int : b = buf.bytes /\ l = buf.len
    BY <1>0, Underway DEF BufType
  <2>3. PICK d : d = packet_decode(b, l)
    OBVIOUS
  <2>4. d # NoPacket /\ (job.method = "GET" => out' = d.value)
    BY <2>1, <2>2, <2>3 DEF Finish
  <2>5. l <= Len(b) /\ Len(b) \in Nat
    BY <1>0, <2>2, Underway, LenProperties
  <2>6. l >= 7
    BY <2>3, <2>4 DEF packet_decode, PKT_HEADER_LEN
  <2>7. b \o <<>> = b
    BY ConcatEmptySeq
  <2>8. Begins(b)
    BY <1>0, <2>2, <2>7, Underway DEF Cat
  <2>9. PICK rest \in Seq(Cell) :
            \/ ans # NoPacket /\ b \o rest = packet_serialize(ans)
            \/ b \o rest = Peek(<<>>, 1, PKT_HEADER_LEN)
    BY <2>8 DEF Begins
  <2>10. b \o rest # Peek(<<>>, 1, PKT_HEADER_LEN)
    <3> SUFFICES ASSUME b \o rest = Peek(<<>>, 1, PKT_HEADER_LEN) PROVE FALSE
      OBVIOUS
    <3>1. Len(rest) \in Nat
      BY LenProperties
    <3>2. 1 \in 1 .. Len(b) + Len(rest) /\ 1 <= Len(b)
      BY <2>5, <2>6, <3>1
    <3>3. (b \o rest)[1] = b[1]
      BY <3>2, ConcatProperties
    <3>4. Peek(<<>>, 1, PKT_HEADER_LEN)[1] = Junk
      <4>1. 1 \in 1 .. 7 /\ 1 + 1 - 1 \notin DOMAIN <<>>
        OBVIOUS
      <4> QED
        BY <4>1 DEF Peek, PKT_HEADER_LEN
    <3>5. b[1] = Junk /\ b # <<>>
      BY <2>5, <2>6, <3>3, <3>4, EmptySeq
    <3> QED
      BY <2>1, <2>2, <3>5 DEF Garbled
  <2>11. PICK u : u = ans
    OBVIOUS
  <2>12. u # NoPacket /\ b \o rest = packet_serialize(u)
    BY <2>9, <2>10, <2>11
  <2>13. Answer(u) /\ got # NoPacket
    BY <2>11, <2>12 DEF Inv, Answering
  <2>14. u.key_len + u.value_len < Max32
    BY <1>0, <2>11
  <2>15. LET missing == Len(packet_serialize(u)) - Len(b)
         IN  missing <= PKT_HEADER_LEN /\ (missing <= 0 => d = u)
    BY <2>3, <2>4, <2>5, <2>12, <2>13, <2>14, AnswerDecoded
  <2> QED
    BY <1>0, <2>2, <2>4, <2>11, <2>13, <2>15
<1> QED
  BY <1>1, <1>2, <1>3, <1>4, <1>5, <1>6 DEF Inv

-----------------------------------------------------------------------------
(* The invariant, and what follows from it.                                *)

LEMMA InvNext == Inv /\ [Next]_vars => Inv'
<1> SUFFICES ASSUME Inv, [Next]_vars PROVE Inv'
  OBVIOUS
<1>1. CASE ConnectSocket \/ StartPeer
  BY <1>1, StartSteps
<1>2. CASE ReadStdin
  BY <1>2, ReadStep
<1>3. CASE SendRequest
  BY <1>3, RequestStep
<1>4. CASE TryAddress
  BY <1>4, AddressStep
<1>5. CASE SendLookup
  BY <1>5, LookupStep
<1>6. CASE RecvHeader
  BY <1>6, HeaderStep
<1>7. CASE RecvBody
  BY <1>7, BodyStep
<1>8. CASE PassOn
  BY <1>8, PassStep
<1>9. CASE HandleOwnRequest
  BY <1>9, HandleStep
<1>10. CASE TakeLookup
  BY <1>10, TakeStep
<1>11. CASE RecvNothing
  BY <1>11, NothingStep
<1>12. CASE RecvallPiece
  BY <1>12, PieceStep
<1>13. CASE RecvallReset
  BY <1>13, ResetStep
<1>14. CASE Relay
  BY <1>14, RelayStep
<1>15. CASE Finish
  BY <1>15, FinishStep
<1>16. CASE Killed
  BY <1>16, KilledStep
<1>17. CASE UNCHANGED vars
  <2>1. UNCHANGED <<job, snd, buf, conn, wire, srv, hop, unread, got, ans, back, fin, exit, out>>
    BY <1>17 DEF vars, receiver
  <2>2. Typed'
    BY <2>1 DEF Inv, Typed
  <2>3. Phases'
    <3>1. NewBuf' = NewBuf /\ (Untouched' <=> Untouched)
      BY <2>1 DEF NewBuf, Untouched, Idle
    <3> QED
      BY <2>1, <3>1, SameJob DEF Inv, Phases
  <2>4. Receiving'
    BY <2>1, SameReceiving DEF Inv
  <2>5. Answering'
    BY <2>1, SameAnswering DEF Inv
  <2>6. Connecting' /\ OneConnection'
    BY <2>1, SameConnecting DEF Inv
  <2>7. AnswerIntact'
    BY <2>1, SameAnswer DEF Inv
  <2> QED
    BY <2>2, <2>3, <2>4, <2>5, <2>6, <2>7 DEF Inv
<1> QED
  BY <1>1, <1>2, <1>3, <1>4, <1>5, <1>6, <1>7, <1>8, <1>9, <1>10, <1>11, <1>12, <1>13,
     <1>14, <1>15, <1>16, <1>17 DEF Next, Step

\* The parts of Inv that every step preserves together.
LEMMA AlwaysInv == Spec => []Inv
BY InvInit, InvNext, PTL DEF Spec

\* Type correctness (TypeOK): whatever the lengths of keys and values, and also when
\* they wrap, the header and the body of the client structure never get more bytes than
\* there is room for, and the write pointer of recvall is never below -1.
THEOREM TypeCorrect == Spec => []TypeOK
<1>1. ASSUME Inv PROVE TypeOK
  <2>1. packet_body_size(NoPacket) \in Nat
    <3>1. ~IsCtrl(NoPacket)
      BY DEF IsCtrl, Has, NoPacket, packet_new, PKT_FLAG_CTRL
    <3>2. NoPacket.key_len + NoPacket.value_len = -1
      BY DEF NoPacket, packet_new
    <3>3. (-1) % Max32 \in 0 .. (Max32 - 1)
      BY Remainder, Widths
    <3>4. (-1) % Max32 \in Nat
      BY <3>3, Widths
    <3> QED
      BY <3>1, <3>2, <3>4 DEF packet_body_size
  <2>2. Len(srv.hdr) <= PKT_HEADER_LEN /\ Len(srv.body) <= packet_body_size(srv.pack)
    <3>1. CASE srv.state = "HDR_RECVD"
      BY <1>1, <3>1, EmptySeq DEF Inv, Receiving, PKT_HEADER_LEN
    <3>2. CASE srv.state # "HDR_RECVD"
      <4>1. srv.hdr \in Seq(Cell) /\ srv.body = <<>> /\ srv.pack = NoPacket
            /\ (srv.hdr = <<>> \/ Len(srv.hdr) < PKT_HEADER_LEN)
        BY <1>1, <3>2 DEF Inv, Typed, Receiving
      <4>2. Len(<<>>) = 0 /\ Len(srv.hdr) \in Nat
        BY <4>1, EmptySeq, LenProperties
      <4> QED
        BY <2>1, <4>1, <4>2 DEF PKT_HEADER_LEN
    <3> QED
      BY <3>1, <3>2
  <2>3. conn.open \in 0 .. conn.tried
    BY <1>1 DEF Inv, Connecting, Connections
  <2>4. srv.state \in {"IDLE", "HDR_RECVD", "GONE"}
    BY <1>1 DEF Inv, Typed
  <2> QED
    BY <1>1, <2>2, <2>3, <2>4 DEF Inv, Typed, TypeOK, Cell
<1> QED
  BY <1>1, AlwaysInv, PTL

\* The request arrives as it was meant (RequestIntact): for every key and value that fits
\* the header, every cutting into pieces, and with a proxy in between that decodes and
\* copies it, the packet that is delivered is the packet that packet_serialize was given.
THEOREM RequestArrives == Spec => []RequestIntact
<1>1. ASSUME Inv PROVE RequestIntact
  <2> SUFFICES ASSUME got # NoPacket PROVE RequestIntact
    BY DEF RequestIntact
  <2>1. Sendable /\ (Lossless => got = Sent) /\ job \in Jobs
    BY <1>1 DEF Inv, Receiving, Typed
  <2>2. CASE job.role = "client"
    BY <2>1, <2>2, RequestSent DEF RequestIntact, Lossless
  <2>3. CASE job.role = "peer"
    <3>1. got = Sent
      BY <2>1, <2>3 DEF Lossless
    <3>2. PICK q : q = Sent
      OBVIOUS
    <3>3. /\ q.hash_id = job.hash /\ q.node_id = job.id
          /\ job.port >= 0 => q.node_port = job.port
          /\ job.host # <<>> => Bytes4(q.node_ip) = job.host
      BY <2>1, <2>3, <3>2, LookupSent
    <3>4. peer_from_packet(q).port = q.node_port /\ peer_from_packet(q).hostname = Bytes4(q.node_ip)
      BY DEF peer_from_packet
    <3> QED
      BY <2>3, <3>1, <3>2, <3>3, <3>4 DEF RequestIntact
  <2> QED
    BY <2>1, <2>2, <2>3, JobTypes
<1> QED
  BY <1>1, AlwaysInv, PTL

\* The answer is not taken for another (AnswerIntact): a client that exits with 0 has had
\* its request executed, lacks at most the bytes that the check of packet_decode lets
\* pass, and has printed the value that the owner holds when it lacks none.
THEOREM AnswerArrives == Spec => []AnswerIntact
<1>1. Inv => AnswerIntact
  BY DEF Inv
<1> QED
  BY <1>1, AlwaysInv, PTL

\* Connections to neighbours (OneConnection): for every number of addresses and however
\* the turns of peer_connect and sendall end, at most one connection to the host is held,
\* and none once the lookup has been sent; the address that memcpy overwrites is why.
THEOREM OneConnectionHeld == Spec => []OneConnection
<1>1. Inv => OneConnection
  BY DEF Inv
<1> QED
  BY <1>1, AlwaysInv, PTL

LEMMA PrefixIs ==
    ASSUME NEW a \in Seq(Cell), NEW c \in Seq(Cell), NEW t, t = Cat(a, c)
    PROVE  IsPrefix(a, t)
<1>1. PICK n \in Nat : n = Len(a)
  BY LenProperties
<1>2. t \in Seq(Cell) /\ Len(t) = n + Len(c) /\ Len(c) \in Nat
  BY <1>1, Associative, LenProperties
<1>3. n \in 0 .. Len(t) /\ n <= Len(t)
  BY <1>1, <1>2
<1>4. SubSeq(t, 1, n) \in Seq(Cell) /\ Len(SubSeq(t, 1, n)) = n
  BY <1>2, <1>3, MovePiece
<1>5. SubSeq(t, n + 1, Len(t)) \in Seq(Cell)
  BY <1>2, <1>3, MovePiece
<1>6. SubSeq(t, 1, n) \o SubSeq(t, n + 1, Len(t)) = t
  BY <1>2, <1>3, MovePiece
<1>7. PICK y \in Seq(Cell), v \in Seq(Cell) : y = SubSeq(t, 1, n) /\ Len(y) = n /\ Cat(y, v) = t
  BY <1>4, <1>5, <1>6 DEF Cat
<1>8. PICK x : x = t /\ x = Cat(a, c)
  OBVIOUS
<1>9. y \o v = a \o c
  BY <1>7, <1>8 DEF Cat
<1>10. y = a
  BY <1>1, <1>7, <1>9, Cancel
<1>11. SubSeq(a, 1, Len(a)) = a
  BY SubSeqFull
<1> QED
  BY <1>1, <1>3, <1>7, <1>10, <1>11 DEF IsPrefix

\* The growing buffers (BuffersHold): whenever read_stdin or recvall has doubled and moved
\* its buffer, what it holds is a beginning of stdin or of the answer, within its size.
THEOREM BuffersKept == Spec => []BuffersHold
<1>1. ASSUME Inv PROVE BuffersHold
  <2>1. buf.len <= buf.size /\ Len(buf.bytes) <= buf.size
    BY <1>1 DEF Inv, Typed
  <2>2. PICK b \in Seq(Cell) : b = buf.bytes
    BY <1>1 DEF Inv, Typed
  <2>3. ASSUME snd = "stdin"
        PROVE  IsPrefix(buf.bytes, Stdin)
    <3>1. PICK i \in Seq(Cell) : i = Stdin
      BY <1>1, StdinType, SeqMonotonic DEF Inv, Typed, Cell
    <3>2. PICK n \in 0 .. Len(i) : b = SubSeq(i, 1, n)
      BY <1>1, <2>2, <2>3, <3>1 DEF Inv, Phases
    <3>3. SubSeq(i, n + 1, Len(i)) \in Seq(Cell)
      BY MovePiece
    <3>4. SubSeq(i, 1, n) \o SubSeq(i, n + 1, Len(i)) = i
      BY MovePiece
    <3>5. PICK v \in Seq(Cell) : i = Cat(b, v)
      BY <3>2, <3>3, <3>4 DEF Cat
    <3>6. IsPrefix(b, i)
      BY <3>5, PrefixIs
    <3> QED
      BY <2>2, <3>1, <3>6
  <2>4. ASSUME snd = "recv", ans # NoPacket, ~Garbled
        PROVE  IsPrefix(buf.bytes, packet_serialize(ans))
    <3>1. PICK w \in Seq(Cell) : w = back
      BY <1>1 DEF Inv, Typed
    <3>2. Begins(Cat(b, w))
      BY <1>1, <2>2, <2>4, <3>1, Underway
    <3>3. Begins(b)
      BY <3>2, Shorter
    <3>4. PICK u : u = packet_serialize(ans)
      OBVIOUS
    <3>5. PICK rest \in Seq(Cell) : Cat(b, rest) = u \/ b \o rest = Peek(<<>>, 1, PKT_HEADER_LEN)
      BY <3>3, <3>4 DEF Begins, Cat
    <3>6. CASE Cat(b, rest) = u
      BY <2>2, <3>4, <3>6, PrefixIs
    <3>7. CASE b = <<>>
      <4>1. SubSeq(b, 1, 0) = <<>> /\ SubSeq(u, 1, 0) = <<>>
        BY SubSeqEmpty
      <4>2. Len(b) = 0
        BY <3>7, EmptySeq
      <4>3. u \in Seq(Cell) /\ Len(u) >= 0
        <5>1. PICK q : q = ans /\ q \in PacketType
          BY <1>1, <2>4 DEF Inv, Answering, Answer
        <5>2. HeaderOf(q) \in Seq(Cell) /\ BodyOf(q) \in Seq(Cell)
          BY <5>1, HeaderType, BodyType
        <5>3. u = HeaderOf(q) \o BodyOf(q)
          BY <3>4, <5>1, Serialized
        <5>4. u \in Seq(Cell)
          BY <5>2, <5>3, ConcatProperties
        <5> QED
          BY <5>4, LenProperties
      <4> QED
        BY <2>2, <3>4, <4>1, <4>2, <4>3 DEF IsPrefix
    <3>8. CASE b # <<>> /\ b \o rest = Peek(<<>>, 1, PKT_HEADER_LEN)
      <4>1. Len(rest) \in Nat /\ Len(b) \in Nat \ {0}
        BY <3>8, LenProperties, EmptySeq
      <4>2. 1 \in 1 .. Len(b) + Len(rest) /\ 1 <= Len(b)
        BY <4>1
      <4>3. (b \o rest)[1] = b[1]
        BY <4>2, ConcatProperties
      <4>4. Peek(<<>>, 1, PKT_HEADER_LEN)[1] = Junk
        <5>1. 1 \in 1 .. 7 /\ 1 + 1 - 1 \notin DOMAIN <<>>
          OBVIOUS
        <5> QED
          BY <5>1 DEF Peek, PKT_HEADER_LEN
      <4> QED
        BY <2>2, <2>4, <3>8, <4>3, <4>4 DEF Garbled
    <3> QED
      BY <3>5, <3>6, <3>7, <3>8
  <2> QED
    BY <2>1, <2>3, <2>4 DEF BuffersHold
<1> QED
  BY <1>1, AlwaysInv, PTL
=============================================================================
