-------------------------- MODULE RingBufferProofs --------------------------
(***************************************************************************)
(* Proofs about the ring buffer, for every size, every set of bytes and    *)
(* every width of size_t that can hold twice the array.                    *)
(***************************************************************************)
EXTENDS RingBuffer, SequenceTheorems, TLAPS

\* A position moved by at most the array's length wraps around at most once.
LEMMA BehindOnce ==
    ASSUME NEW s \in Slot, NEW n \in 0..bufsize
    PROVE  /\ Behind(s, n) = IF s + n < bufsize THEN s + n ELSE s + n - bufsize
           /\ Behind(s, n) \in Slot
<1>1. Size \in Nat /\ bufsize = Size + 1
  BY SizeAssumption DEF bufsize
<1>2. CASE s + n < bufsize
  BY <1>1, <1>2 DEF Behind, Slot
<1>3. CASE s + n >= bufsize
  <2>1. (s + n) % bufsize = (s + n - bufsize) % bufsize
    BY <1>1, <1>3 DEF Slot
  <2>2. s + n - bufsize \in 0..Size
    BY <1>1, <1>3 DEF Slot
  <2> QED
    BY <1>1, <1>3, <2>1, <2>2 DEF Behind, Slot
<1> QED
  BY <1>1, <1>2, <1>3 DEF Slot

\* What can be read and written, without the wrap-around of size_t.
LEMMA Counters ==
    ASSUME rpos \in Slot, wpos \in Slot
    PROVE  /\ rb_can_read = IF rpos <= wpos THEN wpos - rpos ELSE bufsize - rpos + wpos
           /\ rb_can_write = IF wpos < rpos THEN rpos - wpos - 1 ELSE bufsize - wpos + rpos - 1
           /\ rb_can_read \in 0..Size
           /\ rb_can_write \in 0..Size
           /\ rb_can_read + rb_can_write = Size
  BY SizeAssumption, WordAssumption
  DEF rb_can_read, rb_can_write, Plus, Minus, Slot, bufsize

LEMMA ReadCounter ==
    ASSUME NEW p \in Slot, NEW q \in Slot
    PROVE  (IF p <= q THEN Minus(q, p) ELSE Plus(Minus(bufsize, p), q))
             = IF p <= q THEN q - p ELSE bufsize - p + q
  BY SizeAssumption, WordAssumption DEF Plus, Minus, Slot, bufsize

LEMMA CountersNext ==
    ASSUME rpos' \in Slot, wpos' \in Slot
    PROVE  rb_can_read' = IF rpos' <= wpos' THEN wpos' - rpos' ELSE bufsize - rpos' + wpos'
<1>1. rb_can_read' = IF rpos' <= wpos' THEN Minus(wpos', rpos')
                                       ELSE Plus(Minus(bufsize, rpos'), wpos')
  BY DEF rb_can_read, Plus, Minus, bufsize
<1> QED
  BY <1>1, ReadCounter

LEMMA ChunkType ==
    ASSUME NEW bytes \in Chunks
    PROVE  /\ bytes \in Seq(Bytes)
           /\ Len(bytes) \in Nat
           /\ \A j \in 1..Len(bytes) : bytes[j] \in Bytes
  BY ChunksAssumption

\* rb_write: how far it gets, and what it leaves in each slot.
LEMMA WriteEffect ==
    ASSUME TypeOK, NEW bytes \in Chunks, RbWrite(bytes)
    PROVE  LET n == LeastOf(rb_can_write, Len(bytes))
               offset(s) == IF s >= wpos THEN s - wpos ELSE s + bufsize - wpos
           IN  /\ n \in 0..Size
               /\ n <= Len(bytes)
               /\ n <= rb_can_write
               /\ wpos' = IF wpos + n < bufsize THEN wpos + n ELSE wpos + n - bufsize
               /\ wpos' \in Slot
               /\ \A s \in Slot : buffer'[s] = IF offset(s) < n THEN bytes[offset(s) + 1]
                                                               ELSE buffer[s]
<1> DEFINE n == LeastOf(rb_can_write, Len(bytes))
<1>1. n \in 0..Size /\ n <= Len(bytes) /\ n <= rb_can_write
  BY Counters, ChunkType, SizeAssumption DEF LeastOf, TypeOK
<1>2. n \in 0..bufsize /\ wpos \in Slot
  BY <1>1, SizeAssumption DEF bufsize, TypeOK
<1>3. wpos' = Behind(wpos, n)
  BY DEF RbWrite
<1> QED
  BY <1>1, <1>2, <1>3, BehindOnce DEF RbWrite

\* rb_read: how far it gets.
LEMMA ReadEffect ==
    ASSUME TypeOK, NEW n \in 0..(Size + 1), RbRead(n)
    PROVE  LET k == LeastOf(rb_can_read, n)
           IN  /\ k \in 0..Size
               /\ k <= rb_can_read
               /\ rpos' = IF rpos + k < bufsize THEN rpos + k ELSE rpos + k - bufsize
               /\ rpos' \in Slot
               /\ got' = [j \in 1..k |-> buffer[Behind(rpos, j - 1)]]
<1> DEFINE k == LeastOf(rb_can_read, n)
<1>1. k \in 0..Size /\ k <= rb_can_read
  BY Counters, SizeAssumption DEF LeastOf, TypeOK
<1>2. k \in 0..bufsize /\ rpos \in Slot
  BY <1>1, SizeAssumption DEF bufsize, TypeOK
<1>3. rpos' = Behind(rpos, k)
  BY DEF RbRead
<1> QED
  BY <1>1, <1>2, <1>3, BehindOnce DEF RbRead

\* The bytes from the reading position on, as many as can be read.
LEMMA Window ==
    ASSUME TypeOK, NEW k \in 0..Size
    PROVE  [j \in 1..k |-> buffer[Behind(rpos, j - 1)]] \in Seq(Bytes)
<1>1. \A j \in 1..k : Behind(rpos, j - 1) \in Slot
  <2> TAKE j \in 1..k
  <2>1. j - 1 \in 0..bufsize /\ rpos \in Slot
    BY SizeAssumption DEF bufsize, TypeOK
  <2> QED
    BY <2>1, BehindOnce
<1> QED
  BY <1>1, SizeAssumption DEF TypeOK

LEMMA TypeInit == Init => TypeOK
  BY SizeAssumption DEF Init, TypeOK, Slot

LEMMA TypeStep == TypeOK /\ [Next]_vars => TypeOK'
<1> SUFFICES ASSUME TypeOK, [Next]_vars PROVE TypeOK'
  OBVIOUS
<1>1. ASSUME NEW bytes \in Chunks, RbWrite(bytes) PROVE TypeOK'
  <2>1. buffer' \in [Slot -> Bytes]
    <3> DEFINE n == LeastOf(rb_can_write, Len(bytes))
               offset(s) == IF s >= wpos THEN s - wpos ELSE s + bufsize - wpos
    <3>1. n <= Len(bytes) /\ n \in Nat
      BY <1>1, WriteEffect, SizeAssumption
    <3>2. \A s \in Slot : offset(s) \in Nat
      BY SizeAssumption DEF Slot, bufsize, TypeOK
    <3>3. \A s \in Slot : offset(s) < n => bytes[offset(s) + 1] \in Bytes
      BY <3>1, <3>2, ChunkType
    <3>4. buffer' = [s \in Slot |-> IF offset(s) < n THEN bytes[offset(s) + 1] ELSE buffer[s]]
      BY <1>1 DEF RbWrite
    <3> HIDE DEF offset, n
    <3> QED
      BY <3>3, <3>4 DEF TypeOK
  <2>2. wpos' \in Slot
    BY <1>1, WriteEffect
  <2>3. put' \in Seq(Bytes)
    BY <1>1, ChunkType DEF RbWrite
  <2> QED
    BY <1>1, <2>1, <2>2, <2>3 DEF RbWrite, TypeOK
<1>2. ASSUME NEW n \in 0..(Size + 1), RbRead(n) PROVE TypeOK'
  <2>1. rpos' \in Slot /\ got' \in Seq(Bytes)
    BY <1>2, ReadEffect, Window
  <2> QED
    BY <1>2, <2>1 DEF RbRead, TypeOK
<1>3. CASE UNCHANGED vars
  BY <1>3 DEF vars, TypeOK
<1> QED
  BY <1>1, <1>2, <1>3 DEF Next

(***************************************************************************)
(* Both positions stay inside the array, whatever is written and read      *)
(* (util.c rb_write, rb_read).                                             *)
(***************************************************************************)
THEOREM TypeCorrect == Spec => []TypeOK
  BY TypeInit, TypeStep, PTL DEF Spec

(***************************************************************************)
(* What can be read and what can be written always add up to the size the  *)
(* buffer was made for, although rpos - 1 leaves the range of size_t.      *)
(***************************************************************************)
THEOREM RoomTheorem == Spec => []RoomAccounted
<1>1. TypeOK => RoomAccounted
  BY Counters DEF RoomAccounted, TypeOK
<1> QED
  BY <1>1, TypeCorrect, PTL

-----------------------------------------------------------------------------
(* The refinement of BoundedFifo.                                          *)

LEMMA ContentsType ==
    ASSUME TypeOK
    PROVE  /\ Contents \in Seq(Bytes)
           /\ Len(Contents) = rb_can_read
           /\ \A j \in 1..rb_can_read : Contents[j] = buffer[Behind(rpos, j - 1)]
<1>1. rb_can_read \in 0..Size
  BY Counters DEF TypeOK
<1>2. Contents \in Seq(Bytes)
  BY <1>1, Window DEF Contents
<1> QED
  BY <1>1, <1>2, SizeAssumption DEF Contents

\* rb_write appends to the contents what there is room for.
LEMMA WriteAppends ==
    ASSUME TypeOK, TypeOK', NEW bytes \in Chunks, RbWrite(bytes)
    PROVE  Fifo!Write(bytes)
<1> DEFINE n == LeastOf(rb_can_write, Len(bytes))
           r == rb_can_read
           new == SubSeq(bytes, 1, n)
<1>1. /\ n \in 0..Size /\ n <= Len(bytes) /\ n <= rb_can_write
      /\ r \in 0..Size /\ rb_can_write \in 0..Size /\ r + rb_can_write = Size
      /\ wpos \in Slot /\ rpos \in Slot /\ rpos' = rpos /\ wpos' \in Slot
  BY WriteEffect, Counters DEF TypeOK, RbWrite
<1>2. rb_can_read' = r + n
  <2>1. rb_can_read' = IF rpos <= wpos' THEN wpos' - rpos ELSE bufsize - rpos + wpos'
    BY <1>1, CountersNext
  <2>2. /\ r = IF rpos <= wpos THEN wpos - rpos ELSE bufsize - rpos + wpos
        /\ wpos' = IF wpos + n < bufsize THEN wpos + n ELSE wpos + n - bufsize
    BY <1>1, Counters, WriteEffect
  <2> HIDE DEF n, r
  <2> QED
    BY <1>1, <2>1, <2>2, SizeAssumption DEF Slot, bufsize
<1>3. \A j \in 1..r : buffer'[Behind(rpos, j - 1)] = buffer[Behind(rpos, j - 1)]
  <2> SUFFICES ASSUME NEW j \in 1..r
               PROVE  buffer'[Behind(rpos, j - 1)] = buffer[Behind(rpos, j - 1)]
    OBVIOUS
  <2> DEFINE s == Behind(rpos, j - 1)
             o == IF s >= wpos THEN s - wpos ELSE s + bufsize - wpos
  <2>1. j - 1 \in 0..bufsize
    BY <1>1, SizeAssumption DEF bufsize
  <2>2. s \in Slot /\ s = IF rpos + (j - 1) < bufsize THEN rpos + (j - 1)
                          ELSE rpos + (j - 1) - bufsize
    BY <1>1, <2>1, BehindOnce
  <2>3. r = IF rpos <= wpos THEN wpos - rpos ELSE bufsize - rpos + wpos
    BY <1>1, Counters
  <2>4. buffer'[s] = IF o < n THEN bytes[o + 1] ELSE buffer[s]
    BY <2>2, WriteEffect
  <2>5. ~(o < n)
    <3> HIDE DEF s, n, r
    <3> QED
      BY <1>1, <2>2, <2>3, SizeAssumption DEF Slot, bufsize
  <2> QED
    BY <2>4, <2>5
<1>4. \A j \in (r + 1)..(r + n) : buffer'[Behind(rpos, j - 1)] = bytes[j - r]
  <2> SUFFICES ASSUME NEW j \in (r + 1)..(r + n)
               PROVE  buffer'[Behind(rpos, j - 1)] = bytes[j - r]
    OBVIOUS
  <2> DEFINE s == Behind(rpos, j - 1)
             o == IF s >= wpos THEN s - wpos ELSE s + bufsize - wpos
  <2>1. j - 1 \in 0..bufsize
    BY <1>1, SizeAssumption DEF bufsize
  <2>2. s \in Slot /\ s = IF rpos + (j - 1) < bufsize THEN rpos + (j - 1)
                          ELSE rpos + (j - 1) - bufsize
    BY <1>1, <2>1, BehindOnce
  <2>3. r = IF rpos <= wpos THEN wpos - rpos ELSE bufsize - rpos + wpos
    BY <1>1, Counters
  <2>4. buffer'[s] = IF o < n THEN bytes[o + 1] ELSE buffer[s]
    BY <2>2, WriteEffect
  <2>5. o = j - 1 - r /\ o < n /\ o + 1 = j - r
    <3> HIDE DEF s, n, r
    <3> QED
      BY <1>1, <2>2, <2>3, SizeAssumption DEF Slot, bufsize
  <2> HIDE DEF o, s
  <2> QED
    BY <2>4, <2>5 DEF s
<1>5. Contents' = Contents \o new
  <2>1. /\ new \in Seq(Bytes) /\ Len(new) = n
        /\ \A j \in 1..n : new[j] = bytes[j]
    BY <1>1, ChunkType, SizeAssumption
  <2>2. /\ Contents \in Seq(Bytes) /\ Len(Contents) = r
        /\ \A j \in 1..r : Contents[j] = buffer[Behind(rpos, j - 1)]
    BY ContentsType
  <2>3. /\ Contents' \in Seq(Bytes) /\ Len(Contents') = r + n
        /\ \A j \in 1..(r + n) : Contents'[j] = buffer'[Behind(rpos, j - 1)]
    <3>1. Contents' = [j \in 1..(r + n) |-> buffer'[Behind(rpos, j - 1)]]
      BY <1>1, <1>2 DEF Contents, Behind, bufsize
    <3>2. r + n \in Nat
      BY <1>1, SizeAssumption
    <3>3. \A j \in 1..(r + n) : buffer'[Behind(rpos, j - 1)] \in Bytes
      <4> TAKE j \in 1..(r + n)
      <4>1. j - 1 \in 0..bufsize
        BY <1>1, SizeAssumption DEF bufsize
      <4> QED
        BY <1>1, <4>1, BehindOnce DEF TypeOK
    <3> HIDE DEF n, r
    <3> QED
      BY <3>1, <3>2, <3>3
  <2>4. /\ Contents \o new \in Seq(Bytes) /\ Len(Contents \o new) = r + n
        /\ \A j \in 1..(r + n) :
             (Contents \o new)[j] = IF j <= r THEN Contents[j] ELSE new[j - r]
    <3> HIDE DEF new, n, r
    <3> QED
      BY <2>1, <2>2, ConcatProperties
  <2>5. \A j \in 1..(r + n) : Contents'[j] = (Contents \o new)[j]
    <3> SUFFICES ASSUME NEW j \in 1..(r + n) PROVE Contents'[j] = (Contents \o new)[j]
      OBVIOUS
    <3>1. r \in Nat /\ n \in Nat
      BY <1>1, SizeAssumption
    <3> HIDE DEF new, n, r
    <3>2. CASE j <= r
      <4>1. j \in 1..r
        BY <3>1, <3>2
      <4>2. Contents'[j] = Contents[j]
        BY <1>3, <2>2, <2>3, <4>1
      <4> QED
        BY <2>4, <3>2, <4>2
    <3>3. CASE j > r
      <4>1. j \in (r + 1)..(r + n) /\ j - r \in 1..n /\ ~(j <= r)
        BY <3>1, <3>3
      <4>2. Contents'[j] = bytes[j - r]
        BY <1>4, <2>3, <4>1
      <4>3. new[j - r] = bytes[j - r]
        BY <2>1, <4>1
      <4> QED
        BY <2>4, <4>1, <4>2, <4>3
    <3>4. j <= r \/ j > r
      BY <3>1
    <3> QED
      BY <3>2, <3>3, <3>4
  <2> HIDE DEF new, n, r
  <2> QED
    BY <2>3, <2>4, <2>5, SeqEqual
<1>6. n = Fifo!LeastOf(Len(bytes), Size - Len(Contents))
  BY <1>1, ContentsType, ChunkType, SizeAssumption DEF Fifo!LeastOf, LeastOf
<1> QED
  BY <1>5, <1>6 DEF Fifo!Write, RbWrite

\* rb_read takes from the front of the contents what is asked for.
LEMMA ReadTakes ==
    ASSUME TypeOK, TypeOK', NEW n \in 0..(Size + 1), RbRead(n)
    PROVE  Fifo!Read(n)
<1> DEFINE k == LeastOf(rb_can_read, n)
           r == rb_can_read
<1>1. /\ k \in 0..Size /\ k <= r /\ r \in 0..Size
      /\ wpos \in Slot /\ rpos \in Slot /\ wpos' = wpos /\ rpos' \in Slot /\ buffer' = buffer
  BY ReadEffect, Counters DEF TypeOK, RbRead
<1>2. rpos' = IF rpos + k < bufsize THEN rpos + k ELSE rpos + k - bufsize
  BY ReadEffect
<1>3. rb_can_read' = r - k
  <2>1. rb_can_read' = IF rpos' <= wpos THEN wpos - rpos' ELSE bufsize - rpos' + wpos
    BY <1>1, CountersNext
  <2>2. r = IF rpos <= wpos THEN wpos - rpos ELSE bufsize - rpos + wpos
    BY <1>1, Counters
  <2> HIDE DEF k, r
  <2> QED
    BY <1>1, <1>2, <2>1, <2>2, SizeAssumption DEF Slot, bufsize
<1>4. /\ Contents \in Seq(Bytes) /\ Len(Contents) = r
      /\ \A j \in 1..r : Contents[j] = buffer[Behind(rpos, j - 1)]
  BY ContentsType
<1>5. k = Fifo!LeastOf(n, Len(Contents))
  BY <1>1, <1>4, SizeAssumption DEF Fifo!LeastOf, LeastOf
<1>6. got' = SubSeq(Contents, 1, k)
  <2>1. got' = [j \in 1..k |-> buffer[Behind(rpos, j - 1)]]
    BY ReadEffect
  <2>2. SubSeq(Contents, 1, k) = [j \in 1..k |-> Contents[j]]
    <3> HIDE DEF k, r
    <3> QED
      BY <1>1, <1>4, SizeAssumption
  <2>3. \A j \in 1..k : Contents[j] = buffer[Behind(rpos, j - 1)]
    <3> HIDE DEF k, r
    <3> QED
      BY <1>1, <1>4, SizeAssumption
  <2> HIDE DEF k
  <2> QED
    BY <2>1, <2>2, <2>3
<1>7. Contents' = SubSeq(Contents, k + 1, r)
  <2>1. Contents' = [j \in 1..(r - k) |-> buffer[Behind(rpos', j - 1)]]
    BY <1>1, <1>3 DEF Contents, Behind, bufsize
  <2>2. SubSeq(Contents, k + 1, r) = [j \in 1..(r - k) |-> Contents[j + k]]
    <3> HIDE DEF k, r
    <3> QED
      BY <1>1, <1>4, SizeAssumption
  <2>3. \A j \in 1..(r - k) : Contents[j + k] = buffer[Behind(rpos', j - 1)]
    <3> TAKE j \in 1..(r - k)
    <3>1. j + k \in 1..r /\ j - 1 \in 0..bufsize /\ j + k - 1 \in 0..bufsize
      BY <1>1, SizeAssumption DEF bufsize
    <3>2. Behind(rpos, j + k - 1) = IF rpos + (j + k - 1) < bufsize THEN rpos + (j + k - 1)
                                    ELSE rpos + (j + k - 1) - bufsize
      BY <1>1, <3>1, BehindOnce
    <3>3. Behind(rpos', j - 1) = IF rpos' + (j - 1) < bufsize THEN rpos' + (j - 1)
                                 ELSE rpos' + (j - 1) - bufsize
      BY <1>1, <3>1, BehindOnce
    <3>4. Behind(rpos, j + k - 1) = Behind(rpos', j - 1)
      <4> HIDE DEF k, r
      <4> QED
        BY <1>1, <1>2, <3>1, <3>2, <3>3, SizeAssumption DEF Slot, bufsize
    <3>5. Contents[j + k] = buffer[Behind(rpos, j + k - 1)]
      <4>1. r \in Nat /\ k \in Nat
        BY <1>1, SizeAssumption
      <4> HIDE DEF k, r
      <4> QED
        BY <1>4, <3>1, <4>1
    <3> QED
      BY <3>4, <3>5
  <2> HIDE DEF k, r
  <2> QED
    BY <2>1, <2>2, <2>3
<1> QED
  BY <1>4, <1>5, <1>6, <1>7 DEF Fifo!Read, RbRead

(***************************************************************************)
(* The ring buffer implements the bounded queue: what rb_read returns is   *)
(* what rb_write was given and had room for, in order and once.            *)
(***************************************************************************)
THEOREM Refinement == Spec => IsFifo
<1>1. Init => Fifo!Init
  <2> SUFFICES ASSUME Init PROVE Fifo!Init
    OBVIOUS
  <2>1. rb_can_read = 0
    BY SizeAssumption, WordAssumption DEF Init, rb_can_read, Minus
  <2> QED
    BY <2>1 DEF Init, Fifo!Init, Contents
<1>2. TypeOK /\ TypeOK' /\ [Next]_vars => [Fifo!Next]_<<Contents, put, got>>
  <2> SUFFICES ASSUME TypeOK, TypeOK', [Next]_vars
               PROVE  [Fifo!Next]_<<Contents, put, got>>
    OBVIOUS
  <2>1. ASSUME NEW bytes \in Chunks, RbWrite(bytes) PROVE Fifo!Next
    BY <2>1, WriteAppends DEF Fifo!Next
  <2>2. ASSUME NEW n \in 0..(Size + 1), RbRead(n) PROVE Fifo!Next
    BY <2>2, ReadTakes DEF Fifo!Next
  <2>3. CASE UNCHANGED vars
    BY <2>3 DEF vars, Contents, rb_can_read
  <2> QED
    BY <2>1, <2>2, <2>3 DEF Next
<1> QED
  BY <1>1, <1>2, TypeCorrect, PTL DEF Spec, IsFifo, Fifo!Spec

=============================================================================
