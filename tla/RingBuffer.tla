----------------------------- MODULE RingBuffer -----------------------------
(***************************************************************************)
(* The ring buffer of util.c, in which the server collects the header and  *)
(* the body of a packet. One slot of the array stays empty, so that equal  *)
(* positions mean an empty buffer; positions and sizes are size_t, whose   *)
(* arithmetic is modulo Word.                                              *)
(***************************************************************************)
EXTENDS Naturals, Sequences

CONSTANTS Size,     \* the argument of rb_new
          Bytes,    \* values of a byte
          Chunks,   \* what may be written at once
          Word      \* number of values of a size_t

ASSUME SizeAssumption == Size \in Nat

ASSUME WordAssumption == Word \in Nat /\ 2 * Size + 2 < Word

ASSUME ChunksAssumption == Chunks \subseteq Seq(Bytes)

VARIABLES buffer, wpos, rpos,
          put,      \* the bytes passed to the last rb_write
          got       \* the bytes the last rb_read returned

vars == <<buffer, wpos, rpos, put, got>>

bufsize == Size + 1

Slot == 0..Size

TypeOK ==
    /\ buffer \in [Slot -> Bytes]
    /\ wpos \in Slot
    /\ rpos \in Slot
    /\ put \in Seq(Bytes)
    /\ got \in Seq(Bytes)

\* rb_new: malloc leaves the bytes undetermined.
Init ==
    /\ buffer \in [Slot -> Bytes]
    /\ wpos = 0
    /\ rpos = 0
    /\ put = <<>>
    /\ got = <<>>

\* Sum and difference of two size_t.
Plus(x, y) == IF x + y < Word THEN x + y ELSE x + y - Word
Minus(x, y) == IF x >= y THEN x - y ELSE x + Word - y

rb_can_read ==
    IF rpos <= wpos THEN Minus(wpos, rpos) ELSE Plus(Minus(bufsize, rpos), wpos)

\* Mutated rb_can_write: no slot is kept empty.
RbCanWriteFull ==
    IF wpos < rpos THEN Minus(rpos, wpos) ELSE Plus(Minus(bufsize, wpos), rpos)

rb_can_write ==
    IF wpos < rpos THEN Minus(Minus(rpos, wpos), 1)
    ELSE Plus(Minus(bufsize, wpos), Minus(rpos, 1))

\* Mutated Behind: the position is not reduced to the array.
BehindNoWrap(s, n) == s + n

\* The slot n places behind slot s.
Behind(s, n) == (s + n) % bufsize

LeastOf(m, n) == IF m < n THEN m ELSE n

\* Mutated RbWrite: the last slot of the array is never wrapped around.
RbWriteNoWrap(bytes) ==
    LET n == LeastOf(rb_can_write, Len(bytes)) IN
    /\ buffer' = [s \in Slot |-> IF s >= wpos /\ s - wpos < n
                                   THEN bytes[s - wpos + 1] ELSE buffer[s]]
    /\ wpos' = Behind(wpos, n)
    /\ put' = bytes
    /\ UNCHANGED <<rpos, got>>

\* rb_write: byte after byte into the slots from wpos on.
RbWrite(bytes) ==
    LET n == LeastOf(rb_can_write, Len(bytes))
        offset(s) == IF s >= wpos THEN s - wpos ELSE s + bufsize - wpos
    IN
    /\ buffer' = [s \in Slot |-> IF offset(s) < n THEN bytes[offset(s) + 1] ELSE buffer[s]]
    /\ wpos' = Behind(wpos, n)
    /\ put' = bytes
    /\ UNCHANGED <<rpos, got>>

\* rb_read: at most n bytes, from rpos on.
RbRead(n) ==
    LET k == LeastOf(rb_can_read, n) IN
    /\ got' = [j \in 1..k |-> buffer[Behind(rpos, j - 1)]]
    /\ rpos' = Behind(rpos, k)
    /\ UNCHANGED <<buffer, wpos, put>>

Next == (\E bytes \in Chunks : RbWrite(bytes)) \/ (\E n \in 0..(Size + 1) : RbRead(n))

Spec == Init /\ [][Next]_vars

-----------------------------------------------------------------------------
(***************************************************************************)
(* The two counters agree, the wrap-around of size_t included: what can be *)
(* read and what can be written are always all of the Size bytes that      *)
(* rb_new was asked for. The server relies on it twice: a header is        *)
(* complete when rb_can_read is its length, a body when rb_can_write is 0. *)
(***************************************************************************)
RoomAccounted == rb_can_read + rb_can_write = Size

Contents == [j \in 1..rb_can_read |-> buffer[Behind(rpos, j - 1)]]

Fifo == INSTANCE BoundedFifo WITH queue <- Contents

\* The ring buffer is a first-in first-out queue of at most Size bytes.
IsFifo == Fifo!Spec

=============================================================================
