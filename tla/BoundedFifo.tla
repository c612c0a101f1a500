---------------------------- MODULE BoundedFifo -----------------------------
(***************************************************************************)
(* What a receive buffer promises: a queue of at most Size bytes. A write  *)
(* takes as many of its bytes as there is room for, a read as many as are  *)
(* asked for and present, in the order in which they were written.         *)
(***************************************************************************)
EXTENDS Naturals, Sequences

CONSTANTS Size, Bytes, Chunks   \* Chunks: what may be written at once

VARIABLES queue,   \* the bytes in the buffer
          put,     \* the bytes passed to the last write
          got      \* the bytes the last read returned

LeastOf(m, n) == IF m < n THEN m ELSE n

Init == queue = <<>> /\ put = <<>> /\ got = <<>>

Write(bytes) ==
    /\ queue' = queue \o SubSeq(bytes, 1, LeastOf(Len(bytes), Size - Len(queue)))
    /\ put' = bytes
    /\ UNCHANGED got

Read(n) ==
    LET k == LeastOf(n, Len(queue)) IN
    /\ got' = SubSeq(queue, 1, k)
    /\ queue' = SubSeq(queue, k + 1, Len(queue))
    /\ UNCHANGED put

Next == (\E bytes \in Chunks : Write(bytes)) \/ (\E n \in 0..(Size + 1) : Read(n))

Spec == Init /\ [][Next]_<<queue, put, got>>

=============================================================================
