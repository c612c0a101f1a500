---------------------------- MODULE MCRingBuffer ----------------------------
(***************************************************************************)
(* A ring buffer of three bytes: writes of up to four bytes, so that some  *)
(* do not fit, and every position reached by both ends.                    *)
(***************************************************************************)
EXTENDS RingBuffer

MCChunks == UNION {[1..n -> Bytes] : n \in 0..4}
=============================================================================
