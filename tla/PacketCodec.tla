---------------------------- MODULE PacketCodec ----------------------------
(***************************************************************************)
(* Packets and their bytes (packet.c, packet.h).  The code has Base = 256; *)
(* all widths keep their number of bytes, so that a smaller Base makes the *)
(* lengths overflow within reach; the byte of flags has its eight bits     *)
(* always.  A byte of a key or of a value is a natural number.  Bytes read *)
(* beyond the end of a buffer, or before they were written, are Junk.      *)
(***************************************************************************)
EXTENDS Integers, Sequences

CONSTANTS Base, Junk

ASSUME BaseAssumption == Base \in Nat \ {0, 1}

PKT_HEADER_LEN == 7
PKT_FLAG_CTRL == 128
PKT_FLAG_LKUP == 1
PKT_FLAG_ACK == 8
PKT_FLAG_GET == 4
PKT_FLAG_SET == 2
PKT_FLAG_DEL == 1

Max16 == Base * Base              \* one more than fits into two bytes
Max32 == Max16 * Max16            \* one more than fits into four

packet_new ==
    [flags |-> 0, key |-> <<>>, value |-> <<>>, key_len |-> 0, value_len |-> 0,
     hash_id |-> 0, node_id |-> 0, node_ip |-> 0, node_port |-> 0]

\* n bytes of buffer b from position i, counted from 1; the buffer may be shorter.
Peek(b, i, n) == [k \in 1 .. n |-> IF i + k - 1 \in DOMAIN b THEN b[i + k - 1] ELSE Junk]

\* The copy has as many bytes as the lengths say.
packet_dup(p) ==
    [p EXCEPT !.key = Peek(p.key, 1, p.key_len), !.value = Peek(p.value, 1, p.value_len)]

\* flags & flag
Has(flags, flag) == (flags \div flag) % 2 = 1

IsCtrl(p) == Has(p.flags, PKT_FLAG_CTRL)

\* Mutant: the sum is computed in 16 bits.
BodySizeNarrow(p) == IF IsCtrl(p) THEN 4 ELSE (p.key_len + p.value_len) % Max16
\* The sum of a uint16_t and a uint32_t has 32 bits.
packet_body_size(p) == IF IsCtrl(p) THEN 4 ELSE (p.key_len + p.value_len) % Max32

\* A number as two bytes, and as four, the most significant one in front.
Bytes2(v) == <<(v \div Base) % Base, v % Base>>
Bytes4(v) == Bytes2(v \div Max16) \o Bytes2(v % Max16)

\* The numbers at position i of a buffer.
Number2(b, i) == b[i] * Base + b[i + 1]
Number4(b, i) == Number2(b, i) * Max16 + Number2(b, i + 2)

\* The length of the buffer is a size_t and does not overflow here.
packet_serialize_data(p) ==
    <<p.flags>> \o Bytes2(p.key_len) \o Bytes4(p.value_len)
        \o Peek(p.key, 1, p.key_len) \o Peek(p.value, 1, p.value_len)

packet_serialize_ctrl(p) ==
    <<p.flags>> \o Bytes2(p.hash_id) \o Bytes2(p.node_id)
        \o Bytes4(p.node_ip) \o Bytes2(p.node_port)

packet_serialize(p) == IF IsCtrl(p) THEN packet_serialize_ctrl(p) ELSE packet_serialize_data(p)

\* The header of a control packet has only the upper half of the address.
packet_decode_hdr(b) ==
    IF Has(b[1], PKT_FLAG_CTRL)
    THEN [packet_new EXCEPT !.flags = b[1], !.hash_id = Number2(b, 2),
             !.node_id = Number2(b, 4), !.node_ip = Number2(b, 6) * Max16]
    ELSE [packet_new EXCEPT !.flags = b[1], !.key_len = Number2(b, 2),
             !.value_len = Number4(b, 4)]

\* NULL, which every caller has to expect.
NoPacket == [packet_new EXCEPT !.key_len = -1]

\* The check compares len with a sum of 32 bits; the copies take what the two
\* lengths say, and those of a control packet are not checked at all.
packet_decode_body(p, b, len) ==
    IF IsCtrl(p)
    THEN [p EXCEPT !.node_ip = @ + Number2(b, 1), !.node_port = Number2(b, 3)]
    ELSE IF len < packet_body_size(p) THEN NoPacket
    ELSE [p EXCEPT !.key = Peek(b, 1, p.key_len),
             !.value = Peek(b, p.key_len + 1, p.value_len)]

\* Mutant: the header is taken for a part of the body.
DecodeWithHeader(b, len) ==
    IF len < PKT_HEADER_LEN THEN NoPacket
    ELSE packet_decode_body(packet_decode_hdr(b), b, len)
\* The length handed on is that of the whole buffer, the header included: a
\* body that lacks up to PKT_HEADER_LEN bytes passes the check.
packet_decode(b, len) ==
    IF len < PKT_HEADER_LEN THEN NoPacket
    ELSE packet_decode_body(packet_decode_hdr(b),
             SubSeq(b, PKT_HEADER_LEN + 1, Len(b)), len)
=============================================================================
