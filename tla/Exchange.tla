------------------------------ MODULE Exchange ------------------------------
(***************************************************************************)
(* One packet on its way, byte by byte.  The client program (client.c)     *)
(* reads its value, sends a request and reads the answer; a peer (server.c *)
(* and peer.c) puts the request together from the pieces that arrive and   *)
(* answers it, or, as a proxy, sends it on to the owner of the key and its *)
(* answer back, so that there are two connections one behind the other     *)
(* (hop 1 to the gateway, hop 2 to the owner).  A job of role "peer" is    *)
(* another peer that sends a lookup.  The bytes are those of PacketCodec.  *)
(* A peer may be killed at any time, which ends its connection in order or *)
(* with a reset.  Each connection is established or fails at once; proxies *)
(* that cannot reach the owner are modelled in ChordRing.                  *)
(***************************************************************************)
EXTENDS Neighbour, SequencesExt

CONSTANTS
    Jobs,      \* what the sender may be started for
    Stored,    \* values that the owner may hold for a key
    BufSize    \* first size of the buffers that grow, 1024 in the code

ASSUME BufSizeAssumption == BufSize \in Nat \ {0}

\* A client has a key and a value; a peer an id and a hash of two bytes, a host of four
\* or one that is not known, a port as strtol reads it, and addresses to try.
ASSUME JobsAssumption ==
    \A j \in Jobs :
        /\ j.hops \in {1, 2}
        /\ \/ j.role = "client" /\ j.key \in Seq(Nat) /\ j.value \in Seq(Nat)
           \/ /\ j.role = "peer" /\ j.id \in 0 .. (Max16 - 1) /\ j.hash \in 0 .. (Max16 - 1)
              /\ j.host = <<>> \/ (j.host \in Seq(0 .. (Base - 1)) /\ Len(j.host) = 4)
              /\ j.port \in Int /\ j.addrs \in Nat \ {0}

ASSUME StoredAssumption == Stored \subseteq Seq(Nat)

VARIABLES
    job,       \* what the sender is to do
    snd,       \* where the sender is
    buf,       \* the growing buffer of read_stdin or recvall
    conn,      \* peer_connect of the sending peer: turns of its loop, sockets open, those
               \* of them held connected to the host, and whether p->socket is one
    wire,      \* bytes under way to the receiver of the current hop
    srv,       \* the receiver's client structure
    hop,       \* 1, or 2 while a proxy waits for the owner
    unread,    \* bytes the client sent that the gateway never received
    back,      \* bytes of the answer under way
    fin,       \* how the connection has been ended: "no", "fin" or "rst"
    got,       \* the packet that was delivered at the last hop
    ans,       \* the packet that answers it
    exit,      \* exit status of the sender
    out        \* what the client printed

receiver == <<srv, hop, unread, got, ans>>
vars == <<job, snd, buf, conn, wire, receiver, back, fin, exit, out>>

NewBuf == [bytes |-> <<>>, len |-> 0, size |-> BufSize]
Idle == [state |-> "IDLE", hdr |-> <<>>, body |-> <<>>, pack |-> NoPacket]
NotTried == [tried |-> 0, open |-> 0, held |-> 0, usable |-> FALSE, connected |-> FALSE]

TypeOK ==
    /\ job \in Jobs /\ snd \in {"start", "stdin", "connect", "recv", "exit"}
    /\ buf.len \in -1 .. buf.size /\ buf.size >= BufSize
    /\ conn.open \in 0 .. conn.tried /\ hop \in {1, 2} /\ unread \in Seq(Nat \cup {Junk})
    /\ srv.state \in {"IDLE", "HDR_RECVD", "GONE"}
    /\ Len(srv.hdr) <= PKT_HEADER_LEN /\ Len(srv.body) <= packet_body_size(srv.pack)
    /\ fin \in {"no", "fin", "rst"} /\ exit \in {"none", "0", "-1"}

Init ==
    /\ job \in Jobs /\ snd = "start" /\ buf = NewBuf /\ conn = NotTried
    /\ wire = <<>> /\ srv = Idle /\ hop = 1 /\ unread = <<>> /\ back = <<>> /\ fin = "no"
    /\ got = NoPacket /\ ans = NoPacket /\ exit = "none" /\ out = <<>>

Lesser(m, n) == IF m < n THEN m ELSE n

----------------------------------------------------------------------------
(* The buffer of read_stdin and of recvall.                                *)

\* A full buffer is doubled before it is read into.
Grown(b) == IF b.size - b.len < 1 THEN [b EXCEPT !.size = 2 * @] ELSE b

\* Mutant: the write pointer is lost when the buffer is moved.
FilledFromStart(b, piece) == [b EXCEPT !.bytes = piece, !.len = Len(piece)]
\* The piece goes to the write pointer, which moves behind it.
Filled(b, piece) ==
    [b EXCEPT !.bytes = SubSeq(@, 1, b.len) \o piece, !.len = @ + Len(piece)]

----------------------------------------------------------------------------
(* The client program.                                                     *)

\* connect_socket, which the client gives up on.
ConnectSocket ==
    /\ snd = "start" /\ job.role = "client"
    /\ \/ snd' = "stdin" /\ UNCHANGED exit
       \/ snd' = "exit" /\ exit' = "-1"
    /\ UNCHANGED <<job, buf, conn, wire, receiver, back, fin, out>>

\* The value of a SET is all that stdin has; fread fills the buffer if it can.
Stdin == IF job.role = "client" /\ job.method = "SET" THEN job.value ELSE <<>>

\* One turn of read_stdin.
ReadStdin ==
    /\ snd = "stdin" /\ buf.len < Len(Stdin)
    /\ LET b == Grown(buf)
           n == Lesser(b.size - b.len, Len(Stdin) - b.len)
       IN  buf' = Filled(b, SubSeq(Stdin, b.len + 1, b.len + n))
    /\ UNCHANGED <<job, snd, conn, wire, receiver, back, fin, exit, out>>

FlagOf(method) ==
    CASE method = "SET" -> PKT_FLAG_SET
      [] method = "GET" -> PKT_FLAG_GET
      [] method = "DELETE" -> PKT_FLAG_DEL

\* The assignments to key_len and value_len cut the lengths down to their widths.
RequestPacket(method, key, value) ==
    [packet_new EXCEPT !.flags = FlagOf(method),
        !.key = key, !.key_len = Len(key) % Max16,
        !.value = value, !.value_len = Len(value) % Max32]

\* The request goes out; whether sendall succeeds is not looked at.
SendRequest ==
    /\ snd = "stdin" /\ buf.len = Len(Stdin)
    /\ IF job.method \in {"SET", "GET", "DELETE"}
       THEN /\ wire' = packet_serialize(RequestPacket(job.method, job.key, buf.bytes))
            /\ snd' = "recv" /\ UNCHANGED exit
       ELSE snd' = "exit" /\ exit' = "-1" /\ UNCHANGED wire
    /\ buf' = NewBuf
    /\ UNCHANGED <<job, conn, receiver, back, fin, out>>

----------------------------------------------------------------------------
(* A peer that sends a lookup.                                             *)

Self == peer_init(job.id, job.host, job.port)

\* main() does not look at what peer_init returns: a peer without neighbour data
\* of its own dies on the null pointer before it can send a lookup.
StartPeer ==
    /\ snd = "start" /\ job.role = "peer"
    /\ IF Self = NoPeer THEN snd' = "exit" /\ exit' = "-1"
                        ELSE snd' = "connect" /\ UNCHANGED exit
    /\ UNCHANGED <<job, buf, conn, wire, receiver, back, fin, out>>

\* Mutant: memcpy has its arguments in order, and every turn connects to the host.
OutcomesKeepAddress(c) == {"no_socket", "refused", "established"}
\* What socket and connect of one turn may do.  Every turn takes the first address,
\* and behind the first success memcpy overwrites that with p->addr, which is all
\* zeros: connect to an address of no family may return 0 and connects to nobody.
Outcomes(c) == {"no_socket", "refused", IF c.connected THEN "unspecified" ELSE "established"}

\* One turn of peer_connect: its socket becomes the neighbour's, and none is closed.
Tried(c, outcome) ==
    [tried |-> c.tried + 1,
     open |-> c.open + (IF outcome = "no_socket" THEN 0 ELSE 1),
     held |-> c.held + (IF outcome = "established" THEN 1 ELSE 0),
     usable |-> outcome = "established",
     connected |-> c.connected \/ outcome \in {"established", "unspecified"}]

\* peer_connect goes on to the next turn even when it is connected.
TryAddress ==
    /\ snd = "connect" /\ conn.tried < job.addrs
    /\ \E outcome \in Outcomes(conn) : conn' = Tried(conn, outcome)
    /\ UNCHANGED <<job, snd, buf, wire, receiver, back, fin, exit, out>>

\* The socket that the neighbour has, and no other, is closed.
peer_disconnect(c) == [c EXCEPT !.open = @ - 1, !.held = @ - 1, !.usable = FALSE]

\* forward: it returns without a connection, and when sendall fails, as on a socket
\* that is not connected it must and on one that the host has reset it may; only
\* behind a lookup that is sent does peer_disconnect close the socket.
SendLookup ==
    /\ snd = "connect" /\ conn.tried = job.addrs
    /\ \/ /\ conn.connected /\ conn.usable
          /\ wire' = packet_serialize(Lookup(Self, job.hash))
          /\ conn' = peer_disconnect(conn)
          /\ exit' = "0"
       \/ exit' = "-1" /\ UNCHANGED <<wire, conn>>
    /\ snd' = "exit"
    /\ UNCHANGED <<job, buf, receiver, back, fin, out>>

----------------------------------------------------------------------------
(* The receiving peer: the reassembly of server_run.                       *)

\* Mutant: recv is not limited to the room in the buffer.
PiecesOfAll(n) == { SubSeq(wire, 1, k) : k \in 1 .. Len(wire) }
\* What recv may return of the bytes under way, at most n of them.
Pieces(n) == { SubSeq(wire, 1, k) : k \in 1 .. Lesser(n, Len(wire)) }

\* Mutant: the callback returns CB_OK and the connection stays open.
EndsOpen(answer, rest) == back' = answer /\ fin' = fin
\* The receiver is done with its connection; unread bytes make it a reset.
Ends(answer, rest) ==
    /\ back' = answer
    /\ fin' = IF rest = <<>> THEN "fin" ELSE "rst"

\* The header buffer is empty again, and the body is waited for.
client_decode_hdr(h) == [Idle EXCEPT !.state = "HDR_RECVD", !.pack = packet_decode_hdr(h)]

\* A piece of the header; client_decode_hdr when it is complete.
RecvHeader ==
    /\ srv.state = "IDLE"
    /\ \E piece \in Pieces(PKT_HEADER_LEN - Len(srv.hdr)) :
          LET h == srv.hdr \o piece
          IN  /\ wire' = SubSeq(wire, Len(piece) + 1, Len(wire))
              /\ srv' = IF Len(h) = PKT_HEADER_LEN
                        THEN client_decode_hdr(h)
                        ELSE [srv EXCEPT !.hdr = h]
    /\ UNCHANGED <<job, snd, buf, conn, hop, unread, got, ans, back, fin, exit, out>>

Room == packet_body_size(srv.pack) - Len(srv.body)

\* A piece of the body that does not complete it.
RecvBody ==
    /\ srv.state = "HDR_RECVD"
    /\ \E piece \in Pieces(Room) :
          /\ Len(piece) < Room
          /\ wire' = SubSeq(wire, Len(piece) + 1, Len(wire))
          /\ srv' = [srv EXCEPT !.body = @ \o piece]
    /\ UNCHANGED <<job, snd, buf, conn, hop, unread, got, ans, back, fin, exit, out>>

\* The rest of the body is there: client_decode_body, and the packet is delivered.
Full == srv.state = "HDR_RECVD" /\ Room > 0 /\ Len(wire) >= Room
FullPacket == packet_decode_body(srv.pack, srv.body \o SubSeq(wire, 1, Room),
                                 packet_body_size(srv.pack))
Rest == SubSeq(wire, Room + 1, Len(wire))

\* Sent on by a gateway: a request as a proxy, a lookup for another peer.
PassOn ==
    /\ Full /\ hop < job.hops
    /\ hop' = 2
    /\ unread' = Rest
    /\ wire' = packet_serialize(IF IsCtrl(FullPacket) THEN FullPacket ELSE packet_dup(FullPacket))
    /\ srv' = Idle
    /\ UNCHANGED <<job, snd, buf, conn, got, ans, back, fin, exit, out>>

\* The answer of handle_own_request, with the entry found for a GET.  The bytes
\* of keys and values are not NUL here (strncpy is modelled in ChordRing).
Ack(p, entry) ==
    LET flag == IF Has(p.flags, PKT_FLAG_GET) THEN PKT_FLAG_GET
                ELSE IF Has(p.flags, PKT_FLAG_SET) THEN PKT_FLAG_SET ELSE PKT_FLAG_DEL
        ack == [packet_new EXCEPT !.flags = PKT_FLAG_ACK + flag]
    IN  IF flag = PKT_FLAG_GET /\ entry # <<>>
        THEN [ack EXCEPT !.key = p.key, !.key_len = p.key_len,
                 !.value = Head(entry), !.value_len = Len(Head(entry))]
        ELSE ack

\* The owner handles a request, answers it and closes the connection.
HandleOwnRequest ==
    /\ Full /\ hop = job.hops /\ ~IsCtrl(srv.pack)
    /\ got' = FullPacket
    /\ \E entry \in {<<>>} \cup { <<v>> : v \in Stored } : ans' = Ack(FullPacket, entry)
    /\ Ends(packet_serialize(ans'), Rest)
    /\ srv' = [Idle EXCEPT !.state = "GONE"]
    /\ wire' = <<>>
    /\ UNCHANGED <<job, snd, buf, conn, hop, unread, exit, out>>

\* The last peer on its way takes a lookup.
TakeLookup ==
    /\ Full /\ hop = job.hops /\ IsCtrl(srv.pack)
    /\ got' = FullPacket
    /\ srv' = [Idle EXCEPT !.state = "GONE"]
    /\ wire' = <<>>
    /\ UNCHANGED <<job, snd, buf, conn, hop, unread, ans, back, fin, exit, out>>

\* A body whose size is zero, or wraps to zero, is never complete: bytes behind
\* the header make recv return 0 for a buffer without room, and the connection
\* is taken for closed.
RecvNothing ==
    /\ srv.state = "HDR_RECVD" /\ Room = 0 /\ wire # <<>>
    /\ Ends(<<>>, wire)
    /\ srv' = [Idle EXCEPT !.state = "GONE"]
    /\ wire' = <<>>
    /\ UNCHANGED <<job, snd, buf, conn, hop, unread, got, ans, exit, out>>

\* The receiver of the current hop, or the gateway behind which the owner is, is
\* killed; bytes that are still to be sent, or that a reset overtakes, are lost.
Killed ==
    /\ job.role = "client" /\ snd = "recv" /\ (fin = "no" \/ back # <<>>)
    /\ fin' \in {"fin", "rst"}
    /\ \/ \E n \in 0 .. Len(back) : back' = SubSeq(back, 1, n) /\ UNCHANGED <<hop, buf>>
       \/ hop = 2 /\ hop' = 1 /\ back' = <<>> /\ buf' = NewBuf
    /\ srv' = [Idle EXCEPT !.state = "GONE"]
    /\ wire' = <<>>
    /\ UNCHANGED <<job, snd, conn, unread, got, ans, exit, out>>

----------------------------------------------------------------------------
(* recvall, in the client (hop 1) or in the gateway (hop 2).               *)

RecvallPiece ==
    /\ snd = "recv" /\ back # <<>>
    /\ LET b == Grown(buf)
       IN  \E n \in 1 .. Lesser(b.size - b.len, Len(back)) :
              /\ buf' = Filled(b, SubSeq(back, 1, n))
              /\ back' = SubSeq(back, n + 1, Len(back))
    /\ UNCHANGED <<job, snd, conn, wire, receiver, fin, exit, out>>

\* The -1 of a recv after a reset is added to the write pointer as a length; the
\* next recv finds the end of the stream.
RecvallReset ==
    /\ snd = "recv" /\ fin = "rst"
    /\ buf' = [Grown(buf) EXCEPT !.len = @ - 1]
    /\ back' = <<>> /\ fin' = "fin"
    /\ UNCHANGED <<job, snd, conn, wire, receiver, exit, out>>

\* proxy_request writes what recvall returned to the client and drops it; with a
\* negative length that is whatever is on the heap.
Relay ==
    /\ snd = "recv" /\ back = <<>> /\ fin = "fin" /\ hop = 2
    /\ Ends(IF buf.len < 0 THEN Peek(<<>>, 1, PKT_HEADER_LEN) ELSE SubSeq(buf.bytes, 1, buf.len),
            unread)
    /\ hop' = 1
    /\ srv' = [Idle EXCEPT !.state = "GONE"]
    /\ buf' = NewBuf
    /\ UNCHANGED <<job, snd, conn, wire, unread, got, ans, exit, out>>

\* The header that the client decodes was never received.
Garbled == buf.len < 0 \/ (buf.bytes # <<>> /\ buf.bytes[1] = Junk)

\* The client decodes the answer, prints the value of a GET and exits.
Finish ==
    /\ snd = "recv" /\ back = <<>> /\ fin = "fin" /\ hop = 1
    /\ LET rsp == packet_decode(buf.bytes, buf.len)
       IN  IF Garbled THEN exit' \in {"0", "-1"} /\ UNCHANGED out
           ELSE IF rsp = NoPacket \/ ~Has(rsp.flags, PKT_FLAG_ACK)
           THEN exit' = "-1" /\ UNCHANGED out
           ELSE exit' = "0" /\ out' = IF job.method = "GET" THEN rsp.value ELSE <<>>
    /\ snd' = "exit"
    /\ UNCHANGED <<job, buf, conn, wire, receiver, back, fin>>

Step ==
    \/ ConnectSocket \/ ReadStdin \/ SendRequest
    \/ StartPeer \/ TryAddress \/ SendLookup
    \/ RecvHeader \/ RecvBody \/ PassOn \/ HandleOwnRequest \/ TakeLookup \/ RecvNothing
    \/ RecvallPiece \/ RecvallReset \/ Relay \/ Finish

Next == Step \/ Killed
Spec == Init /\ [][Next]_vars

\* Programs that are not killed go on, and TCP delivers what was sent.
FairSpec == Spec /\ WF_vars(Step)

----------------------------------------------------------------------------
\* The lengths of a request that fit the fields of the header and their sum.
Fits ==
    /\ Len(job.key) < Max16 /\ Len(Stdin) < Max32 /\ Len(job.key) + Len(Stdin) < Max32

(***************************************************************************)
(* However its bytes are cut into pieces and through one peer or two, the  *)
(* packet that a peer delivers is the one that was meant: the key and the  *)
(* value of the command line and of stdin, or the hash, the node and the   *)
(* address and the port at which the sender of a lookup can be reached.    *)
(* Too long keys or values, and negative ports, are the exceptions.        *)
(***************************************************************************)
RequestIntact ==
    got # NoPacket =>
        IF job.role = "client"
        THEN Fits => /\ got.key = job.key /\ got.value = Stdin
                     /\ got.flags = FlagOf(job.method)
        ELSE /\ got.hash_id = job.hash /\ got.node_id = job.id
             /\ job.port >= 0 => peer_from_packet(got).port = job.port
             /\ job.host # <<>> => peer_from_packet(got).hostname = job.host

(***************************************************************************)
(* A client that exits with 0 has its operation executed, and a GET has    *)
(* printed the value of the answer.  Two exceptions are real: an answer    *)
(* that lacks no more bytes than a header has is taken for complete, and a *)
(* reset before the first byte makes recvall return a negative length.  So *)
(* is a third: the check of an answer as long as its length field wraps.   *)
(***************************************************************************)
AnswerIntact ==
    exit = "0" /\ job.role = "client" /\ ~Garbled /\ ans.key_len + ans.value_len < Max32 =>
        LET missing == Len(packet_serialize(ans)) - Len(buf.bytes)
        IN  /\ got # NoPacket
            /\ missing <= PKT_HEADER_LEN
            /\ job.method = "GET" /\ missing <= 0 => out = ans.value

(***************************************************************************)
(* read_stdin and recvall keep all bytes when their buffer is moved, in    *)
(* order and within its size.                                              *)
(***************************************************************************)
BuffersHold ==
    /\ buf.len <= buf.size /\ Len(buf.bytes) <= buf.size
    /\ snd = "stdin" => IsPrefix(buf.bytes, Stdin)
    /\ snd = "recv" /\ ans # NoPacket /\ ~Garbled => IsPrefix(buf.bytes, packet_serialize(ans))

(***************************************************************************)
(* However many addresses the loop of peer_connect runs over, and whichever*)
(* of its turns fail, the sender of a lookup never holds more than one     *)
(* connection to the host.  It holds it from the first success on until    *)
(* the lookup is sent on it, and for good when it is not sent: because a   *)
(* later turn replaced the socket, or because sendall failed.  A lookup    *)
(* that is sent leaves behind only the sockets of turns that failed before.*)
(***************************************************************************)
OneConnection ==
    job.role = "peer" =>
        /\ conn.held = IF conn.connected /\ exit # "0" THEN 1 ELSE 0
        /\ exit = "0" => conn.connected /\ conn.open < job.addrs

(***************************************************************************)
(* A client comes to an end: it gets an answer, or the end of its          *)
(* connection.  Only a request whose key and value are both empty as sent  *)
(* is never delivered and never refused, and client and peer both wait.    *)
(***************************************************************************)
ClientEnds ==
    (snd = "recv" /\ (Len(job.key) % Max16) + (Len(Stdin) % Max32) # 0) ~> (snd = "exit")
=============================================================================
