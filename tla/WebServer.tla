----------------------------- MODULE WebServer -----------------------------
(***************************************************************************)
(* The web server of praxis1 (praxis1/webserver.c): it accepts a single    *)
(* connection and answers every request that ends in CR LF CR LF.  A byte  *)
(* is "r" (CR), "n" (LF) or "x" (any other).  TCP keeps no message         *)
(* boundaries: each recv returns any nonempty piece, of at most BufSize    *)
(* bytes, of what the client has sent.  One step of the scan loops looks   *)
(* at one position; positions count from 0 as in the code.                 *)
(***************************************************************************)
EXTENDS Naturals, Sequences, FiniteSets, SequencesExt

CONSTANTS
    BufSize,    \* BUFFER_SIZE
    Scripts     \* what the client may send: sequences of requests

\* The receive buffer can hold a terminator.
ASSUME BufSizeAssumption == BufSize \in Nat /\ BufSize >= 4

http_terminator == <<"r", "n", "r", "n">>

Byte == {"x", "r", "n"}

\* How many bytes the first k requests of script s have.
EndOf(s, k) == Len(FlattenSeq(SubSeq(s, 1, k)))

ASSUME ScriptsAssumption == Scripts \subseteq Seq(Seq(Byte))

\* A client that sends no empty request ends each one with the terminator, which
\* occurs nowhere else.
ASSUME RequestsAssumption ==
    \A s \in Scripts : (\A k \in 1 .. Len(s) : s[k] # http_terminator) =>
        LET found == { i \in 0 .. (Len(FlattenSeq(s)) - 4) :
                        SubSeq(FlattenSeq(s), i + 1, i + 4) = http_terminator }
        IN  /\ \A i \in found : \E k \in 1 .. Len(s) : EndOf(s, k) = i + 4
            /\ \A k \in 1 .. Len(s) : \E i \in found : EndOf(s, k) = i + 4
            /\ \A j, k \in 1 .. Len(s) : EndOf(s, j) = EndOf(s, k) => j = k

VARIABLES
    pc,       \* where main() is
    script,   \* the requests of the client
    taken,    \* how many of their bytes recv has returned
    closed,   \* the client has closed the connection
    buf,      \* the valid bytes of recv_buf
    scan,     \* recv_buf->scanner_index
    begin,    \* recv_buf->req_begin_index
    fully,    \* recv_buf_fully_processed
    req,      \* req_buf: bytes, size and scanner_index
    replies   \* how often process_request has answered

vars == <<pc, script, taken, closed, buf, scan, begin, fully, req, replies>>
input == FlattenSeq(script)

BufStruct == [bytes : Seq(Byte), space : Nat, scan : Nat]
buf_struct_init(size) == [bytes |-> <<>>, space |-> size, scan |-> 0]

\* There is no secondary buffer.
NoBuffer == buf_struct_init(0)

TypeOK ==
    /\ pc \in {"start", "listen", "accept", "recv", "scan", "recv2", "scan2", "exit"}
    /\ script \in Scripts /\ taken \in 0 .. Len(input) /\ closed \in BOOLEAN
    /\ Len(buf) <= BufSize /\ scan \in 0 .. BufSize /\ begin \in 0 .. BufSize
    /\ fully \in BOOLEAN /\ replies \in Nat
    /\ req \in BufStruct

Init ==
    /\ pc = "start" /\ script \in Scripts /\ taken = 0 /\ closed = FALSE
    /\ buf = <<>> /\ scan = 0 /\ begin = 0 /\ fully = FALSE
    /\ req = NoBuffer /\ replies = 0

\* Mutant: the end of a line is taken for the end of a request.
LineEndAt(b, i) == SubSeq(b, i + 1, i + 2) = <<"r", "n">>
\* strncmp(b + i, http_terminator, terminator_length) == 0
TerminatorAt(b, i) == SubSeq(b, i + 1, i + Len(http_terminator)) = http_terminator

\* A position the scan loops still look at.
InScan(b, i) == i + Len(http_terminator) <= Len(b)

\* The pieces that one recv may return.
Pieces ==
    { SubSeq(input, taken + 1, taken + n) :
        n \in 1 .. (IF Len(input) - taken < BufSize THEN Len(input) - taken ELSE BufSize) }

----------------------------------------------------------------------------
\* Mutant: the new piece is appended to the last one.
ReceivedAppended(old, piece) == old \o piece
\* recv writes to the start of the buffer; only used_space bytes are valid.
Received(old, piece) == piece

\* One answer is sent; a client that has gone makes send fail (see SendFails).
process_request == replies' = replies + 1

\* Mutant: the copy leaves out the first byte of recv_buf.
ReqBufLate(b) == [buf_struct_init(2 * BufSize) EXCEPT !.bytes = Tail(b)]
\* The secondary buffer of twice the size, filled with the bytes of recv_buf.
ReqBuf(b) == [buf_struct_init(2 * BufSize) EXCEPT !.bytes = b]

\* buf_struct_expand: twice the space for the same bytes.
Expanded(r) == [r EXCEPT !.space = 2 * r.space]

\* getaddrinfo for the port of the command line; a failure ends the program.
Setup ==
    /\ pc = "start"
    /\ pc' \in {"listen", "exit"}
    /\ UNCHANGED <<script, taken, closed, buf, scan, begin, fully, req, replies>>

\* socket, bind and listen, for the first address only.
Listen ==
    /\ pc = "listen"
    /\ pc' \in {"accept", "exit"}
    /\ UNCHANGED <<script, taken, closed, buf, scan, begin, fully, req, replies>>

\* The one accept.  It gets a length that was never initialised and may fail.
Accept ==
    /\ pc = "accept"
    /\ pc' \in {"recv", "exit"}
    /\ UNCHANGED <<script, taken, closed, buf, scan, begin, fully, req, replies>>

\* The client closes the connection, at any time after it was accepted.
Close ==
    /\ pc \notin {"start", "listen", "accept"} /\ ~closed
    /\ closed' = TRUE
    /\ UNCHANGED <<pc, script, taken, buf, scan, begin, fully, req, replies>>

\* recv of the outer loop: neither scanner_index nor req_begin_index is reset.
Recv ==
    /\ pc = "recv"
    /\ \E piece \in Pieces :
          /\ taken' = taken + Len(piece)
          /\ buf' = Received(buf, piece)
    /\ pc' = "scan"
    /\ UNCHANGED <<script, closed, scan, begin, fully, req, replies>>

\* recv returns 0, or less after a reset that discards what was under way.
RecvEnds ==
    /\ pc \in {"recv", "recv2"} /\ closed
    /\ pc' = "exit"
    /\ UNCHANGED <<script, taken, closed, buf, scan, begin, fully, req, replies>>

\* Mutant: the scan advances by two positions.
ScanSkipTooFar ==
    /\ pc = "scan" /\ InScan(buf, scan) /\ ~TerminatorAt(buf, scan)
    /\ scan' = scan + 2
    /\ UNCHANGED <<pc, script, taken, closed, buf, begin, fully, req, replies>>
\* One turn of the outer scan loop that finds no terminator.
ScanSkip ==
    /\ pc = "scan" /\ InScan(buf, scan) /\ ~TerminatorAt(buf, scan)
    /\ scan' = scan + 1
    /\ UNCHANGED <<pc, script, taken, closed, buf, begin, fully, req, replies>>

\* One turn that finds the terminator of a request and answers it.
ScanRequest ==
    /\ pc = "scan" /\ InScan(buf, scan) /\ TerminatorAt(buf, scan) /\ scan # begin
    /\ process_request
    /\ IF InScan(buf, scan + 1)
       THEN begin' = scan + Len(http_terminator) /\ UNCHANGED fully
       ELSE fully' = TRUE /\ UNCHANGED begin
    /\ scan' = scan + 1
    /\ UNCHANGED <<pc, script, taken, closed, buf, req>>

\* process_request exits when send fails, which needs a client that has gone.
SendFails ==
    /\ pc = "scan" /\ InScan(buf, scan) /\ TerminatorAt(buf, scan) /\ scan # begin
    /\ closed
    /\ pc' = "exit"
    /\ UNCHANGED <<script, taken, closed, buf, scan, begin, fully, req, replies>>

\* A terminator where the request would begin ends the program.
ScanEmpty ==
    /\ pc = "scan" /\ InScan(buf, scan) /\ TerminatorAt(buf, scan) /\ scan = begin
    /\ pc' = "exit"
    /\ UNCHANGED <<script, taken, closed, buf, scan, begin, fully, req, replies>>

\* The outer scan loop is over: receive anew, or go to a secondary buffer.
ScanDone ==
    /\ pc = "scan" /\ ~InScan(buf, scan)
    /\ IF fully
       THEN pc' = "recv" /\ UNCHANGED req
       ELSE pc' = "recv2" /\ req' = ReqBuf(buf)
    /\ UNCHANGED <<script, taken, closed, buf, scan, begin, fully, replies>>

----------------------------------------------------------------------------
\* recv of the inner loop; the piece is copied behind the bytes of req_buf.
Recv2 ==
    /\ pc = "recv2"
    /\ \E piece \in Pieces :
          LET room == IF req.space - Len(req.bytes) < Len(piece) THEN Expanded(req) ELSE req
          IN  /\ taken' = taken + Len(piece)
              /\ buf' = piece
              /\ req' = [room EXCEPT !.bytes = @ \o piece]
    /\ pc' = "scan2"
    /\ UNCHANGED <<script, closed, scan, begin, fully, replies>>

\* A request found in req_buf is answered and what follows it moved to recv_buf,
\* to be scanned there from wherever its scanner_index stands.
ProcessSecondary ==
    LET remaining == Len(req.bytes) - (req.scan + Len(http_terminator))
    IN  /\ process_request
        /\ IF remaining = 0
           THEN pc' = "recv" /\ scan' = 0 /\ UNCHANGED buf
           ELSE /\ pc' = "scan" /\ UNCHANGED scan
                /\ buf' = SubSeq(req.bytes, Len(req.bytes) - remaining + 1, Len(req.bytes))
        /\ req' = NoBuffer

\* One turn of the inner scan loop.  It never advances scanner_index: unless the
\* terminator is where it looks, the turn changes nothing and the loop spins.
Scan2 ==
    /\ pc = "scan2" /\ InScan(req.bytes, req.scan)
    /\ IF TerminatorAt(req.bytes, req.scan)
       THEN IF req.scan = 0
            THEN pc' = "exit" /\ UNCHANGED <<buf, scan, req, replies>>
            ELSE ProcessSecondary
       ELSE UNCHANGED <<pc, buf, scan, req, replies>>
    /\ UNCHANGED <<script, taken, closed, begin, fully>>

\* Too little for a terminator: back to the inner recv.
Scan2Done ==
    /\ pc = "scan2" /\ ~InScan(req.bytes, req.scan)
    /\ pc' = "recv2"
    /\ UNCHANGED <<script, taken, closed, buf, scan, begin, fully, req, replies>>

Server ==
    \/ Setup \/ Listen \/ Accept \/ Recv \/ RecvEnds
    \/ ScanSkip \/ ScanRequest \/ SendFails \/ ScanEmpty \/ ScanDone
    \/ Recv2 \/ Scan2 \/ Scan2Done

Next == Server \/ Close
Spec == Init /\ [][Next]_vars

\* The operating system keeps running the server, and TCP delivers what was sent.
FairSpec == Spec /\ WF_vars(Server)

----------------------------------------------------------------------------
\* How many requests of the client end within its first n bytes.
Ended(n) == Cardinality({ k \in 1 .. Len(script) : EndOf(script, k) <= n })

\* The client sends no request that consists of the terminator alone.
NoEmptyRequest == \A k \in 1 .. Len(script) : script[k] # http_terminator

\* However the stream is cut into pieces, and although the scanner's position
\* and the start of the request survive from one piece to the next, no answer is
\* sent without a request of its own that was received completely.
NoSpuriousReply == NoEmptyRequest => replies <= Ended(taken)

\* Pipelining within one piece: when the server waits again after a first piece
\* that ended with a request, all requests of the piece have been answered.
FirstPieceAnswered ==
    pc = "recv" /\ Len(buf) = taken /\ taken > 0 /\ NoEmptyRequest => replies = Ended(taken)

\* The secondary buffer holds the stream from its first byte without a gap, and
\* never more of it than its first allocation can hold, whatever the pieces were:
\* buf_struct_expand is never called.
SecondaryIntact ==
    pc \in {"recv2", "scan2"} =>
        /\ req.bytes = SubSeq(input, 1, taken)
        /\ Len(req.bytes) <= req.space /\ req.space = 2 * BufSize

\* As the test packets.py wants it: a server whose client stays connected, and
\* sends no empty request, has answered all requests it was sent in the end.
EveryRequestAnswered ==
    [](pc = "recv" /\ taken = 0 /\ NoEmptyRequest =>
          <>(closed \/ replies = Len(script)))
=============================================================================
