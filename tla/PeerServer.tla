----------------------------- MODULE PeerServer -----------------------------
(***************************************************************************)
(* The event loop of one peer (server.c): the list of its connections,     *)
(* the rounds of poll, scan, sweep and accept, the reassembly of packets   *)
(* from headers and bodies that arrive in pieces, and the request table    *)
(* entries that name a connection by its file descriptor while its client  *)
(* waits (requests.c, and the callback in peer.c).                         *)
(*                                                                         *)
(* A connection carries one packet, of which only the number of bytes and  *)
(* the way the callback treats it matter: "own" is answered at once (by    *)
(* this peer or through a proxy), "far" waits in the request table for a   *)
(* reply, "lkup" is passed on, "rply" serves the waiting requests. All far *)
(* requests have one hash. The environment opens connections, sends bytes, *)
(* and leaves; the server may be interrupted by it between any two steps.  *)
(***************************************************************************)
EXTENDS Naturals, Sequences, FiniteSets

CONSTANTS Conn,       \* connections that are opened to this peer
          Kind,       \* what its packet is
          BodyLen,    \* bytes of its packet behind the header
          HdrLen,     \* PKT_HEADER_LEN
          Impatient,  \* connections whose client may leave before the answer
          None

Kinds == {"own", "far", "lkup", "rply"}

ASSUME ConnAssumption ==
    /\ IsFiniteSet(Conn)
    /\ None \notin Conn
    /\ Kind \in [Conn -> Kinds]
    /\ BodyLen \in [Conn -> Nat]
    /\ HdrLen \in Nat \ {0}
    /\ Impatient \subseteq Conn

VARIABLES clients,    \* srv->clients, the newest connection in front
          client,     \* fd, state and fill of the buffers of a connection
          files,      \* which connection a file descriptor denotes
          rt,         \* open requests: a descriptor, and the client it meant
          pc,         \* where the server is in its round
          polled,     \* the connections passed to poll, None where not POLLIN
          accepting,  \* whether it returned POLLIN for the listening socket
          i,          \* position of the scan
          backlog,    \* connections not accepted yet
          opened,     \* connections that have been opened
          unsent,     \* bytes the other end has not sent yet
          inbox,      \* bytes it has sent and the server has not received
          left,       \* connections closed by the other end
          broken,     \* connections reset by the other end
          answers,    \* how many answers, and to whom, were written to a connection
          eof         \* connections closed by the server

server == <<clients, client, files, rt, pc, polled, accepting, i>>
network == <<backlog, opened, unsent, inbox, left, broken>>
vars == <<server, network, answers, eof>>

\* Descriptors the server has for its connections, and the -1 of a failed accept.
Fd == 1..Cardinality(Conn)
NoFd == 0

Listed == {clients[j] : j \in DOMAIN clients}

Client == [fd : Fd \cup {NoFd}, state : {"IDLE", "HDR_RECVD", "REMOVE"},
           hdr : 0..HdrLen, body : Nat]

NewClient(f) == [fd |-> f, state |-> "IDLE", hdr |-> 0, body |-> 0]

TypeOK ==
    /\ clients \in Seq(Conn)
    /\ client \in [Conn -> Client]
    /\ files \in [Fd -> Conn \cup {None}]
    /\ rt \in Seq([socket : Fd, asker : Conn])
    /\ pc \in {"poll", "scan", "accept", "crashed", "stopped"}
    /\ polled \in Seq(Conn \cup {None})
    /\ accepting \in BOOLEAN
    /\ i \in Nat \ {0}
    /\ backlog \in Seq(Conn)
    /\ opened \subseteq Conn
    /\ unsent \in [Conn -> Nat]
    /\ inbox \in [Conn -> Nat]
    /\ left \subseteq Conn
    /\ broken \subseteq Conn
    /\ answers \in [Conn -> [Conn -> Nat]]
    /\ eof \subseteq Conn

Init ==
    /\ clients = <<>>
    /\ client = [x \in Conn |-> NewClient(NoFd)]
    /\ files = [f \in Fd |-> None]
    /\ rt = <<>>
    /\ pc = "poll"
    /\ polled = <<>>
    /\ accepting = FALSE
    /\ i = 1
    /\ backlog = <<>>
    /\ opened = {}
    /\ unsent = [x \in Conn |-> HdrLen + BodyLen[x]]
    /\ inbox = [x \in Conn |-> 0]
    /\ left = {}
    /\ broken = {}
    /\ answers = [x \in Conn |-> [y \in Conn |-> 0]]
    /\ eof = {}

-----------------------------------------------------------------------------
(* The other ends of the connections.                                      *)

Connect(x) ==
    /\ x \notin opened
    /\ pc \notin {"stopped", "crashed"}
    /\ opened' = opened \cup {x}
    /\ backlog' = Append(backlog, x)
    /\ UNCHANGED <<server, unsent, inbox, left, broken, answers, eof>>

Transmit(x) ==
    /\ x \in opened \ (left \cup broken \cup eof)
    /\ \E n \in 1..unsent[x] :
         /\ unsent' = [unsent EXCEPT ![x] = @ - n]
         /\ inbox' = [inbox EXCEPT ![x] = @ + n]
    /\ UNCHANGED <<server, backlog, opened, left, broken, answers, eof>>

\* forward closes the connection of a control packet behind it; a client that
\* does not wait may close or reset its connection at any time.
Leave(x) ==
    /\ x \in opened \ (left \cup broken \cup eof)
    /\ x \in Impatient \/ (Kind[x] \in {"lkup", "rply"} /\ unsent[x] = 0)
    /\ left' = left \cup {x}
    /\ UNCHANGED <<server, backlog, opened, unsent, inbox, broken, answers, eof>>

\* What has arrived before a reset can still be received.
Reset(x) ==
    /\ x \in (opened \cap Impatient) \ (left \cup broken \cup eof)
    /\ broken' = broken \cup {x}
    /\ UNCHANGED <<server, backlog, opened, unsent, inbox, left, answers, eof>>

-----------------------------------------------------------------------------
(* The server.                                                             *)

\* Connections with something to read: bytes or the end of the stream. A reset
\* one has POLLERR and POLLHUP as well, which is not equal to POLLIN.
Readable ==
    {x \in Listed : client[x].fd # NoFd /\ x \notin broken /\ (inbox[x] > 0 \/ x \in left)}

Poll ==
    /\ pc = "poll"
    /\ Readable # {} \/ backlog # <<>>
    /\ pc' = "scan"
    /\ polled' = [j \in DOMAIN clients |-> IF clients[j] \in Readable THEN clients[j] ELSE None]
    /\ accepting' = (backlog # <<>>)
    /\ i' = 1
    /\ UNCHANGED <<clients, client, files, rt, network, answers, eof>>

\* Mutated At: the scan ends one client early.
AtShort(j) ==
    /\ pc = "scan"
    /\ i <= j /\ j < Len(clients) /\ j <= Len(polled)
    /\ polled[j] # None
    /\ \A k \in i..(j - 1) : polled[k] = None

\* The scan has come to position j: it passes over what is not ready, and ends
\* at the number of clients, which removals have lowered under it.
At(j) ==
    /\ pc = "scan"
    /\ i <= j /\ j <= Len(clients) /\ j <= Len(polled)
    /\ polled[j] # None
    /\ \A k \in i..(j - 1) : polled[k] = None

Scanning(x) == \E j \in DOMAIN polled : At(j) /\ polled[j] = x /\ i' = j + 1

\* The list without the client x.
Without(x) ==
    LET k == CHOOSE k \in DOMAIN clients : clients[k] = x
    IN  SubSeq(clients, 1, k - 1) \o SubSeq(clients, k + 1, Len(clients))

\* Mutated RemoveClient: the descriptor is not closed.
RemoveClientOpen(x, cl) ==
    /\ clients' = Without(x)
    /\ client' = [cl EXCEPT ![x] = NewClient(NoFd)]
    /\ inbox' = [inbox EXCEPT ![x] = 0]
    /\ eof' = eof \cup {x}
    /\ UNCHANGED files

\* server_remove_client, with cl for the states of the connections so far.
RemoveClient(x, cl) ==
    /\ clients' = Without(x)
    /\ client' = [cl EXCEPT ![x] = NewClient(NoFd)]
    /\ files' = [files EXCEPT ![client[x].fd] = None]
    /\ inbox' = [inbox EXCEPT ![x] = 0]
    /\ eof' = eof \cup {x}

\* Mutated Received: more bytes are asked for than the buffer has room for.
ReceivedAll(x, room) == inbox[x]

\* The bytes that recv delivers from connection x for a buffer with room bytes.
Received(x, room) == IF inbox[x] < room THEN inbox[x] ELSE room

\* recv of a header: client_decode_hdr once it is complete.
ScanHeader(x) ==
    /\ Scanning(x)
    /\ client[x].state = "IDLE"
    /\ LET n == Received(x, HdrLen - client[x].hdr)
           h == client[x].hdr + n
       IN
       /\ n > 0
       /\ inbox' = [inbox EXCEPT ![x] = @ - n]
       /\ client' = [client EXCEPT ![x] =
                        IF h = HdrLen THEN [@ EXCEPT !.state = "HDR_RECVD", !.hdr = 0]
                                      ELSE [@ EXCEPT !.hdr = h]]
    /\ UNCHANGED <<clients, files, rt, pc, polled, accepting,
                   backlog, opened, unsent, left, broken, answers, eof>>

\* The bytes of the body that recv delivers for x.
BodyBytes(x) == Received(x, BodyLen[x] - client[x].body)

\* Mutated ScanBody: the bytes received are not written to pkt_buf.
ScanBodyDropped(x) ==
    /\ Scanning(x)
    /\ client[x].state = "HDR_RECVD"
    /\ BodyBytes(x) > 0
    /\ client[x].body + BodyBytes(x) < BodyLen[x]
    /\ inbox' = [inbox EXCEPT ![x] = @ - BodyBytes(x)]
    /\ UNCHANGED <<clients, client, files, rt, pc, polled, accepting,
                   backlog, opened, unsent, left, broken, answers, eof>>

\* recv of a part of the body.
ScanBody(x) ==
    /\ Scanning(x)
    /\ client[x].state = "HDR_RECVD"
    /\ BodyBytes(x) > 0
    /\ client[x].body + BodyBytes(x) < BodyLen[x]
    /\ inbox' = [inbox EXCEPT ![x] = @ - BodyBytes(x)]
    /\ client' = [client EXCEPT ![x].body = @ + BodyBytes(x)]
    /\ UNCHANGED <<clients, files, rt, pc, polled, accepting,
                   backlog, opened, unsent, left, broken, answers, eof>>

\* The body of x is complete: client_decode_body, and the packet is delivered.
FullPacket(x) ==
    /\ Scanning(x)
    /\ client[x].state = "HDR_RECVD"
    /\ BodyBytes(x) > 0
    /\ client[x].body + BodyBytes(x) = BodyLen[x]
    /\ UNCHANGED <<pc, polled, accepting, backlog, opened, unsent, left, broken>>

\* handle_own_request or proxy_request: answered, CB_REMOVE_CLIENT.
DeliverOwn(x) ==
    /\ Kind[x] = "own"
    /\ FullPacket(x)
    /\ answers' = [answers EXCEPT ![x][x] = @ + 1]
    /\ RemoveClient(x, client)
    /\ UNCHANGED rt

\* Mutated DeliverFar: the callback returns CB_REMOVE_CLIENT.
DeliverFarRemoves(x) ==
    /\ Kind[x] = "far"
    /\ FullPacket(x)
    /\ rt' = Append(rt, [socket |-> client[x].fd, asker |-> x])
    /\ RemoveClient(x, client)
    /\ UNCHANGED answers

\* add_request: the client waits, CB_OK.
DeliverFar(x) ==
    /\ Kind[x] = "far"
    /\ FullPacket(x)
    /\ rt' = Append(rt, [socket |-> client[x].fd, asker |-> x])
    /\ client' = [client EXCEPT ![x] = NewClient(@.fd)]
    /\ inbox' = [inbox EXCEPT ![x] = @ - BodyBytes(x)]
    /\ UNCHANGED <<clients, files, answers, eof>>

\* A lookup is answered or passed on over other connections.
DeliverLookup(x) ==
    /\ Kind[x] = "lkup"
    /\ FullPacket(x)
    /\ RemoveClient(x, client)
    /\ UNCHANGED <<rt, answers>>

\* Mutated CloseSockets: every client is marked.
CloseSocketsAll ==
    [x \in Conn |-> IF x \in Listed THEN [client[x] EXCEPT !.state = "REMOVE"] ELSE client[x]]

\* server_close_socket for every open request.
CloseSockets ==
    [x \in Conn |-> IF x \in Listed /\ \E j \in DOMAIN rt : rt[j].socket = client[x].fd
                      THEN [client[x] EXCEPT !.state = "REMOVE"]
                      ELSE client[x]]

\* Mutated DeliverReply: all answers go to the descriptor of the first request.
DeliverReplyToFirst(x) ==
    /\ Kind[x] = "rply"
    /\ FullPacket(x)
    /\ answers' = [y \in Conn |-> [z \in Conn |-> answers[y][z]
                     + Cardinality({j \in DOMAIN rt : files[Head(rt).socket] = y /\ rt[j].asker = z})]]
    /\ rt' = <<>>
    /\ RemoveClient(x, CloseSockets)

\* The open requests of asker z whose descriptor denotes connection y by now.
Written(y, z) == {j \in DOMAIN rt : files[rt[j].socket] = y /\ rt[j].asker = z}

(***************************************************************************)
(* A reply: the answer of each open request goes to whatever connection    *)
(* its descriptor denotes by now (to none when it is closed), which is     *)
(* marked for removal, and the open requests are cleared.                  *)
(***************************************************************************)
DeliverReply(x) ==
    /\ Kind[x] = "rply"
    /\ FullPacket(x)
    /\ answers' = [y \in Conn |-> [z \in Conn |-> answers[y][z] + Cardinality(Written(y, z))]]
    /\ rt' = <<>>
    /\ RemoveClient(x, CloseSockets)

\* Mutated ScanClosed: the end of the stream is only seen behind a header.
ScanClosedInBody(x) ==
    /\ Scanning(x)
    /\ client[x].state = "HDR_RECVD" /\ BodyBytes(x) = 0
    /\ RemoveClient(x, client)
    /\ UNCHANGED <<rt, pc, polled, accepting, backlog, opened, unsent, left, broken, answers>>

\* recv returns 0: the other end has left, or the buffer has no room at all. It never
\* returns -1 here, not even after a reset: what poll reported is received first.
ScanClosed(x) ==
    /\ Scanning(x)
    /\ \/ client[x].state = "IDLE" /\ inbox[x] = 0
       \/ client[x].state = "HDR_RECVD" /\ BodyBytes(x) = 0
    /\ RemoveClient(x, client)
    /\ UNCHANGED <<rt, pc, polled, accepting, backlog, opened, unsent, left, broken, answers>>

\* A connection marked for removal earlier in this scan is readable: it has no
\* pkt_buf any more, and rb_can_write reads through a null pointer.
ScanMarked(x) ==
    /\ Scanning(x)
    /\ client[x].state = "REMOVE"
    /\ pc' = "crashed"
    /\ UNCHANGED <<clients, client, files, rt, polled, accepting, network, answers, eof>>

\* The scan is over, for want of clients or of positions.
ScanOver == pc = "scan" /\ \A j \in DOMAIN polled : ~At(j)

\* Behind the scan: the next marked client of the list is removed.
Sweep(x) ==
    /\ ScanOver
    /\ \E j \in DOMAIN clients :
         /\ clients[j] = x /\ client[x].state = "REMOVE"
         /\ \A k \in 1..(j - 1) : client[clients[k]].state # "REMOVE"
    /\ RemoveClient(x, client)
    /\ UNCHANGED <<rt, pc, polled, accepting, i, backlog, opened, unsent, left, broken, answers>>

\* No marked client is left: accept if poll said so, and the next round.
ScanEnd ==
    /\ ScanOver
    /\ \A x \in Listed : client[x].state # "REMOVE"
    /\ pc' = IF accepting THEN "accept" ELSE "poll"
    /\ polled' = <<>>
    /\ i' = 1
    /\ UNCHANGED <<clients, client, files, rt, accepting, network, answers, eof>>

\* server_add_client: the lowest free descriptor, in front of the list.
Accept ==
    LET x == Head(backlog)
        f == CHOOSE f \in Fd : files[f] = None /\ \A g \in Fd : g < f => files[g] # None
    IN
    /\ pc = "accept"
    /\ pc' = "poll"
    /\ backlog' = Tail(backlog)
    /\ clients' = <<x>> \o clients
    /\ files' = [files EXCEPT ![f] = x]
    /\ client' = [client EXCEPT ![x] = NewClient(f)]
    /\ accepting' = FALSE
    /\ UNCHANGED <<rt, polled, i, opened, unsent, inbox, left, broken, answers, eof>>

\* addr_len is passed to accept uninitialised: a negative one makes it fail, the
\* connection is dropped and the list gains a client with socket -1.
AcceptFails ==
    LET x == Head(backlog) IN
    /\ pc = "accept"
    /\ pc' = "poll"
    /\ backlog' = Tail(backlog)
    /\ clients' = <<x>> \o clients
    /\ client' = [client EXCEPT ![x] = NewClient(NoFd)]
    /\ eof' = eof \cup {x}
    /\ accepting' = FALSE
    /\ UNCHANGED <<files, rt, polled, i, opened, unsent, inbox, left, broken, answers>>

\* A key pressed on stdin: server_stop, and the process ends.
Stop ==
    /\ pc = "poll"
    /\ pc' = "stopped"
    /\ clients' = <<>>
    /\ client' = [x \in Conn |-> NewClient(NoFd)]
    /\ files' = [f \in Fd |-> None]
    /\ eof' = opened
    /\ backlog' = <<>>
    /\ inbox' = [x \in Conn |-> 0]
    /\ UNCHANGED <<rt, polled, accepting, i, opened, unsent, left, broken, answers>>

Deliver(x) == DeliverOwn(x) \/ DeliverFar(x) \/ DeliverLookup(x) \/ DeliverReply(x)

ServerStep ==
    \/ Poll \/ ScanEnd \/ Accept \/ AcceptFails
    \/ \E x \in Conn :
         \/ ScanHeader(x) \/ ScanBody(x) \/ Deliver(x)
         \/ ScanClosed(x) \/ ScanMarked(x)
         \/ Sweep(x)

Environment == \E x \in Conn : Connect(x) \/ Transmit(x) \/ Leave(x) \/ Reset(x)

Next == ServerStep \/ Environment \/ Stop

Spec == Init /\ [][Next]_vars

\* The server keeps going round its loop; nothing obliges the other ends.
FairSpec == Spec /\ WF_vars(ServerStep)

-----------------------------------------------------------------------------
(***************************************************************************)
(* The client list and the descriptors agree (server_add_client,           *)
(* server_remove_client, server_close_socket): a connection is listed at   *)
(* most once, a descriptor denotes the listed connection that holds it,    *)
(* and no connection the server has closed keeps one.                      *)
(***************************************************************************)
ListMatchesFiles ==
    /\ \A j, k \in DOMAIN clients : clients[j] = clients[k] => j = k
    /\ \A f \in Fd : files[f] # None =>
           files[f] \in Listed \ eof /\ client[files[f]].fd = f
    /\ \A x \in Listed : client[x].fd # NoFd => files[client[x].fd] = x

(***************************************************************************)
(* The scan takes the bytes of a packet apart at the right place, however  *)
(* they arrive (client_decode_hdr, client_decode_body): of a packet not    *)
(* delivered yet, the bytes in the buffers of the server, in the socket    *)
(* and not yet sent are all the bytes there are.                           *)
(***************************************************************************)
BytesAccounted ==
    \A x \in Listed :
        LET c == client[x]
            held == IF c.state = "IDLE" THEN c.hdr ELSE HdrLen + c.body
            delivered == c.state = "REMOVE" \/ \E j \in DOMAIN rt : rt[j].asker = x
        IN  c.fd # NoFd /\ ~delivered =>
                unsent[x] + inbox[x] + held = HdrLen + BodyLen[x]

\* No client that asks has left or reset its connection so far.
AllPatient == broken = {} /\ \A x \in left : Kind[x] \in {"lkup", "rply"}

(***************************************************************************)
(* While no client leaves early, the descriptor of an open request denotes *)
(* the client that made it, from add_request to clear_requests, whatever   *)
(* connections come and go in between.                                     *)
(***************************************************************************)
WaitingClientKept ==
    AllPatient /\ pc # "stopped" => \A j \in DOMAIN rt : files[rt[j].socket] = rt[j].asker

(***************************************************************************)
(* A client reads the answer to its own request and no other, and reads    *)
(* it once (tests: "Peer answered to client with wrong key!").             *)
(***************************************************************************)
AnswerToAsker ==
    \A x, y \in Conn :
        Kind[x] \in {"own", "far"} => answers[x][y] <= (IF x = y THEN 1 ELSE 0)

(***************************************************************************)
(* The answers reach those who asked as long as no client leaves early,    *)
(* although each is sent to a number that was stored two messages before.  *)
(***************************************************************************)
PatientGetTheirs == AllPatient => AnswerToAsker

(***************************************************************************)
(* Only a client that leaves while it waits can bring the server down: the *)
(* scan after a reply, over a list with marked clients, never meets one    *)
(* of them readable otherwise ("Starting server. Press any key to exit."). *)
(***************************************************************************)
CrashNeedsLeaver == AllPatient => pc # "crashed"

(***************************************************************************)
(* A packet that has been sent completely is delivered: its connection is  *)
(* closed, or its request waits in the request table, even though the      *)
(* scan stops short of the last clients when it has removed others. Only   *)
(* a reset connection, whose events never equal POLLIN, stays undelivered. *)
(***************************************************************************)
PacketDelivered ==
    \A x \in Conn :
        (x \in opened /\ unsent[x] = 0) ~>
            \/ x \in eof \cup broken
            \/ pc \in {"stopped", "crashed"}
            \/ \E j \in DOMAIN rt : rt[j].asker = x

(***************************************************************************)
(* A connection closed by its other end is forgotten: the server finds the *)
(* end of the stream and removes it from its list.                         *)
(***************************************************************************)
LeaverForgotten ==
    \A x \in Conn : (x \in left) ~> (x \in eof \/ pc \in {"stopped", "crashed"})

=============================================================================
