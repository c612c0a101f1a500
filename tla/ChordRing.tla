----------------------------- MODULE ChordRing ------------------------------
(***************************************************************************)
(* The peers of the ring and the clients that talk to them: the packet     *)
(* handlers of peer.c, the tables they work on (hash_table.c,              *)
(* requests.c) and one request per client process (client.c).              *)
(*                                                                         *)
(* A peer is one thread. It reads packets from its connections in an       *)
(* order nobody controls, and handles each one to its end before it reads  *)
(* the next. The one handler that waits is proxy_request: it sends a       *)
(* request to another peer and reads the answer until that peer closes     *)
(* the connection. Every packet travels on a TCP connection of its own,    *)
(* so net holds, for each peer, the packets sent to it that it has not     *)
(* read yet; a connection is named after the client that opened it, or     *)
(* after the peer that waits on it in proxy_request.                       *)
(***************************************************************************)
EXTENDS Responsibility, FiniteSets

CONSTANTS Clients,    \* client processes, each with one request
          Requests,   \* the data packets they may send
          Gateways,   \* the peers they may connect to
          MayStop,    \* the peers whose operator may stop them
          None,
          Garbage     \* bytes relayed after a connection was reset

VARIABLES ht,         \* hash table of every peer: the value of every key
          rt,         \* request table of every peer: open requests by hash
          net,        \* packets a peer has yet to read
          status,     \* idle, proxying, hung or stopped
          job,        \* what the peer is proxying
          marked,     \* connections in state REMOVE
          stream,     \* what has been written to a connection
          eof,        \* connections closed by the peer at their other end
          sent        \* the request of every client

vars == <<ht, rt, net, status, job, marked, stream, eof, sent>>

Sockets == Clients \cup Peers

Keys == {r.key : r \in Requests}

Hashes == {PseudoHash(k) : k \in Keys}

\* A data packet: the flags that are set, the key and the value.
Packet == [flags : SUBSET {"GET", "SET", "DEL", "ACK"}, key : Seq(Byte), value : Seq(Byte)]

ASSUME RequestsAssumption == Requests \subseteq Packet

\* client.c: one of three commands, and a key taken from the command line, which
\* has no zero byte.
ASSUME CommandAssumption ==
    \A r \in Requests : /\ r.flags \in {{"GET"}, {"SET"}, {"DEL"}}
                       /\ \A i \in DOMAIN r.key : r.key[i] # 0

ASSUME NamesAssumption ==
    /\ Clients \cap Peers = {}
    /\ Gateways \subseteq Peers
    /\ MayStop \subseteq Peers

ASSUME NoneAssumption ==
    /\ None # Garbage
    /\ {None, Garbage} \cap (Seq(Byte) \cup Packet) = {}

OpenRequest == [socket : Sockets, packet : Requests]

Job == [node : Peers, hash_id : Hashes, reply : BOOLEAN, queue : Seq(OpenRequest)]

DataMsg == [type : {"data"}, conn : Sockets, packet : Requests]

CtrlMsg == [type : {"lkup", "rply"}, conn : Sockets, hash_id : Hashes, node : Peers]

Msg == DataMsg \cup CtrlMsg

TypeOK ==
    /\ ht \in [Peers -> [Keys -> Seq(Byte) \cup {None}]]
    /\ rt \in [Peers -> [Hashes -> Seq(OpenRequest)]]
    /\ net \in [Peers -> SUBSET Msg]
    /\ status \in [Peers -> {"idle", "proxying", "hung", "stopped"}]
    /\ job \in [Peers -> Job \cup {None}]
    /\ \A p \in Peers : status[p] \in {"proxying", "hung"} =>
                            job[p] \in Job /\ job[p].queue # <<>>
    /\ marked \in [Peers -> SUBSET Sockets]
    /\ stream \in [Sockets -> Packet \cup {None, Garbage}]
    /\ eof \subseteq Sockets
    /\ sent \in [Clients -> Requests \cup {None}]

Init ==
    /\ ht = [p \in Peers |-> [k \in Keys |-> None]]
    /\ rt = [p \in Peers |-> [h \in Hashes |-> <<>>]]
    /\ net = [p \in Peers |-> {}]
    /\ status = [p \in Peers |-> "idle"]
    /\ job = [p \in Peers |-> None]
    /\ marked = [p \in Peers |-> {}]
    /\ stream = [s \in Sockets |-> None]
    /\ eof = {}
    /\ sent = [c \in Clients |-> None]

-----------------------------------------------------------------------------
(* handle_own_request                                                      *)

\* strncpy: every byte from the first zero byte on is copied as zero.
StrNCpy(s) == [i \in DOMAIN s |-> IF \E j \in 1..i : s[j] = 0 THEN 0 ELSE s[i]]

\* Mutated TableAfter: a SET of a bound key leaves the old value in place.
TableAfterKeepsOld(t, r) ==
    IF "GET" \in r.flags THEN t
    ELSE IF "SET" \in r.flags
      THEN [t EXCEPT ![r.key] = IF @ = None THEN r.value ELSE @]
    ELSE [t EXCEPT ![r.key] = None]

\* The table after request r. The test for DEL holds for every packet, so that
\* whatever is neither a GET nor a SET deletes.
TableAfter(t, r) ==
    IF "GET" \in r.flags THEN t
    ELSE IF "SET" \in r.flags THEN [t EXCEPT ![r.key] = r.value]
    ELSE [t EXCEPT ![r.key] = None]

\* The acknowledgement sent for request r.
Ack(t, r) ==
    IF "GET" \in r.flags
      THEN IF t[r.key] # None
             THEN [flags |-> {"GET", "ACK"}, key |-> StrNCpy(r.key), value |-> StrNCpy(t[r.key])]
             ELSE [flags |-> {"GET", "ACK"}, key |-> <<>>, value |-> <<>>]
    ELSE IF "SET" \in r.flags
      THEN [flags |-> {"SET", "ACK"}, key |-> <<>>, value |-> <<>>]
    ELSE [flags |-> {"DEL", "ACK"}, key |-> <<>>, value |-> <<>>]

-----------------------------------------------------------------------------
(* forward: connect, send, and for a control packet disconnect. A peer     *)
(* that stopped refuses the connection; every other one has the packet     *)
(* waiting for it, however busy it is.                                     *)

Forwarded(nt, n, m) ==
    IF status[n] = "stopped" THEN nt ELSE [nt EXCEPT ![n] = @ \cup {m}]

\* What is left to read once p has read packet m.
Read(p, m) == [net EXCEPT ![p] = @ \ {m}]

(***************************************************************************)
(* The first half of proxy_request, for the first request of queue: the    *)
(* status of forward is ignored, and recvall on a socket that was never    *)
(* connected fails for ever without leaving its loop.                      *)
(***************************************************************************)
StartProxy(nt, p, n, h, reply, queue) ==
    /\ net' = Forwarded(nt, n, [type |-> "data", conn |-> p, packet |-> Head(queue).packet])
    /\ status' = [status EXCEPT ![p] = IF status[n] = "stopped" THEN "hung" ELSE "proxying"]
    /\ job' = [job EXCEPT ![p] = [node |-> n, hash_id |-> h, reply |-> reply, queue |-> queue]]

\* Mutated LookupPeer: add_request without the lookup behind it.
LookupPeerNotSent(nt, p, s, h) == nt

\* lookup_peer, on behalf of the connection s that waits for the answer.
LookupPeer(nt, p, s, h) ==
    Forwarded(nt, Succ[p], [type |-> "lkup", conn |-> s, hash_id |-> h, node |-> p])

\* add_request: the request is appended to the open ones of its hash.
AddRequest(p, h, s, r) ==
    [rt EXCEPT ![p][h] = Append(@, [socket |-> s, packet |-> r])]

\* Mutated ClearRequests: the served requests stay in the table.
ClearRequestsNot(p, h) == rt

\* clear_requests
ClearRequests(p, h) == [rt EXCEPT ![p][h] = <<>>]

-----------------------------------------------------------------------------
(* The client and the handlers of a peer.                                  *)

\* client.c: connect to a peer and send the one request of this process.
Send(c, p) ==
    /\ sent[c] = None
    /\ status[p] # "stopped"
    /\ \E r \in Requests :
         /\ sent' = [sent EXCEPT ![c] = r]
         /\ net' = [net EXCEPT ![p] = @ \cup {[type |-> "data", conn |-> c, packet |-> r]}]
    /\ UNCHANGED <<ht, rt, status, job, marked, stream, eof>>

\* handle_packet_data: the hash is our own.
HandleOwnRequest(p) ==
    /\ status[p] = "idle"
    /\ \E m \in net[p] :
         /\ m.type = "data"
         /\ OwnHash(p, PseudoHash(m.packet.key))
         /\ net' = Read(p, m)
         /\ ht' = [ht EXCEPT ![p] = TableAfter(@, m.packet)]
         /\ stream' = [stream EXCEPT ![m.conn] = Ack(ht[p], m.packet)]
         /\ eof' = eof \cup {m.conn}
    /\ UNCHANGED <<rt, status, job, marked, sent>>

\* handle_packet_data: the hash is our successor's.
HandleSuccRequest(p) ==
    /\ status[p] = "idle"
    /\ \E m \in net[p] :
         LET h == PseudoHash(m.packet.key) IN
         /\ m.type = "data"
         /\ ~OwnHash(p, h)
         /\ SuccHash(p, h)
         /\ StartProxy(Read(p, m), p, Succ[p], h, FALSE,
                       <<[socket |-> m.conn, packet |-> m.packet]>>)
    /\ UNCHANGED <<ht, rt, marked, stream, eof, sent>>

\* Mutated HandleFarRequest: the successor's hashes are looked up as well.
HandleFarRequestAll(p) ==
    /\ status[p] = "idle"
    /\ \E m \in net[p] :
         LET h == PseudoHash(m.packet.key) IN
         /\ m.type = "data"
         /\ ~OwnHash(p, h)
         /\ rt' = AddRequest(p, h, m.conn, m.packet)
         /\ net' = LookupPeer(Read(p, m), p, m.conn, h)
    /\ UNCHANGED <<ht, status, job, marked, stream, eof, sent>>

\* handle_packet_data: somebody else's hash.
HandleFarRequest(p) ==
    /\ status[p] = "idle"
    /\ \E m \in net[p] :
         LET h == PseudoHash(m.packet.key) IN
         /\ m.type = "data"
         /\ ~OwnHash(p, h)
         /\ ~SuccHash(p, h)
         /\ rt' = AddRequest(p, h, m.conn, m.packet)
         /\ net' = LookupPeer(Read(p, m), p, m.conn, h)
    /\ UNCHANGED <<ht, status, job, marked, stream, eof, sent>>

\* Mutated AnswerLookup: the reply names the peer that answers.
AnswerLookupSelf(p) ==
    /\ status[p] = "idle"
    /\ \E m \in net[p] :
         /\ m.type = "lkup"
         /\ OwnHash(p, m.hash_id) \/ SuccHash(p, m.hash_id)
         /\ net' = Forwarded(Read(p, m), m.node,
                             [type |-> "rply", conn |-> m.conn, hash_id |-> m.hash_id,
                              node |-> p])
    /\ UNCHANGED <<ht, rt, status, job, marked, stream, eof, sent>>

\* handle_packet_ctrl, LKUP: answer_lookup with ourselves or with our successor.
AnswerLookup(p) ==
    /\ status[p] = "idle"
    /\ \E m \in net[p] :
         /\ m.type = "lkup"
         /\ OwnHash(p, m.hash_id) \/ SuccHash(p, m.hash_id)
         /\ net' = Forwarded(Read(p, m), m.node,
                             [type |-> "rply", conn |-> m.conn, hash_id |-> m.hash_id,
                              node |-> IF OwnHash(p, m.hash_id) THEN p ELSE Succ[p]])
    /\ UNCHANGED <<ht, rt, status, job, marked, stream, eof, sent>>

\* Mutated ForwardLookup: a lookup that has come round the ring to its sender is
\* answered by it.
ForwardLookupOnce(p) ==
    /\ status[p] = "idle"
    /\ \E m \in net[p] :
         /\ m.type = "lkup"
         /\ ~OwnHash(p, m.hash_id)
         /\ ~SuccHash(p, m.hash_id)
         /\ net' = Forwarded(Read(p, m), IF m.node = p THEN p ELSE Succ[p],
                             IF m.node = p THEN [m EXCEPT !.type = "rply"] ELSE m)
    /\ UNCHANGED <<ht, rt, status, job, marked, stream, eof, sent>>

\* handle_packet_ctrl, LKUP: passed on to the successor as it is.
ForwardLookup(p) ==
    /\ status[p] = "idle"
    /\ \E m \in net[p] :
         /\ m.type = "lkup"
         /\ ~OwnHash(p, m.hash_id)
         /\ ~SuccHash(p, m.hash_id)
         /\ net' = Forwarded(Read(p, m), Succ[p], m)
    /\ UNCHANGED <<ht, rt, status, job, marked, stream, eof, sent>>

\* handle_packet_ctrl, RPLY: proxy the open requests of the hash, one by one.
HandleReply(p) ==
    /\ status[p] = "idle"
    /\ \E m \in net[p] :
         /\ m.type = "rply"
         /\ rt[p][m.hash_id] # <<>>
         /\ StartProxy(Read(p, m), p, m.node, m.hash_id, TRUE, rt[p][m.hash_id])
    /\ UNCHANGED <<ht, rt, marked, stream, eof, sent>>

\* handle_packet_ctrl, RPLY: an earlier reply has served the open requests.
IgnoreReply(p) ==
    /\ status[p] = "idle"
    /\ \E m \in net[p] :
         /\ m.type = "rply"
         /\ rt[p][m.hash_id] = <<>>
         /\ net' = Read(p, m)
    /\ UNCHANGED <<ht, rt, status, job, marked, stream, eof, sent>>

\* Mutated Relay: every answer goes to the first request of the hash.
RelayToFirst(p) ==
    /\ status[p] = "proxying"
    /\ p \in eof
    /\ LET first == IF job[p].reply THEN rt[p][job[p].hash_id] ELSE job[p].queue IN
         stream' = [stream EXCEPT ![Head(first).socket] =
                                      IF stream[p] = None THEN @ ELSE stream[p],
                                  ![p] = None]

(***************************************************************************)
(* The second half of proxy_request: the other peer has closed the         *)
(* connection, recvall returns what it wrote and the answer is relayed.    *)
(***************************************************************************)
Relay(p) ==
    /\ status[p] = "proxying"
    /\ p \in eof
    /\ stream' = [stream EXCEPT ![Head(job[p].queue).socket] =
                                    IF stream[p] = None THEN @ ELSE stream[p],
                                ![p] = None]

\* Mutated FinishProxy: the peer forgets its job and not that it is busy.
FinishProxyBusy(p) ==
    /\ Relay(p)
    /\ ~job[p].reply
    /\ eof' = (eof \ {p}) \cup {Head(job[p].queue).socket}
    /\ job' = [job EXCEPT ![p] = None]
    /\ UNCHANGED <<ht, rt, net, status, marked, sent>>

\* proxy_request called by handle_packet_data: CB_REMOVE_CLIENT closes the client.
FinishProxy(p) ==
    /\ Relay(p)
    /\ ~job[p].reply
    /\ eof' = (eof \ {p}) \cup {Head(job[p].queue).socket}
    /\ status' = [status EXCEPT ![p] = "idle"]
    /\ job' = [job EXCEPT ![p] = None]
    /\ UNCHANGED <<ht, rt, net, marked, sent>>

\* proxy_request called by the RPLY loop: mark the client and take the next one.
ProxyNext(p) ==
    /\ Relay(p)
    /\ job[p].reply
    /\ Tail(job[p].queue) # <<>>
    /\ eof' = eof \ {p}
    /\ marked' = [marked EXCEPT ![p] = @ \cup {Head(job[p].queue).socket}]
    /\ StartProxy(net, p, job[p].node, job[p].hash_id, TRUE, Tail(job[p].queue))
    /\ UNCHANGED <<ht, rt, sent>>

\* Mutated FinishReply: the last request is answered and its client not marked.
FinishReplyUnmarked(p) ==
    /\ Relay(p)
    /\ job[p].reply
    /\ Tail(job[p].queue) = <<>>
    /\ eof' = eof \ {p}
    /\ rt' = ClearRequests(p, job[p].hash_id)
    /\ status' = [status EXCEPT ![p] = "idle"]
    /\ job' = [job EXCEPT ![p] = None]
    /\ UNCHANGED <<ht, net, marked, sent>>

\* The last turn of the RPLY loop, and clear_requests behind it.
FinishReply(p) ==
    /\ Relay(p)
    /\ job[p].reply
    /\ Tail(job[p].queue) = <<>>
    /\ eof' = eof \ {p}
    /\ marked' = [marked EXCEPT ![p] = @ \cup {Head(job[p].queue).socket}]
    /\ rt' = ClearRequests(p, job[p].hash_id)
    /\ status' = [status EXCEPT ![p] = "idle"]
    /\ job' = [job EXCEPT ![p] = None]
    /\ UNCHANGED <<ht, net, sent>>

\* Mutated Sweep: the state REMOVE is reset and the connection stays open.
SweepWithoutClose(p) ==
    /\ status[p] = "idle"
    /\ marked[p] # {}
    /\ marked' = [marked EXCEPT ![p] = {}]
    /\ UNCHANGED <<ht, rt, net, status, job, stream, eof, sent>>

\* server_run: behind the scan, the connections in state REMOVE are closed.
Sweep(p) ==
    /\ status[p] = "idle"
    /\ marked[p] # {}
    /\ eof' = eof \cup marked[p]
    /\ marked' = [marked EXCEPT ![p] = {}]
    /\ UNCHANGED <<ht, rt, net, status, job, stream, sent>>

(***************************************************************************)
(* Input on stdin ends server_run: server_stop closes every connection     *)
(* and the process exits. A connection with unread bytes is reset, which   *)
(* a peer in recvall takes for bytes received (recv returns -1 into a      *)
(* size_t), unless the bytes had not arrived; all others end cleanly.      *)
(***************************************************************************)
Stop(p) ==
    LET unread == {m.conn : m \in {d \in net[p] : d.type = "data"}}
        waiting == UNION {{rt[p][h][i].socket : i \in DOMAIN rt[p][h]} : h \in Hashes}
    IN
    /\ p \in MayStop
    /\ status[p] = "idle"
    /\ marked[p] = {}
    /\ status' = [status EXCEPT ![p] = "stopped"]
    /\ net' = [net EXCEPT ![p] = {}]
    /\ rt' = [rt EXCEPT ![p] = [h \in Hashes |-> <<>>]]
    /\ eof' = eof \cup unread \cup waiting
    /\ \E reset \in SUBSET (unread \cap Peers) :
         stream' = [s \in Sockets |-> IF s \in reset THEN Garbage ELSE stream[s]]
    /\ UNCHANGED <<ht, job, marked, sent>>

PeerStep(p) ==
    \/ HandleOwnRequest(p) \/ HandleSuccRequest(p) \/ HandleFarRequest(p)
    \/ AnswerLookup(p) \/ ForwardLookup(p)
    \/ HandleReply(p) \/ IgnoreReply(p)
    \/ FinishProxy(p) \/ ProxyNext(p) \/ FinishReply(p)
    \/ Sweep(p)

Next ==
    \/ \E c \in Clients, p \in Gateways : Send(c, p)
    \/ \E p \in Peers : PeerStep(p) \/ Stop(p)

Spec == Init /\ [][Next]_vars

\* A peer that has something to do keeps running; nothing obliges a client.
FairSpec == Spec /\ \A p \in Peers : WF_vars(PeerStep(p))

-----------------------------------------------------------------------------
(***************************************************************************)
(* The branch of handle_packet_ctrl that prints "Lol! This should not      *)
(* happen!" is never taken: a lookup is answered by the predecessor of     *)
(* the owner and never gets as far as the owner itself.                    *)
(***************************************************************************)
LookupMissesOwner ==
    \A p \in Peers : \A m \in net[p] : m.type = "lkup" => ~OwnHash(p, m.hash_id)

(***************************************************************************)
(* proxy_request is only ever called with the owner of the request: what   *)
(* a reply names, what a peer waits on, and where a proxied packet waits   *)
(* is the owner of the hash. Hence a proxied request is never proxied or   *)
(* looked up a second time.                                                *)
(***************************************************************************)
ProxyHitsOwner ==
    \A p \in Peers :
        /\ \A m \in net[p] :
             /\ m.type = "rply" => OwnHash(m.node, m.hash_id)
             /\ m.type = "data" /\ m.conn \in Peers => OwnHash(p, PseudoHash(m.packet.key))
        /\ status[p] \in {"proxying", "hung"} =>
             /\ OwnHash(job[p].node, job[p].hash_id)
             /\ \A i \in DOMAIN job[p].queue :
                  PseudoHash(job[p].queue[i].packet.key) = job[p].hash_id

\* The places where the request of client c can be: unread, in a request table, with
\* a proxy, marked for removal, closed.
UnreadAt(c) ==
    {<<"net", p>> : p \in {q \in Peers : \E m \in net[q] : m.type = "data" /\ m.conn = c}}

OpenAt(c) ==
    UNION {UNION {{<<"rt", p, h, i>> : i \in {j \in DOMAIN rt[p][h] : rt[p][h][j].socket = c}} :
                  h \in Hashes} : p \in Peers}

ProxiedAt(c) ==
    {<<"job", p>> : p \in {q \in Peers : /\ status[q] \in {"proxying", "hung"}
                                        /\ ~job[q].reply
                                        /\ Head(job[q].queue).socket = c}}

MarkedAt(c) ==
    {<<"marked", p>> : p \in {q \in Peers :
        /\ c \in marked[q]
        /\ \A h \in Hashes : \A i \in DOMAIN rt[q][h] : rt[q][h][i].socket # c}}

Places(c) ==
    UnreadAt(c) \cup OpenAt(c) \cup ProxiedAt(c) \cup MarkedAt(c)
        \cup (IF c \in eof THEN {<<"eof">>} ELSE {})

(***************************************************************************)
(* A request is never lost and never duplicated between the request        *)
(* tables, the proxies and the connections (add_request, clear_requests,   *)
(* server_close_socket): from the moment it is sent it is in one place.    *)
(***************************************************************************)
RequestInOnePlace ==
    \A c \in Clients : Cardinality(Places(c)) = IF sent[c] = None THEN 0 ELSE 1

(***************************************************************************)
(* A request in the request table is waiting for something: the lookup     *)
(* sent on its behalf, or its reply, is still under way, unless the reply  *)
(* loop is at work on its hash. A reply that serves the requests of        *)
(* others, or finds none, never strands one that came later.               *)
(***************************************************************************)
LookupUnderWay ==
    \A p \in Peers, h \in Hashes : \A i \in DOMAIN rt[p][h] :
        \/ /\ status[p] \in {"proxying", "hung"}
           /\ job[p].reply
           /\ job[p].hash_id = h
        \/ \E q \in Peers : \E m \in net[q] :
             /\ m.type # "data"
             /\ m.conn = rt[p][h][i].socket
             /\ m.hash_id = h
             /\ m.type = "lkup" => m.node = p
             /\ m.type = "rply" => q = p

\* The lookups under way on behalf of client c, and the replies to them.
CtrlFor(c) ==
    UNION {{<<p, m>> : m \in {d \in net[p] : d.type # "data" /\ d.conn = c}} : p \in Peers}

(***************************************************************************)
(* A request for a hash that nobody is responsible for, at and below the   *)
(* smallest id (peer_is_responsible), holds nobody up: it is not executed, *)
(* not answered, and no peer waits for its answer. It stays in the request *)
(* table of its gateway, and of the lookup that goes round the ring for it *)
(* there is always exactly one: it is not lost, not copied, not replied    *)
(* to.                                                                     *)
(***************************************************************************)
UnownedCircles ==
    \A c \in Clients : sent[c] # None /\ ~Owned(PseudoHash(sent[c].key)) =>
        /\ Places(c) \subseteq UnreadAt(c) \cup OpenAt(c)
        /\ \A p \in Peers : ht[p][sent[c].key] = None
        /\ Cardinality(CtrlFor(c)) = Cardinality(OpenAt(c))
        /\ \A x \in CtrlFor(c) : x[2].type = "lkup"

(***************************************************************************)
(* When no peer can take a step and the request of a client for an owned   *)
(* key is unanswered, some peers wait for one another in proxy_request:    *)
(* the protocol has no other way to get stuck.                             *)
(***************************************************************************)
StuckOnlyInProxyCycle ==
    LET quiet == \A p \in Peers :
                    /\ status[p] = "idle" => net[p] = {} /\ marked[p] = {}
                    /\ status[p] = "proxying" => p \notin eof
        open == {c \in Clients : sent[c] # None /\ Owned(PseudoHash(sent[c].key)) /\ c \notin eof}
    IN  quiet /\ open # {} =>
            \E S \in SUBSET Peers \ {{}} :
                \A p \in S : status[p] = "proxying" /\ job[p].node \in S

(***************************************************************************)
(* What a client reads is the acknowledgement of its own request (tests:   *)
(* "Peer answered to client with wrong key!"), or the garbage that a       *)
(* proxy relays when the owner of its key has stopped, and nothing else.   *)
(***************************************************************************)
AnswerIsOurs ==
    \A c \in Clients : stream[c] # None =>
        /\ sent[c] # None
        /\ IF stream[c] = Garbage
             THEN \E p \in Peers : OwnHash(p, PseudoHash(sent[c].key)) /\ status[p] = "stopped"
             ELSE /\ "ACK" \in stream[c].flags
                  /\ sent[c].flags \subseteq stream[c].flags
                  /\ stream[c].key \in {<<>>, sent[c].key}

(***************************************************************************)
(* A request for a key that some peer owns is answered, and its            *)
(* connection closed (tests: "The TB awaits an acknowledgement to the      *)
(* client").                                                               *)
(***************************************************************************)
OwnedAnswered ==
    \A c \in Clients :
        (sent[c] # None /\ Owned(PseudoHash(sent[c].key))) ~> (c \in eof)

-----------------------------------------------------------------------------
(***************************************************************************)
(* The ring as one map. The value of a key is the one in the table of its  *)
(* owner; the answer of a client is fixed once the owner has executed the  *)
(* request, when it may still be on its way through the proxy.             *)
(***************************************************************************)
StoreBar ==
    [k \in Keys |-> IF Owned(PseudoHash(k))
                      THEN ht[CHOOSE p \in Peers : OwnHash(p, PseudoHash(k))][k]
                      ELSE None]

ProxiesFor(c) ==
    {p \in Peers : status[p] = "proxying" /\ Head(job[p].queue).socket = c}

AnswerBar ==
    [c \in Clients |-> IF stream[c] = None /\ ProxiesFor(c) # {}
                         THEN stream[CHOOSE p \in ProxiesFor(c) : TRUE]
                         ELSE stream[c]]

KV == INSTANCE KVStore WITH store <- StoreBar, request <- sent,
                            answer <- AnswerBar, closed <- eof \cap Clients

\* The ring behaves as one map to its clients, request by request.
IsKVStore == KV!Spec

=============================================================================
