-------------------------- MODULE ChordRingProofs ---------------------------
(***************************************************************************)
(* Proofs about ChordRing for every ring, every set of clients and every   *)
(* set of requests: its type invariant, and the routing invariant from     *)
(* which LookupMissesOwner, ProxyHitsOwner and KeyHeldOnce follow.         *)
(***************************************************************************)
EXTENDS ChordRing, SequenceTheorems, TLAPS

-----------------------------------------------------------------------------
(* The operators the model is built from.                                  *)

\* strncpy copies a byte string to one of the same bytes or zeros.
LEMMA StrNCpyType ==
    ASSUME NEW s \in Seq(Byte)
    PROVE  StrNCpy(s) \in Seq(Byte)
<1>1. /\ Len(s) \in Nat
      /\ DOMAIN s = 1..Len(s)
      /\ \A i \in 1..Len(s) : s[i] \in Byte
  BY LenProperties
<1>2. 0 \in Byte
  BY BaseAssumption DEF Byte
<1>3. StrNCpy(s) \in [1..Len(s) -> Byte]
  BY <1>1, <1>2 DEF StrNCpy
<1> QED
  BY <1>1, <1>3, SeqDef

\* Every request has its key among the keys and its hash among the hashes.
LEMMA RequestType ==
    ASSUME NEW r \in Requests
    PROVE  /\ r \in Packet
           /\ r.key \in Keys
           /\ r.key \in Seq(Byte)
           /\ r.value \in Seq(Byte)
           /\ PseudoHash(r.key) \in Hashes
BY RequestsAssumption DEF Packet, Keys, Hashes

\* The fields of a message, by its type.
LEMMA MsgType ==
    ASSUME NEW m \in Msg
    PROVE  /\ m.conn \in Sockets
           /\ m.type = "data" => m \in DataMsg /\ m.packet \in Requests
           /\ m.type \in {"lkup", "rply"} =>
                  m \in CtrlMsg /\ m.hash_id \in Hashes /\ m.node \in Peers
BY DEF Msg, DataMsg, CtrlMsg

\* Executing a request keeps a hash table one and answers with a packet.
LEMMA OwnRequestType ==
    ASSUME NEW t \in [Keys -> Seq(Byte) \cup {None}], NEW r \in Requests
    PROVE  /\ TableAfter(t, r) \in [Keys -> Seq(Byte) \cup {None}]
           /\ Ack(t, r) \in Packet
<1>1. r.key \in Keys /\ r.key \in Seq(Byte) /\ r.value \in Seq(Byte)
  BY RequestType
<1>2. TableAfter(t, r) \in [Keys -> Seq(Byte) \cup {None}]
  BY <1>1 DEF TableAfter
<1>3. /\ <<>> \in Seq(Byte)
      /\ StrNCpy(r.key) \in Seq(Byte)
      /\ t[r.key] # None => StrNCpy(t[r.key]) \in Seq(Byte)
  BY <1>1, StrNCpyType, EmptySeq
<1>4. Ack(t, r) \in Packet
  BY <1>3 DEF Ack, Packet
<1> QED
  BY <1>2, <1>4

\* forward leaves the network a network.
LEMMA ForwardedType ==
    ASSUME NEW nt \in [Peers -> SUBSET Msg], NEW n \in Peers, NEW m \in Msg
    PROVE  Forwarded(nt, n, m) \in [Peers -> SUBSET Msg]
BY DEF Forwarded

\* Reading a packet leaves the network a network.
LEMMA ReadType ==
    ASSUME NEW p \in Peers, NEW m, net \in [Peers -> SUBSET Msg]
    PROVE  Read(p, m) \in [Peers -> SUBSET Msg]
BY DEF Read

\* The first half of proxy_request keeps the types of what it changes.
LEMMA StartProxyType ==
    ASSUME TypeOK, NEW nt \in [Peers -> SUBSET Msg], NEW p \in Peers, NEW n \in Peers,
           NEW h \in Hashes, NEW reply \in BOOLEAN, NEW queue \in Seq(OpenRequest),
           queue # <<>>, StartProxy(nt, p, n, h, reply, queue)
    PROVE  /\ net' \in [Peers -> SUBSET Msg]
           /\ status' \in [Peers -> {"idle", "proxying", "hung", "stopped"}]
           /\ job' \in [Peers -> Job \cup {None}]
           /\ \A q \in Peers : status'[q] \in {"proxying", "hung"} =>
                                   job'[q] \in Job /\ job'[q].queue # <<>>
<1>1. Head(queue) \in OpenRequest
  BY HeadTailProperties
<1>2. [type |-> "data", conn |-> p, packet |-> Head(queue).packet] \in Msg
  BY <1>1 DEF OpenRequest, Msg, DataMsg, Sockets
<1>3. net' \in [Peers -> SUBSET Msg]
  BY <1>2, ForwardedType DEF StartProxy
<1>4. [node |-> n, hash_id |-> h, reply |-> reply, queue |-> queue] \in Job
  BY DEF Job
<1>5. status' \in [Peers -> {"idle", "proxying", "hung", "stopped"}]
  BY DEF StartProxy, TypeOK
<1>6. job' \in [Peers -> Job \cup {None}]
  BY <1>4 DEF StartProxy, TypeOK
<1>7. \A q \in Peers : status'[q] \in {"proxying", "hung"} =>
                           job'[q] \in Job /\ job'[q].queue # <<>>
  BY <1>4 DEF StartProxy, TypeOK
<1> QED
  BY <1>3, <1>5, <1>6, <1>7

-----------------------------------------------------------------------------
(* The type invariant.                                                     *)

LEMMA TypeInit == Init => TypeOK
<1> SUFFICES ASSUME Init PROVE TypeOK
  OBVIOUS
<1>1. rt \in [Peers -> [Hashes -> Seq(OpenRequest)]]
  BY EmptySeq DEF Init
<1> QED
  BY <1>1 DEF Init, TypeOK

LEMMA TypeStep == TypeOK /\ [Next]_vars => TypeOK'
<1> SUFFICES ASSUME TypeOK, [Next]_vars PROVE TypeOK'
  OBVIOUS
<1>1. ASSUME NEW c \in Clients, NEW p \in Gateways, Send(c, p) PROVE TypeOK'
  <2>1. PICK r \in Requests :
          /\ sent' = [sent EXCEPT ![c] = r]
          /\ net' = [net EXCEPT ![p] = @ \cup {[type |-> "data", conn |-> c, packet |-> r]}]
    BY <1>1 DEF Send
  <2>2. [type |-> "data", conn |-> c, packet |-> r] \in Msg
    BY DEF Msg, DataMsg, Sockets
  <2>3. p \in Peers
    BY NamesAssumption
  <2> QED
    BY <1>1, <2>1, <2>2, <2>3 DEF Send, TypeOK
<1>2. ASSUME NEW p \in Peers, HandleOwnRequest(p) PROVE TypeOK'
  <2>1. PICK m \in net[p] :
          /\ m.type = "data"
          /\ net' = Read(p, m)
          /\ ht' = [ht EXCEPT ![p] = TableAfter(@, m.packet)]
          /\ stream' = [stream EXCEPT ![m.conn] = Ack(ht[p], m.packet)]
          /\ eof' = eof \cup {m.conn}
    BY <1>2 DEF HandleOwnRequest
  <2>2. m.conn \in Sockets /\ m.packet \in Requests
    BY <2>1, MsgType DEF TypeOK
  <2>3. net' \in [Peers -> SUBSET Msg]
    BY <2>1, ReadType DEF TypeOK
  <2>4. /\ TableAfter(ht[p], m.packet) \in [Keys -> Seq(Byte) \cup {None}]
        /\ Ack(ht[p], m.packet) \in Packet
    BY <2>2, OwnRequestType DEF TypeOK
  <2> QED
    BY <1>2, <2>1, <2>2, <2>3, <2>4 DEF HandleOwnRequest, TypeOK
<1>3. ASSUME NEW p \in Peers, HandleSuccRequest(p) PROVE TypeOK'
  <2>1. PICK m \in net[p] :
          /\ m.type = "data"
          /\ StartProxy(Read(p, m), p, Succ[p], PseudoHash(m.packet.key), FALSE,
                        <<[socket |-> m.conn, packet |-> m.packet]>>)
    BY <1>3 DEF HandleSuccRequest
  <2>2. m.conn \in Sockets /\ m.packet \in Requests
    BY <2>1, MsgType DEF TypeOK
  <2>3. PseudoHash(m.packet.key) \in Hashes
    BY <2>2, RequestType
  <2>4. /\ <<[socket |-> m.conn, packet |-> m.packet]>> \in Seq(OpenRequest)
        /\ <<[socket |-> m.conn, packet |-> m.packet]>> # <<>>
    BY <2>2 DEF OpenRequest
  <2>5. Read(p, m) \in [Peers -> SUBSET Msg] /\ Succ[p] \in Peers
    BY ReadType, NeighbourAssumption DEF TypeOK
  <2> QED
    BY <1>3, <2>1, <2>3, <2>4, <2>5, StartProxyType DEF HandleSuccRequest, TypeOK
<1>4. ASSUME NEW p \in Peers, HandleFarRequest(p) PROVE TypeOK'
  <2>1. PICK m \in net[p] :
          /\ m.type = "data"
          /\ rt' = AddRequest(p, PseudoHash(m.packet.key), m.conn, m.packet)
          /\ net' = LookupPeer(Read(p, m), p, m.conn, PseudoHash(m.packet.key))
    BY <1>4 DEF HandleFarRequest
  <2>2. m.conn \in Sockets /\ m.packet \in Requests
    BY <2>1, MsgType DEF TypeOK
  <2> DEFINE h == PseudoHash(m.packet.key)
  <2>3. h \in Hashes
    BY <2>2, RequestType
  <2>4. [socket |-> m.conn, packet |-> m.packet] \in OpenRequest
    BY <2>2 DEF OpenRequest
  <2>5. [type |-> "lkup", conn |-> m.conn, hash_id |-> h, node |-> p] \in Msg
    BY <2>2, <2>3 DEF Msg, CtrlMsg
  <2>6. Read(p, m) \in [Peers -> SUBSET Msg] /\ Succ[p] \in Peers
    BY ReadType, NeighbourAssumption DEF TypeOK
  <2> HIDE DEF h
  <2>7. net' \in [Peers -> SUBSET Msg]
    BY <2>1, <2>5, <2>6, ForwardedType DEF LookupPeer, h
  <2>8. rt' \in [Peers -> [Hashes -> Seq(OpenRequest)]]
    BY <2>1, <2>3, <2>4 DEF AddRequest, TypeOK, h
  <2> QED
    BY <1>4, <2>7, <2>8 DEF HandleFarRequest, TypeOK
<1>5. ASSUME NEW p \in Peers, AnswerLookup(p) PROVE TypeOK'
  <2>1. PICK m \in net[p] :
          /\ m.type = "lkup"
          /\ net' = Forwarded(Read(p, m), m.node,
                              [type |-> "rply", conn |-> m.conn, hash_id |-> m.hash_id,
                               node |-> IF OwnHash(p, m.hash_id) THEN p ELSE Succ[p]])
    BY <1>5 DEF AnswerLookup
  <2>2. m.conn \in Sockets /\ m.hash_id \in Hashes /\ m.node \in Peers
    BY <2>1, MsgType DEF TypeOK
  <2>3. [type |-> "rply", conn |-> m.conn, hash_id |-> m.hash_id,
         node |-> IF OwnHash(p, m.hash_id) THEN p ELSE Succ[p]] \in Msg
    BY <2>2, NeighbourAssumption DEF Msg, CtrlMsg
  <2>4. net' \in [Peers -> SUBSET Msg]
    BY <2>1, <2>2, <2>3, ReadType, ForwardedType DEF TypeOK
  <2> QED
    BY <1>5, <2>4 DEF AnswerLookup, TypeOK
<1>6. ASSUME NEW p \in Peers, ForwardLookup(p) PROVE TypeOK'
  <2>1. PICK m \in net[p] : net' = Forwarded(Read(p, m), Succ[p], m)
    BY <1>6 DEF ForwardLookup
  <2>2. net' \in [Peers -> SUBSET Msg]
    BY <2>1, ReadType, ForwardedType, NeighbourAssumption DEF TypeOK
  <2> QED
    BY <1>6, <2>2 DEF ForwardLookup, TypeOK
<1>7. ASSUME NEW p \in Peers, HandleReply(p) PROVE TypeOK'
  <2>1. PICK m \in net[p] :
          /\ m.type = "rply"
          /\ rt[p][m.hash_id] # <<>>
          /\ StartProxy(Read(p, m), p, m.node, m.hash_id, TRUE, rt[p][m.hash_id])
    BY <1>7 DEF HandleReply
  <2>2. m.hash_id \in Hashes /\ m.node \in Peers
    BY <2>1, MsgType DEF TypeOK
  <2>3. rt[p][m.hash_id] \in Seq(OpenRequest) /\ Read(p, m) \in [Peers -> SUBSET Msg]
    BY <2>2, ReadType DEF TypeOK
  <2> QED
    BY <1>7, <2>1, <2>2, <2>3, StartProxyType DEF HandleReply, TypeOK
<1>8. ASSUME NEW p \in Peers, IgnoreReply(p) PROVE TypeOK'
  BY <1>8, ReadType DEF IgnoreReply, TypeOK
<1>9. ASSUME NEW p \in Peers, Relay(p)
      PROVE  /\ stream' \in [Sockets -> Packet \cup {None, Garbage}]
             /\ job[p] \in Job
             /\ Head(job[p].queue).socket \in Sockets
             /\ Tail(job[p].queue) \in Seq(OpenRequest)
  <2>1. job[p] \in Job /\ job[p].queue # <<>>
    BY <1>9 DEF Relay, TypeOK
  <2>2. job[p].queue \in Seq(OpenRequest)
    BY <2>1 DEF Job
  <2>3. Head(job[p].queue) \in OpenRequest /\ Tail(job[p].queue) \in Seq(OpenRequest)
    BY <2>1, <2>2, HeadTailProperties
  <2>4. p \in Sockets /\ Head(job[p].queue).socket \in Sockets
    BY <2>3 DEF Sockets, OpenRequest
  <2> QED
    BY <1>9, <2>1, <2>3, <2>4 DEF Relay, TypeOK
<1>10. ASSUME NEW p \in Peers, FinishProxy(p) PROVE TypeOK'
  BY <1>9, <1>10 DEF FinishProxy, TypeOK
<1>11. ASSUME NEW p \in Peers, ProxyNext(p) PROVE TypeOK'
  <2>1. /\ Relay(p)
        /\ Tail(job[p].queue) # <<>>
        /\ StartProxy(net, p, job[p].node, job[p].hash_id, TRUE, Tail(job[p].queue))
    BY <1>11 DEF ProxyNext
  <2>2. /\ job[p].node \in Peers
        /\ job[p].hash_id \in Hashes
        /\ Tail(job[p].queue) \in Seq(OpenRequest)
        /\ net \in [Peers -> SUBSET Msg]
    BY <1>9, <2>1 DEF Job, TypeOK
  <2> QED
    BY <1>9, <1>11, <2>1, <2>2, StartProxyType DEF ProxyNext, TypeOK
<1>12. ASSUME NEW p \in Peers, FinishReply(p) PROVE TypeOK'
  <2>1. rt' \in [Peers -> [Hashes -> Seq(OpenRequest)]]
    BY <1>9, <1>12, EmptySeq DEF FinishReply, ClearRequests, Job, TypeOK
  <2> QED
    BY <1>9, <1>12, <2>1 DEF FinishReply, TypeOK
<1>13. ASSUME NEW p \in Peers, Sweep(p) PROVE TypeOK'
  BY <1>13 DEF Sweep, TypeOK
<1>14. ASSUME NEW p \in Peers, Stop(p) PROVE TypeOK'
  <2> DEFINE unread == {m.conn : m \in {d \in net[p] : d.type = "data"}}
             waiting == UNION {{rt[p][h][i].socket : i \in DOMAIN rt[p][h]} : h \in Hashes}
  <2>1. unread \subseteq Sockets
    BY MsgType DEF TypeOK
  <2>2. ASSUME NEW h \in Hashes, NEW i \in DOMAIN rt[p][h]
        PROVE  rt[p][h][i].socket \in Sockets
    <3>1. rt[p][h] \in Seq(OpenRequest)
      BY DEF TypeOK
    <3>2. rt[p][h][i] \in OpenRequest
      BY <3>1, LenProperties, ElementOfSeq
    <3> QED
      BY <3>2 DEF OpenRequest
  <2>3. waiting \subseteq Sockets
    BY <2>2
  <2>4. rt' \in [Peers -> [Hashes -> Seq(OpenRequest)]]
    BY <1>14, EmptySeq DEF Stop, TypeOK
  <2>5. eof' \subseteq Sockets
    BY <1>14, <2>1, <2>3 DEF Stop, TypeOK
  <2>6. stream' \in [Sockets -> Packet \cup {None, Garbage}]
    BY <1>14 DEF Stop, TypeOK
  <2> QED
    BY <1>14, <2>4, <2>5, <2>6 DEF Stop, TypeOK
<1>15. CASE UNCHANGED vars
  BY <1>15 DEF vars, TypeOK
<1> QED
  BY <1>1, <1>2, <1>3, <1>4, <1>5, <1>6, <1>7, <1>8, <1>10, <1>11, <1>12, <1>13, <1>14, <1>15
     DEF Next, PeerStep

\* Every reachable state has the types of the C structures the model stands for.
THEOREM TypeCorrect == Spec => []TypeOK
BY TypeInit, TypeStep, PTL DEF Spec

-----------------------------------------------------------------------------
(* Responsibility on a sorted ring.                                        *)

\* The hash of a byte string is a number.
LEMMA PseudoHashType ==
    ASSUME NEW k \in Seq(Byte)
    PROVE  PseudoHash(k) \in Int
<1>1. \A i \in 1..Len(k) : k[i] \in Int
  <2>1. \A x \in Byte : x \in Int
    BY BaseAssumption DEF Byte
  <2>2. \A i \in 1..Len(k) : k[i] \in Byte
    BY ElementOfSeq
  <2> QED
    BY <2>1, <2>2
<1>2. /\ Len(k) = 0 \/ Len(k) = 1 \/ Len(k) >= 2
      /\ Len(k) \in Nat
      /\ Base \in Int
  <2>1. Len(k) \in Nat
    BY LenProperties
  <2>2. \A n \in Nat : n = 0 \/ n = 1 \/ n >= 2
    OBVIOUS
  <2>3. Base \in Int
    BY BaseAssumption
  <2> QED
    BY <2>1, <2>2, <2>3, Zenon
<1>3. CASE Len(k) >= 2
  <2>1. k[1] \in Int /\ k[2] \in Int
    BY <1>1, <1>2, <1>3
  <2> QED
    BY <1>2, <1>3, <2>1 DEF PseudoHash
<1>4. CASE Len(k) = 1
  BY <1>1, <1>4 DEF PseudoHash
<1>5. CASE Len(k) = 0
  BY <1>5 DEF PseudoHash
<1> QED
  BY <1>2, <1>3, <1>4, <1>5

\* What a peer tests for its successor is what the successor tests for itself.
LEMMA SuccTest ==
    ASSUME NEW p \in Peers, NEW h
    PROVE  /\ Succ[p] \in Peers
           /\ SuccHash(p, h) <=> OwnHash(Succ[p], h)
BY NeighbourAssumption DEF SuccHash, OwnHash

(***************************************************************************)
(* No two peers of a sorted ring take the same hash for their own          *)
(* (neighbour.c peer_is_responsible).                                      *)
(***************************************************************************)
THEOREM AtMostOneOwner ==
    ASSUME NEW p \in Peers, NEW q \in Peers, NEW h \in Int, OwnHash(p, h), OwnHash(q, h)
    PROVE  p = q
<1> DEFINE a == Pred[p]
           b == Pred[q]
<1>1. a \in Peers /\ b \in Peers /\ Succ[a] = p /\ Succ[b] = q
  BY NeighbourAssumption
<1>2. \A x \in Peers : x \in Int
  BY PeersAssumption, BaseAssumption DEF HashId
<1>3. /\ h > a
      /\ a > p \/ h <= p
      /\ h > b
      /\ b > q \/ h <= q
  BY <1>1, <1>2 DEF OwnHash, PeerIsResponsible
<1>4. \A x \in Peers : /\ a < p => ~(a < x /\ x < p)
                       /\ a >= p => p <= x /\ x <= a
  BY <1>1, SortedAssumption
<1>5. \A x \in Peers : /\ b < q => ~(b < x /\ x < q)
                       /\ b >= q => q <= x /\ x <= b
  BY <1>1, SortedAssumption
<1> HIDE DEF a, b
<1>6. CASE a < p /\ b < q
  BY <1>1, <1>2, <1>3, <1>4, <1>5, <1>6
<1>7. CASE a >= p
  <2>1. a >= b /\ a >= q
    BY <1>1, <1>4, <1>7
  <2>2. b >= q
    BY <1>1, <1>2, <1>3, <2>1
  <2>3. a = b
    BY <1>1, <1>2, <1>5, <2>1, <2>2
  <2> QED
    BY <1>1, <2>3
<1>8. CASE b >= q
  <2>1. b >= a /\ b >= p
    BY <1>1, <1>5, <1>8
  <2>2. a >= p
    BY <1>1, <1>2, <1>3, <2>1
  <2>3. a = b
    BY <1>1, <1>2, <1>4, <2>1, <2>2
  <2> QED
    BY <1>1, <2>3
<1> QED
  BY <1>1, <1>2, <1>6, <1>7, <1>8

(***************************************************************************)
(* The hashes up to the smallest node id belong to nobody: the overflow    *)
(* case of peer_is_responsible ends at the largest hash and does not go    *)
(* on from zero.                                                           *)
(***************************************************************************)
THEOREM SmallestHashesUnowned ==
    ASSUME NEW h \in Int, \A p \in Peers : h <= p
    PROVE  ~Owned(h)
<1>1. \A p \in Peers : p \in Int /\ Pred[p] \in Peers
  BY PeersAssumption, BaseAssumption, NeighbourAssumption DEF HashId
<1> QED
  BY <1>1 DEF Owned, OwnHash, PeerIsResponsible

-----------------------------------------------------------------------------
(* Routing.                                                                *)

\* A key is bound only in the table of the peer that takes its hash for its own.
OwnerHoldsKey ==
    \A p \in Peers, k \in Keys : ht[p][k] # None => OwnHash(p, PseudoHash(k))

\* An open request is filed under the hash of its key.
RequestsFiled ==
    \A p \in Peers, h \in Hashes : \A i \in DOMAIN rt[p][h] :
        PseudoHash(rt[p][h][i].packet.key) = h

\* A packet that waits at peer p is where it belongs.
MsgRouted(p, m) ==
    /\ m.type = "lkup" => ~OwnHash(p, m.hash_id)
    /\ m.type = "rply" => OwnHash(m.node, m.hash_id)
    /\ m.type = "data" /\ m.conn \in Peers => OwnHash(p, PseudoHash(m.packet.key))

NetRouted(nt) == \A p \in Peers : \A m \in nt[p] : MsgRouted(p, m)

\* What p waits for is the answer of the owner of all the keys in its queue.
JobRouted(p) ==
    status[p] \in {"proxying", "hung"} =>
        /\ OwnHash(job[p].node, job[p].hash_id)
        /\ \A i \in DOMAIN job[p].queue :
             PseudoHash(job[p].queue[i].packet.key) = job[p].hash_id

(***************************************************************************)
(* The inductive invariant. A reply is only as good as the requests it     *)
(* finds in the table, hence RequestsFiled; a lookup is answered rightly   *)
(* because it has missed the owner so far.                                 *)
(***************************************************************************)
Routing ==
    /\ OwnerHoldsKey
    /\ NetRouted(net)
    /\ \A p \in Peers : JobRouted(p)
    /\ RequestsFiled

LEMMA RoutingImplies == Routing => LookupMissesOwner /\ ProxyHitsOwner
BY DEF Routing, NetRouted, MsgRouted, JobRouted, LookupMissesOwner, ProxyHitsOwner

LEMMA RoutingInit == Init => Routing
BY EmptySeq DEF Init, Routing, OwnerHoldsKey, NetRouted, JobRouted, RequestsFiled

\* forward keeps the network routed when the packet belongs to the receiver.
LEMMA ForwardedRouted ==
    ASSUME NEW nt \in [Peers -> SUBSET Msg], NetRouted(nt),
           NEW n \in Peers, NEW m, MsgRouted(n, m)
    PROVE  NetRouted(Forwarded(nt, n, m))
BY DEF NetRouted, Forwarded

LEMMA ReadRouted ==
    ASSUME NEW p \in Peers, NEW m, net \in [Peers -> SUBSET Msg], NetRouted(net)
    PROVE  NetRouted(Read(p, m))
BY DEF NetRouted, Read

\* proxy_request with the owner of every request of the queue keeps routing.
LEMMA StartProxyRouted ==
    ASSUME TypeOK, \A q \in Peers : JobRouted(q),
           NEW nt \in [Peers -> SUBSET Msg], NetRouted(nt),
           NEW p \in Peers, NEW n \in Peers, NEW h \in Hashes, NEW reply \in BOOLEAN,
           NEW queue \in Seq(OpenRequest), queue # <<>>,
           OwnHash(n, h),
           \A i \in DOMAIN queue : PseudoHash(queue[i].packet.key) = h,
           StartProxy(nt, p, n, h, reply, queue)
    PROVE  NetRouted(net') /\ \A q \in Peers : JobRouted(q)'
<1> DEFINE m == [type |-> "data", conn |-> p, packet |-> Head(queue).packet]
<1>1. 1 \in DOMAIN queue /\ Head(queue) = queue[1]
  BY LenProperties, EmptySeq
<1>2. MsgRouted(n, m)
  BY <1>1 DEF MsgRouted
<1>3. NetRouted(net')
  BY <1>2, ForwardedRouted DEF StartProxy
<1>4. ASSUME NEW q \in Peers PROVE JobRouted(q)'
  <2>1. CASE q = p
    <3>1. job'[q] = [node |-> n, hash_id |-> h, reply |-> reply, queue |-> queue]
      BY <2>1 DEF StartProxy, TypeOK
    <3> QED
      BY <3>1 DEF JobRouted
  <2>2. CASE q # p
    BY <2>2 DEF StartProxy, JobRouted, TypeOK
  <2> QED
    BY <2>1, <2>2
<1> QED
  BY <1>3, <1>4

LEMMA RoutingStep == TypeOK /\ Routing /\ [Next]_vars => Routing'
<1> SUFFICES ASSUME TypeOK, Routing, [Next]_vars PROVE Routing'
  OBVIOUS
<1> USE DEF Routing
<1>0. net \in [Peers -> SUBSET Msg]
  BY DEF TypeOK
<1>1. ASSUME NEW c \in Clients, NEW p \in Gateways, Send(c, p) PROVE Routing'
  <2>1. c \notin Peers /\ p \in Peers
    BY NamesAssumption
  <2>2. PICK r : net' = [net EXCEPT ![p] = @ \cup {[type |-> "data", conn |-> c, packet |-> r]}]
    BY <1>1 DEF Send
  <2>3. MsgRouted(p, [type |-> "data", conn |-> c, packet |-> r])
    BY <2>1 DEF MsgRouted
  <2>4. NetRouted(net')
    BY <1>0, <2>1, <2>2, <2>3 DEF NetRouted
  <2> QED
    BY <1>1, <2>4 DEF Send, OwnerHoldsKey, JobRouted, RequestsFiled, NetRouted
<1>2. ASSUME NEW p \in Peers, HandleOwnRequest(p) PROVE Routing'
  <2>1. PICK m \in net[p] :
          /\ m.type = "data"
          /\ OwnHash(p, PseudoHash(m.packet.key))
          /\ net' = Read(p, m)
          /\ ht' = [ht EXCEPT ![p] = TableAfter(@, m.packet)]
    BY <1>2 DEF HandleOwnRequest
  <2>2. m.packet \in Requests
    BY <1>0, <2>1, MsgType
  <2>3. \A k \in Keys : k # m.packet.key => TableAfter(ht[p], m.packet)[k] = ht[p][k]
    BY <2>2 DEF TableAfter, TypeOK
  <2>4. OwnerHoldsKey'
    BY <2>1, <2>3 DEF OwnerHoldsKey, TypeOK
  <2>5. NetRouted(net')
    BY <1>0, <2>1, ReadRouted
  <2> QED
    BY <1>2, <2>4, <2>5 DEF HandleOwnRequest, JobRouted, RequestsFiled, NetRouted
<1>3. ASSUME NEW p \in Peers, HandleSuccRequest(p) PROVE Routing'
  <2>1. PICK m \in net[p] :
          /\ m.type = "data"
          /\ SuccHash(p, PseudoHash(m.packet.key))
          /\ StartProxy(Read(p, m), p, Succ[p], PseudoHash(m.packet.key), FALSE,
                        <<[socket |-> m.conn, packet |-> m.packet]>>)
    BY <1>3 DEF HandleSuccRequest
  <2> DEFINE queue == <<[socket |-> m.conn, packet |-> m.packet]>>
             h == PseudoHash(m.packet.key)
  <2>2. m.conn \in Sockets /\ m.packet \in Requests
    BY <1>0, <2>1, MsgType
  <2>3. h \in Hashes /\ queue \in Seq(OpenRequest) /\ queue # <<>>
    BY <2>2, RequestType DEF OpenRequest
  <2>4. \A i \in DOMAIN queue : PseudoHash(queue[i].packet.key) = h
    OBVIOUS
  <2>5. Succ[p] \in Peers /\ OwnHash(Succ[p], h)
    BY <2>1, SuccTest
  <2>6. Read(p, m) \in [Peers -> SUBSET Msg] /\ NetRouted(Read(p, m))
    BY <1>0, ReadType, ReadRouted
  <2>7. StartProxy(Read(p, m), p, Succ[p], h, FALSE, queue)
    BY <2>1
  <2> HIDE DEF queue, h
  <2>8. NetRouted(net') /\ \A q \in Peers : JobRouted(q)'
    BY <2>3, <2>4, <2>5, <2>6, <2>7, StartProxyRouted
  <2> QED
    BY <1>3, <2>8 DEF HandleSuccRequest, OwnerHoldsKey, RequestsFiled, NetRouted
<1>4. ASSUME NEW p \in Peers, HandleFarRequest(p) PROVE Routing'
  <2>1. PICK m \in net[p] :
          /\ m.type = "data"
          /\ ~SuccHash(p, PseudoHash(m.packet.key))
          /\ rt' = AddRequest(p, PseudoHash(m.packet.key), m.conn, m.packet)
          /\ net' = LookupPeer(Read(p, m), p, m.conn, PseudoHash(m.packet.key))
    BY <1>4 DEF HandleFarRequest
  <2> DEFINE h == PseudoHash(m.packet.key)
             r == [socket |-> m.conn, packet |-> m.packet]
             l == [type |-> "lkup", conn |-> m.conn, hash_id |-> h, node |-> p]
  <2>2. m.conn \in Sockets /\ m.packet \in Requests
    BY <1>0, <2>1, MsgType
  <2>3. h \in Hashes /\ r \in OpenRequest
    BY <2>2, RequestType DEF OpenRequest
  <2>4. Succ[p] \in Peers /\ MsgRouted(Succ[p], l)
    BY <2>1, SuccTest DEF MsgRouted
  <2>5. Read(p, m) \in [Peers -> SUBSET Msg] /\ NetRouted(Read(p, m))
    BY <1>0, ReadType, ReadRouted
  <2>6. NetRouted(net')
    BY <2>1, <2>4, <2>5, ForwardedRouted DEF LookupPeer
  <2>7. ASSUME NEW q \in Peers, NEW g \in Hashes, NEW i \in DOMAIN rt'[q][g]
        PROVE  PseudoHash(rt'[q][g][i].packet.key) = g
    <3>1. rt[q][g] \in Seq(OpenRequest) /\ rt' = [rt EXCEPT ![p][h] = Append(@, r)]
      BY <2>1 DEF TypeOK, AddRequest
    <3>2. CASE q = p /\ g = h
      <4>1. rt'[q][g] = Append(rt[q][g], r)
        BY <2>3, <3>1, <3>2 DEF TypeOK
      <4>2. CASE i = Len(rt[q][g]) + 1
        BY <3>1, <3>2, <4>1, <4>2
      <4>3. CASE i \in DOMAIN rt[q][g]
        BY <3>1, <4>1, <4>3 DEF RequestsFiled
      <4>4. i \in 1..(Len(rt[q][g]) + 1) /\ DOMAIN rt[q][g] = 1..Len(rt[q][g])
        BY <3>1, <4>1, LenProperties, AppendProperties, <2>3
      <4> QED
        BY <3>1, <4>2, <4>3, <4>4, LenProperties
    <3>3. CASE ~(q = p /\ g = h)
      <4>1. rt'[q][g] = rt[q][g]
        BY <3>1, <3>3 DEF TypeOK
      <4> QED
        BY <4>1 DEF RequestsFiled
    <3> QED
      BY <3>2, <3>3
  <2>8. RequestsFiled'
    BY <2>7 DEF RequestsFiled
  <2> QED
    BY <1>4, <2>6, <2>8 DEF HandleFarRequest, OwnerHoldsKey, JobRouted, NetRouted
<1>5. ASSUME NEW p \in Peers, AnswerLookup(p) PROVE Routing'
  <2>1. PICK m \in net[p] :
          /\ m.type = "lkup"
          /\ OwnHash(p, m.hash_id) \/ SuccHash(p, m.hash_id)
          /\ net' = Forwarded(Read(p, m), m.node,
                              [type |-> "rply", conn |-> m.conn, hash_id |-> m.hash_id,
                               node |-> IF OwnHash(p, m.hash_id) THEN p ELSE Succ[p]])
    BY <1>5 DEF AnswerLookup
  <2>2. m.node \in Peers
    BY <1>0, <2>1, MsgType
  <2>3. MsgRouted(m.node, [type |-> "rply", conn |-> m.conn, hash_id |-> m.hash_id,
                           node |-> IF OwnHash(p, m.hash_id) THEN p ELSE Succ[p]])
    BY <2>1, SuccTest DEF MsgRouted
  <2>4. NetRouted(net')
    BY <1>0, <2>1, <2>2, <2>3, ReadType, ReadRouted, ForwardedRouted
  <2> QED
    BY <1>5, <2>4 DEF AnswerLookup, OwnerHoldsKey, JobRouted, RequestsFiled, NetRouted
<1>6. ASSUME NEW p \in Peers, ForwardLookup(p) PROVE Routing'
  <2>1. PICK m \in net[p] :
          /\ m.type = "lkup"
          /\ ~SuccHash(p, m.hash_id)
          /\ net' = Forwarded(Read(p, m), Succ[p], m)
    BY <1>6 DEF ForwardLookup
  <2>2. Succ[p] \in Peers /\ MsgRouted(Succ[p], m)
    BY <2>1, SuccTest DEF MsgRouted
  <2>3. NetRouted(net')
    BY <1>0, <2>1, <2>2, ReadType, ReadRouted, ForwardedRouted
  <2> QED
    BY <1>6, <2>3 DEF ForwardLookup, OwnerHoldsKey, JobRouted, RequestsFiled, NetRouted
<1>7. ASSUME NEW p \in Peers, HandleReply(p) PROVE Routing'
  <2>1. PICK m \in net[p] :
          /\ m.type = "rply"
          /\ rt[p][m.hash_id] # <<>>
          /\ StartProxy(Read(p, m), p, m.node, m.hash_id, TRUE, rt[p][m.hash_id])
    BY <1>7 DEF HandleReply
  <2>2. m.hash_id \in Hashes /\ m.node \in Peers
    BY <1>0, <2>1, MsgType
  <2>3. OwnHash(m.node, m.hash_id)
    BY <2>1 DEF NetRouted, MsgRouted
  <2>4. rt[p][m.hash_id] \in Seq(OpenRequest)
    BY <2>2 DEF TypeOK
  <2>5. \A i \in DOMAIN rt[p][m.hash_id] :
          PseudoHash(rt[p][m.hash_id][i].packet.key) = m.hash_id
    BY <2>2 DEF RequestsFiled
  <2>6. Read(p, m) \in [Peers -> SUBSET Msg] /\ NetRouted(Read(p, m))
    BY <1>0, ReadType, ReadRouted
  <2>7. NetRouted(net') /\ \A q \in Peers : JobRouted(q)'
    BY <2>1, <2>2, <2>3, <2>4, <2>5, <2>6, StartProxyRouted
  <2> QED
    BY <1>7, <2>7 DEF HandleReply, OwnerHoldsKey, RequestsFiled, NetRouted
<1>8. ASSUME NEW p \in Peers, IgnoreReply(p) PROVE Routing'
  <2>1. NetRouted(net')
    BY <1>0, <1>8, ReadRouted DEF IgnoreReply
  <2> QED
    BY <1>8, <2>1 DEF IgnoreReply, OwnerHoldsKey, JobRouted, RequestsFiled, NetRouted
<1>9. ASSUME NEW p \in Peers, FinishProxy(p) PROVE Routing'
  BY <1>9 DEF FinishProxy, OwnerHoldsKey, JobRouted, RequestsFiled, NetRouted, TypeOK
<1>10. ASSUME NEW p \in Peers, ProxyNext(p) PROVE Routing'
  <2> DEFINE queue == job[p].queue
             rest == Tail(queue)
  <2>1. /\ status[p] = "proxying"
        /\ rest # <<>>
        /\ StartProxy(net, p, job[p].node, job[p].hash_id, TRUE, rest)
    BY <1>10 DEF ProxyNext, Relay
  <2>2. /\ job[p].node \in Peers
        /\ job[p].hash_id \in Hashes
        /\ queue \in Seq(OpenRequest)
        /\ queue # <<>>
    BY <2>1 DEF Job, TypeOK
  <2>3. /\ OwnHash(job[p].node, job[p].hash_id)
        /\ \A i \in DOMAIN queue : PseudoHash(queue[i].packet.key) = job[p].hash_id
    BY <2>1 DEF JobRouted
  <2> HIDE DEF queue
  <2>4. rest \in Seq(OpenRequest)
    BY <2>2, HeadTailProperties
  <2>5. \A i \in DOMAIN rest : i + 1 \in DOMAIN queue /\ rest[i] = queue[i + 1]
    BY <2>2
  <2>6. \A i \in DOMAIN rest : PseudoHash(rest[i].packet.key) = job[p].hash_id
    BY <2>3, <2>5
  <2> HIDE DEF rest
  <2>7. NetRouted(net') /\ \A q \in Peers : JobRouted(q)'
    BY <1>0, <2>1, <2>2, <2>3, <2>4, <2>6, StartProxyRouted
  <2> QED
    BY <1>10, <2>7 DEF ProxyNext, OwnerHoldsKey, RequestsFiled, NetRouted
<1>11. ASSUME NEW p \in Peers, FinishReply(p) PROVE Routing'
  <2>1. ASSUME NEW q \in Peers, NEW g \in Hashes, NEW i \in DOMAIN rt'[q][g]
        PROVE  PseudoHash(rt'[q][g][i].packet.key) = g
    <3>1. rt' = [rt EXCEPT ![p][job[p].hash_id] = <<>>]
      BY <1>11 DEF FinishReply, ClearRequests
    <3>2. rt'[q][g] = rt[q][g] \/ rt'[q][g] = <<>>
      BY <3>1 DEF TypeOK
    <3> QED
      BY <3>2 DEF RequestsFiled
  <2>2. RequestsFiled'
    BY <2>1 DEF RequestsFiled
  <2> QED
    BY <1>11, <2>2 DEF FinishReply, OwnerHoldsKey, JobRouted, NetRouted, TypeOK
<1>12. ASSUME NEW p \in Peers, Sweep(p) PROVE Routing'
  BY <1>12 DEF Sweep, OwnerHoldsKey, JobRouted, RequestsFiled, NetRouted
<1>13. ASSUME NEW p \in Peers, Stop(p) PROVE Routing'
  <2>1. NetRouted(net')
    BY <1>0, <1>13 DEF Stop, NetRouted
  <2>2. RequestsFiled'
    BY <1>13 DEF Stop, RequestsFiled, TypeOK
  <2>3. \A q \in Peers : JobRouted(q)'
    BY <1>13 DEF Stop, JobRouted, TypeOK
  <2> QED
    BY <1>13, <2>1, <2>2, <2>3 DEF Stop, OwnerHoldsKey, NetRouted
<1>14. CASE UNCHANGED vars
  BY <1>14 DEF vars, OwnerHoldsKey, JobRouted, RequestsFiled, NetRouted
<1> QED
  BY <1>1, <1>2, <1>3, <1>4, <1>5, <1>6, <1>7, <1>8, <1>9, <1>10, <1>11, <1>12, <1>13, <1>14
     DEF Next, PeerStep

LEMMA RoutingInvariant == Spec => []Routing
BY TypeCorrect, RoutingInit, RoutingStep, PTL DEF Spec

(***************************************************************************)
(* The branch "Lol! This should not happen!" of handle_packet_ctrl is      *)
(* dead code in every ring whose peers agree on their neighbours.          *)
(***************************************************************************)
THEOREM LookupNeverReachesOwner == Spec => []LookupMissesOwner
BY RoutingInvariant, RoutingImplies, PTL

(***************************************************************************)
(* proxy_request is only ever called with the owner of the request, so a   *)
(* request crosses at most one proxy.                                      *)
(***************************************************************************)
THEOREM ProxiedToOwner == Spec => []ProxyHitsOwner
BY RoutingInvariant, RoutingImplies, PTL

\* No two peers bind the same key.
KeyHeldOnce ==
    \A p, q \in Peers, k \in Keys : ht[p][k] # None /\ ht[q][k] # None => p = q

(***************************************************************************)
(* On a sorted ring a key is never bound at two peers, so that the tables  *)
(* of all the peers together are one map (hash_table.c).                   *)
(***************************************************************************)
THEOREM TablesDisjoint == Spec => []KeyHeldOnce
<1>1. Routing => KeyHeldOnce
  <2>1. \A k \in Keys : PseudoHash(k) \in Int
    BY RequestType, PseudoHashType DEF Keys
  <2> QED
    BY <2>1, AtMostOneOwner DEF Routing, OwnerHoldsKey, KeyHeldOnce
<1> QED
  BY <1>1, RoutingInvariant, PTL
=============================================================================
