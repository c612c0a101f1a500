-------------------------- MODULE ChordStoreProofs --------------------------
(***************************************************************************)
(* The refinement, for every ring that no operator stops and whose values  *)
(* have no zero bytes: to its clients the ring is the one map of KVStore,  *)
(* every request of which takes effect at one instant.                     *)
(***************************************************************************)
EXTENDS ChordRequestProofs

\* The values the clients set have no zero byte, at which strncpy would cut them off.
PlainValues == \A r \in Requests : \A i \in DOMAIN r.value : r.value[i] # 0

-----------------------------------------------------------------------------
(* The inductive invariant.                                                *)

\* Nothing has been written yet to a client whose request is waiting, and no client
\* is twice in a queue.
Fresh ==
    /\ \A q \in Peers : \A m \in net[q] :
         m.type = "data" /\ m.conn \in Clients => stream[m.conn] = None
    /\ \A p \in Peers, h \in Hashes : \A i \in DOMAIN rt[p][h] :
         rt[p][h][i].socket \in marked[p] \/ stream[rt[p][h][i].socket] = None
    /\ \A p \in Peers : Active(p) => \A i \in DOMAIN job[p].queue :
         stream[job[p].queue[i].socket] = None
    /\ \A p \in Peers : Active(p) => \A i, j \in DOMAIN job[p].queue :
         job[p].queue[i].socket = job[p].queue[j].socket => i = j

\* No connection is closed or marked before its answer is written.
Served ==
    /\ \A s \in eof : stream[s] # None
    /\ \A p \in Peers : \A c \in marked[p] : stream[c] # None

PlainTables ==
    \A p \in Peers, k \in Keys : ht[p][k] # None => \A i \in DOMAIN ht[p][k] : ht[p][k][i] # 0

Tidy == Fresh /\ Served /\ PlainTables

-----------------------------------------------------------------------------
(* Where the requests in a queue are, and where they are not.              *)

\* The queue of a peer in proxy_request has a head.
LEMMA QueueHead ==
    ASSUME TypeOK, NEW p \in Peers, Active(p)
    PROVE  /\ job[p].queue \in Seq(OpenRequest)
           /\ 1 \in DOMAIN job[p].queue
           /\ Head(job[p].queue) = job[p].queue[1]
<1>1. job[p].queue \in Seq(OpenRequest) /\ job[p].queue # <<>>
  BY DEF Active, TypeOK, Job
<1> QED
  BY <1>1, LenProperties, EmptySeq

\* A client in a queue is in the table of the reply loop or it is the one that a
\* request for the successor waits for.
LEMMA QueuedWhere ==
    ASSUME TypeOK, Way, NEW p \in Peers, Active(p), NEW i \in DOMAIN job[p].queue,
           NEW s, s = job[p].queue[i].socket
    PROVE  \/ ~job[p].reply /\ InJob(s, p)
           \/ /\ job[p].reply
              /\ \E h \in Hashes : \E k \in DOMAIN rt[p][h] : h = job[p].hash_id /\ InTable(s, p, h, k)
<1>1. CASE job[p].reply
  <2>1. LoopAt(p)
    BY <1>1 DEF Way, Loops
  <2>2. PICK k \in DOMAIN rt[p][job[p].hash_id] : rt[p][job[p].hash_id][k] = job[p].queue[i]
    BY <2>1 DEF LoopAt
  <2>3. job[p].hash_id \in Hashes
    BY DEF TypeOK, Active, Job
  <2> QED
    BY <1>1, <2>2, <2>3 DEF InTable
<1>2. CASE ~job[p].reply
  <2>1. Len(job[p].queue) = 1 /\ job[p].queue \in Seq(OpenRequest)
    BY <1>2, QueueHead DEF Way, Loops
  <2>2. i = 1
    BY <2>1, LenProperties
  <2> QED
    BY <1>2, <2>2, QueueHead DEF InJob
<1> QED
  BY <1>1, <1>2

LEMMA QueueHome ==
    ASSUME TypeOK, Way, NEW p \in Peers, Active(p), NEW i \in DOMAIN job[p].queue,
           NEW s, s = job[p].queue[i].socket
    PROVE  /\ s \in Clients /\ sent[s] # None /\ s \notin eof
           /\ NoNet(s)
           /\ \A q \in Peers : Active(q) => \A j \in DOMAIN job[q].queue :
                job[q].queue[j].socket = s => q = p
           /\ \A q \in Peers, h \in Hashes : \A k : InTable(s, q, h, k) =>
                q = p /\ job[p].reply /\ h = job[p].hash_id
<1>1. s \in Clients
  BY DEF Way, Carried
<1>2. Custody(s)
  BY <1>1 DEF Way
<1>3. ASSUME NEW q \in Peers, Active(q), NEW j \in DOMAIN job[q].queue, job[q].queue[j].socket = s
      PROVE  \/ ~job[q].reply /\ InJob(s, q)
             \/ /\ job[q].reply
                /\ \E h \in Hashes : \E k \in DOMAIN rt[q][h] : h = job[q].hash_id /\ InTable(s, q, h, k)
  BY <1>3, QueuedWhere
<1>4. CASE ~job[p].reply
  <2>1. InJob(s, p)
    BY <1>4, QueuedWhere
  <2>2. sent[s] # None /\ s \notin eof /\ NoNet(s) /\ NoTable(s) /\ OneJob(s)
    BY <1>2, <2>1 DEF Custody, NoJob
  <2>3. \A q \in Peers : InJob(s, q) => q = p
    BY <2>1, <2>2 DEF OneJob
  <2>4. \A q \in Peers, h \in Hashes : \A k : ~InTable(s, q, h, k)
    BY <2>2 DEF NoTable, InTable
  <2> QED
    BY <1>1, <1>3, <2>2, <2>3, <2>4
<1>5. CASE job[p].reply
  <2>1. PICK h \in Hashes : h = job[p].hash_id /\ \E k \in DOMAIN rt[p][h] : InTable(s, p, h, k)
    BY <1>5, QueuedWhere
  <2>2. sent[s] # None /\ s \notin eof /\ NoNet(s) /\ NoJob(s) /\ OneTable(s)
    BY <1>2, <2>1 DEF Custody, NoTable
  <2>3. \A q \in Peers, g \in Hashes : \A j \in DOMAIN rt[q][g] : InTable(s, q, g, j) => q = p /\ g = h
    BY <2>1, <2>2 DEF OneTable
  <2>4. \A q \in Peers, g \in Hashes : \A j : InTable(s, q, g, j) => q = p /\ g = h
    BY <2>3 DEF InTable
  <2> QED
    BY <1>1, <1>3, <1>5, <2>1, <2>2, <2>4 DEF NoJob
<1> QED
  BY <1>4, <1>5

-----------------------------------------------------------------------------
(* The invariant is inductive.                                             *)

LEMMA TidyInit == Init => Tidy
<1> SUFFICES ASSUME Init PROVE Tidy
  OBVIOUS
<1>1. Fresh
  BY DEF Init, Fresh, Active
<1>2. Served /\ PlainTables
  BY DEF Init, Served, PlainTables
<1> QED
  BY <1>1, <1>2 DEF Tidy

LEMMA TidySend ==
    ASSUME TypeOK, Way, Tidy, NEW c \in Clients, NEW p \in Gateways, Send(c, p)
    PROVE  Tidy'
<1>1. PICK r : net' = [net EXCEPT ![p] = @ \cup {[type |-> "data", conn |-> c, packet |-> r]}]
  BY DEF Send
<1> DEFINE x == [type |-> "data", conn |-> c, packet |-> r]
<1>2. x.conn = c
  OBVIOUS
<1>3. \A q \in Peers : \A m \in net'[q] : m \in net[q] \/ m = x
  BY <1>1, NamesAssumption DEF TypeOK
<1> HIDE DEF x
<1>4. stream[c] = None
  BY DEF Send, Way, Answered
<1>5. UNCHANGED <<ht, rt, status, job, marked, stream, eof>>
  BY DEF Send
<1>6. Fresh'
  BY <1>2, <1>3, <1>4, <1>5 DEF Tidy, Fresh, Active
<1> QED
  BY <1>5, <1>6 DEF Tidy, Served, PlainTables

\* Reading and delivering packets that are not of clients leaves the streams fresh.
LEMMA FreshNet ==
    ASSUME Fresh, NEW p, NEW n, NEW gone, NEW new, NetStep(p, gone, n, new), stream' = stream,
           \A y \in new : ~(y.type = "data" /\ y.conn \in Clients)
    PROVE  \A q \in Peers : \A m \in net'[q] :
             m.type = "data" /\ m.conn \in Clients => stream'[m.conn] = None
BY DEF NetStep, Fresh

LEMMA TidyOwn ==
    ASSUME TypeOK, Way, Tidy, PlainValues, NEW p \in Peers, HandleOwnRequest(p)
    PROVE  Tidy'
<1>1. PICK m \in net[p] :
        /\ m.type = "data"
        /\ net' = Read(p, m)
        /\ ht' = [ht EXCEPT ![p] = TableAfter(@, m.packet)]
        /\ stream' = [stream EXCEPT ![m.conn] = Ack(ht[p], m.packet)]
        /\ eof' = eof \cup {m.conn}
  BY DEF HandleOwnRequest
<1>2. UNCHANGED <<rt, status, job, marked>>
  BY DEF HandleOwnRequest
<1>3. m.conn \in Sockets /\ m.packet \in Requests
  BY <1>1, NetMsg, MsgType
<1>4. PICK s \in Sockets : s = m.conn
  BY <1>3
<1>5. stream'[s] # None /\ \A t \in Sockets : t # s => stream'[t] = stream[t]
  BY <1>1, <1>3, <1>4, AckAcknowledges DEF TypeOK
<1>6. NetStep(p, {m}, p, {})
  BY <1>1, ReadNet
<1>7. \A q \in Peers : ~InNet(s, q)'
  <2>1. \A q \in Peers : ~InNet(m.conn, q)'
    BY <1>1, <1>6, PacketRead
  <2> QED
    BY <1>4, <2>1
<1>8. InNet(s, p)
  BY <1>1, <1>4 DEF InNet
<1>9. Served'
  BY <1>1, <1>2, <1>4, <1>5 DEF Tidy, Served, Way, Carried, TypeOK, Sockets
<1>10. PlainTables'
  <2>1. m.packet.key \in Keys /\ \A i \in DOMAIN m.packet.value : m.packet.value[i] # 0
    BY <1>3, RequestType DEF PlainValues
  <2>2. \A k \in Keys : \/ TableAfter(ht[p], m.packet)[k] = ht[p][k]
                       \/ TableAfter(ht[p], m.packet)[k] = None
                       \/ TableAfter(ht[p], m.packet)[k] = m.packet.value
    BY <2>1 DEF TableAfter, TypeOK
  <2>3. \A q \in Peers, k \in Keys : ht'[q][k] = ht[q][k] \/ ht'[q][k] = None \/ ht'[q][k] = m.packet.value
    BY <1>1, <2>2 DEF TypeOK
  <2> QED
    BY <2>1, <2>3 DEF Tidy, PlainTables
<1>11. Fresh'
  <2>1. \A q \in Peers : \A y \in net'[q] :
          y.type = "data" /\ y.conn \in Clients => stream'[y.conn] = None
    <3>1. \A q \in Peers : \A y \in net'[q] : y \in net[q] /\ (y.type = "data" => y.conn # s)
      BY <1>6, <1>7 DEF NetStep, InNet
    <3> QED
      BY <1>5, <3>1 DEF Tidy, Fresh, Sockets
  <2>2. ASSUME NEW q \in Peers, NEW h \in Hashes, NEW i \in DOMAIN rt[q][h]
        PROVE  rt[q][h][i].socket \in marked[q] \/ stream'[rt[q][h][i].socket] = None
    <3>1. rt[q][h][i].socket \in Clients
      BY DEF Way, Carried
    <3>2. rt[q][h][i].socket # s
      <4>1. s \in Clients => NoTable(s)
        BY <1>8 DEF Way, Custody, NoNet
      <4> QED
        BY <3>1, <4>1 DEF NoTable, InTable
    <3> QED
      BY <1>5, <3>1, <3>2 DEF Tidy, Fresh, Sockets
  <2>3. ASSUME NEW q \in Peers, Active(q), NEW i \in DOMAIN job[q].queue
        PROVE  stream'[job[q].queue[i].socket] = None
    <3>1. PICK t : t = job[q].queue[i].socket
      OBVIOUS
    <3>2. t \in Clients /\ NoNet(t)
      BY <2>3, <3>1, QueueHome
    <3>3. t # s
      BY <1>8, <3>2 DEF NoNet
    <3> QED
      BY <1>5, <2>3, <3>1, <3>2, <3>3 DEF Tidy, Fresh, Sockets
  <2> QED
    BY <1>2, <2>1, <2>2, <2>3 DEF Tidy, Fresh, Active
<1> QED
  BY <1>9, <1>10, <1>11 DEF Tidy

\* handle_packet_ctrl on a packet that changes no table.
LEMMA TidyControl ==
    ASSUME Tidy, NEW p, NEW n, NEW gone, NEW new, NetStep(p, gone, n, new),
           \A y \in new : y.type # "data",
           UNCHANGED <<ht, rt, status, job, marked, stream, eof>>
    PROVE  Tidy'
<1>1. Fresh'
  BY FreshNet DEF Tidy, Fresh, Active
<1> QED
  BY <1>1 DEF Tidy, Served, PlainTables

LEMMA TidySucc ==
    ASSUME TypeOK, Routing, Way, Tidy, NEW p \in Peers, HandleSuccRequest(p)
    PROVE  Tidy'
<1>1. PICK m \in net[p] :
        /\ m.type = "data"
        /\ ~OwnHash(p, PseudoHash(m.packet.key))
        /\ StartProxy(Read(p, m), p, Succ[p], PseudoHash(m.packet.key), FALSE,
                      <<[socket |-> m.conn, packet |-> m.packet]>>)
  BY DEF HandleSuccRequest
<1>2. UNCHANGED <<ht, rt, marked, stream, eof>>
  BY DEF HandleSuccRequest
<1> DEFINE queue == <<[socket |-> m.conn, packet |-> m.packet]>>
           x == [type |-> "data", conn |-> p, packet |-> Head(queue).packet]
           new == IF status[Succ[p]] = "stopped" THEN {} ELSE {x}
<1>3. m.conn \in Clients
  BY <1>1, PassedOn
<1>4. DOMAIN queue = {1} /\ queue[1].socket = m.conn /\ x.conn = p
  OBVIOUS
<1>5. /\ \A q \in Peers : q # p => status'[q] = status[q] /\ job'[q] = job[q]
      /\ job'[p].queue = queue
      /\ net' = Forwarded(Read(p, m), Succ[p], x)
  BY <1>1 DEF StartProxy, TypeOK
<1> HIDE DEF queue, x
<1>6. NetStep(p, {m}, Succ[p], new)
  BY <1>5, SuccTest, ForwardNet
<1>7. \A y \in new : ~(y.type = "data" /\ y.conn \in Clients)
  BY <1>4, NamesAssumption
<1> HIDE DEF new
<1>8. \A q \in Peers : \A y \in net'[q] :
        y.type = "data" /\ y.conn \in Clients => stream'[y.conn] = None
  BY <1>2, <1>6, <1>7, FreshNet DEF Tidy
<1>9. stream[m.conn] = None
  BY <1>1, <1>3 DEF Tidy, Fresh
<1>10. ASSUME NEW q \in Peers, Active(q)'
       PROVE  /\ \A i \in DOMAIN job'[q].queue : stream[job'[q].queue[i].socket] = None
              /\ \A i, j \in DOMAIN job'[q].queue :
                   job'[q].queue[i].socket = job'[q].queue[j].socket => i = j
  <2>1. CASE q = p
    BY <1>4, <1>5, <1>9, <2>1
  <2>2. CASE q # p
    BY <1>5, <1>10, <2>2 DEF Tidy, Fresh, Active
  <2> QED
    BY <2>1, <2>2
<1>11. Fresh'
  BY <1>2, <1>8, <1>10 DEF Tidy, Fresh
<1> QED
  BY <1>2, <1>11 DEF Tidy, Served, PlainTables

LEMMA TidyFar ==
    ASSUME TypeOK, Routing, Way, Tidy, NEW p \in Peers, HandleFarRequest(p)
    PROVE  Tidy'
<1>1. PICK m \in net[p] :
        /\ m.type = "data"
        /\ ~OwnHash(p, PseudoHash(m.packet.key))
        /\ rt' = AddRequest(p, PseudoHash(m.packet.key), m.conn, m.packet)
        /\ net' = LookupPeer(Read(p, m), p, m.conn, PseudoHash(m.packet.key))
  BY DEF HandleFarRequest
<1>2. UNCHANGED <<ht, status, job, marked, stream, eof>>
  BY DEF HandleFarRequest
<1> DEFINE g == PseudoHash(m.packet.key)
           o == [socket |-> m.conn, packet |-> m.packet]
           x == [type |-> "lkup", conn |-> m.conn, hash_id |-> g, node |-> p]
           new == IF status[Succ[p]] = "stopped" THEN {} ELSE {x}
<1>3. m.conn \in Clients /\ m.packet \in Requests
  BY <1>1, PassedOn, NetMsg, MsgType
<1>4. g \in Hashes /\ o \in OpenRequest
  BY <1>3, RequestType DEF OpenRequest, Sockets
<1>5. x.type = "lkup" /\ o.socket = m.conn
  OBVIOUS
<1>6. rt' = [rt EXCEPT ![p][g] = Append(@, o)] /\ net' = Forwarded(Read(p, m), Succ[p], x)
  BY <1>1 DEF AddRequest, LookupPeer
<1> HIDE DEF g, o, x
<1>7. NetStep(p, {m}, Succ[p], new)
  BY <1>6, SuccTest, ForwardNet
<1>8. \A y \in new : ~(y.type = "data" /\ y.conn \in Clients)
  BY <1>5
<1> HIDE DEF new
<1>9. \A q \in Peers : \A y \in net'[q] :
        y.type = "data" /\ y.conn \in Clients => stream'[y.conn] = None
  BY <1>2, <1>7, <1>8, FreshNet DEF Tidy
<1>10. stream[m.conn] = None
  BY <1>1, <1>3 DEF Tidy, Fresh
<1>11. ASSUME NEW q \in Peers, NEW h \in Hashes, NEW i \in DOMAIN rt'[q][h]
       PROVE  rt'[q][h][i].socket \in marked[q] \/ stream[rt'[q][h][i].socket] = None
  <2>1. CASE q = p /\ h = g
    <3>1. rt[p][g] \in Seq(OpenRequest) /\ rt'[p][g] = Append(rt[p][g], o)
      BY <1>4, <1>6 DEF TypeOK
    <3>2. /\ DOMAIN rt[p][g] = 1..Len(rt[p][g]) /\ Len(rt[p][g]) \in Nat
          /\ DOMAIN rt'[p][g] = 1..(Len(rt[p][g]) + 1)
          /\ rt'[p][g][Len(rt[p][g]) + 1] = o
          /\ \A j \in 1..Len(rt[p][g]) : rt'[p][g][j] = rt[p][g][j]
      BY <1>4, <3>1, AppendProperties, LenProperties
    <3>3. \A u \in Nat : \A j \in 1..(u + 1) : j \in 1..u \/ j = u + 1
      OBVIOUS
    <3>4. i \in DOMAIN rt[p][g] \/ i = Len(rt[p][g]) + 1
      BY <2>1, <3>2, <3>3
    <3> QED
      <4>1. CASE i \in DOMAIN rt[p][g]
        BY <1>4, <2>1, <3>2, <4>1 DEF Tidy, Fresh
      <4>2. CASE i = Len(rt[p][g]) + 1
        BY <1>5, <1>10, <2>1, <3>2, <4>2
      <4> QED
        BY <3>4, <4>1, <4>2
  <2>2. CASE ~(q = p /\ h = g)
    <3>1. rt'[q][h] = rt[q][h]
      BY <1>4, <1>6, <2>2 DEF TypeOK
    <3> QED
      BY <3>1 DEF Tidy, Fresh
  <2> QED
    BY <2>1, <2>2
<1>12. Fresh'
  BY <1>2, <1>9, <1>11 DEF Tidy, Fresh, Active
<1> QED
  BY <1>2, <1>12 DEF Tidy, Served, PlainTables

LEMMA TidyReply ==
    ASSUME TypeOK, Way, Tidy, NEW p \in Peers, HandleReply(p)
    PROVE  Tidy'
<1>1. PICK m \in net[p] :
        /\ m.type = "rply"
        /\ StartProxy(Read(p, m), p, m.node, m.hash_id, TRUE, rt[p][m.hash_id])
  BY DEF HandleReply
<1>2. status[p] = "idle" /\ UNCHANGED <<ht, rt, marked, stream, eof>>
  BY DEF HandleReply
<1> DEFINE g == m.hash_id
           x == [type |-> "data", conn |-> p, packet |-> Head(rt[p][g]).packet]
           new == IF status[m.node] = "stopped" THEN {} ELSE {x}
<1>3. m.node \in Peers /\ g \in Hashes
  BY <1>1, NetMsg, MsgType
<1>4. x.conn = p
  OBVIOUS
<1>5. /\ \A q \in Peers : q # p => status'[q] = status[q] /\ job'[q] = job[q]
      /\ job'[p].queue = rt[p][g]
      /\ net' = Forwarded(Read(p, m), m.node, x)
  BY <1>1 DEF StartProxy, TypeOK
<1> HIDE DEF g, x
<1>6. NetStep(p, {m}, m.node, new)
  BY <1>3, <1>5, ForwardNet
<1>7. \A y \in new : ~(y.type = "data" /\ y.conn \in Clients)
  BY <1>4, NamesAssumption
<1> HIDE DEF new
<1>8. \A q \in Peers : \A y \in net'[q] :
        y.type = "data" /\ y.conn \in Clients => stream'[y.conn] = None
  BY <1>2, <1>6, <1>7, FreshNet DEF Tidy
<1>9. \A i \in DOMAIN rt[p][g] : stream[rt[p][g][i].socket] = None
  <2>1. \A i \in DOMAIN rt[p][g] : rt[p][g][i].socket \notin marked[p]
    BY <1>2, <1>3 DEF Way, Loops, Active
  <2> QED
    BY <1>3, <2>1 DEF Tidy, Fresh
<1>10. ASSUME NEW i \in DOMAIN rt[p][g], NEW j \in DOMAIN rt[p][g],
              rt[p][g][i].socket = rt[p][g][j].socket
       PROVE  i = j
  <2>1. PICK s : s = rt[p][g][i].socket
    OBVIOUS
  <2>2. s \in Clients /\ InTable(s, p, g, i) /\ InTable(s, p, g, j)
    BY <1>3, <1>10, <2>1 DEF InTable, Way, Carried
  <2>3. OneTable(s)
    BY <1>3, <2>2 DEF Way, Custody, NoTable
  <2>4. PICK k : \A q \in Peers, h \in Hashes : \A l \in DOMAIN rt[q][h] : InTable(s, q, h, l) => l = k
    BY <2>3 DEF OneTable
  <2> QED
    BY <1>3, <2>2, <2>4
<1>11. ASSUME NEW q \in Peers, Active(q)'
       PROVE  /\ \A i \in DOMAIN job'[q].queue : stream[job'[q].queue[i].socket] = None
              /\ \A i, j \in DOMAIN job'[q].queue :
                   job'[q].queue[i].socket = job'[q].queue[j].socket => i = j
  <2>1. CASE q = p
    BY <1>5, <1>9, <1>10, <2>1
  <2>2. CASE q # p
    BY <1>5, <1>11, <2>2 DEF Tidy, Fresh, Active
  <2> QED
    BY <2>1, <2>2
<1>12. Fresh'
  BY <1>2, <1>8, <1>11 DEF Tidy, Fresh
<1> QED
  BY <1>2, <1>12 DEF Tidy, Served, PlainTables

\* What the second half of proxy_request writes, and to whom.
LEMMA RelayWrites ==
    ASSUME TypeOK, Way, Tidy, NEW p \in Peers, Relay(p), NEW s, s = Head(job[p].queue).socket
    PROVE  /\ status[p] = "proxying" /\ Active(p) /\ p \in eof /\ p \in Sockets /\ p \notin Clients
           /\ s = job[p].queue[1].socket /\ 1 \in DOMAIN job[p].queue
           /\ s \in Clients /\ s \in Sockets
           /\ stream[p] # None /\ stream[s] = None
           /\ stream'[s] = stream[p] /\ stream'[p] = None
           /\ \A t \in Sockets : t # s /\ t # p => stream'[t] = stream[t]
<1>1. status[p] = "proxying" /\ Active(p) /\ p \in eof /\ p \in Sockets /\ p \notin Clients
  BY NamesAssumption DEF Relay, Active, Sockets
<1>2. s = job[p].queue[1].socket /\ 1 \in DOMAIN job[p].queue
  BY <1>1, QueueHead
<1>3. s \in Clients /\ s \in Sockets /\ stream[s] = None
  BY <1>1, <1>2 DEF Way, Carried, Tidy, Fresh, Sockets
<1>4. stream[p] # None
  BY <1>1 DEF Tidy, Served
<1>5. stream' = [stream EXCEPT ![s] = IF stream[p] = None THEN @ ELSE stream[p], ![p] = None]
  BY DEF Relay
<1>6. stream \in [Sockets -> Packet \cup {None, Garbage}]
  BY DEF TypeOK
<1>7. /\ stream'[s] = stream[p] /\ stream'[p] = None
      /\ \A t \in Sockets : t # s /\ t # p => stream'[t] = stream[t]
  BY <1>1, <1>3, <1>4, <1>5, <1>6
<1> QED
  BY <1>1, <1>2, <1>3, <1>4, <1>7

\* The client it writes to is nowhere else.
LEMMA RelayHome ==
    ASSUME TypeOK, Way, Tidy, NEW p \in Peers, Relay(p), NEW s, s = Head(job[p].queue).socket
    PROVE  /\ NoNet(s)
           /\ \A q \in Peers : Active(q) => \A j \in DOMAIN job[q].queue :
                job[q].queue[j].socket = s => q = p
           /\ \A q \in Peers, h \in Hashes : \A k : InTable(s, q, h, k) =>
                q = p /\ job[p].reply /\ h = job[p].hash_id
<1>1. PICK i \in DOMAIN job[p].queue : Active(p) /\ s = job[p].queue[i].socket
  BY RelayWrites
<1> QED
  BY <1>1, QueueHome

\* What the callers of proxy_request do next with the marks, the table and the queue
\* of p when client s has its answer.
AfterRelay(p, s) ==
    /\ UNCHANGED ht
    /\ \A q \in Peers : \A y \in net'[q] : y.type = "data" /\ y.conn \in Clients => y \in net[q]
    /\ eof' \subseteq (eof \ {p}) \cup {s}
    /\ \A q \in Peers : q # p => job'[q] = job[q] /\ (Active(q)' <=> Active(q))
    /\ Active(p)' =>
         /\ job'[p].queue \in Seq(OpenRequest)
         /\ \A i \in DOMAIN job'[p].queue :
              i + 1 \in DOMAIN job[p].queue /\ job'[p].queue[i] = job[p].queue[i + 1]
    /\ \A q \in Peers : marked'[q] = marked[q] \/ (q = p /\ marked'[q] = marked[q] \cup {s})
    /\ \A q \in Peers, h \in Hashes : rt'[q][h] \in {rt[q][h], <<>>}
    /\ job[p].reply => s \in marked'[p]

LEMMA TidyRelay ==
    ASSUME TypeOK, Way, Tidy, NEW p \in Peers, Relay(p), NEW s, s = Head(job[p].queue).socket,
           AfterRelay(p, s)
    PROVE  Tidy'
<1>1. /\ status[p] = "proxying" /\ Active(p) /\ p \in eof /\ p \in Sockets /\ p \notin Clients
      /\ s = job[p].queue[1].socket /\ 1 \in DOMAIN job[p].queue
      /\ s \in Clients /\ s \in Sockets
      /\ stream[p] # None /\ stream[s] = None
      /\ stream'[s] = stream[p] /\ stream'[p] = None
      /\ \A t \in Sockets : t # s /\ t # p => stream'[t] = stream[t]
  BY RelayWrites
<1>2. \A c \in Clients : c \in Sockets /\ c # p
  BY <1>1 DEF Sockets
<1>3. /\ NoNet(s)
      /\ \A q \in Peers : Active(q) => \A j \in DOMAIN job[q].queue :
           job[q].queue[j].socket = s => q = p
      /\ \A q \in Peers, h \in Hashes : \A k : InTable(s, q, h, k) =>
           q = p /\ job[p].reply /\ h = job[p].hash_id
  BY RelayHome
<1>4. Served'
  <2>1. \A t \in eof' : stream'[t] # None
    <3> SUFFICES ASSUME NEW t \in eof' PROVE stream'[t] # None
      OBVIOUS
    <3>1. CASE t = s
      BY <1>1, <3>1
    <3>2. CASE t # s
      <4>1. t \in eof /\ t # p /\ t \in Sockets
        BY <3>2 DEF AfterRelay, TypeOK
      <4>2. stream[t] # None
        BY <4>1 DEF Tidy, Served
      <4> QED
        BY <1>1, <3>2, <4>1, <4>2
    <3> QED
      BY <3>1, <3>2
  <2>2. \A q \in Peers : \A c \in marked'[q] : stream'[c] # None
    BY <1>1, <1>2 DEF AfterRelay, Tidy, Served, Way, Carried
  <2> QED
    BY <2>1, <2>2 DEF Served
<1>5. \A q \in Peers : \A y \in net'[q] :
        y.type = "data" /\ y.conn \in Clients => stream'[y.conn] = None
  <2>1. \A q \in Peers : \A y \in net[q] : y.type = "data" => y.conn # s
    BY <1>3 DEF NoNet, InNet
  <2> QED
    BY <1>1, <1>2, <2>1 DEF AfterRelay, Tidy, Fresh
<1>6. ASSUME NEW q \in Peers, NEW h \in Hashes, NEW i \in DOMAIN rt'[q][h]
      PROVE  rt'[q][h][i].socket \in marked'[q] \/ stream'[rt'[q][h][i].socket] = None
  <2>1. rt'[q][h] = rt[q][h]
    <3>1. DOMAIN <<>> = {}
      OBVIOUS
    <3> QED
      BY <3>1 DEF AfterRelay
  <2>2. rt[q][h][i].socket \in Clients
    BY <2>1 DEF Way, Carried
  <2>3. CASE rt[q][h][i].socket = s
    <3>1. InTable(s, q, h, i)
      BY <2>1, <2>3 DEF InTable
    <3> QED
      BY <1>3, <2>1, <2>3, <3>1 DEF AfterRelay
  <2>4. CASE rt[q][h][i].socket # s
    <3>1. rt[q][h][i].socket \in marked[q] \/ stream[rt[q][h][i].socket] = None
      BY <2>1 DEF Tidy, Fresh
    <3> QED
      BY <1>1, <1>2, <2>1, <2>2, <2>4, <3>1 DEF AfterRelay
  <2> QED
    BY <2>3, <2>4
<1>7. ASSUME NEW q \in Peers, Active(q)'
      PROVE  /\ \A i \in DOMAIN job'[q].queue : stream'[job'[q].queue[i].socket] = None
             /\ \A i, j \in DOMAIN job'[q].queue :
                  job'[q].queue[i].socket = job'[q].queue[j].socket => i = j
  <2>1. CASE q = p
    <3> DEFINE queue == job[p].queue
               rest == job'[p].queue
    <3>1. \A i \in DOMAIN rest : i + 1 \in DOMAIN queue /\ rest[i] = queue[i + 1]
      BY <1>7, <2>1 DEF AfterRelay
    <3>2. /\ \A i \in DOMAIN queue : queue[i].socket \in Clients /\ stream[queue[i].socket] = None
          /\ \A i, j \in DOMAIN queue : queue[i].socket = queue[j].socket => i = j
      BY <1>1 DEF Tidy, Fresh, Way, Carried
    <3>3. DOMAIN queue \subseteq Nat /\ DOMAIN rest \subseteq Nat \ {0}
      <4>1. queue \in Seq(OpenRequest)
        BY <1>1, QueueHead
      <4>2. DOMAIN queue \subseteq Nat \ {0}
        BY <4>1, LenProperties
      <4>3. rest \in Seq(OpenRequest)
        BY <1>7, <2>1 DEF AfterRelay
      <4> QED
        BY <4>2, <4>3, LenProperties
    <3>4. s = queue[1].socket /\ 1 \in DOMAIN queue
      BY <1>1
    <3> HIDE DEF queue, rest
    <3>5. \A i \in DOMAIN rest : i + 1 # 1
      BY <3>3
    <3>6. \A i \in DOMAIN rest : rest[i].socket # s
      BY <3>1, <3>2, <3>4, <3>5
    <3>7. \A i \in DOMAIN rest : stream'[rest[i].socket] = None
      BY <1>1, <1>2, <3>1, <3>2, <3>6
    <3>8. ASSUME NEW i \in DOMAIN rest, NEW j \in DOMAIN rest, rest[i].socket = rest[j].socket
          PROVE  i = j
      <4>1. i + 1 = j + 1
        BY <3>1, <3>2, <3>8
      <4> QED
        BY <3>3, <4>1
    <3> QED
      BY <2>1, <3>7, <3>8 DEF rest
  <2>2. CASE q # p
    <3>1. Active(q) /\ job'[q] = job[q]
      BY <1>7, <2>2 DEF AfterRelay
    <3>2. \A i \in DOMAIN job[q].queue : job[q].queue[i].socket # s /\ job[q].queue[i].socket \in Clients
      BY <1>3, <2>2, <3>1 DEF Way, Carried
    <3>3. \A i \in DOMAIN job[q].queue : stream'[job[q].queue[i].socket] = None
      BY <1>1, <1>2, <3>1, <3>2 DEF Tidy, Fresh
    <3> QED
      BY <3>1, <3>3 DEF Tidy, Fresh
  <2> QED
    BY <2>1, <2>2
<1>8. Fresh'
  BY <1>5, <1>6, <1>7 DEF Fresh
<1>9. PlainTables'
  BY DEF AfterRelay, Tidy, PlainTables
<1> QED
  BY <1>4, <1>8, <1>9 DEF Tidy

LEMMA TidyFinishProxy ==
    ASSUME TypeOK, Way, Tidy, NEW p \in Peers, FinishProxy(p)
    PROVE  Tidy'
<1>1. PICK s : s = Head(job[p].queue).socket
  OBVIOUS
<1>2. Relay(p)
  BY DEF FinishProxy
<1>3. AfterRelay(p, s)
  BY <1>1 DEF FinishProxy, AfterRelay, Active, TypeOK
<1> QED
  BY <1>1, <1>2, <1>3, TidyRelay

LEMMA TidyProxyNext ==
    ASSUME TypeOK, Way, Tidy, NEW p \in Peers, ProxyNext(p)
    PROVE  Tidy'
<1>1. PICK s : s = Head(job[p].queue).socket
  OBVIOUS
<1> DEFINE queue == job[p].queue
           rest == Tail(queue)
           x == [type |-> "data", conn |-> p, packet |-> Head(rest).packet]
<1>2. /\ Relay(p) /\ job[p].reply
      /\ StartProxy(net, p, job[p].node, job[p].hash_id, TRUE, rest)
      /\ eof' = eof \ {p} /\ UNCHANGED <<ht, rt>>
  BY DEF ProxyNext
<1>3. \A q \in Peers : marked'[q] = IF q = p THEN marked[p] \cup {s} ELSE marked[q]
  BY <1>1 DEF ProxyNext, TypeOK
<1>4. Active(p)
  BY <1>2 DEF Relay, Active
<1>5. /\ \A q \in Peers : q # p => status'[q] = status[q] /\ job'[q] = job[q]
      /\ job'[p].queue = rest
      /\ net' = Forwarded(net, job[p].node, x)
  BY <1>2 DEF StartProxy, TypeOK
<1>6. x.conn = p /\ p \notin Clients
  BY NamesAssumption
<1>7. queue \in Seq(OpenRequest) /\ queue # <<>>
  BY <1>4 DEF Active, TypeOK, Job
<1> HIDE DEF x, queue
<1>8. rest \in Seq(OpenRequest) /\ \A i \in DOMAIN rest : i + 1 \in DOMAIN queue /\ rest[i] = queue[i + 1]
  BY <1>7, HeadTailProperties
<1> HIDE DEF rest
<1>9. \A q \in Peers : \A y \in net'[q] : y.type = "data" /\ y.conn \in Clients => y \in net[q]
  <2>1. job[p].node \in Peers
    BY <1>4 DEF Active, TypeOK, Job
  <2>2. \A q \in Peers : \A y \in net'[q] : y \in net[q] \/ y = x
    BY <1>5, <2>1 DEF Forwarded, TypeOK
  <2> QED
    BY <1>6, <2>2
<1>10. AfterRelay(p, s)
  BY <1>2, <1>3, <1>5, <1>8, <1>9 DEF AfterRelay, Active, queue
<1> QED
  BY <1>1, <1>2, <1>10, TidyRelay

LEMMA TidyFinishReply ==
    ASSUME TypeOK, Way, Tidy, NEW p \in Peers, FinishReply(p)
    PROVE  Tidy'
<1>1. PICK s : s = Head(job[p].queue).socket
  OBVIOUS
<1>2. Relay(p)
  BY DEF FinishReply
<1>3. \A q \in Peers, h \in Hashes : rt'[q][h] \in {rt[q][h], <<>>}
  BY DEF FinishReply, ClearRequests, TypeOK
<1>4. AfterRelay(p, s)
  BY <1>1, <1>3 DEF FinishReply, AfterRelay, Active, TypeOK
<1> QED
  BY <1>1, <1>2, <1>4, TidyRelay

LEMMA TidySweep ==
    ASSUME TypeOK, Way, Tidy, NEW p \in Peers, Sweep(p)
    PROVE  Tidy'
<1>1. /\ status[p] = "idle"
      /\ eof' = eof \cup marked[p]
      /\ UNCHANGED <<ht, rt, net, status, job, stream>>
  BY DEF Sweep
<1>2. \A q \in Peers : marked'[q] = IF q = p THEN {} ELSE marked[q]
  BY DEF Sweep, TypeOK
<1>3. \A h \in Hashes : \A i \in DOMAIN rt[p][h] : rt[p][h][i].socket \notin marked[p]
  BY <1>1 DEF Way, Loops, Active
<1>4. Fresh'
  BY <1>1, <1>2, <1>3 DEF Tidy, Fresh, Active
<1>5. Served'
  BY <1>1, <1>2 DEF Tidy, Served
<1> QED
  BY <1>1, <1>4, <1>5 DEF Tidy, PlainTables

LEMMA TidyStep ==
    ASSUME MayStop = {}, PlainValues
    PROVE  TypeOK /\ Routing /\ Way /\ Tidy /\ [Next]_vars => Tidy'
<1> SUFFICES ASSUME TypeOK, Routing, Way, Tidy, [Next]_vars PROVE Tidy'
  OBVIOUS
<1>1. ASSUME NEW p \in Peers, AnswerLookup(p) PROVE Tidy'
  <2>1. PICK m \in net[p] :
          /\ m.type = "lkup"
          /\ net' = Forwarded(Read(p, m), m.node,
                              [type |-> "rply", conn |-> m.conn, hash_id |-> m.hash_id,
                               node |-> IF OwnHash(p, m.hash_id) THEN p ELSE Succ[p]])
    BY <1>1 DEF AnswerLookup
  <2>2. PICK x : x.type = "rply" /\ net' = Forwarded(Read(p, m), m.node, x)
    BY <2>1
  <2>3. m.node \in Peers
    BY <2>1, NetMsg, MsgType
  <2>4. PICK new : new \subseteq {x} /\ NetStep(p, {m}, m.node, new)
    BY <2>2, <2>3, ForwardNet
  <2> QED
    BY <1>1, <2>2, <2>4, TidyControl DEF AnswerLookup
<1>2. ASSUME NEW p \in Peers, ForwardLookup(p) PROVE Tidy'
  <2>1. PICK m \in net[p] : m.type = "lkup" /\ net' = Forwarded(Read(p, m), Succ[p], m)
    BY <1>2 DEF ForwardLookup
  <2>2. PICK new : new \subseteq {m} /\ NetStep(p, {m}, Succ[p], new)
    BY <2>1, SuccTest, ForwardNet
  <2> QED
    BY <1>2, <2>1, <2>2, TidyControl DEF ForwardLookup
<1>3. ASSUME NEW p \in Peers, IgnoreReply(p) PROVE Tidy'
  <2>1. PICK m \in net[p] : net' = Read(p, m)
    BY <1>3 DEF IgnoreReply
  <2>2. NetStep(p, {m}, p, {})
    BY <2>1, ReadNet
  <2> QED
    BY <1>3, <2>2, TidyControl DEF IgnoreReply
<1>4. CASE UNCHANGED vars
  <2>1. NetStep(None, {}, None, {})
    BY <1>4, StillNet DEF vars
  <2> QED
    BY <1>4, <2>1, TidyControl DEF vars
<1>5. \A p \in Peers : ~Stop(p)
  BY DEF Stop
<1>6. CASE \E c \in Clients, p \in Gateways : Send(c, p)
  BY <1>6, TidySend
<1>7. CASE \E p \in Peers : PeerStep(p)
  BY <1>1, <1>2, <1>3, <1>7, TidyOwn, TidySucc, TidyFar, TidyReply, TidyFinishProxy,
     TidyProxyNext, TidyFinishReply, TidySweep DEF PeerStep
<1> QED
  BY <1>4, <1>5, <1>6, <1>7 DEF Next

LEMMA TidyInvariant ==
    ASSUME MayStop = {}, PlainValues
    PROVE  Spec => []Tidy
BY TidyInit, TidyStep, TypeCorrect, RoutingInvariant, WayInvariant, PTL DEF Spec

-----------------------------------------------------------------------------
(* What the ring shows of its answers.                                     *)

\* Peer p waits in proxy_request for the answer to client c.
WaitsFor(p, c) == status[p] = "proxying" /\ Head(job[p].queue).socket = c

\* v is the answer of client c: what was written to it, or what its proxy has read.
AnswerOf(c, v) ==
    \/ stream[c] # None /\ v = stream[c]
    \/ stream[c] = None /\ v = None /\ \A p \in Peers : ~WaitsFor(p, c)
    \/ stream[c] = None /\ \E p \in Peers : WaitsFor(p, c) /\ v = stream[p]

Answers == \A c \in Clients : \A v : AnswerOf(c, v) <=> v = AnswerBar[c]

LEMMA OneServes ==
    ASSUME TypeOK, Way, NEW c \in Clients, NEW p \in Peers, NEW q \in Peers,
           WaitsFor(p, c), WaitsFor(q, c)
    PROVE  p = q
<1>1. Active(p) /\ Active(q)
  BY DEF WaitsFor, Active
<1>2. /\ 1 \in DOMAIN job[p].queue /\ c = job[p].queue[1].socket
      /\ 1 \in DOMAIN job[q].queue /\ job[q].queue[1].socket = c
  BY <1>1, QueueHead DEF WaitsFor
<1> QED
  BY <1>1, <1>2, QueueHome

LEMMA AnswersHold == TypeOK /\ Way => Answers
<1> SUFFICES ASSUME TypeOK, Way, NEW c \in Clients, NEW v
             PROVE  AnswerOf(c, v) <=> v = AnswerBar[c]
  BY DEF Answers
<1>1. ProxiesFor(c) = {p \in Peers : WaitsFor(p, c)}
  BY DEF ProxiesFor, WaitsFor
<1>2. AnswerBar[c] = IF stream[c] = None /\ ProxiesFor(c) # {}
                       THEN stream[CHOOSE p \in ProxiesFor(c) : TRUE]
                       ELSE stream[c]
  BY DEF AnswerBar
<1>3. CASE stream[c] # None
  BY <1>2, <1>3 DEF AnswerOf
<1>4. CASE stream[c] = None /\ \A p \in Peers : ~WaitsFor(p, c)
  BY <1>1, <1>2, <1>4 DEF AnswerOf
<1>5. CASE stream[c] = None /\ \E p \in Peers : WaitsFor(p, c)
  <2>1. PICK p \in Peers : WaitsFor(p, c)
    BY <1>5
  <2>2. \A q \in Peers : WaitsFor(q, c) => q = p
    BY <2>1, OneServes
  <2>3. ProxiesFor(c) = {p}
    BY <1>1, <2>1, <2>2
  <2>4. AnswerBar[c] = stream[p]
    BY <1>2, <1>5, <2>3
  <2> QED
    BY <1>5, <2>1, <2>2, <2>4 DEF AnswerOf
<1> QED
  BY <1>3, <1>4, <1>5

LEMMA AnswersSame ==
    ASSUME Answers, Answers', \A c \in Clients : \A v : AnswerOf(c, v) => AnswerOf(c, v)'
    PROVE  AnswerBar' = AnswerBar
<1>1. \A c \in Clients : AnswerBar'[c] = AnswerBar[c]
  BY DEF Answers
<1>2. AnswerBar = [c \in Clients |-> AnswerBar[c]] /\ AnswerBar' = [c \in Clients |-> AnswerBar'[c]]
  BY DEF AnswerBar
<1> HIDE DEF AnswerBar
<1> QED
  BY <1>1, <1>2

LEMMA AnswersExcept ==
    ASSUME Answers, Answers', NEW s \in Clients, NEW a, AnswerOf(s, a)',
           \A c \in Clients : \A v : c # s /\ AnswerOf(c, v) => AnswerOf(c, v)'
    PROVE  AnswerBar' = [AnswerBar EXCEPT ![s] = a]
<1>1. AnswerBar'[s] = a /\ \A c \in Clients : c # s => AnswerBar'[c] = AnswerBar[c]
  BY DEF Answers
<1>2. AnswerBar = [c \in Clients |-> AnswerBar[c]] /\ AnswerBar' = [c \in Clients |-> AnswerBar'[c]]
  BY DEF AnswerBar
<1> HIDE DEF AnswerBar
<1> QED
  BY <1>1, <1>2

\* A peer that begins to wait for a client has read nothing for it yet.
LEMMA AnswersBegin ==
    ASSUME Way, Answers, Answers', NEW p \in Peers, status[p] = "idle", stream' = stream,
           \A q \in Peers : q # p => status'[q] = status[q] /\ job'[q] = job[q]
    PROVE  AnswerBar' = AnswerBar
<1>1. stream[p] = None
  BY DEF Way, Proxied
<1>2. \A q \in Peers, c \in Clients : WaitsFor(q, c) => q # p /\ WaitsFor(q, c)'
  BY DEF WaitsFor
<1>3. \A q \in Peers, c \in Clients : WaitsFor(q, c)' => q = p \/ WaitsFor(q, c)
  BY DEF WaitsFor
<1>4. \A c \in Clients : \A v : AnswerOf(c, v) => AnswerOf(c, v)'
  BY <1>1, <1>2, <1>3 DEF AnswerOf
<1> QED
  BY <1>4, AnswersSame

\* Relaying an answer does not change it.
LEMMA AnswersRelay ==
    ASSUME TypeOK, Way, Tidy, Answers, Answers', NEW p \in Peers, Relay(p),
           \A q \in Peers : q # p => status'[q] = status[q] /\ job'[q] = job[q]
    PROVE  AnswerBar' = AnswerBar
<1>1. PICK s : s = Head(job[p].queue).socket
  OBVIOUS
<1>2. /\ status[p] = "proxying" /\ p \notin Clients
      /\ s \in Clients
      /\ stream[p] # None /\ stream[s] = None
      /\ stream'[s] = stream[p] /\ stream'[p] = None
      /\ \A t \in Sockets : t # s /\ t # p => stream'[t] = stream[t]
  BY <1>1, RelayWrites
<1>3. /\ \A c \in Clients : c # p /\ (c # s => stream'[c] = stream[c])
      /\ \A q \in Peers : q # s /\ (q # p => stream'[q] = stream[q])
  BY <1>2, NamesAssumption DEF Sockets
<1>4. WaitsFor(p, s) /\ \A c \in Clients : WaitsFor(p, c) => c = s
  BY <1>1, <1>2 DEF WaitsFor
<1>5. \A q \in Peers, c \in Clients : q # p => (WaitsFor(q, c)' <=> WaitsFor(q, c))
  BY DEF WaitsFor
<1>6. \A v : AnswerOf(s, v) => v = stream[p]
  BY <1>2, <1>4, OneServes DEF AnswerOf
<1>7. \A v : AnswerOf(s, v) => AnswerOf(s, v)'
  BY <1>2, <1>6 DEF AnswerOf
<1>8. \A c \in Clients : \A v : c # s /\ AnswerOf(c, v) => AnswerOf(c, v)'
  BY <1>2, <1>3, <1>4, <1>5 DEF AnswerOf
<1> QED
  BY <1>7, <1>8, AnswersSame

-----------------------------------------------------------------------------
(* What the ring shows of its tables.                                      *)

\* strncpy copies a string without zero bytes as it is.
LEMMA PlainCopy ==
    ASSUME NEW v \in Seq(Byte), \A i \in DOMAIN v : v[i] # 0
    PROVE  StrNCpy(v) = v
<1>1. DOMAIN v = 1..Len(v) /\ Len(v) \in Nat /\ v = [i \in 1..Len(v) |-> v[i]]
  BY LenProperties
<1>2. \A i \in 1..Len(v) : \A j \in 1..i : v[j] # 0
  BY <1>1
<1> QED
  BY <1>1, <1>2 DEF StrNCpy

\* The value of a key is the one its owner has.
LEMMA StoreAtOwner ==
    ASSUME NEW p \in Peers, NEW k \in Keys, OwnHash(p, PseudoHash(k))
    PROVE  StoreBar[k] = ht[p][k] /\ StoreBar'[k] = ht'[p][k]
<1>1. PseudoHash(k) \in Int
  BY PseudoHashType, RequestType DEF Keys
<1>2. \A q \in Peers : OwnHash(q, PseudoHash(k)) => q = p
  BY <1>1, AtMostOneOwner
<1>3. (CHOOSE q \in Peers : OwnHash(q, PseudoHash(k))) = p
  BY <1>2
<1>4. Owned(PseudoHash(k))
  BY DEF Owned
<1> QED
  BY <1>3, <1>4 DEF StoreBar

LEMMA StoreSame ==
    ASSUME ht' = ht
    PROVE  StoreBar' = StoreBar
BY DEF StoreBar

\* The owner of a key acknowledges what the one map would.
LEMMA AckIsReply ==
    ASSUME TypeOK, Tidy, NEW p \in Peers, NEW r \in Requests
    PROVE  Ack(ht[p], r) = KV!Reply(r, ht[p][r.key])
<1> DEFINE v == ht[p][r.key]
<1>1. r.key \in Keys /\ r.key \in Seq(Byte) /\ StrNCpy(r.key) = r.key
  BY RequestType, PlainCopy, CommandAssumption
<1>2. v # None => v \in Seq(Byte) /\ StrNCpy(v) = v
  <2>1. v \in Seq(Byte) \cup {None}
    BY <1>1 DEF TypeOK
  <2>2. v # None => \A i \in DOMAIN v : v[i] # 0
    BY <1>1 DEF Tidy, PlainTables
  <2> QED
    BY <2>1, <2>2, PlainCopy
<1>3. r.flags = {"GET"} \/ r.flags = {"SET"} \/ r.flags = {"DEL"}
  BY CommandAssumption
<1> HIDE DEF v
<1>4. Ack(ht[p], r) = IF "GET" \in r.flags /\ v # None
                        THEN [flags |-> {"GET", "ACK"}, key |-> r.key, value |-> v]
                        ELSE [flags |-> r.flags \cup {"ACK"}, key |-> <<>>, value |-> <<>>]
  <2>1. CASE r.flags = {"GET"}
    BY <1>1, <1>2, <2>1 DEF Ack, v
  <2>2. CASE r.flags = {"SET"}
    BY <2>2 DEF Ack
  <2>3. CASE r.flags = {"DEL"}
    BY <2>3 DEF Ack
  <2> QED
    BY <1>3, <2>1, <2>2, <2>3
<1> QED
  BY <1>4 DEF KV!Reply, v

\* The owner of a key changes the one map.
LEMMA StoreUpdated ==
    ASSUME TypeOK, NEW p \in Peers, NEW r \in Requests, OwnHash(p, PseudoHash(r.key)),
           ht' = [ht EXCEPT ![p] = TableAfter(@, r)]
    PROVE  StoreBar' = [StoreBar EXCEPT ![r.key] = KV!Updated(r, StoreBar[r.key])]
<1>1. r.key \in Keys
  BY RequestType
<1>2. /\ \A q \in Peers, k \in Keys : k # r.key => ht'[q][k] = ht[q][k]
      /\ ht'[p][r.key] = IF "GET" \in r.flags THEN ht[p][r.key]
                         ELSE IF "SET" \in r.flags THEN r.value ELSE None
  BY <1>1 DEF TypeOK, TableAfter
<1>3. StoreBar[r.key] = ht[p][r.key] /\ StoreBar'[r.key] = ht'[p][r.key]
  BY <1>1, StoreAtOwner
<1>4. StoreBar'[r.key] = KV!Updated(r, StoreBar[r.key])
  BY <1>2, <1>3 DEF KV!Updated
<1>5. \A k \in Keys : k # r.key => StoreBar'[k] = StoreBar[k]
  <2> SUFFICES ASSUME NEW k \in Keys, k # r.key PROVE StoreBar'[k] = StoreBar[k]
    OBVIOUS
  <2>1. CASE Owned(PseudoHash(k))
    <3>1. PICK o \in Peers : OwnHash(o, PseudoHash(k))
      BY <2>1 DEF Owned
    <3> QED
      BY <1>2, <3>1, StoreAtOwner
  <2>2. CASE ~Owned(PseudoHash(k))
    BY <2>2 DEF StoreBar
  <2> QED
    BY <2>1, <2>2
<1>6. /\ StoreBar = [k \in Keys |-> StoreBar[k]]
      /\ StoreBar' = [k \in Keys |-> StoreBar'[k]]
  BY DEF StoreBar
<1> HIDE DEF StoreBar
<1> QED
  BY <1>4, <1>5, <1>6

-----------------------------------------------------------------------------
(* Every step of the ring is a step of the map or changes nothing of it.   *)

LEMMA SendIssues ==
    ASSUME Answers, Answers', NEW c \in Clients, NEW p \in Gateways, Send(c, p)
    PROVE  KV!Next
<1>1. UNCHANGED <<ht, status, job, stream, eof>>
  BY DEF Send
<1>2. StoreBar' = StoreBar
  BY <1>1, StoreSame
<1>3. AnswerBar' = AnswerBar
  BY <1>1, AnswersSame DEF AnswerOf, WaitsFor
<1> HIDE DEF StoreBar, AnswerBar
<1>4. KV!Issue(c)
  BY <1>1, <1>2, <1>3 DEF Send, KV!Issue
<1> QED
  BY <1>4 DEF KV!Next

\* The owner executes the request of client c, on the connection of the client or of
\* the peer that serves it.
LEMMA OwnExecutes ==
    ASSUME TypeOK, Way, Tidy, Answers, Answers', NEW p \in Peers, HandleOwnRequest(p)
    PROVE  KV!Next
<1>1. PICK m \in net[p] :
        /\ m.type = "data"
        /\ OwnHash(p, PseudoHash(m.packet.key))
        /\ net' = Read(p, m)
        /\ ht' = [ht EXCEPT ![p] = TableAfter(@, m.packet)]
        /\ stream' = [stream EXCEPT ![m.conn] = Ack(ht[p], m.packet)]
        /\ eof' = eof \cup {m.conn}
  BY DEF HandleOwnRequest
<1>2. UNCHANGED <<status, job, sent>>
  BY DEF HandleOwnRequest
<1>3. m.conn \in Sockets /\ m.packet \in Requests
  BY <1>1, NetMsg, MsgType
<1>4. PICK s \in Sockets : s = m.conn
  BY <1>3
<1>5. PICK r \in Requests : r = m.packet
  BY <1>3
<1>6. PICK a : a = Ack(ht[p], r)
  OBVIOUS
<1>7. a # None
  BY <1>5, <1>6, AckAcknowledges DEF TypeOK
<1>8. stream'[s] = a /\ \A t \in Sockets : t # s => stream'[t] = stream[t]
  BY <1>1, <1>4, <1>5, <1>6 DEF TypeOK
<1>9. \A q \in Peers, c \in Clients : WaitsFor(q, c)' <=> WaitsFor(q, c)
  BY <1>2 DEF WaitsFor
<1>10. \A c \in Clients, q \in Peers : c \in Sockets /\ q \in Sockets /\ c # q
  BY NamesAssumption DEF Sockets
<1>11. PICK c \in Clients : /\ AnswerOf(c, None) /\ AnswerOf(c, a)'
                            /\ \A d \in Clients : \A v : d # c /\ AnswerOf(d, v) => AnswerOf(d, v)'
                            /\ sent[c] = r
                            /\ eof' \cap Clients \in {eof \cap Clients, (eof \cap Clients) \cup {c}}
  <2>1. CASE s \in Clients
    <3>1. stream[s] = None /\ sent[s] = r
      BY <1>1, <1>4, <1>5, <2>1 DEF Tidy, Fresh, Way, Carried
    <3>2. \A q \in Peers : ~WaitsFor(q, s)
      <4> SUFFICES ASSUME NEW q \in Peers, WaitsFor(q, s) PROVE FALSE
        OBVIOUS
      <4>1. Active(q) /\ 1 \in DOMAIN job[q].queue /\ s = job[q].queue[1].socket
        BY QueueHead DEF WaitsFor, Active
      <4>2. NoNet(s)
        BY <4>1, QueueHome
      <4> QED
        BY <1>1, <1>4, <4>2 DEF NoNet, InNet
    <3>3. AnswerOf(s, None) /\ AnswerOf(s, a)'
      BY <1>7, <1>8, <3>1, <3>2 DEF AnswerOf
    <3>4. \A d \in Clients : \A v : d # s /\ AnswerOf(d, v) => AnswerOf(d, v)'
      BY <1>8, <1>9, <1>10, <2>1 DEF AnswerOf
    <3>5. eof' \cap Clients = (eof \cap Clients) \cup {s}
      BY <1>1, <1>4, <2>1
    <3> QED
      BY <2>1, <3>1, <3>3, <3>4, <3>5
  <2>2. CASE s \in Peers
    <3>1. /\ status[s] = "proxying" /\ s \notin eof /\ stream[s] = None
          /\ r = Head(job[s].queue).packet
      BY <1>1, <1>4, <1>5, <2>2 DEF Way, Proxied
    <3>2. Active(s) /\ 1 \in DOMAIN job[s].queue /\ Head(job[s].queue) = job[s].queue[1]
      BY <2>2, <3>1, QueueHead DEF Active
    <3>3. PICK c \in Clients : c = Head(job[s].queue).socket
      BY <2>2, <3>2 DEF Way, Carried
    <3>4. sent[c] = r /\ stream[c] = None
      BY <2>2, <3>1, <3>2, <3>3 DEF Way, Carried, Tidy, Fresh
    <3>5. WaitsFor(s, c) /\ \A d \in Clients : WaitsFor(s, d) => d = c
      BY <3>1, <3>3 DEF WaitsFor
    <3>6. AnswerOf(c, None)
      BY <2>2, <3>1, <3>4, <3>5 DEF AnswerOf
    <3>7. AnswerOf(c, a)'
      BY <1>8, <1>9, <1>10, <2>2, <3>4, <3>5 DEF AnswerOf
    <3>8. \A d \in Clients : \A v : d # c /\ AnswerOf(d, v) => AnswerOf(d, v)'
      BY <1>8, <1>9, <1>10, <2>2, <3>5 DEF AnswerOf
    <3>9. eof' \cap Clients = eof \cap Clients
      BY <1>1, <1>4, <1>10, <2>2
    <3> QED
      BY <3>4, <3>6, <3>7, <3>8, <3>9
  <2> QED
    BY <2>1, <2>2 DEF Sockets
<1>12. AnswerBar[c] = None /\ AnswerBar' = [AnswerBar EXCEPT ![c] = a]
  BY <1>11, AnswersExcept DEF Answers
<1>13. r.key \in Keys /\ StoreBar[r.key] = ht[p][r.key]
  BY <1>1, <1>5, RequestType, StoreAtOwner
<1>14. StoreBar' = [StoreBar EXCEPT ![r.key] = KV!Updated(r, StoreBar[r.key])]
  BY <1>1, <1>5, StoreUpdated
<1>15. a = KV!Reply(r, StoreBar[r.key])
  BY <1>6, <1>13, AckIsReply
<1>16. sent[c] # None
  BY <1>5, <1>11, RequestType, NoneAssumption
<1> HIDE DEF StoreBar, AnswerBar
<1>17. KV!Execute(c)
  BY <1>2, <1>11, <1>12, <1>14, <1>15, <1>16 DEF KV!Execute
<1> QED
  BY <1>17 DEF KV!Next

\* Closing connections that have their answer, or none at all.
LEMMA Closes ==
    ASSUME Answers, ht' = ht, sent' = sent, AnswerBar' = AnswerBar,
           eof \cap Clients \subseteq eof', \A c \in eof' \cap Clients : AnswerBar[c] # None
    PROVE  KV!Next
<1>1. StoreBar' = StoreBar
  BY StoreSame
<1> HIDE DEF StoreBar, AnswerBar
<1>2. KV!Close
  BY <1>1 DEF KV!Close
<1> QED
  BY <1>2 DEF KV!Next

\* Who has read its answer or is served by a peer that has.
LEMMA AnswerFixed ==
    ASSUME Tidy, Answers, NEW c \in Clients,
           c \in eof \/ (\E p \in Peers : c \in marked[p])
    PROVE  AnswerBar[c] # None
<1>1. stream[c] # None
  BY DEF Tidy, Served
<1> QED
  BY <1>1 DEF Answers, AnswerOf

LEMMA QuietStep ==
    ASSUME Tidy, Answers, Answers', ht' = ht, sent' = sent, AnswerBar' = AnswerBar,
           eof' \cap Clients = eof \cap Clients
    PROVE  KV!Next
BY AnswerFixed, Closes

LEMMA RelayCloses ==
    ASSUME TypeOK, Way, Tidy, Answers, Answers', NEW p \in Peers,
           FinishProxy(p) \/ ProxyNext(p) \/ FinishReply(p)
    PROVE  KV!Next
<1>1. /\ Relay(p)
      /\ \A q \in Peers : q # p => status'[q] = status[q] /\ job'[q] = job[q]
      /\ ht' = ht /\ sent' = sent
  BY DEF FinishProxy, ProxyNext, FinishReply, StartProxy, TypeOK
<1>2. AnswerBar' = AnswerBar
  BY <1>1, AnswersRelay
<1>3. PICK s : s = Head(job[p].queue).socket
  OBVIOUS
<1>4. /\ eof' = (eof \ {p}) \cup {s} \/ eof' = eof \ {p}
      /\ p \notin Clients
  BY <1>3, NamesAssumption DEF FinishProxy, ProxyNext, FinishReply
<1>5. s \in Clients /\ stream[s] = None /\ stream[p] # None /\ WaitsFor(p, s)
  BY <1>1, <1>3, RelayWrites DEF WaitsFor
<1>6. AnswerBar[s] # None
  <2>1. AnswerOf(s, stream[p])
    BY <1>5 DEF AnswerOf
  <2> QED
    BY <1>5, <2>1 DEF Answers
<1>7. \A c \in eof' \cap Clients : AnswerBar[c] # None
  BY <1>4, <1>6, AnswerFixed
<1> QED
  BY <1>1, <1>2, <1>4, <1>7, Closes

LEMMA SweepCloses ==
    ASSUME TypeOK, Tidy, Answers, Answers', NEW p \in Peers, Sweep(p)
    PROVE  KV!Next
<1>1. UNCHANGED <<ht, status, job, stream, sent>> /\ eof' = eof \cup marked[p]
  BY DEF Sweep
<1>2. AnswerBar' = AnswerBar
  BY <1>1, AnswersSame DEF AnswerOf, WaitsFor
<1>3. \A c \in eof' \cap Clients : AnswerBar[c] # None
  BY <1>1, AnswerFixed
<1> QED
  BY <1>1, <1>2, <1>3, Closes

\* Reading packets, opening requests and beginning to wait for an answer.
LEMMA OthersQuiet ==
    ASSUME TypeOK, Way, Tidy, Answers, Answers', NEW p \in Peers,
           \/ HandleSuccRequest(p) \/ HandleFarRequest(p) \/ AnswerLookup(p)
           \/ ForwardLookup(p) \/ HandleReply(p) \/ IgnoreReply(p)
    PROVE  KV!Next
<1>1. /\ status[p] = "idle" /\ UNCHANGED <<ht, stream, eof, sent>>
      /\ \A q \in Peers : q # p => status'[q] = status[q] /\ job'[q] = job[q]
  BY DEF HandleSuccRequest, HandleFarRequest, AnswerLookup, ForwardLookup, HandleReply,
         IgnoreReply, StartProxy, TypeOK
<1>2. AnswerBar' = AnswerBar
  BY <1>1, AnswersBegin
<1> QED
  BY <1>1, <1>2, QuietStep

LEMMA StepRefines ==
    ASSUME MayStop = {}
    PROVE  /\ TypeOK /\ Way /\ Tidy /\ Answers
           /\ (TypeOK /\ Way /\ Tidy /\ Answers)'
           /\ [Next]_vars
           => [KV!Next]_(KV!vars)
<1> SUFFICES ASSUME TypeOK, Way, Tidy, Answers, Answers', [Next]_vars
             PROVE  [KV!Next]_(KV!vars)
  OBVIOUS
<1>1. CASE UNCHANGED vars
  BY <1>1 DEF vars, KV!vars, StoreBar, AnswerBar, ProxiesFor
<1>2. CASE \E c \in Clients, p \in Gateways : Send(c, p)
  BY <1>2, SendIssues
<1>3. \A p \in Peers : ~Stop(p)
  BY DEF Stop
<1>4. CASE \E p \in Peers : PeerStep(p)
  BY <1>4, OwnExecutes, OthersQuiet, RelayCloses, SweepCloses DEF PeerStep
<1> QED
  BY <1>1, <1>2, <1>3, <1>4 DEF Next

LEMMA InitRefines == Init => KV!Init
<1> SUFFICES ASSUME Init PROVE KV!Init
  OBVIOUS
<1>1. \A k \in Keys : StoreBar[k] = None
  <2> SUFFICES ASSUME NEW k \in Keys PROVE StoreBar[k] = None
    OBVIOUS
  <2>1. CASE Owned(PseudoHash(k))
    <3>1. PICK o \in Peers : OwnHash(o, PseudoHash(k))
      BY <2>1 DEF Owned
    <3> QED
      BY <3>1, StoreAtOwner DEF Init
  <2>2. CASE ~Owned(PseudoHash(k))
    BY <2>2 DEF StoreBar
  <2> QED
    BY <2>1, <2>2
<1>2. StoreBar = [k \in Keys |-> None]
  <2>1. StoreBar = [k \in Keys |-> StoreBar[k]]
    BY DEF StoreBar
  <2> HIDE DEF StoreBar
  <2> QED
    BY <1>1, <2>1
<1>3. AnswerBar = [c \in Clients |-> None]
  BY DEF Init, AnswerBar, ProxiesFor, Sockets
<1> QED
  BY <1>2, <1>3 DEF Init, KV!Init

(***************************************************************************)
(* To its clients the ring is one map (KVStore), in every ring that no     *)
(* operator stops and for values without zero bytes: however handlers,     *)
(* lookups, proxies and the sweep of different peers interleave, every     *)
(* request takes effect once, at one instant between the client's send and *)
(* the close of its connection, and the packet the client reads is the     *)
(* answer of that instant.                                                 *)
(***************************************************************************)
THEOREM RingIsStore ==
    ASSUME MayStop = {}, PlainValues
    PROVE  Spec => IsKVStore
<1>1. Spec => [](TypeOK /\ Way /\ Tidy /\ Answers)
  BY TypeCorrect, WayInvariant, TidyInvariant, AnswersHold, PTL
<1> QED
  BY <1>1, InitRefines, StepRefines, PTL DEF Spec, IsKVStore, KV!Spec
=============================================================================
