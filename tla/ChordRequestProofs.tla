------------------------- MODULE ChordRequestProofs -------------------------
(***************************************************************************)
(* Proofs about the way of a request through the ring, for every ring,     *)
(* every set of clients and every set of requests: it is in one place at a *)
(* time, the answer that comes back is its own, the lookup it waits for is *)
(* under way, only peers that wait for one another can hold it up, and one *)
(* that nobody owns holds nobody up.                                       *)
(***************************************************************************)
EXTENDS ChordRingProofs, FiniteSetTheorems

-----------------------------------------------------------------------------
(* The inductive invariant.                                                *)

Active(p) == status[p] \in {"proxying", "hung"}

\* What a client sent is what travels under its name.
Carried ==
    /\ \A p \in Peers : \A m \in net[p] :
         m.type = "data" /\ m.conn \in Clients => m.packet = sent[m.conn]
    /\ \A p \in Peers, h \in Hashes : \A i \in DOMAIN rt[p][h] :
         /\ rt[p][h][i].socket \in Clients
         /\ rt[p][h][i].packet = sent[rt[p][h][i].socket]
    /\ \A p \in Peers : Active(p) => \A i \in DOMAIN job[p].queue :
         /\ job[p].queue[i].socket \in Clients
         /\ job[p].queue[i].packet = sent[job[p].queue[i].socket]
    /\ \A p \in Peers : marked[p] \subseteq Clients

\* The reply loop: its queue is what is left of the open requests of its hash,
\* the others are marked.
LoopAt(p) ==
    LET open == rt[p][job[p].hash_id]
    IN  /\ \A j \in DOMAIN job[p].queue : \E i \in DOMAIN open : open[i] = job[p].queue[j]
        /\ \A i \in DOMAIN open :
             \/ open[i].socket \in marked[p]
             \/ \E j \in DOMAIN job[p].queue : open[i] = job[p].queue[j]

\* Nothing in a request table is marked but what a reply loop has served.
Loops ==
    /\ \A p \in Peers : Active(p) /\ job[p].reply => LoopAt(p)
    /\ \A p \in Peers, h \in Hashes : \A i \in DOMAIN rt[p][h] :
         rt[p][h][i].socket \in marked[p] => Active(p) /\ job[p].reply /\ job[p].hash_id = h
    /\ \A p \in Peers : Active(p) /\ ~job[p].reply => Len(job[p].queue) = 1

\* Where the request of client c may be found.
InNet(c, p) == \E m \in net[p] : m.type = "data" /\ m.conn = c
InTable(c, p, h, i) == i \in DOMAIN rt[p][h] /\ rt[p][h][i].socket = c
InJob(c, p) == Active(p) /\ ~job[p].reply /\ Head(job[p].queue).socket = c
InMarks(c, p) == c \in marked[p] /\ \A h \in Hashes : \A i \in DOMAIN rt[p][h] : ~InTable(c, p, h, i)

NoNet(c) == \A p \in Peers : ~InNet(c, p)
NoTable(c) == \A p \in Peers, h \in Hashes : \A i \in DOMAIN rt[p][h] : ~InTable(c, p, h, i)
NoJob(c) == \A p \in Peers : ~InJob(c, p)
NoMarks(c) == \A p \in Peers : ~InMarks(c, p)

OneNet(c) == \E p \in Peers : InNet(c, p) /\ \A q \in Peers : InNet(c, q) => q = p
OneTable(c) ==
    \E p \in Peers, h \in Hashes : \E i \in DOMAIN rt[p][h] :
        /\ InTable(c, p, h, i)
        /\ \A q \in Peers, g \in Hashes : \A j \in DOMAIN rt[q][g] :
             InTable(c, q, g, j) => q = p /\ g = h /\ j = i
OneJob(c) == \E p \in Peers : InJob(c, p) /\ \A q \in Peers : InJob(c, q) => q = p
OneMark(c) == \E p \in Peers : InMarks(c, p) /\ \A q \in Peers : InMarks(c, q) => q = p

\* A request that was sent is in one place, any other one in none.
Custody(c) ==
    \/ sent[c] = None /\ NoNet(c) /\ NoTable(c) /\ NoJob(c) /\ NoMarks(c) /\ c \notin eof
    \/ sent[c] # None /\ OneNet(c) /\ NoTable(c) /\ NoJob(c) /\ NoMarks(c) /\ c \notin eof
    \/ sent[c] # None /\ NoNet(c) /\ OneTable(c) /\ NoJob(c) /\ NoMarks(c) /\ c \notin eof
    \/ sent[c] # None /\ NoNet(c) /\ NoTable(c) /\ OneJob(c) /\ NoMarks(c) /\ c \notin eof
    \/ sent[c] # None /\ NoNet(c) /\ NoTable(c) /\ NoJob(c) /\ OneMark(c) /\ c \notin eof
    \/ sent[c] # None /\ NoNet(c) /\ NoTable(c) /\ NoJob(c) /\ NoMarks(c) /\ c \in eof

\* a acknowledges request r.
Acknowledges(a, r) ==
    /\ a \in Packet
    /\ "ACK" \in a.flags
    /\ r.flags \subseteq a.flags
    /\ a.key \in {<<>>, r.key}

\* The connection of peer p in proxy_request: its packet waits at the owner or the
\* owner has closed it, with an answer to the packet or by stopping.
Proxied(p) ==
    /\ \A q \in Peers : \A m \in net[q] : m.type = "data" /\ m.conn = p =>
         /\ status[p] = "proxying" /\ p \notin eof /\ job[p].node = q
         /\ m.packet = Head(job[p].queue).packet
    /\ p \in eof => status[p] = "proxying"
    /\ status[p] = "proxying" /\ p \notin eof => InNet(p, job[p].node)
    /\ stream[p] # None =>
         /\ p \in eof
         /\ \/ stream[p] = Garbage /\ status[job[p].node] = "stopped"
            \/ stream[p] # Garbage /\ Acknowledges(stream[p], Head(job[p].queue).packet)

\* What client c has read.
Answered(c) ==
    stream[c] # None =>
        /\ sent[c] # None
        /\ \/ /\ stream[c] = Garbage
              /\ \E p \in Peers : OwnHash(p, PseudoHash(sent[c].key)) /\ status[p] = "stopped"
           \/ stream[c] # Garbage /\ Acknowledges(stream[c], sent[c])

Way ==
    /\ Carried
    /\ Loops
    /\ \A c \in Clients : Custody(c)
    /\ \A p \in Peers : Proxied(p)
    /\ \A c \in Clients : Answered(c)

-----------------------------------------------------------------------------
(* What a step does to the packets under way.                              *)

\* The packets gone are read by p, the packets new are delivered to n.
NetStep(p, gone, n, new) ==
    \A q \in Peers : \A y :
        y \in net'[q] <=> (y \in net[q] /\ ~(q = p /\ y \in gone)) \/ (q = n /\ y \in new)

LEMMA ReadNet ==
    ASSUME TypeOK, NEW p \in Peers, NEW m, net' = Read(p, m)
    PROVE  NetStep(p, {m}, p, {})
<1>1. net \in [Peers -> SUBSET Msg]
  BY DEF TypeOK
<1> QED
  BY <1>1 DEF NetStep, Read

LEMMA ForwardNet ==
    ASSUME TypeOK, NEW p \in Peers, NEW n \in Peers, NEW m, NEW x,
           net' = Forwarded(Read(p, m), n, x)
    PROVE  NetStep(p, {m}, n, IF status[n] = "stopped" THEN {} ELSE {x})
<1>1. net \in [Peers -> SUBSET Msg] /\ Read(p, m) \in [Peers -> SUBSET Msg]
  BY ReadType DEF TypeOK
<1>2. \A q \in Peers : Read(p, m)[q] = IF q = p THEN net[q] \ {m} ELSE net[q]
  BY <1>1 DEF Read
<1> QED
  BY <1>1, <1>2 DEF NetStep, Forwarded

LEMMA ForwardOnlyNet ==
    ASSUME TypeOK, NEW p \in Peers, NEW n \in Peers, NEW x, net' = Forwarded(net, n, x)
    PROVE  NetStep(p, {}, n, IF status[n] = "stopped" THEN {} ELSE {x})
<1>1. net \in [Peers -> SUBSET Msg]
  BY DEF TypeOK
<1> QED
  BY <1>1 DEF NetStep, Forwarded

\* A data packet is known by its connection and its request.
LEMMA SameData ==
    ASSUME NEW m \in Msg, NEW y \in Msg, m.type = "data", y.type = "data",
           m.conn = y.conn, m.packet = y.packet
    PROVE  m = y
<1>1. m \in DataMsg /\ y \in DataMsg
  BY MsgType
<1> QED
  BY <1>1 DEF DataMsg

LEMMA NetMsg == TypeOK => \A p \in Peers : net[p] \subseteq Msg
BY DEF TypeOK

\* The fields of an open request.
LEMMA QueueType ==
    ASSUME NEW queue \in Seq(OpenRequest), NEW i \in DOMAIN queue
    PROVE  /\ queue[i] \in OpenRequest
           /\ queue[i].socket \in Sockets
           /\ queue[i].packet \in Requests
<1>1. queue[i] \in OpenRequest
  BY LenProperties, ElementOfSeq
<1> QED
  BY <1>1 DEF OpenRequest

\* Where no packet of connection s is read or delivered, its packets stay.
LEMMA NetFrame ==
    ASSUME NEW p, NEW n, NEW gone, NEW new, NetStep(p, gone, n, new), NEW s,
           \A y \in gone \cup new : ~(y.type = "data" /\ y.conn = s)
    PROVE  \A q \in Peers : InNet(s, q)' <=> InNet(s, q)
<1> SUFFICES ASSUME NEW q \in Peers
             PROVE  (\E m \in net'[q] : m.type = "data" /\ m.conn = s)
                       <=> (\E m \in net[q] : m.type = "data" /\ m.conn = s)
  BY DEF InNet
<1> QED
  BY DEF NetStep

\* The one packet of a connection is read, and none of it is left.
LEMMA PacketRead ==
    ASSUME TypeOK, Way, NEW p \in Peers, NEW m \in net[p], m.type = "data",
           NEW n, NEW new, NetStep(p, {m}, n, new),
           \A y \in new : ~(y.type = "data" /\ y.conn = m.conn)
    PROVE  \A q \in Peers : ~InNet(m.conn, q)'
<1> SUFFICES ASSUME NEW q \in Peers, NEW y \in net'[q], y.type = "data", y.conn = m.conn
             PROVE  FALSE
  BY DEF InNet
<1>1. y \in net[q] /\ ~(q = p /\ y = m)
  BY DEF NetStep
<1>2. m \in Msg /\ y \in Msg /\ m.conn \in Sockets
  BY <1>1, NetMsg, MsgType
<1>3. CASE m.conn \in Clients
  <2>1. Custody(m.conn) /\ InNet(m.conn, p) /\ InNet(m.conn, q)
    BY <1>1, <1>3 DEF Way, InNet
  <2>2. q = p
    BY <2>1 DEF Custody, OneNet, NoNet
  <2>3. y.packet = m.packet
    BY <1>1, <1>3 DEF Way, Carried
  <2> QED
    BY <1>1, <1>2, <2>2, <2>3, SameData
<1>4. CASE m.conn \in Peers
  <2>1. q = p /\ y.packet = m.packet
    BY <1>1, <1>4 DEF Way, Proxied
  <2> QED
    BY <1>1, <1>2, <2>1, SameData
<1> QED
  BY <1>2, <1>3, <1>4 DEF Sockets

\* A request whose whereabouts do not change stays in one place.
LEMMA CustodyFrame ==
    ASSUME NEW c, Custody(c), sent'[c] = sent[c], c \in eof' <=> c \in eof,
           \A q \in Peers : InNet(c, q)' <=> InNet(c, q),
           \A q \in Peers, h \in Hashes : \A i : InTable(c, q, h, i)' <=> InTable(c, q, h, i),
           \A q \in Peers : InJob(c, q)' <=> InJob(c, q),
           \A q \in Peers : InMarks(c, q)' <=> InMarks(c, q)
    PROVE  Custody(c)'
<1>1. \A q \in Peers, h \in Hashes : \A i :
          /\ InTable(c, q, h, i) => i \in DOMAIN rt[q][h]
          /\ InTable(c, q, h, i)' => i \in DOMAIN rt'[q][h]
  BY DEF InTable
<1>2. (NoNet(c)' <=> NoNet(c)) /\ (OneNet(c)' <=> OneNet(c))
  BY DEF NoNet, OneNet
<1>3. (NoJob(c)' <=> NoJob(c)) /\ (OneJob(c)' <=> OneJob(c))
  BY DEF NoJob, OneJob
<1>4. (NoMarks(c)' <=> NoMarks(c)) /\ (OneMark(c)' <=> OneMark(c))
  BY DEF NoMarks, OneMark
<1>5. NoTable(c)' <=> NoTable(c)
  BY <1>1 DEF NoTable
<1>6. OneTable(c)' <=> OneTable(c)
  BY <1>1 DEF OneTable
<1> QED
  BY <1>2, <1>3, <1>4, <1>5, <1>6 DEF Custody

\* Where the table and the marks do not change, they hold the same requests.
LEMMA TableFrame ==
    ASSUME UNCHANGED <<rt, marked>>, NEW c
    PROVE  /\ \A q \in Peers, h \in Hashes : \A i : InTable(c, q, h, i)' <=> InTable(c, q, h, i)
           /\ \A q \in Peers : InMarks(c, q)' <=> InMarks(c, q)
BY DEF InTable, InMarks

LEMMA JobFrame ==
    ASSUME UNCHANGED <<status, job>>, NEW c
    PROVE  \A q \in Peers : InJob(c, q)' <=> InJob(c, q)
BY DEF InJob, Active

\* Where its job, its table and its marks do not change, a reply loop goes on.
LEMMA LoopFrame ==
    ASSUME NEW q, LoopAt(q), job'[q] = job[q], marked'[q] = marked[q],
           rt'[q][job[q].hash_id] = rt[q][job[q].hash_id]
    PROVE  LoopAt(q)'
BY DEF LoopAt

\* The acknowledgement of handle_own_request.
LEMMA AckAcknowledges ==
    ASSUME NEW t \in [Keys -> Seq(Byte) \cup {None}], NEW r \in Requests
    PROVE  Acknowledges(Ack(t, r), r) /\ Ack(t, r) # Garbage /\ Ack(t, r) # None
<1>1. Ack(t, r) \in Packet
  BY OwnRequestType
<1>2. StrNCpy(r.key) = r.key
  <2>1. r.key \in Seq(Byte) /\ \A i \in DOMAIN r.key : r.key[i] # 0
    BY RequestType, CommandAssumption
  <2>2. \A i \in DOMAIN r.key : ~\E j \in 1..i : r.key[j] = 0
    BY <2>1
  <2>3. StrNCpy(r.key) = [i \in DOMAIN r.key |-> r.key[i]]
    BY <2>2 DEF StrNCpy
  <2> QED
    BY <2>1, <2>3
<1>3. r.flags \in {{"GET"}, {"SET"}, {"DEL"}}
  BY CommandAssumption
<1>4. "ACK" \in Ack(t, r).flags /\ r.flags \subseteq Ack(t, r).flags
  BY <1>3 DEF Ack
<1>5. Ack(t, r).key \in {<<>>, r.key}
  BY <1>2 DEF Ack
<1> QED
  BY <1>1, <1>4, <1>5, NoneAssumption DEF Acknowledges

\* A proxy whose connection a step does not touch goes on waiting.
LEMMA ProxiedFrame ==
    ASSUME TypeOK, NEW s \in Peers, Proxied(s), NEW p, NEW n, NEW gone, NEW new,
           NetStep(p, gone, n, new),
           \A y \in gone \cup new : ~(y.type = "data" /\ y.conn = s),
           status'[s] = status[s], job'[s] = job[s], stream'[s] = stream[s],
           s \in eof' <=> s \in eof,
           \A q \in Peers : status[q] = "stopped" => status'[q] = "stopped"
    PROVE  Proxied(s)'
<1>1. \A q \in Peers : InNet(s, q)' <=> InNet(s, q)
  BY NetFrame
<1>2. \A q \in Peers : \A y \in net'[q] : y.type = "data" /\ y.conn = s => y \in net[q]
  BY DEF NetStep
<1>3. status[s] = "proxying" => job[s].node \in Peers
  BY DEF TypeOK, Job
<1>4. \A q \in Peers : \A y \in net'[q] : y.type = "data" /\ y.conn = s =>
         /\ status'[s] = "proxying" /\ s \notin eof' /\ job'[s].node = q
         /\ y.packet = Head(job'[s].queue).packet
  BY <1>2 DEF Proxied
<1>5. s \in eof' => status'[s] = "proxying"
  BY DEF Proxied
<1>6. status'[s] = "proxying" /\ s \notin eof' => InNet(s, job[s].node)'
  BY <1>1, <1>3 DEF Proxied
<1>7. stream'[s] # None =>
         /\ s \in eof'
         /\ \/ stream'[s] = Garbage /\ status'[job'[s].node] = "stopped"
            \/ stream'[s] # Garbage /\ Acknowledges(stream'[s], Head(job'[s].queue).packet)
  BY <1>3 DEF Proxied
<1> QED
  BY <1>4, <1>5, <1>6, <1>7 DEF Proxied, InNet

\* A peer that is not in proxy_request has no connection of its own.
LEMMA NotProxying ==
    ASSUME NEW p \in Peers, Proxied(p), status[p] # "proxying"
    PROVE  /\ \A q \in Peers : \A m \in net[q] : ~(m.type = "data" /\ m.conn = p)
           /\ p \notin eof
           /\ stream[p] = None
BY DEF Proxied

\* The first half of proxy_request: the packet waits at the owner, or the owner is gone.
LEMMA ProxyStarts ==
    ASSUME TypeOK, NEW p \in Peers, NEW n \in Peers, NEW h, NEW reply, NEW queue, NEW gone, NEW nt,
           StartProxy(nt, p, n, h, reply, queue),
           NetStep(p, gone, n, IF status[n] = "stopped" THEN {} ELSE
                       {[type |-> "data", conn |-> p, packet |-> Head(queue).packet]}),
           \A q \in Peers : \A m \in net[q] : ~(m.type = "data" /\ m.conn = p),
           p \notin eof', stream'[p] = None
    PROVE  Proxied(p)'
<1> DEFINE x == [type |-> "data", conn |-> p, packet |-> Head(queue).packet]
<1>1. /\ job'[p].node = n /\ job'[p].queue = queue
      /\ status'[p] = IF status[n] = "stopped" THEN "hung" ELSE "proxying"
  BY DEF StartProxy, TypeOK
<1>2. x.type = "data" /\ x.conn = p /\ x.packet = Head(queue).packet
  OBVIOUS
<1> HIDE DEF x
<1>3. \A q \in Peers : \A m \in net'[q] : m.type = "data" /\ m.conn = p =>
          status[n] # "stopped" /\ q = n /\ m = x
  BY DEF NetStep, x
<1>4. status[n] # "stopped" => InNet(p, n)'
  <2> SUFFICES ASSUME status[n] # "stopped" PROVE x \in net'[n]
    BY <1>2 DEF InNet
  <2> QED
    BY DEF NetStep, x
<1>5. \A q \in Peers : \A m \in net'[q] : m.type = "data" /\ m.conn = p =>
         /\ status'[p] = "proxying" /\ p \notin eof' /\ job'[p].node = q
         /\ m.packet = Head(job'[p].queue).packet
  BY <1>1, <1>2, <1>3
<1>6. status'[p] = "proxying" => InNet(p, n)'
  BY <1>1, <1>4
<1> QED
  BY <1>1, <1>5, <1>6 DEF Proxied, InNet

\* Only the packets delivered have to carry what their clients sent.
LEMMA CarriedNet ==
    ASSUME Way, NEW p, NEW n, NEW gone, NEW new, NetStep(p, gone, n, new), sent' = sent,
           \A y \in new : ~(y.type = "data" /\ y.conn \in Clients)
    PROVE  \A q \in Peers : \A m \in net'[q] :
             m.type = "data" /\ m.conn \in Clients => m.packet = sent'[m.conn]
BY DEF NetStep, Way, Carried

\* handle_packet_ctrl on a packet that changes no table: nothing moves.
LEMMA ControlStep ==
    ASSUME TypeOK, Way, NEW p, NEW n, NEW gone, NEW new, NetStep(p, gone, n, new),
           \A y \in gone \cup new : y.type # "data",
           UNCHANGED <<rt, status, job, marked, stream, eof, sent>>
    PROVE  Way'
<1>1. Carried'
  BY CarriedNet DEF Way, Carried, Active
<1>2. Loops'
  BY LoopFrame DEF Way, Loops, Active
<1>3. ASSUME NEW c \in Clients PROVE Custody(c)'
  <2>1. \A q \in Peers : InNet(c, q)' <=> InNet(c, q)
    BY NetFrame
  <2>2. /\ \A q \in Peers, h \in Hashes : \A i : InTable(c, q, h, i)' <=> InTable(c, q, h, i)
        /\ \A q \in Peers : InMarks(c, q)' <=> InMarks(c, q)
        /\ \A q \in Peers : InJob(c, q)' <=> InJob(c, q)
    BY TableFrame, JobFrame
  <2> QED
    BY <2>1, <2>2, CustodyFrame DEF Way
<1>4. ASSUME NEW q \in Peers PROVE Proxied(q)'
  BY ProxiedFrame DEF Way
<1>5. ASSUME NEW c \in Clients PROVE Answered(c)'
  BY DEF Way, Answered
<1> QED
  BY <1>1, <1>2, <1>3, <1>4, <1>5 DEF Way

LEMMA WayInit == Init => Way
<1> SUFFICES ASSUME Init PROVE Way
  OBVIOUS
<1>0. /\ \A p \in Peers : net[p] = {} /\ status[p] = "idle" /\ marked[p] = {}
      /\ \A p \in Peers, h \in Hashes : rt[p][h] = <<>>
      /\ \A s \in Sockets : stream[s] = None
      /\ \A c \in Clients : sent[c] = None
      /\ eof = {}
  BY DEF Init
<1>1. Carried
  BY <1>0 DEF Carried, Active
<1>2. Loops
  BY <1>0 DEF Loops, Active
<1>3. ASSUME NEW c \in Clients PROVE Custody(c)
  BY <1>0 DEF Custody, NoNet, NoTable, NoJob, NoMarks, InNet, InTable, InJob, InMarks, Active
<1>4. ASSUME NEW p \in Peers PROVE Proxied(p)
  BY <1>0 DEF Proxied, Sockets
<1>5. ASSUME NEW c \in Clients PROVE Answered(c)
  BY <1>0 DEF Answered, Sockets
<1> QED
  BY <1>1, <1>2, <1>3, <1>4, <1>5 DEF Way

-----------------------------------------------------------------------------
(* The steps.                                                              *)

LEMMA WaySend ==
    ASSUME TypeOK, Way, NEW c \in Clients, NEW p \in Gateways, Send(c, p)
    PROVE  Way'
<1>1. c \notin Peers /\ p \in Peers
  BY NamesAssumption
<1>2. PICK r \in Requests :
        /\ sent' = [sent EXCEPT ![c] = r]
        /\ net' = [net EXCEPT ![p] = @ \cup {[type |-> "data", conn |-> c, packet |-> r]}]
  BY DEF Send
<1> DEFINE x == [type |-> "data", conn |-> c, packet |-> r]
<1>3. NetStep(p, {}, p, {x})
  BY <1>1, <1>2 DEF NetStep, TypeOK
<1>4. x.type = "data" /\ x.conn = c /\ x.packet = r
  OBVIOUS
<1> HIDE DEF x
<1>5. /\ sent[c] = None /\ sent'[c] = r /\ \A d \in Clients : d # c => sent'[d] = sent[d]
      /\ UNCHANGED <<rt, status, job, marked, stream, eof>>
  BY <1>2 DEF Send, TypeOK
<1>6. r # None /\ None \notin Requests
  BY RequestsAssumption, NoneAssumption
<1>7. Carried'
  <2>1. ASSUME NEW q \in Peers, NEW m \in net'[q], m.type = "data", m.conn \in Clients
        PROVE  m.packet = sent'[m.conn]
    <3>1. CASE m = x
      BY <1>4, <1>5, <3>1
    <3>2. CASE m # x
      <4>1. m \in net[q]
        BY <1>3, <3>2 DEF NetStep
      <4>2. m.packet = sent[m.conn] /\ m.packet \in Requests
        BY <2>1, <4>1, NetMsg, MsgType DEF Way, Carried
      <4> QED
        BY <1>5, <1>6, <2>1, <4>2
    <3> QED
      BY <3>1, <3>2
  <2>2. ASSUME NEW q \in Peers, NEW h \in Hashes, NEW i \in DOMAIN rt[q][h]
        PROVE  /\ rt[q][h][i].socket \in Clients
               /\ rt[q][h][i].packet = sent'[rt[q][h][i].socket]
    <3>1. rt[q][h] \in Seq(OpenRequest)
      BY DEF TypeOK
    <3>2. rt[q][h][i].packet \in Requests
      BY <3>1, QueueType
    <3> QED
      BY <1>5, <1>6, <3>2 DEF Way, Carried
  <2>3. ASSUME NEW q \in Peers, Active(q), NEW i \in DOMAIN job[q].queue
        PROVE  /\ job[q].queue[i].socket \in Clients
               /\ job[q].queue[i].packet = sent'[job[q].queue[i].socket]
    <3>1. job[q].queue \in Seq(OpenRequest)
      BY <2>3 DEF TypeOK, Active, Job
    <3>2. job[q].queue[i].packet \in Requests
      BY <3>1, QueueType
    <3> QED
      BY <1>5, <1>6, <2>3, <3>2 DEF Way, Carried
  <2> QED
    BY <1>5, <2>1, <2>2, <2>3 DEF Way, Carried, Active
<1>8. Loops'
  BY <1>5, LoopFrame DEF Way, Loops, Active
<1>9. ASSUME NEW d \in Clients PROVE Custody(d)'
  <2>1. /\ \A q \in Peers, h \in Hashes : \A i : InTable(d, q, h, i)' <=> InTable(d, q, h, i)
        /\ \A q \in Peers : InMarks(d, q)' <=> InMarks(d, q)
        /\ \A q \in Peers : InJob(d, q)' <=> InJob(d, q)
    BY <1>5, TableFrame, JobFrame
  <2>2. CASE d # c
    <3>1. \A q \in Peers : InNet(d, q)' <=> InNet(d, q)
      BY <1>3, <1>4, <2>2, NetFrame
    <3> QED
      BY <1>5, <2>1, <2>2, <3>1, CustodyFrame DEF Way
  <2>3. CASE d = c
    <3>1. NoNet(c) /\ NoTable(c) /\ NoJob(c) /\ NoMarks(c) /\ c \notin eof
      BY <1>5 DEF Way, Custody
    <3>2. NoTable(c)' /\ NoJob(c)' /\ NoMarks(c)'
      BY <1>5, <2>1, <2>3, <3>1 DEF NoTable, NoJob, NoMarks
    <3>3. \A q \in Peers : InNet(c, q)' <=> q = p
      <4>1. \A q \in Peers : \A y \in net[q] : ~(y.type = "data" /\ y.conn = c)
        BY <3>1 DEF NoNet, InNet
      <4>2. \A q \in Peers : \A y : y \in net'[q] <=> y \in net[q] \/ (q = p /\ y = x)
        BY <1>3 DEF NetStep
      <4> QED
        BY <1>1, <1>4, <4>1, <4>2 DEF InNet
    <3>4. OneNet(c)'
      BY <1>1, <3>3 DEF OneNet
    <3> QED
      BY <1>5, <1>6, <2>3, <3>1, <3>2, <3>4 DEF Custody
  <2> QED
    BY <2>2, <2>3
<1>10. ASSUME NEW q \in Peers PROVE Proxied(q)'
  BY <1>1, <1>3, <1>4, <1>5, ProxiedFrame DEF Way
<1>11. ASSUME NEW d \in Clients PROVE Answered(d)'
  BY <1>5, <1>6 DEF Way, Answered
<1> QED
  BY <1>7, <1>8, <1>9, <1>10, <1>11 DEF Way

LEMMA WayOwn ==
    ASSUME TypeOK, Way, NEW p \in Peers, HandleOwnRequest(p)
    PROVE  Way'
<1>1. PICK m \in net[p] :
        /\ m.type = "data"
        /\ net' = Read(p, m)
        /\ stream' = [stream EXCEPT ![m.conn] = Ack(ht[p], m.packet)]
        /\ eof' = eof \cup {m.conn}
  BY DEF HandleOwnRequest
<1>2. UNCHANGED <<rt, status, job, marked, sent>>
  BY DEF HandleOwnRequest
<1> DEFINE s == m.conn
           a == Ack(ht[p], m.packet)
<1>3. m \in Msg /\ s \in Sockets /\ m.packet \in Requests
  BY <1>1, NetMsg, MsgType
<1>4. NetStep(p, {m}, p, {})
  BY <1>1, ReadNet
<1>5. \A q \in Peers : ~InNet(s, q)'
  BY <1>1, <1>4, PacketRead
<1>6. Acknowledges(a, m.packet) /\ a # Garbage /\ a # None
  BY <1>3, AckAcknowledges DEF TypeOK
<1>7. stream'[s] = a /\ \A t \in Sockets : t # s => stream'[t] = stream[t]
  BY <1>1, <1>3 DEF TypeOK
<1> HIDE DEF s, a
<1>8. eof' = eof \cup {s} /\ m.conn = s
  BY <1>1 DEF s
<1>9. Carried'
  BY <1>2, <1>4, CarriedNet DEF Way, Carried, Active
<1>10. Loops'
  BY <1>2, LoopFrame DEF Way, Loops, Active
<1>11. ASSUME NEW c \in Clients PROVE Custody(c)'
  <2>1. /\ \A q \in Peers, h \in Hashes : \A i : InTable(c, q, h, i)' <=> InTable(c, q, h, i)
        /\ \A q \in Peers : InMarks(c, q)' <=> InMarks(c, q)
        /\ \A q \in Peers : InJob(c, q)' <=> InJob(c, q)
    BY <1>2, TableFrame, JobFrame
  <2>2. CASE c # s
    <3>1. \A q \in Peers : InNet(c, q)' <=> InNet(c, q)
      BY <1>4, <1>8, <2>2, NetFrame
    <3> QED
      BY <1>2, <1>8, <2>1, <2>2, <3>1, CustodyFrame DEF Way
  <2>3. CASE c = s
    <3>1. InNet(c, p)
      BY <1>1, <1>8, <2>3 DEF InNet
    <3>2. sent[c] # None /\ NoTable(c) /\ NoJob(c) /\ NoMarks(c)
      BY <3>1 DEF Way, Custody, NoNet
    <3>3. NoTable(c)' /\ NoJob(c)' /\ NoMarks(c)'
      BY <1>2, <2>1, <3>2 DEF NoTable, NoJob, NoMarks
    <3>4. NoNet(c)'
      BY <1>5, <2>3 DEF NoNet
    <3> QED
      BY <1>2, <1>8, <2>3, <3>2, <3>3, <3>4 DEF Custody
  <2> QED
    BY <2>2, <2>3
<1>12. ASSUME NEW q \in Peers PROVE Proxied(q)'
  <2>1. CASE q # s
    BY <1>2, <1>4, <1>7, <1>8, <2>1, ProxiedFrame DEF Way, Sockets
  <2>2. CASE q = s
    <3>1. status[q] = "proxying" /\ m.packet = Head(job[q].queue).packet
      BY <1>1, <1>8, <2>2 DEF Way, Proxied
    <3>2. \A r \in Peers : \A y \in net'[r] : ~(y.type = "data" /\ y.conn = q)
      BY <1>5, <2>2 DEF InNet
    <3> QED
      BY <1>2, <1>6, <1>7, <1>8, <2>2, <3>1, <3>2 DEF Proxied
  <2> QED
    BY <2>1, <2>2
<1>13. ASSUME NEW c \in Clients PROVE Answered(c)'
  <2>1. CASE c # s
    BY <1>2, <1>7, <2>1 DEF Way, Answered, Sockets
  <2>2. CASE c = s
    <3>1. InNet(c, p) /\ m.packet = sent[c]
      BY <1>1, <1>8, <2>2 DEF Way, Carried, InNet
    <3>2. sent[c] # None
      BY <3>1 DEF Way, Custody, NoNet
    <3> QED
      BY <1>2, <1>6, <1>7, <2>2, <3>1, <3>2 DEF Answered
  <2> QED
    BY <2>1, <2>2
<1> QED
  BY <1>9, <1>10, <1>11, <1>12, <1>13 DEF Way

LEMMA WayAnswerLookup ==
    ASSUME TypeOK, Way, NEW p \in Peers, AnswerLookup(p)
    PROVE  Way'
<1>1. PICK m \in net[p] :
        /\ m.type = "lkup"
        /\ net' = Forwarded(Read(p, m), m.node,
                            [type |-> "rply", conn |-> m.conn, hash_id |-> m.hash_id,
                             node |-> IF OwnHash(p, m.hash_id) THEN p ELSE Succ[p]])
  BY DEF AnswerLookup
<1> DEFINE x == [type |-> "rply", conn |-> m.conn, hash_id |-> m.hash_id,
                 node |-> IF OwnHash(p, m.hash_id) THEN p ELSE Succ[p]]
<1>2. m.node \in Peers
  BY <1>1, NetMsg, MsgType
<1>3. NetStep(p, {m}, m.node, IF status[m.node] = "stopped" THEN {} ELSE {x})
  BY <1>1, <1>2, ForwardNet
<1>4. x.type = "rply"
  OBVIOUS
<1> HIDE DEF x
<1> DEFINE new == IF status[m.node] = "stopped" THEN {} ELSE {x}
<1>5. \A y \in {m} \cup new : y.type # "data"
  BY <1>1, <1>4
<1> HIDE DEF new
<1>6. UNCHANGED <<rt, status, job, marked, stream, eof, sent>>
  BY DEF AnswerLookup
<1>7. NetStep(p, {m}, m.node, new)
  BY <1>3 DEF new
<1> QED
  BY <1>5, <1>6, <1>7, ControlStep

LEMMA WayForwardLookup ==
    ASSUME TypeOK, Way, NEW p \in Peers, ForwardLookup(p)
    PROVE  Way'
<1>1. PICK m \in net[p] : m.type = "lkup" /\ net' = Forwarded(Read(p, m), Succ[p], m)
  BY DEF ForwardLookup
<1> DEFINE new == IF status[Succ[p]] = "stopped" THEN {} ELSE {m}
<1>2. NetStep(p, {m}, Succ[p], new)
  BY <1>1, SuccTest, ForwardNet
<1>3. \A y \in {m} \cup new : y.type # "data"
  BY <1>1
<1> HIDE DEF new
<1>4. UNCHANGED <<rt, status, job, marked, stream, eof, sent>>
  BY DEF ForwardLookup
<1> QED
  BY <1>2, <1>3, <1>4, ControlStep

LEMMA WayIgnoreReply ==
    ASSUME TypeOK, Way, NEW p \in Peers, IgnoreReply(p)
    PROVE  Way'
<1>1. PICK m \in net[p] : m.type = "rply" /\ net' = Read(p, m)
  BY DEF IgnoreReply
<1>2. NetStep(p, {m}, p, {})
  BY <1>1, ReadNet
<1>3. \A y \in {m} \cup {} : y.type # "data"
  BY <1>1
<1>4. UNCHANGED <<rt, status, job, marked, stream, eof, sent>>
  BY DEF IgnoreReply
<1> QED
  BY <1>2, <1>3, <1>4, ControlStep

\* What a peer passes on comes from a client: proxied requests are its own.
LEMMA PassedOn ==
    ASSUME TypeOK, Routing, NEW p \in Peers, NEW m \in net[p], m.type = "data",
           ~OwnHash(p, PseudoHash(m.packet.key))
    PROVE  m.conn \in Clients
<1>1. m.conn \in Sockets /\ MsgRouted(p, m)
  BY NetMsg, MsgType DEF Routing, NetRouted
<1> QED
  BY <1>1 DEF MsgRouted, Sockets

LEMMA WaySucc ==
    ASSUME TypeOK, Routing, Way, NEW p \in Peers, HandleSuccRequest(p)
    PROVE  Way'
<1>1. PICK m \in net[p] :
        /\ m.type = "data"
        /\ ~OwnHash(p, PseudoHash(m.packet.key))
        /\ StartProxy(Read(p, m), p, Succ[p], PseudoHash(m.packet.key), FALSE,
                      <<[socket |-> m.conn, packet |-> m.packet]>>)
  BY DEF HandleSuccRequest
<1>2. status[p] = "idle" /\ UNCHANGED <<rt, marked, stream, eof, sent>>
  BY DEF HandleSuccRequest
<1> DEFINE s == m.conn
           n == Succ[p]
           queue == <<[socket |-> m.conn, packet |-> m.packet]>>
           x == [type |-> "data", conn |-> p, packet |-> Head(queue).packet]
           new == IF status[n] = "stopped" THEN {} ELSE {x}
<1>3. s \in Clients /\ s \notin Peers /\ n \in Peers
  BY <1>1, PassedOn, NamesAssumption, SuccTest
<1>4. /\ Len(queue) = 1 /\ DOMAIN queue = {1} /\ Head(queue) = queue[1]
      /\ queue[1].socket = s /\ queue[1].packet = m.packet
  OBVIOUS
<1>5. StartProxy(Read(p, m), p, n, PseudoHash(m.packet.key), FALSE, queue)
  BY <1>1
<1>6. x.type = "data" /\ x.conn = p
  OBVIOUS
<1> HIDE DEF s, n, queue
<1>7. NetStep(p, {m}, n, new)
  <2>1. net' = Forwarded(Read(p, m), n, x)
    BY <1>5 DEF StartProxy
  <2> HIDE DEF x
  <2> QED
    BY <1>3, <2>1, ForwardNet
<1>8. \A y \in new : y.conn = p
  BY <1>6
<1> HIDE DEF x
<1>9. Proxied(p)'
  <2>1. /\ \A q \in Peers : \A y \in net[q] : ~(y.type = "data" /\ y.conn = p)
        /\ p \notin eof' /\ stream'[p] = None
    BY <1>2, NotProxying DEF Way
  <2> QED
    BY <1>3, <1>5, <1>7, <2>1, ProxyStarts DEF x
<1> HIDE DEF new
<1>10. /\ \A q \in Peers : q # p => status'[q] = status[q] /\ job'[q] = job[q]
       /\ status'[p] \in {"proxying", "hung"}
       /\ job'[p].reply = FALSE /\ job'[p].queue = queue
       /\ \A q \in Peers : status[q] = "stopped" => status'[q] = "stopped"
  BY <1>2, <1>3, <1>5 DEF StartProxy, TypeOK
<1>11. m.conn = s /\ s # p /\ \A c \in Clients : c \notin Peers
  BY <1>3, NamesAssumption DEF s
<1>12. InNet(s, p)
  BY <1>1, <1>11 DEF InNet
<1>13. m.packet = sent[s]
  BY <1>1, <1>3, <1>11 DEF Way, Carried
<1>14. Carried'
  <2>1. \A q \in Peers : \A y \in net'[q] :
             y.type = "data" /\ y.conn \in Clients => y.packet = sent'[y.conn]
    BY <1>2, <1>7, <1>8, <1>11, CarriedNet
  <2>2. ASSUME NEW q \in Peers, Active(q)', NEW i \in DOMAIN job'[q].queue
        PROVE  /\ job'[q].queue[i].socket \in Clients
               /\ job'[q].queue[i].packet = sent[job'[q].queue[i].socket]
    <3>1. CASE q = p
      BY <1>3, <1>4, <1>10, <1>13, <3>1
    <3>2. CASE q # p
      BY <1>10, <2>2, <3>2 DEF Way, Carried, Active
    <3> QED
      BY <3>1, <3>2
  <2> QED
    BY <1>2, <2>1, <2>2 DEF Way, Carried, Active
<1>15. Loops'
  <2>1. \A q \in Peers : Active(q)' /\ job'[q].reply => q # p /\ Active(q)
    BY <1>10 DEF Active
  <2>2. \A h \in Hashes : \A i \in DOMAIN rt[p][h] : rt[p][h][i].socket \notin marked[p]
    BY <1>2 DEF Way, Loops, Active
  <2>3. ASSUME NEW q \in Peers, Active(q)', ~job'[q].reply PROVE Len(job'[q].queue) = 1
    <3>1. CASE q = p
      BY <1>4, <1>10, <3>1
    <3>2. CASE q # p
      BY <1>10, <2>3, <3>2 DEF Way, Loops, Active
    <3> QED
      BY <3>1, <3>2
  <2>4. ASSUME NEW q \in Peers, NEW h \in Hashes, NEW i \in DOMAIN rt[q][h],
               rt[q][h][i].socket \in marked[q]
        PROVE  Active(q)' /\ job'[q].reply /\ job'[q].hash_id = h
    BY <1>10, <2>2, <2>4 DEF Way, Loops, Active
  <2> QED
    BY <1>2, <1>10, <2>1, <2>3, <2>4, LoopFrame DEF Way, Loops
<1>16. ASSUME NEW c \in Clients PROVE Custody(c)'
  <2>1. /\ \A q \in Peers, h \in Hashes : \A i : InTable(c, q, h, i)' <=> InTable(c, q, h, i)
        /\ \A q \in Peers : InMarks(c, q)' <=> InMarks(c, q)
    BY <1>2, TableFrame
  <2>2. \A q \in Peers : InJob(c, q)' <=> IF q = p THEN c = s ELSE InJob(c, q)
    BY <1>4, <1>10 DEF InJob, Active
  <2>3. ~InJob(c, p)
    BY <1>2 DEF InJob, Active
  <2>4. CASE c # s
    <3>1. \A q \in Peers : InNet(c, q)' <=> InNet(c, q)
      BY <1>7, <1>8, <1>11, <2>4, NetFrame
    <3>2. \A q \in Peers : InJob(c, q)' <=> InJob(c, q)
      BY <2>2, <2>3, <2>4
    <3> QED
      BY <1>2, <2>1, <3>1, <3>2, CustodyFrame DEF Way
  <2>5. CASE c = s
    <3>1. sent[c] # None /\ NoTable(c) /\ NoJob(c) /\ NoMarks(c) /\ c \notin eof
      BY <1>12, <2>5 DEF Way, Custody, NoNet
    <3>2. NoTable(c)' /\ NoMarks(c)'
      BY <1>2, <2>1, <3>1 DEF NoTable, NoMarks
    <3>3. OneJob(c)'
      BY <2>2, <2>5, <3>1 DEF NoJob, OneJob
    <3>4. NoNet(c)'
      BY <1>1, <1>7, <1>8, <1>11, <2>5, PacketRead DEF NoNet
    <3> QED
      BY <1>2, <3>1, <3>2, <3>3, <3>4 DEF Custody
  <2> QED
    BY <2>4, <2>5
<1>17. ASSUME NEW q \in Peers, q # p PROVE Proxied(q)'
  BY <1>2, <1>3, <1>7, <1>8, <1>10, <1>11, <1>17, ProxiedFrame DEF Way
<1>18. ASSUME NEW c \in Clients PROVE Answered(c)'
  BY <1>2, <1>10 DEF Way, Answered
<1> QED
  BY <1>9, <1>14, <1>15, <1>16, <1>17, <1>18 DEF Way

LEMMA WayFar ==
    ASSUME TypeOK, Routing, Way, NEW p \in Peers, HandleFarRequest(p)
    PROVE  Way'
<1>1. PICK m \in net[p] :
        /\ m.type = "data"
        /\ ~OwnHash(p, PseudoHash(m.packet.key))
        /\ rt' = AddRequest(p, PseudoHash(m.packet.key), m.conn, m.packet)
        /\ net' = LookupPeer(Read(p, m), p, m.conn, PseudoHash(m.packet.key))
  BY DEF HandleFarRequest
<1>2. status[p] = "idle" /\ UNCHANGED <<status, job, marked, stream, eof, sent>>
  BY DEF HandleFarRequest
<1> DEFINE s == m.conn
           h == PseudoHash(m.packet.key)
           o == [socket |-> m.conn, packet |-> m.packet]
           x == [type |-> "lkup", conn |-> m.conn, hash_id |-> h, node |-> p]
           new == IF status[Succ[p]] = "stopped" THEN {} ELSE {x}
           k == Len(rt[p][h]) + 1
<1>3. s \in Clients /\ s \notin Peers /\ m.packet \in Requests
  BY <1>1, PassedOn, NamesAssumption, NetMsg, MsgType
<1>4. h \in Hashes /\ o \in OpenRequest
  BY <1>3, RequestType DEF OpenRequest, Sockets
<1>5. o.socket = s /\ o.packet = m.packet /\ x.type = "lkup" /\ m.conn = s
  OBVIOUS
<1>6. rt' = [rt EXCEPT ![p][h] = Append(@, o)]
  BY <1>1 DEF AddRequest
<1>7. NetStep(p, {m}, Succ[p], new)
  <2>1. net' = Forwarded(Read(p, m), Succ[p], x)
    BY <1>1 DEF LookupPeer
  <2> HIDE DEF x
  <2> QED
    BY <2>1, SuccTest, ForwardNet
<1>8. \A y \in new : y.type # "data"
  BY <1>5
<1> HIDE DEF s, h, o, x, new
<1>9. /\ \A q \in Peers, g \in Hashes : ~(q = p /\ g = h) => rt'[q][g] = rt[q][g]
      /\ rt'[p][h] = Append(rt[p][h], o)
  BY <1>4, <1>6 DEF TypeOK
<1>10. /\ k \in Nat /\ DOMAIN rt'[p][h] = DOMAIN rt[p][h] \cup {k}
       /\ k \notin DOMAIN rt[p][h]
       /\ rt'[p][h][k] = o /\ \A i \in DOMAIN rt[p][h] : rt'[p][h][i] = rt[p][h][i]
  <2>1. rt[p][h] \in Seq(OpenRequest)
    BY <1>4 DEF TypeOK
  <2>2. /\ DOMAIN rt[p][h] = 1..Len(rt[p][h]) /\ Len(rt[p][h]) \in Nat
        /\ DOMAIN rt'[p][h] = 1..(Len(rt[p][h]) + 1)
        /\ rt'[p][h][k] = o /\ \A i \in 1..Len(rt[p][h]) : rt'[p][h][i] = rt[p][h][i]
    BY <1>4, <1>9, <2>1, AppendProperties, LenProperties
  <2>3. PICK u \in Nat : u = Len(rt[p][h])
    BY <2>2
  <2>4. u + 1 \in Nat /\ 1..(u + 1) = (1..u) \cup {u + 1} /\ u + 1 \notin 1..u
    OBVIOUS
  <2>5. k = u + 1
    BY <2>3
  <2> QED
    BY <2>2, <2>3, <2>4, <2>5
<1> HIDE DEF k
\* The table gains one entry, and it is of s.
<1>11. ASSUME NEW q \in Peers, NEW g \in Hashes, NEW i
       PROVE  i \in DOMAIN rt'[q][g] <=> i \in DOMAIN rt[q][g] \/ (q = p /\ g = h /\ i = k)
  BY <1>9, <1>10
<1>12. ASSUME NEW q \in Peers, NEW g \in Hashes, NEW i \in DOMAIN rt'[q][g]
       PROVE  \/ q = p /\ g = h /\ i = k /\ rt'[q][g][i] = o
              \/ i \in DOMAIN rt[q][g] /\ rt'[q][g][i] = rt[q][g][i] /\ ~(q = p /\ g = h /\ i = k)
  BY <1>9, <1>10
<1>13. ASSUME NEW c, NEW q \in Peers, NEW g \in Hashes, NEW i
       PROVE  InTable(c, q, g, i)' <=>
                InTable(c, q, g, i) \/ (c = s /\ q = p /\ g = h /\ i = k)
  BY <1>5, <1>9, <1>10, <1>11, <1>12 DEF InTable
<1>14. InNet(s, p)
  BY <1>1, <1>5 DEF InNet
<1>15. sent[s] # None /\ NoTable(s) /\ NoJob(s) /\ NoMarks(s) /\ s \notin eof
  BY <1>3, <1>14 DEF Way, Custody, NoNet
<1>16. m.packet = sent[s]
  BY <1>1, <1>3, <1>5 DEF Way, Carried
<1>17. Carried'
  <2>1. \A q \in Peers : \A y \in net'[q] :
             y.type = "data" /\ y.conn \in Clients => y.packet = sent'[y.conn]
    BY <1>2, <1>7, <1>8, CarriedNet
  <2>2. ASSUME NEW q \in Peers, NEW g \in Hashes, NEW i \in DOMAIN rt'[q][g]
        PROVE  /\ rt'[q][g][i].socket \in Clients
               /\ rt'[q][g][i].packet = sent[rt'[q][g][i].socket]
    BY <1>3, <1>5, <1>12, <1>16 DEF Way, Carried
  <2> QED
    BY <1>2, <2>1, <2>2 DEF Way, Carried, Active
<1>18. Loops'
  <2>1. s \notin marked[p]
    BY <1>15 DEF NoMarks, NoTable, InMarks
  <2>2. ~Active(p)
    BY <1>2 DEF Active
  <2>3. ASSUME NEW q \in Peers, NEW g \in Hashes, NEW i \in DOMAIN rt'[q][g],
               rt'[q][g][i].socket \in marked[q]
        PROVE  Active(q) /\ job[q].reply /\ job[q].hash_id = g
    BY <1>5, <1>12, <2>1, <2>3 DEF Way, Loops
  <2>4. \A q \in Peers : Active(q) /\ job[q].reply => q # p /\ rt'[q][job[q].hash_id] = rt[q][job[q].hash_id]
    <3>1. \A q \in Peers : Active(q) => job[q].hash_id \in Hashes
      BY DEF Active, TypeOK, Job
    <3> QED
      BY <1>9, <2>2, <3>1
  <2>5. \A q \in Peers : Active(q)' <=> Active(q)
    BY <1>2 DEF Active
  <2> QED
    BY <1>2, <2>3, <2>4, <2>5, LoopFrame DEF Way, Loops
<1>19. ASSUME NEW c \in Clients PROVE Custody(c)'
  <2>1. \A q \in Peers : InJob(c, q)' <=> InJob(c, q)
    BY <1>2, JobFrame
  <2>2. CASE c # s
    <3>1. \A q \in Peers : InNet(c, q)' <=> InNet(c, q)
      BY <1>5, <1>7, <1>8, <2>2, NetFrame
    <3>2. \A q \in Peers, g \in Hashes : \A i : InTable(c, q, g, i)' <=> InTable(c, q, g, i)
      BY <1>13, <2>2
    <3>3. \A q \in Peers, g \in Hashes : \A i :
            /\ InTable(c, q, g, i) => i \in DOMAIN rt[q][g]
            /\ InTable(c, q, g, i)' => i \in DOMAIN rt'[q][g]
      BY DEF InTable
    <3>4. \A q \in Peers : InMarks(c, q)' <=> InMarks(c, q)
      BY <1>2, <3>2, <3>3 DEF InMarks
    <3> QED
      BY <1>2, <2>1, <3>1, <3>2, <3>4, CustodyFrame DEF Way
  <2>3. CASE c = s
    <3>1. NoJob(c)'
      BY <1>15, <2>1, <2>3 DEF NoJob
    <3>2. PICK j : j = k
      OBVIOUS
    <3>3. InTable(c, p, h, j)' /\ j \in DOMAIN rt'[p][h]
      BY <1>5, <1>10, <2>3, <3>2 DEF InTable
    <3>4. \A q \in Peers, g \in Hashes : \A i : InTable(c, q, g, i)' => q = p /\ g = h /\ i = j
      <4>1. \A q \in Peers, g \in Hashes : \A i : ~InTable(c, q, g, i)
        BY <1>15, <2>3 DEF NoTable, InTable
      <4> QED
        BY <1>13, <3>2, <4>1
    <3>5. OneTable(c)'
      BY <1>4, <3>3, <3>4 DEF OneTable
    <3>6. NoMarks(c)'
      <4>1. \A q \in Peers : c \notin marked[q]
        BY <1>15, <2>3 DEF NoMarks, NoTable, InMarks
      <4> QED
        BY <1>2, <4>1 DEF NoMarks, InMarks
    <3>7. NoNet(c)'
      BY <1>1, <1>5, <1>7, <1>8, <2>3, PacketRead DEF NoNet
    <3> QED
      BY <1>2, <1>15, <2>3, <3>1, <3>5, <3>6, <3>7 DEF Custody
  <2> QED
    BY <2>2, <2>3
<1>20. ASSUME NEW q \in Peers PROVE Proxied(q)'
  BY <1>2, <1>3, <1>5, <1>7, <1>8, ProxiedFrame DEF Way
<1>21. ASSUME NEW c \in Clients PROVE Answered(c)'
  BY <1>2 DEF Way, Answered
<1> QED
  BY <1>17, <1>18, <1>19, <1>20, <1>21 DEF Way

LEMMA WayReply ==
    ASSUME TypeOK, Way, NEW p \in Peers, HandleReply(p)
    PROVE  Way'
<1>1. PICK m \in net[p] :
        /\ m.type = "rply"
        /\ rt[p][m.hash_id] # <<>>
        /\ StartProxy(Read(p, m), p, m.node, m.hash_id, TRUE, rt[p][m.hash_id])
  BY DEF HandleReply
<1>2. status[p] = "idle" /\ UNCHANGED <<rt, marked, stream, eof, sent>>
  BY DEF HandleReply
<1> DEFINE n == m.node
           h == m.hash_id
           queue == rt[p][h]
           x == [type |-> "data", conn |-> p, packet |-> Head(queue).packet]
           new == IF status[n] = "stopped" THEN {} ELSE {x}
<1>3. n \in Peers /\ h \in Hashes
  BY <1>1, NetMsg, MsgType
<1>4. StartProxy(Read(p, m), p, n, h, TRUE, queue)
  BY <1>1
<1>5. x.conn = p
  OBVIOUS
<1> HIDE DEF n, h, queue
<1>6. NetStep(p, {m}, n, new)
  <2>1. net' = Forwarded(Read(p, m), n, x)
    BY <1>4 DEF StartProxy
  <2> HIDE DEF x
  <2> QED
    BY <1>3, <2>1, ForwardNet
<1>7. \A y \in new : y.conn = p
  BY <1>5
<1> HIDE DEF x
<1>8. Proxied(p)'
  <2>1. /\ \A q \in Peers : \A y \in net[q] : ~(y.type = "data" /\ y.conn = p)
        /\ p \notin eof' /\ stream'[p] = None
    BY <1>2, NotProxying DEF Way
  <2> QED
    BY <1>3, <1>4, <1>6, <2>1, ProxyStarts DEF x
<1> HIDE DEF new
<1>9. /\ \A q \in Peers : q # p => status'[q] = status[q] /\ job'[q] = job[q]
      /\ status'[p] \in {"proxying", "hung"}
      /\ job'[p].reply = TRUE /\ job'[p].queue = queue /\ job'[p].hash_id = h
      /\ \A q \in Peers : status[q] = "stopped" => status'[q] = "stopped"
  BY <1>2, <1>3, <1>4 DEF StartProxy, TypeOK
<1>10. \A c \in Clients : c \notin Peers
  BY NamesAssumption
<1>11. queue = rt[p][h]
  BY DEF queue
<1>12. Carried'
  <2>1. \A q \in Peers : \A y \in net'[q] :
             y.type = "data" /\ y.conn \in Clients => y.packet = sent'[y.conn]
    BY <1>2, <1>6, <1>7, <1>10, CarriedNet
  <2>2. ASSUME NEW q \in Peers, Active(q)', NEW i \in DOMAIN job'[q].queue
        PROVE  /\ job'[q].queue[i].socket \in Clients
               /\ job'[q].queue[i].packet = sent[job'[q].queue[i].socket]
    <3>1. CASE q = p
      BY <1>3, <1>9, <1>11, <3>1 DEF Way, Carried
    <3>2. CASE q # p
      BY <1>9, <2>2, <3>2 DEF Way, Carried, Active
    <3> QED
      BY <3>1, <3>2
  <2> QED
    BY <1>2, <2>1, <2>2 DEF Way, Carried, Active
<1>13. Loops'
  <2>1. \A g \in Hashes : \A i \in DOMAIN rt[p][g] : rt[p][g][i].socket \notin marked[p]
    BY <1>2 DEF Way, Loops, Active
  <2>2. ASSUME NEW q \in Peers, Active(q)', job'[q].reply
        PROVE  LoopAt(q)'
    <3>1. CASE q = p
      BY <1>2, <1>9, <1>11, <3>1 DEF LoopAt
    <3>2. CASE q # p
      BY <1>2, <1>9, <2>2, <3>2, LoopFrame DEF Way, Loops, Active
    <3> QED
      BY <3>1, <3>2
  <2>3. ASSUME NEW q \in Peers, Active(q)', ~job'[q].reply PROVE Len(job'[q].queue) = 1
    BY <1>9, <2>3 DEF Way, Loops, Active
  <2>4. ASSUME NEW q \in Peers, NEW g \in Hashes, NEW i \in DOMAIN rt[q][g],
               rt[q][g][i].socket \in marked[q]
        PROVE  Active(q)' /\ job'[q].reply /\ job'[q].hash_id = g
    BY <1>9, <2>1, <2>4 DEF Way, Loops, Active
  <2> QED
    BY <1>2, <2>2, <2>3, <2>4 DEF Loops
<1>14. ASSUME NEW c \in Clients PROVE Custody(c)'
  <2>1. /\ \A q \in Peers, g \in Hashes : \A i : InTable(c, q, g, i)' <=> InTable(c, q, g, i)
        /\ \A q \in Peers : InMarks(c, q)' <=> InMarks(c, q)
    BY <1>2, TableFrame
  <2>2. \A q \in Peers : InJob(c, q)' <=> InJob(c, q)
    BY <1>2, <1>9 DEF InJob, Active
  <2>3. \A q \in Peers : InNet(c, q)' <=> InNet(c, q)
    BY <1>1, <1>6, <1>7, <1>10, NetFrame
  <2> QED
    BY <1>2, <2>1, <2>2, <2>3, CustodyFrame DEF Way
<1>15. ASSUME NEW q \in Peers, q # p PROVE Proxied(q)'
  BY <1>1, <1>2, <1>6, <1>7, <1>9, <1>15, ProxiedFrame DEF Way
<1>16. ASSUME NEW c \in Clients PROVE Answered(c)'
  BY <1>2, <1>9 DEF Way, Answered
<1> QED
  BY <1>8, <1>12, <1>13, <1>14, <1>15, <1>16 DEF Way

\* The second half of proxy_request: the answer reaches the client it is for.
LEMMA RelayFacts ==
    ASSUME TypeOK, Routing, Way, NEW p \in Peers, Relay(p), sent' = sent,
           \A q \in Peers : status[q] = "stopped" => status'[q] = "stopped",
           NEW queue, queue = job[p].queue, NEW s, s = Head(queue).socket
    PROVE  /\ status[p] = "proxying" /\ p \in eof
           /\ queue \in Seq(OpenRequest) /\ queue # <<>>
           /\ 1 \in DOMAIN queue /\ Head(queue) = queue[1] /\ s \in Clients /\ s \notin Peers
           /\ \A q \in Peers : \A m \in net[q] : ~(m.type = "data" /\ m.conn = p)
           /\ stream'[p] = None
           /\ \A q \in Peers : q # p => stream'[q] = stream[q]
           /\ \A c \in Clients : Answered(c)'
<1>1. status[p] = "proxying" /\ p \in eof
  BY DEF Relay
<1>2. /\ queue \in Seq(OpenRequest) /\ queue # <<>>
      /\ OwnHash(job[p].node, job[p].hash_id) /\ job[p].node \in Peers
      /\ \A i \in DOMAIN queue : PseudoHash(queue[i].packet.key) = job[p].hash_id
  BY <1>1 DEF TypeOK, Job, Routing, JobRouted
<1>3. 1 \in DOMAIN queue /\ Head(queue) = queue[1]
  BY <1>2, LenProperties, EmptySeq
<1>4. s \in Clients /\ queue[1].packet = sent[s] /\ queue[1].packet \in Requests
  <2>1. Active(p)
    BY <1>1 DEF Active
  <2> QED
    BY <1>2, <1>3, <2>1, QueueType DEF Way, Carried
<1>5. s \notin Peers /\ s \in Sockets /\ p \in Sockets /\ p # s
  BY <1>4, NamesAssumption DEF Sockets
<1>6. stream' = [stream EXCEPT ![s] = IF stream[p] = None THEN @ ELSE stream[p], ![p] = None]
  BY DEF Relay
<1>7. /\ stream'[p] = None
      /\ stream'[s] = IF stream[p] = None THEN stream[s] ELSE stream[p]
      /\ \A t \in Sockets : t # p /\ t # s => stream'[t] = stream[t]
  BY <1>5, <1>6 DEF TypeOK
<1>8. \A q \in Peers : \A m \in net[q] : ~(m.type = "data" /\ m.conn = p)
  BY <1>1 DEF Way, Proxied
<1>9. ASSUME NEW c \in Clients PROVE Answered(c)'
  <2>1. CASE c # s \/ stream[p] = None
    <3>1. stream'[c] = stream[c]
      BY <1>5, <1>7, <2>1, NamesAssumption DEF Sockets
    <3> QED
      BY <3>1 DEF Way, Answered
  <2>2. CASE c = s /\ stream[p] # None
    <3>1. stream'[c] = stream[p] /\ sent'[c] = queue[1].packet
      BY <1>4, <1>7, <2>2
    <3>2. sent'[c] # None
      BY <1>4, <3>1, RequestsAssumption, NoneAssumption
    <3>3. \/ stream[p] = Garbage /\ status[job[p].node] = "stopped"
          \/ stream[p] # Garbage /\ Acknowledges(stream[p], queue[1].packet)
      BY <1>3, <2>2 DEF Way, Proxied
    <3>4. OwnHash(job[p].node, PseudoHash(queue[1].packet.key))
      BY <1>2, <1>3
    <3> QED
      BY <1>2, <3>1, <3>2, <3>3, <3>4 DEF Answered
  <2> QED
    BY <2>1, <2>2
<1> QED
  BY <1>1, <1>2, <1>3, <1>4, <1>5, <1>7, <1>8, <1>9 DEF Sockets

\* A step that delivers nothing and reads nothing.
LEMMA StillNet ==
    ASSUME net' = net, NEW p
    PROVE  NetStep(p, {}, p, {})
BY DEF NetStep

LEMMA WayFinishProxy ==
    ASSUME TypeOK, Routing, Way, NEW p \in Peers, FinishProxy(p)
    PROVE  Way'
<1> DEFINE queue == job[p].queue
           s == Head(queue).socket
<1>1. /\ Relay(p) /\ ~job[p].reply
      /\ eof' = (eof \ {p}) \cup {s}
      /\ UNCHANGED <<rt, net, marked, sent>>
  BY DEF FinishProxy
<1>2. /\ status'[p] = "idle"
      /\ \A q \in Peers : q # p => status'[q] = status[q] /\ job'[q] = job[q]
  BY DEF FinishProxy, TypeOK
<1>3. status[p] = "proxying"
  BY <1>1 DEF Relay
<1>4. \A q \in Peers : status[q] = "stopped" => status'[q] = "stopped"
  BY <1>2, <1>3
<1>5. queue = job[p].queue /\ s = Head(queue).socket
  OBVIOUS
<1> HIDE DEF queue, s
<1>6. /\ s \in Clients /\ s \notin Peers
      /\ \A q \in Peers : \A m \in net[q] : ~(m.type = "data" /\ m.conn = p)
      /\ stream'[p] = None
      /\ \A q \in Peers : q # p => stream'[q] = stream[q]
      /\ \A c \in Clients : Answered(c)'
  BY <1>1, <1>4, <1>5, RelayFacts
<1>7. NetStep(p, {}, p, {})
  BY <1>1, StillNet
<1>8. \A q \in Peers : Active(q)' <=> (q # p /\ Active(q))
  BY <1>2 DEF Active
<1>9. Carried'
  BY <1>1, <1>2, <1>8 DEF Way, Carried
<1>10. Loops'
  <2>1. \A h \in Hashes : \A i \in DOMAIN rt[p][h] : rt[p][h][i].socket \notin marked[p]
    BY <1>1 DEF Way, Loops
  <2> QED
    BY <1>1, <1>2, <1>8, <2>1, LoopFrame DEF Way, Loops
<1>11. ASSUME NEW c \in Clients PROVE Custody(c)'
  <2>1. /\ \A q \in Peers, h \in Hashes : \A i : InTable(c, q, h, i)' <=> InTable(c, q, h, i)
        /\ \A q \in Peers : InMarks(c, q)' <=> InMarks(c, q)
    BY <1>1, TableFrame
  <2>2. \A q \in Peers : InNet(c, q)' <=> InNet(c, q)
    BY <1>1 DEF InNet
  <2>3. \A q \in Peers : InJob(c, q)' <=> InJob(c, q) /\ q # p
    BY <1>2, <1>8 DEF InJob
  <2>4. InJob(c, p) <=> c = s
    BY <1>1, <1>3, <1>5 DEF InJob, Active
  <2>5. CASE c # s
    <3>1. \A q \in Peers : InJob(c, q)' <=> InJob(c, q)
      BY <2>3, <2>4, <2>5
    <3>2. c \in eof' <=> c \in eof
      BY <1>1, <2>5, NamesAssumption
    <3> QED
      BY <1>1, <2>1, <2>2, <3>1, <3>2, CustodyFrame DEF Way
  <2>6. CASE c = s
    <3>1. sent[c] # None /\ NoNet(c) /\ NoTable(c) /\ OneJob(c) /\ NoMarks(c)
      BY <2>4, <2>6 DEF Way, Custody, NoJob
    <3>2. NoNet(c)' /\ NoTable(c)' /\ NoMarks(c)'
      BY <1>1, <2>1, <2>2, <3>1 DEF NoNet, NoTable, NoMarks
    <3>3. NoJob(c)'
      BY <2>3, <2>4, <2>6, <3>1 DEF NoJob, OneJob
    <3> QED
      BY <1>1, <2>6, <3>1, <3>2, <3>3 DEF Custody
  <2> QED
    BY <2>5, <2>6
<1>12. ASSUME NEW q \in Peers PROVE Proxied(q)'
  <2>1. CASE q = p
    BY <1>1, <1>2, <1>6, <2>1 DEF Proxied
  <2>2. CASE q # p
    <3>1. q \in eof' <=> q \in eof
      BY <1>1, <1>6, <2>2
    <3> QED
      BY <1>2, <1>4, <1>6, <1>7, <2>2, <3>1, ProxiedFrame DEF Way
  <2> QED
    BY <2>1, <2>2
<1> QED
  BY <1>6, <1>9, <1>10, <1>11, <1>12 DEF Way

\* The request at the head of the reply loop is in the table, under its hash only.
LEMMA HeadInTable ==
    ASSUME TypeOK, Way, NEW p \in Peers, Active(p), job[p].reply, NEW queue, queue = job[p].queue,
           1 \in DOMAIN queue, NEW s, s = queue[1].socket, s \in Clients,
           NEW g, g = job[p].hash_id
    PROVE  /\ \E i : InTable(s, p, g, i)
           /\ g \in Hashes
           /\ \A q \in Peers, h \in Hashes : \A i :
                InTable(s, q, h, i) => q = p /\ h = g
<1>1. g \in Hashes
  BY DEF TypeOK, Active, Job
<1>2. PICK i \in DOMAIN rt[p][g] : rt[p][g][i] = queue[1]
  BY DEF Way, Loops, LoopAt
<1>3. InTable(s, p, g, i)
  BY <1>2 DEF InTable
<1>4. OneTable(s)
  BY <1>1, <1>2, <1>3 DEF Way, Custody, NoTable
<1>5. PICK q \in Peers, h \in Hashes :
        \A r \in Peers, k \in Hashes : \A j \in DOMAIN rt[r][k] : InTable(s, r, k, j) => r = q /\ k = h
  BY <1>4 DEF OneTable
<1>6. \A r \in Peers, k \in Hashes : \A j : InTable(s, r, k, j) => r = q /\ k = h
  BY <1>5 DEF InTable
<1>7. q = p /\ h = g
  BY <1>1, <1>3, <1>6
<1> QED
  BY <1>1, <1>3, <1>6, <1>7

LEMMA WayProxyNext ==
    ASSUME TypeOK, Routing, Way, NEW p \in Peers, ProxyNext(p)
    PROVE  Way'
<1> DEFINE queue == job[p].queue
           s == Head(queue).socket
           rest == Tail(queue)
           n == job[p].node
           g == job[p].hash_id
           x == [type |-> "data", conn |-> p, packet |-> Head(rest).packet]
           new == IF status[n] = "stopped" THEN {} ELSE {x}
<1>1. /\ Relay(p) /\ job[p].reply /\ rest # <<>>
      /\ eof' = eof \ {p}
      /\ marked' = [marked EXCEPT ![p] = @ \cup {s}]
      /\ StartProxy(net, p, n, g, TRUE, rest)
      /\ UNCHANGED <<rt, sent>>
  BY DEF ProxyNext
<1>2. status[p] = "proxying" /\ Active(p)
  BY <1>1 DEF Relay, Active
<1>3. n \in Peers /\ g \in Hashes
  BY <1>2 DEF TypeOK, Job
<1>4. queue = job[p].queue /\ s = Head(queue).socket /\ rest = Tail(queue) /\ g = job[p].hash_id
  OBVIOUS
<1>5. x.conn = p
  OBVIOUS
<1> HIDE DEF queue, s, rest, n, g
<1>6. NetStep(p, {}, n, new)
  <2>1. net' = Forwarded(net, n, x)
    BY <1>1 DEF StartProxy
  <2> HIDE DEF x
  <2> QED
    BY <1>3, <2>1, ForwardOnlyNet
<1>7. \A y \in new : y.conn = p
  BY <1>5
<1> HIDE DEF x
<1>8. /\ \A q \in Peers : q # p => status'[q] = status[q] /\ job'[q] = job[q]
      /\ status'[p] \in {"proxying", "hung"}
      /\ job'[p].reply = TRUE /\ job'[p].queue = rest /\ job'[p].hash_id = g
      /\ \A q \in Peers : status[q] = "stopped" => status'[q] = "stopped"
  BY <1>1, <1>2, <1>3 DEF StartProxy, TypeOK
<1>9. /\ queue \in Seq(OpenRequest) /\ queue # <<>>
      /\ 1 \in DOMAIN queue /\ Head(queue) = queue[1] /\ s \in Clients /\ s \notin Peers
      /\ \A q \in Peers : \A m \in net[q] : ~(m.type = "data" /\ m.conn = p)
      /\ stream'[p] = None
      /\ \A q \in Peers : q # p => stream'[q] = stream[q]
      /\ \A c \in Clients : Answered(c)'
  BY <1>1, <1>4, <1>8, RelayFacts
<1>10. Proxied(p)'
  BY <1>1, <1>3, <1>6, <1>9, ProxyStarts DEF x
<1> HIDE DEF new
<1>11. \A c \in Clients : c \notin Peers
  BY NamesAssumption
<1>12. /\ \A i \in DOMAIN rest : i + 1 \in DOMAIN queue /\ rest[i] = queue[i + 1]
       /\ \A j \in DOMAIN queue : j = 1 \/ (j - 1 \in DOMAIN rest /\ queue[j] = rest[j - 1])
  BY <1>4, <1>9
<1>13. \A q \in Peers : marked'[q] = IF q = p THEN marked[p] \cup {s} ELSE marked[q]
  BY <1>1 DEF TypeOK
<1>14. /\ \E i : InTable(s, p, g, i)
       /\ \A q \in Peers, h \in Hashes : \A i : InTable(s, q, h, i) => q = p /\ h = g
  <2>1. Active(p) /\ job[p].reply /\ s = queue[1].socket
    BY <1>1, <1>2, <1>4, <1>9
  <2> QED
    BY <1>4, <1>9, <2>1, HeadInTable DEF InTable
<1>15. Carried'
  <2>1. \A q \in Peers : \A y \in net'[q] :
             y.type = "data" /\ y.conn \in Clients => y.packet = sent'[y.conn]
    BY <1>1, <1>6, <1>7, <1>11, CarriedNet
  <2>2. ASSUME NEW q \in Peers, Active(q)', NEW i \in DOMAIN job'[q].queue
        PROVE  /\ job'[q].queue[i].socket \in Clients
               /\ job'[q].queue[i].packet = sent[job'[q].queue[i].socket]
    <3>1. CASE q = p
      <4>1. \A j \in DOMAIN queue : queue[j].socket \in Clients /\ queue[j].packet = sent[queue[j].socket]
        BY <1>2, <1>4 DEF Way, Carried
      <4>2. i \in DOMAIN rest /\ job'[q].queue = rest
        BY <1>8, <2>2, <3>1
      <4>3. i + 1 \in DOMAIN queue /\ rest[i] = queue[i + 1]
        BY <1>12, <4>2
      <4> QED
        BY <4>1, <4>2, <4>3
    <3>2. CASE q # p
      BY <1>8, <2>2, <3>2 DEF Way, Carried, Active
    <3> QED
      BY <3>1, <3>2
  <2>3. \A q \in Peers : marked'[q] \subseteq Clients
    BY <1>9, <1>13 DEF Way, Carried
  <2> QED
    BY <1>1, <2>1, <2>2, <2>3 DEF Way, Carried, Active
<1>16. Loops'
  <2>1. ASSUME NEW q \in Peers, Active(q)', job'[q].reply
        PROVE  LoopAt(q)'
    <3>1. CASE q = p
      <4> DEFINE open == rt[p][g]
      <4>1. /\ \A j \in DOMAIN queue : \E i \in DOMAIN open : open[i] = queue[j]
            /\ \A i \in DOMAIN open :
                 \/ open[i].socket \in marked[p]
                 \/ \E j \in DOMAIN queue : open[i] = queue[j]
        BY <1>1, <1>2, <1>4 DEF Way, Loops, LoopAt
      <4> HIDE DEF open
      <4>2. \A j \in DOMAIN rest : \E i \in DOMAIN open : open[i] = rest[j]
        BY <1>12, <4>1
      <4>3. ASSUME NEW i \in DOMAIN open
            PROVE  \/ open[i].socket \in marked'[p]
                   \/ \E j \in DOMAIN rest : open[i] = rest[j]
        <5>1. CASE open[i].socket \in marked[p]
          BY <1>13, <5>1
        <5>2. ASSUME NEW j \in DOMAIN queue, open[i] = queue[j]
              PROVE  \/ open[i].socket \in marked'[p]
                     \/ \E k \in DOMAIN rest : open[i] = rest[k]
          <6>1. CASE j = 1
            BY <1>4, <1>9, <1>13, <5>2, <6>1
          <6>2. CASE j - 1 \in DOMAIN rest /\ queue[j] = rest[j - 1]
            BY <5>2, <6>2
          <6> QED
            BY <1>12, <6>1, <6>2
        <5> QED
          BY <4>1, <5>1, <5>2
      <4> QED
        BY <1>1, <1>8, <3>1, <4>2, <4>3 DEF open, LoopAt
    <3>2. CASE q # p
      BY <1>1, <1>8, <1>13, <2>1, <3>2, LoopFrame DEF Way, Loops, Active
    <3> QED
      BY <3>1, <3>2
  <2>2. ASSUME NEW q \in Peers, Active(q)', ~job'[q].reply PROVE Len(job'[q].queue) = 1
    BY <1>8, <2>2 DEF Way, Loops, Active
  <2>3. ASSUME NEW q \in Peers, NEW h \in Hashes, NEW i \in DOMAIN rt[q][h],
               rt[q][h][i].socket \in marked'[q]
        PROVE  Active(q)' /\ job'[q].reply /\ job'[q].hash_id = h
    <3>1. CASE q = p
      <4>1. CASE rt[q][h][i].socket = s
        BY <1>8, <1>14, <3>1, <4>1 DEF InTable, Active
      <4>2. CASE rt[q][h][i].socket \in marked[p]
        BY <1>4, <1>8, <3>1, <4>2 DEF Way, Loops, Active
      <4> QED
        BY <1>13, <2>3, <3>1, <4>1, <4>2
    <3>2. CASE q # p
      BY <1>8, <1>13, <2>3, <3>2 DEF Way, Loops, Active
    <3> QED
      BY <3>1, <3>2
  <2> QED
    BY <1>1, <2>1, <2>2, <2>3 DEF Loops
<1>17. ASSUME NEW c \in Clients PROVE Custody(c)'
  <2>1. \A q \in Peers, h \in Hashes : \A i : InTable(c, q, h, i)' <=> InTable(c, q, h, i)
    BY <1>1 DEF InTable
  <2>2. \A q \in Peers : InJob(c, q)' <=> InJob(c, q)
    BY <1>1, <1>8 DEF InJob, Active
  <2>3. \A q \in Peers : InNet(c, q)' <=> InNet(c, q)
    BY <1>6, <1>7, <1>11, NetFrame
  <2>4. c = s => ~InMarks(c, p) /\ ~InMarks(c, p)'
    <3>1. c = s => \E i : InTable(c, p, g, i) /\ i \in DOMAIN rt[p][g]
      BY <1>14 DEF InTable
    <3> QED
      BY <1>1, <1>3, <2>1, <3>1 DEF InMarks
  <2>5. c # s => (InMarks(c, p)' <=> InMarks(c, p))
    BY <1>1, <1>13, <2>1 DEF InMarks
  <2>6. \A q \in Peers : q # p => (InMarks(c, q)' <=> InMarks(c, q))
    BY <1>1, <1>13, <2>1 DEF InMarks
  <2>7. \A q \in Peers : InMarks(c, q)' <=> InMarks(c, q)
    BY <2>4, <2>5, <2>6
  <2>8. c \in eof' <=> c \in eof
    BY <1>1, <1>11
  <2> QED
    BY <1>1, <2>1, <2>2, <2>3, <2>7, <2>8, CustodyFrame DEF Way
<1>18. ASSUME NEW q \in Peers, q # p PROVE Proxied(q)'
  BY <1>1, <1>6, <1>7, <1>8, <1>9, <1>18, ProxiedFrame DEF Way
<1> QED
  BY <1>9, <1>10, <1>15, <1>16, <1>17, <1>18 DEF Way

LEMMA WayFinishReply ==
    ASSUME TypeOK, Routing, Way, NEW p \in Peers, FinishReply(p)
    PROVE  Way'
<1> DEFINE queue == job[p].queue
           s == Head(queue).socket
           g == job[p].hash_id
<1>1. /\ Relay(p) /\ job[p].reply /\ Tail(queue) = <<>>
      /\ eof' = eof \ {p}
      /\ marked' = [marked EXCEPT ![p] = @ \cup {s}]
      /\ rt' = [rt EXCEPT ![p][g] = <<>>]
      /\ UNCHANGED <<net, sent>>
  BY DEF FinishReply, ClearRequests
<1>2. /\ status'[p] = "idle"
      /\ \A q \in Peers : q # p => status'[q] = status[q] /\ job'[q] = job[q]
  BY DEF FinishReply, TypeOK
<1>3. status[p] = "proxying" /\ Active(p)
  BY <1>1 DEF Relay, Active
<1>4. g \in Hashes
  BY <1>3 DEF TypeOK, Job
<1>5. queue = job[p].queue /\ s = Head(queue).socket /\ g = job[p].hash_id
  OBVIOUS
<1> HIDE DEF queue, s, g
<1>6. \A q \in Peers : status[q] = "stopped" => status'[q] = "stopped"
  BY <1>2, <1>3
<1>7. /\ queue \in Seq(OpenRequest) /\ queue # <<>>
      /\ 1 \in DOMAIN queue /\ Head(queue) = queue[1] /\ s \in Clients /\ s \notin Peers
      /\ \A q \in Peers : \A m \in net[q] : ~(m.type = "data" /\ m.conn = p)
      /\ stream'[p] = None
      /\ \A q \in Peers : q # p => stream'[q] = stream[q]
      /\ \A c \in Clients : Answered(c)'
  BY <1>1, <1>5, <1>6, RelayFacts
<1>8. NetStep(p, {}, p, {})
  BY <1>1, StillNet
<1>9. \A q \in Peers : Active(q)' <=> (q # p /\ Active(q))
  BY <1>2 DEF Active
<1>10. \A q \in Peers : marked'[q] = IF q = p THEN marked[p] \cup {s} ELSE marked[q]
  BY <1>1 DEF TypeOK
<1>11. /\ \A q \in Peers, h \in Hashes : ~(q = p /\ h = g) => rt'[q][h] = rt[q][h]
       /\ rt'[p][g] = <<>>
  BY <1>1, <1>4 DEF TypeOK
<1>12. /\ \E i : InTable(s, p, g, i)
       /\ \A q \in Peers, h \in Hashes : \A i : InTable(s, q, h, i) => q = p /\ h = g
  <2>1. Active(p) /\ job[p].reply /\ s = queue[1].socket
    BY <1>1, <1>3, <1>5, <1>7
  <2> QED
    BY <1>5, <1>7, <2>1, HeadInTable DEF InTable
<1>13. \A c : \A q \in Peers, h \in Hashes : \A i :
         InTable(c, q, h, i)' <=> InTable(c, q, h, i) /\ ~(q = p /\ h = g)
  BY <1>11 DEF InTable
\* Whoever was open under the hash is marked now.
<1>14. ASSUME NEW i \in DOMAIN rt[p][g] PROVE rt[p][g][i].socket \in marked'[p]
  <2>1. DOMAIN queue = {1}
    <3>1. Tail(queue) = <<>> /\ queue \in Seq(OpenRequest) /\ queue # <<>>
      BY <1>1, <1>7
    <3>2. Len(queue) = 1
      <4>1. Len(queue) \in Nat /\ Len(queue) # 0
        BY <3>1
      <4>2. Len(Tail(queue)) = Len(queue) - 1 /\ Len(Tail(queue)) = 0
        BY <3>1, HeadTailProperties
      <4>3. \A u \in Nat : u - 1 = 0 => u = 1
        OBVIOUS
      <4> QED
        BY <4>1, <4>2, <4>3, Zenon
    <3> QED
      BY <3>1, <3>2
  <2>2. \/ rt[p][g][i].socket \in marked[p]
        \/ \E j \in DOMAIN queue : rt[p][g][i] = queue[j]
    <3>1. LoopAt(p)
      BY <1>1, <1>3 DEF Way, Loops
    <3> QED
      BY <1>5, <3>1 DEF LoopAt
  <2> QED
    BY <1>5, <1>7, <1>10, <2>1, <2>2
<1>15. Carried'
  <2>1. \A q \in Peers : marked'[q] \subseteq Clients
    BY <1>7, <1>10 DEF Way, Carried
  <2>2. ASSUME NEW q \in Peers, NEW h \in Hashes, NEW i \in DOMAIN rt'[q][h]
        PROVE  /\ rt'[q][h][i].socket \in Clients
               /\ rt'[q][h][i].packet = sent[rt'[q][h][i].socket]
    BY <1>11 DEF Way, Carried
  <2> QED
    BY <1>1, <1>2, <1>9, <2>1, <2>2 DEF Way, Carried
<1>16. Loops'
  <2>1. ASSUME NEW q \in Peers, NEW h \in Hashes, NEW i \in DOMAIN rt'[q][h],
               rt'[q][h][i].socket \in marked'[q]
        PROVE  Active(q)' /\ job'[q].reply /\ job'[q].hash_id = h
    <3>1. ~(q = p /\ h = g) /\ rt'[q][h] = rt[q][h]
      BY <1>11
    <3>2. CASE q = p
      <4>1. rt[q][h][i].socket # s
        BY <1>12, <3>1, <3>2 DEF InTable
      <4>2. rt[q][h][i].socket \in marked[p]
        BY <1>10, <2>1, <3>1, <3>2, <4>1
      <4>3. h = g
        BY <1>5, <3>1, <3>2, <4>2 DEF Way, Loops
      <4> QED
        BY <3>1, <3>2, <4>3
    <3>3. CASE q # p
      BY <1>2, <1>9, <1>10, <2>1, <3>1, <3>3 DEF Way, Loops
    <3> QED
      BY <3>2, <3>3
  <2>2. \A q \in Peers : Active(q)' /\ job'[q].reply =>
           /\ Active(q) /\ job'[q] = job[q] /\ marked'[q] = marked[q]
           /\ rt'[q][job[q].hash_id] = rt[q][job[q].hash_id]
    <3>1. \A q \in Peers : Active(q) => job[q].hash_id \in Hashes
      BY DEF Active, TypeOK, Job
    <3> QED
      BY <1>2, <1>9, <1>10, <1>11, <3>1
  <2>3. \A q \in Peers : Active(q)' /\ ~job'[q].reply => Len(job'[q].queue) = 1
    BY <1>2, <1>9 DEF Way, Loops
  <2> QED
    BY <2>1, <2>2, <2>3, LoopFrame DEF Way, Loops
<1>17. ASSUME NEW c \in Clients PROVE Custody(c)'
  <2>1. \A q \in Peers : InJob(c, q)' <=> InJob(c, q)
    BY <1>1, <1>2, <1>9 DEF InJob
  <2>2. \A q \in Peers : InNet(c, q)' <=> InNet(c, q)
    BY <1>1 DEF InNet
  <2>3. c \in eof' <=> c \in eof
    BY <1>1, NamesAssumption
  <2>4. \A q \in Peers, h \in Hashes : \A i :
          /\ InTable(c, q, h, i) => i \in DOMAIN rt[q][h]
          /\ InTable(c, q, h, i)' => i \in DOMAIN rt'[q][h]
    BY DEF InTable
  <2>5. CASE \E i : InTable(c, p, g, i)
    <3>1. sent[c] # None /\ NoNet(c) /\ OneTable(c) /\ NoJob(c) /\ NoMarks(c) /\ c \notin eof
      BY <1>4, <2>4, <2>5 DEF Way, Custody, NoTable
    <3>2. \A q \in Peers, h \in Hashes : \A i : InTable(c, q, h, i) => q = p /\ h = g
      <4>1. PICK r \in Peers, k \in Hashes :
              \A q \in Peers, h \in Hashes : \A i \in DOMAIN rt[q][h] :
                 InTable(c, q, h, i) => q = r /\ h = k
        BY <3>1 DEF OneTable
      <4>2. \A q \in Peers, h \in Hashes : \A i : InTable(c, q, h, i) => q = r /\ h = k
        BY <2>4, <4>1
      <4>3. r = p /\ k = g
        BY <1>4, <2>5, <4>2
      <4> QED
        BY <4>2, <4>3
    <3>3. \A q \in Peers, h \in Hashes : \A i : ~InTable(c, q, h, i)'
      BY <1>13, <3>2
    <3>4. c \in marked'[p]
      BY <1>14, <2>5 DEF InTable
    <3>5. \A q \in Peers : q # p => c \notin marked[q]
      <4>1. \A q \in Peers : q # p => \A h \in Hashes : \A i : ~InTable(c, q, h, i)
        BY <3>2
      <4> QED
        BY <3>1, <4>1 DEF NoMarks, InMarks
    <3>6. \A q \in Peers : InMarks(c, q)' <=> q = p
      BY <1>10, <3>3, <3>4, <3>5 DEF InMarks
    <3>7. OneMark(c)' /\ NoTable(c)'
      BY <3>3, <3>6 DEF OneMark, NoTable
    <3>8. NoNet(c)' /\ NoJob(c)'
      BY <2>1, <2>2, <3>1 DEF NoNet, NoJob
    <3> QED
      BY <1>1, <2>3, <3>1, <3>7, <3>8 DEF Custody
  <2>6. CASE \A i : ~InTable(c, p, g, i)
    <3>1. \A q \in Peers, h \in Hashes : \A i : InTable(c, q, h, i)' <=> InTable(c, q, h, i)
      BY <1>13, <2>6
    <3>2. c # s
      BY <1>12, <2>6
    <3>3. \A q \in Peers : InMarks(c, q)' <=> InMarks(c, q)
      BY <1>10, <2>4, <3>1, <3>2 DEF InMarks
    <3> QED
      BY <1>1, <2>1, <2>2, <2>3, <3>1, <3>3, CustodyFrame DEF Way
  <2> QED
    BY <2>5, <2>6
<1>18. ASSUME NEW q \in Peers PROVE Proxied(q)'
  <2>1. CASE q = p
    BY <1>1, <1>2, <1>7, <2>1 DEF Proxied
  <2>2. CASE q # p
    BY <1>1, <1>2, <1>6, <1>7, <1>8, <2>2, ProxiedFrame DEF Way
  <2> QED
    BY <2>1, <2>2
<1> QED
  BY <1>7, <1>15, <1>16, <1>17, <1>18 DEF Way

LEMMA WaySweep ==
    ASSUME TypeOK, Way, NEW p \in Peers, Sweep(p)
    PROVE  Way'
<1>1. /\ status[p] = "idle"
      /\ eof' = eof \cup marked[p]
      /\ UNCHANGED <<rt, net, status, job, stream, sent>>
  BY DEF Sweep
<1>2. \A q \in Peers : marked'[q] = IF q = p THEN {} ELSE marked[q]
  BY DEF Sweep, TypeOK
<1>3. ~Active(p) /\ \A q \in Peers : Active(q)' <=> Active(q)
  BY <1>1 DEF Active
<1>4. Carried'
  BY <1>1, <1>2, <1>3 DEF Way, Carried
<1>5. \A h \in Hashes : \A i \in DOMAIN rt[p][h] : rt[p][h][i].socket \notin marked[p]
  BY <1>3 DEF Way, Loops
<1>6. Loops'
  <2>1. \A q \in Peers : Active(q) => q # p /\ marked'[q] = marked[q]
    BY <1>2, <1>3
  <2>2. \A q \in Peers : marked'[q] \subseteq marked[q]
    BY <1>2
  <2> QED
    BY <1>1, <1>3, <2>1, <2>2, LoopFrame DEF Way, Loops
<1>7. ASSUME NEW c \in Clients PROVE Custody(c)'
  <2>1. /\ \A q \in Peers, h \in Hashes : \A i : InTable(c, q, h, i)' <=> InTable(c, q, h, i)
        /\ \A q \in Peers : InJob(c, q)' <=> InJob(c, q)
        /\ \A q \in Peers : InNet(c, q)' <=> InNet(c, q)
    BY <1>1 DEF InTable, InJob, InNet, Active
  <2>2. \A q \in Peers : InMarks(c, q)' <=> InMarks(c, q) /\ q # p
    BY <1>1, <1>2, <2>1 DEF InMarks
  <2>3. InMarks(c, p) <=> c \in marked[p]
    BY <1>5 DEF InMarks, InTable
  <2>4. CASE c \notin marked[p]
    <3>1. \A q \in Peers : InMarks(c, q)' <=> InMarks(c, q)
      BY <2>2, <2>3, <2>4
    <3> QED
      BY <1>1, <2>1, <2>4, <3>1, CustodyFrame DEF Way
  <2>5. CASE c \in marked[p]
    <3>1. sent[c] # None /\ NoNet(c) /\ NoTable(c) /\ NoJob(c) /\ OneMark(c)
      BY <2>3, <2>5 DEF Way, Custody, NoMarks
    <3>2. NoNet(c)' /\ NoTable(c)' /\ NoJob(c)'
      BY <1>1, <2>1, <3>1 DEF NoNet, NoTable, NoJob
    <3>3. NoMarks(c)'
      BY <2>2, <2>3, <2>5, <3>1 DEF NoMarks, OneMark
    <3> QED
      BY <1>1, <2>5, <3>1, <3>2, <3>3 DEF Custody
  <2> QED
    BY <2>4, <2>5
<1>8. ASSUME NEW q \in Peers PROVE Proxied(q)'
  <2>1. NetStep(p, {}, p, {})
    BY <1>1, StillNet
  <2>2. q \in eof' <=> q \in eof
    BY <1>1, NamesAssumption DEF Way, Carried
  <2> QED
    BY <1>1, <2>1, <2>2, ProxiedFrame DEF Way
<1>9. ASSUME NEW c \in Clients PROVE Answered(c)'
  BY <1>1 DEF Way, Answered
<1> QED
  BY <1>4, <1>6, <1>7, <1>8, <1>9 DEF Way

LEMMA WayStop ==
    ASSUME TypeOK, Way, NEW p \in Peers, Stop(p)
    PROVE  Way'
<1> DEFINE unread == {m.conn : m \in {d \in net[p] : d.type = "data"}}
           waiting == UNION {{rt[p][h][i].socket : i \in DOMAIN rt[p][h]} : h \in Hashes}
<1>1. /\ status[p] = "idle" /\ marked[p] = {}
      /\ eof' = eof \cup unread \cup waiting
      /\ UNCHANGED <<job, marked, sent>>
  BY DEF Stop
<1>2. /\ \A q \in Peers : net'[q] = IF q = p THEN {} ELSE net[q]
      /\ \A q \in Peers : status'[q] = IF q = p THEN "stopped" ELSE status[q]
      /\ \A q \in Peers, h \in Hashes : rt'[q][h] = IF q = p THEN <<>> ELSE rt[q][h]
  BY DEF Stop, TypeOK
<1>3. PICK reset \in SUBSET (unread \cap Peers) :
        stream' = [s \in Sockets |-> IF s \in reset THEN Garbage ELSE stream[s]]
  BY DEF Stop
<1>4. \A c : /\ c \in unread <=> InNet(c, p)
             /\ c \in waiting <=> \E h \in Hashes : \E i \in DOMAIN rt[p][h] : InTable(c, p, h, i)
  BY DEF InNet, InTable
<1> HIDE DEF unread, waiting
<1>5. waiting \subseteq Clients
  BY <1>4 DEF Way, Carried, InTable
<1>6. ~Active(p) /\ \A q \in Peers : Active(q)' <=> Active(q)
  BY <1>1, <1>2 DEF Active
<1>7. NetStep(p, net[p], p, {})
  BY <1>2 DEF NetStep
<1>8. Carried'
  <2>1. \A q \in Peers : \A y \in net'[q] :
             y.type = "data" /\ y.conn \in Clients => y.packet = sent'[y.conn]
    BY <1>1, <1>2 DEF Way, Carried
  <2>2. ASSUME NEW q \in Peers, NEW h \in Hashes, NEW i \in DOMAIN rt'[q][h]
        PROVE  /\ rt'[q][h][i].socket \in Clients
               /\ rt'[q][h][i].packet = sent[rt'[q][h][i].socket]
    BY <1>2 DEF Way, Carried
  <2> QED
    BY <1>1, <1>6, <2>1, <2>2 DEF Way, Carried
<1>9. Loops'
  <2>1. \A q \in Peers : Active(q) => q # p /\ rt'[q][job[q].hash_id] = rt[q][job[q].hash_id]
    <3>1. \A q \in Peers : Active(q) => job[q].hash_id \in Hashes
      BY DEF Active, TypeOK, Job
    <3> QED
      BY <1>2, <1>6, <3>1
  <2>2. ASSUME NEW q \in Peers, NEW h \in Hashes, NEW i \in DOMAIN rt'[q][h],
               rt'[q][h][i].socket \in marked[q]
        PROVE  Active(q) /\ job[q].reply /\ job[q].hash_id = h
    BY <1>2, <2>2 DEF Way, Loops
  <2> QED
    BY <1>1, <1>6, <2>1, <2>2, LoopFrame DEF Way, Loops
<1>10. ASSUME NEW c \in Clients PROVE Custody(c)'
  <2>1. \A q \in Peers : InJob(c, q)' <=> InJob(c, q)
    BY <1>1, <1>6 DEF InJob
  <2>2. \A q \in Peers : InNet(c, q)' <=> InNet(c, q) /\ q # p
    BY <1>2 DEF InNet
  <2>3. \A q \in Peers, h \in Hashes : \A i : InTable(c, q, h, i)' <=> InTable(c, q, h, i) /\ q # p
    BY <1>2 DEF InTable
  <2>4. \A q \in Peers, h \in Hashes : \A i :
          /\ InTable(c, q, h, i) => i \in DOMAIN rt[q][h]
          /\ InTable(c, q, h, i)' => i \in DOMAIN rt'[q][h]
    BY DEF InTable
  <2>5. \A q \in Peers : InMarks(c, q)' <=> InMarks(c, q)
    BY <1>1, <2>3, <2>4 DEF InMarks
  <2>6. CASE InNet(c, p)
    <3>1. sent[c] # None /\ OneNet(c) /\ NoTable(c) /\ NoJob(c) /\ NoMarks(c)
      BY <2>6 DEF Way, Custody, NoNet
    <3>2. NoNet(c)' /\ NoTable(c)' /\ NoJob(c)' /\ NoMarks(c)'
      <4>1. NoNet(c)'
        BY <2>2, <2>6, <3>1 DEF NoNet, OneNet
      <4>2. NoTable(c)'
        BY <2>3, <2>4, <3>1 DEF NoTable
      <4> QED
        BY <2>1, <2>5, <3>1, <4>1, <4>2 DEF NoJob, NoMarks
    <3> QED
      BY <1>1, <1>4, <2>6, <3>1, <3>2 DEF Custody
  <2>7. CASE \E h \in Hashes : \E i \in DOMAIN rt[p][h] : InTable(c, p, h, i)
    <3>1. sent[c] # None /\ NoNet(c) /\ OneTable(c) /\ NoJob(c) /\ NoMarks(c)
      BY <2>7 DEF Way, Custody, NoTable
    <3>2. NoNet(c)' /\ NoTable(c)' /\ NoJob(c)' /\ NoMarks(c)'
      <4>1. NoNet(c)'
        BY <2>2, <3>1 DEF NoNet
      <4>2. NoTable(c)'
        BY <2>3, <2>4, <2>7, <3>1 DEF NoTable, OneTable
      <4> QED
        BY <2>1, <2>5, <3>1, <4>1, <4>2 DEF NoJob, NoMarks
    <3> QED
      BY <1>1, <1>4, <2>7, <3>1, <3>2 DEF Custody
  <2>8. CASE ~InNet(c, p) /\ ~\E h \in Hashes : \E i \in DOMAIN rt[p][h] : InTable(c, p, h, i)
    <3>1. \A q \in Peers : InNet(c, q)' <=> InNet(c, q)
      BY <2>2, <2>8
    <3>2. \A q \in Peers, h \in Hashes : \A i : InTable(c, q, h, i)' <=> InTable(c, q, h, i)
      BY <2>3, <2>4, <2>8
    <3>3. c \in eof' <=> c \in eof
      BY <1>1, <1>4, <2>8
    <3> QED
      BY <1>1, <2>1, <2>5, <3>1, <3>2, <3>3, CustodyFrame DEF Way
  <2> QED
    BY <2>6, <2>7, <2>8
<1>11. ASSUME NEW q \in Peers PROVE Proxied(q)'
  <2>1. q \notin waiting /\ q \in Sockets
    BY <1>5, NamesAssumption DEF Sockets
  <2>2. CASE InNet(q, p)
    <3>1. status[q] = "proxying" /\ q \notin eof /\ job[q].node = p /\ q # p /\ stream[q] = None
      BY <1>1, <2>2 DEF Way, Proxied, InNet
    <3>2. \A r \in Peers : \A y \in net'[r] : ~(y.type = "data" /\ y.conn = q)
      BY <1>2, <3>1 DEF Way, Proxied
    <3>3. q \in eof' /\ status'[q] = "proxying" /\ status'[p] = "stopped"
      BY <1>1, <1>2, <1>4, <2>2, <3>1
    <3>4. stream'[q] \in {None, Garbage}
      BY <1>3, <2>1, <3>1
    <3> QED
      BY <1>1, <3>1, <3>2, <3>3, <3>4 DEF Proxied
  <2>3. CASE ~InNet(q, p)
    <3>1. stream'[q] = stream[q] /\ (q \in eof' <=> q \in eof)
      BY <1>1, <1>3, <1>4, <2>1, <2>3
    <3>2. CASE q = p
      <4>1. /\ \A r \in Peers : \A m \in net[r] : ~(m.type = "data" /\ m.conn = p)
            /\ p \notin eof /\ stream[p] = None
        BY <1>1, NotProxying DEF Way
      <4> QED
        BY <1>2, <3>1, <3>2, <4>1 DEF Proxied
    <3>3. CASE q # p
      <4>1. \A y \in net[p] : ~(y.type = "data" /\ y.conn = q)
        BY <2>3 DEF InNet
      <4> QED
        BY <1>1, <1>2, <1>7, <3>1, <3>3, <4>1, ProxiedFrame DEF Way
    <3> QED
      BY <3>2, <3>3
  <2> QED
    BY <2>2, <2>3
<1>12. ASSUME NEW c \in Clients PROVE Answered(c)'
  <2>1. stream'[c] = stream[c]
    BY <1>3, NamesAssumption DEF Sockets
  <2> QED
    BY <1>1, <1>2, <2>1 DEF Way, Answered
<1> QED
  BY <1>8, <1>9, <1>10, <1>11, <1>12 DEF Way

LEMMA WayStep == TypeOK /\ Routing /\ Way /\ [Next]_vars => Way'
<1> SUFFICES ASSUME TypeOK, Routing, Way, [Next]_vars PROVE Way'
  OBVIOUS
<1>1. CASE UNCHANGED vars
  <2>1. UNCHANGED <<rt, net, status, job, marked, stream, eof, sent>>
    BY <1>1 DEF vars
  <2>2. NetStep(None, {}, None, {})
    BY <2>1, StillNet
  <2> QED
    BY <2>1, <2>2, ControlStep
<1>2. CASE \E c \in Clients, p \in Gateways : Send(c, p)
  BY <1>2, WaySend
<1>3. CASE \E p \in Peers : PeerStep(p) \/ Stop(p)
  BY <1>3, WayOwn, WaySucc, WayFar, WayAnswerLookup, WayForwardLookup, WayReply, WayIgnoreReply,
     WayFinishProxy, WayProxyNext, WayFinishReply, WaySweep, WayStop DEF PeerStep
<1> QED
  BY <1>1, <1>2, <1>3 DEF Next

LEMMA WayInvariant == Spec => []Way
BY TypeCorrect, RoutingInvariant, WayInit, WayStep, PTL DEF Spec

-----------------------------------------------------------------------------
(* What follows from the invariant.                                        *)

\* The places of a request, by kind.
LEMMA PlacesAre ==
    ASSUME NEW c
    PROVE  \A z : z \in Places(c) <=>
             \/ \E p \in Peers : InNet(c, p) /\ z = <<"net", p>>
             \/ \E p \in Peers, h \in Hashes : \E i \in DOMAIN rt[p][h] :
                  InTable(c, p, h, i) /\ z = <<"rt", p, h, i>>
             \/ \E p \in Peers : InJob(c, p) /\ z = <<"job", p>>
             \/ \E p \in Peers : InMarks(c, p) /\ z = <<"marked", p>>
             \/ c \in eof /\ z = <<"eof">>
<1>1. \A z : z \in UnreadAt(c) <=> \E p \in Peers : InNet(c, p) /\ z = <<"net", p>>
  BY DEF UnreadAt, InNet
<1>2. \A z : z \in OpenAt(c) <=>
         \E p \in Peers, h \in Hashes : \E i \in DOMAIN rt[p][h] :
             InTable(c, p, h, i) /\ z = <<"rt", p, h, i>>
  BY DEF OpenAt, InTable
<1>3. \A z : z \in ProxiedAt(c) <=> \E p \in Peers : InJob(c, p) /\ z = <<"job", p>>
  BY DEF ProxiedAt, InJob, Active
<1>4. \A z : z \in MarkedAt(c) <=> \E p \in Peers : InMarks(c, p) /\ z = <<"marked", p>>
  BY DEF MarkedAt, InMarks, InTable
<1> QED
  BY <1>1, <1>2, <1>3, <1>4 DEF Places

LEMMA CustodyCounts ==
    ASSUME NEW c, Custody(c)
    PROVE  Cardinality(Places(c)) = IF sent[c] = None THEN 0 ELSE 1
<1>1. CASE sent[c] = None
  <2>1. \A z : z \notin Places(c)
    BY <1>1, PlacesAre DEF Custody, NoNet, NoTable, NoJob, NoMarks
  <2>2. Places(c) = {}
    BY <2>1
  <2> QED
    BY <1>1, <2>2, FS_EmptySet
<1>2. CASE sent[c] # None
  <2>1. Cardinality(Places(c)) = 1
    <3>1. CASE OneNet(c) /\ NoTable(c) /\ NoJob(c) /\ NoMarks(c) /\ c \notin eof
      <4>1. PICK p \in Peers : InNet(c, p) /\ \A q \in Peers : InNet(c, q) => q = p
        BY <3>1 DEF OneNet
      <4>2. \A z : z \in Places(c) <=> z = <<"net", p>>
        BY <3>1, <4>1, PlacesAre DEF NoTable, NoJob, NoMarks
      <4>3. Places(c) = {<<"net", p>>}
        BY <4>2
      <4> QED
        BY <4>3, FS_Singleton
    <3>2. CASE NoNet(c) /\ OneTable(c) /\ NoJob(c) /\ NoMarks(c) /\ c \notin eof
      <4>1. PICK p \in Peers, h \in Hashes : \E i \in DOMAIN rt[p][h] :
              /\ InTable(c, p, h, i)
              /\ \A q \in Peers, g \in Hashes : \A j \in DOMAIN rt[q][g] :
                   InTable(c, q, g, j) => q = p /\ g = h /\ j = i
        BY <3>2 DEF OneTable
      <4>2. PICK i \in DOMAIN rt[p][h] :
              /\ InTable(c, p, h, i)
              /\ \A q \in Peers, g \in Hashes : \A j \in DOMAIN rt[q][g] :
                   InTable(c, q, g, j) => q = p /\ g = h /\ j = i
        BY <4>1
      <4>3. \A z : z \in Places(c) <=> z = <<"rt", p, h, i>>
        BY <3>2, <4>2, PlacesAre DEF NoNet, NoJob, NoMarks
      <4>4. Places(c) = {<<"rt", p, h, i>>}
        BY <4>3
      <4> QED
        BY <4>4, FS_Singleton
    <3>3. CASE NoNet(c) /\ NoTable(c) /\ OneJob(c) /\ NoMarks(c) /\ c \notin eof
      <4>1. PICK p \in Peers : InJob(c, p) /\ \A q \in Peers : InJob(c, q) => q = p
        BY <3>3 DEF OneJob
      <4>2. \A z : z \in Places(c) <=> z = <<"job", p>>
        BY <3>3, <4>1, PlacesAre DEF NoNet, NoTable, NoMarks
      <4>3. Places(c) = {<<"job", p>>}
        BY <4>2
      <4> QED
        BY <4>3, FS_Singleton
    <3>4. CASE NoNet(c) /\ NoTable(c) /\ NoJob(c) /\ OneMark(c) /\ c \notin eof
      <4>1. PICK p \in Peers : InMarks(c, p) /\ \A q \in Peers : InMarks(c, q) => q = p
        BY <3>4 DEF OneMark
      <4>2. \A z : z \in Places(c) <=> z = <<"marked", p>>
        BY <3>4, <4>1, PlacesAre DEF NoNet, NoTable, NoJob
      <4>3. Places(c) = {<<"marked", p>>}
        BY <4>2
      <4> QED
        BY <4>3, FS_Singleton
    <3>5. CASE NoNet(c) /\ NoTable(c) /\ NoJob(c) /\ NoMarks(c) /\ c \in eof
      <4>1. \A z : z \in Places(c) <=> z = <<"eof">>
        BY <3>5, PlacesAre DEF NoNet, NoTable, NoJob, NoMarks
      <4>2. Places(c) = {<<"eof">>}
        BY <4>1
      <4> QED
        BY <4>2, FS_Singleton
    <3> QED
      BY <1>2, <3>1, <3>2, <3>3, <3>4, <3>5 DEF Custody
  <2> QED
    BY <1>2, <2>1
<1> QED
  BY <1>1, <1>2

(***************************************************************************)
(* From the moment it is sent, a request is in exactly one place: among    *)
(* the unread packets, in one entry of one request table, with one proxy,  *)
(* marked for removal at one peer, or closed (add_request, clear_requests, *)
(* proxy_request, server_close_socket), whichever peers stop on the way.   *)
(***************************************************************************)
THEOREM InOnePlace == Spec => []RequestInOnePlace
<1>1. Way => RequestInOnePlace
  BY CustodyCounts DEF Way, RequestInOnePlace
<1> QED
  BY <1>1, WayInvariant, PTL

(***************************************************************************)
(* What a client reads is the acknowledgement of its own request, however  *)
(* many requests share the proxy loop of handle_packet_ctrl, or garbage    *)
(* once the owner of its key has stopped.                                  *)
(***************************************************************************)
THEOREM AnswersOurs == Spec => []AnswerIsOurs
<1>1. Way => AnswerIsOurs
  BY DEF Way, Answered, Acknowledges, AnswerIsOurs
<1> QED
  BY <1>1, WayInvariant, PTL

-----------------------------------------------------------------------------
(* A ring that no operator stops.                                          *)

NoneStopped == \A p \in Peers : status[p] \in {"idle", "proxying"}

LEMMA NoneStoppedStep ==
    ASSUME MayStop = {}
    PROVE  TypeOK /\ NoneStopped /\ [Next]_vars => NoneStopped'
<1> SUFFICES ASSUME TypeOK, NoneStopped, [Next]_vars PROVE NoneStopped'
  OBVIOUS
<1>1. status \in [Peers -> {"idle", "proxying", "hung", "stopped"}]
  BY DEF TypeOK
<1>2. ASSUME NEW p \in Peers, NEW nt, NEW n \in Peers, NEW h, NEW reply, NEW queue,
             StartProxy(nt, p, n, h, reply, queue)
      PROVE  NoneStopped'
  BY <1>1, <1>2 DEF StartProxy, NoneStopped
<1>3. ASSUME NEW p \in Peers, HandleSuccRequest(p) PROVE NoneStopped'
  BY <1>2, <1>3, SuccTest DEF HandleSuccRequest
<1>4. ASSUME NEW p \in Peers, HandleReply(p) PROVE NoneStopped'
  <2>1. PICK m \in net[p] :
          /\ m.type = "rply"
          /\ StartProxy(Read(p, m), p, m.node, m.hash_id, TRUE, rt[p][m.hash_id])
    BY <1>4 DEF HandleReply
  <2>2. m.node \in Peers
    BY <2>1, NetMsg, MsgType
  <2> QED
    BY <1>2, <2>1, <2>2
<1>5. ASSUME NEW p \in Peers, ProxyNext(p) PROVE NoneStopped'
  <2>1. StartProxy(net, p, job[p].node, job[p].hash_id, TRUE, Tail(job[p].queue))
    BY <1>5 DEF ProxyNext
  <2>2. job[p].node \in Peers
    BY <1>5 DEF ProxyNext, Relay, TypeOK, Job
  <2> QED
    BY <1>2, <2>1, <2>2
<1>6. ASSUME NEW p \in Peers, FinishProxy(p) \/ FinishReply(p) PROVE NoneStopped'
  BY <1>1, <1>6 DEF FinishProxy, FinishReply, NoneStopped
<1>7. CASE UNCHANGED status
  BY <1>7 DEF NoneStopped
<1> QED
  BY <1>3, <1>4, <1>5, <1>6, <1>7
     DEF Next, PeerStep, vars, Send, HandleOwnRequest, HandleFarRequest, AnswerLookup,
         ForwardLookup, IgnoreReply, Sweep, Stop

LEMMA NoneStoppedInvariant ==
    ASSUME MayStop = {}
    PROVE  Spec => []NoneStopped
<1>1. Init => NoneStopped
  BY DEF Init, NoneStopped
<1> QED
  BY <1>1, NoneStoppedStep, TypeCorrect, PTL DEF Spec

\* The reply loop of p is at work on hash h.
Looping(p, h) == Active(p) /\ job[p].reply /\ job[p].hash_id = h

\* Packet m, waiting at peer q, is the lookup or the reply for the request that
\* connection s has open at peer p.
Serves(m, q, s, p, h) ==
    /\ m.type # "data"
    /\ m.conn = s
    /\ m.hash_id = h
    /\ m.type = "lkup" => m.node = p
    /\ m.type = "rply" => q = p

OnWay(s, p, h) == \E q \in Peers : \E m \in net[q] : Serves(m, q, s, p, h)

\* Connection s has a request for hash h open at peer p.
Open(s, p, h) == \E i \in DOMAIN rt[p][h] : rt[p][h][i].socket = s

\* LookupUnderWay, by connection.
Awaited == \A p \in Peers, h \in Hashes : \A s : Open(s, p, h) => Looping(p, h) \/ OnWay(s, p, h)

LEMMA AwaitedIs == Awaited => LookupUnderWay
<1> SUFFICES ASSUME Awaited, NEW p \in Peers, NEW h \in Hashes, NEW i \in DOMAIN rt[p][h]
             PROVE  \/ Looping(p, h)
                    \/ \E q \in Peers : \E m \in net[q] : Serves(m, q, rt[p][h][i].socket, p, h)
  BY DEF LookupUnderWay, Looping, Serves, Active
<1>1. PICK s : s = rt[p][h][i].socket
  OBVIOUS
<1>2. Looping(p, h) \/ OnWay(s, p, h)
  BY <1>1 DEF Awaited, Open
<1> QED
  BY <1>1, <1>2 DEF OnWay, Serves

\* A lookup or a reply that is not read stays under way.
LEMMA OnWayFrame ==
    ASSUME NEW r, NEW n, NEW gone, NEW new, NetStep(r, gone, n, new),
           NEW s, NEW p, NEW h, OnWay(s, p, h), \A y \in gone : ~Serves(y, r, s, p, h)
    PROVE  OnWay(s, p, h)'
<1>1. PICK q \in Peers : \E m \in net[q] : Serves(m, q, s, p, h)
  BY DEF OnWay
<1>2. PICK m \in net[q] : Serves(m, q, s, p, h)
  BY <1>1
<1>3. m \in net'[q]
  BY <1>2 DEF NetStep
<1> QED
  BY <1>2, <1>3 DEF OnWay

\* A step that reads at most one packet of a request and leaves the request with a
\* reply loop or with another packet of its own.
LEMMA AwaitedStep ==
    ASSUME Awaited, NEW r, NEW n, NEW gone, NEW new, NetStep(r, gone, n, new),
           \A p \in Peers, h \in Hashes : \A s : Open(s, p, h)' =>
               \/ Looping(p, h)'
               \/ OnWay(s, p, h)'
               \/ Open(s, p, h) /\ ~Looping(p, h) /\ \A y \in gone : ~Serves(y, r, s, p, h)
    PROVE  Awaited'
BY OnWayFrame DEF Awaited

LEMMA AwaitedPreserved ==
    ASSUME MayStop = {}
    PROVE  TypeOK /\ NoneStopped /\ Awaited /\ [Next]_vars => Awaited'
<1> SUFFICES ASSUME TypeOK, NoneStopped, Awaited, [Next]_vars PROVE Awaited'
  OBVIOUS
\* What a step that touches neither tables nor jobs leaves alone.
<1>0. ASSUME UNCHANGED rt
      PROVE  \A p \in Peers, h \in Hashes : \A s : Open(s, p, h)' <=> Open(s, p, h)
  BY <1>0 DEF Open
<1>1. ASSUME UNCHANGED <<status, job>>
      PROVE  \A p \in Peers, h \in Hashes : Looping(p, h)' <=> Looping(p, h)
  BY <1>1 DEF Looping, Active
<1>2. ASSUME NEW r \in Peers, NEW n, NEW gone, NEW new, NetStep(r, gone, n, new),
             UNCHANGED <<rt, status, job>>, \A y \in gone : y.type = "data"
      PROVE  Awaited'
  BY <1>0, <1>1, <1>2, AwaitedStep DEF Serves
<1>3. ASSUME NEW c \in Clients, NEW p \in Gateways, Send(c, p) PROVE Awaited'
  <2>1. PICK x : net' = [net EXCEPT ![p] = @ \cup {x}]
    BY <1>3 DEF Send
  <2>2. NetStep(p, {}, p, {x}) /\ p \in Peers
    BY <2>1, NamesAssumption DEF NetStep, TypeOK
  <2> QED
    BY <1>2, <1>3, <2>2 DEF Send
<1>4. ASSUME NEW p \in Peers, HandleOwnRequest(p) PROVE Awaited'
  <2>1. PICK m \in net[p] : m.type = "data" /\ net' = Read(p, m)
    BY <1>4 DEF HandleOwnRequest
  <2>2. NetStep(p, {m}, p, {})
    BY <2>1, ReadNet
  <2> QED
    BY <1>2, <1>4, <2>1, <2>2 DEF HandleOwnRequest
<1>5. ASSUME NEW p \in Peers, HandleSuccRequest(p) PROVE Awaited'
  <2>1. PICK m \in net[p] :
          /\ m.type = "data"
          /\ StartProxy(Read(p, m), p, Succ[p], PseudoHash(m.packet.key), FALSE,
                        <<[socket |-> m.conn, packet |-> m.packet]>>)
    BY <1>5 DEF HandleSuccRequest
  <2>2. PICK x : net' = Forwarded(Read(p, m), Succ[p], x)
    BY <2>1 DEF StartProxy
  <2>3. PICK new : NetStep(p, {m}, Succ[p], new)
    BY <2>2, SuccTest, ForwardNet
  <2>4. /\ \A q \in Peers : q # p => status'[q] = status[q] /\ job'[q] = job[q]
        /\ status[p] = "idle" /\ UNCHANGED rt
    BY <1>5, <2>1 DEF HandleSuccRequest, StartProxy, TypeOK
  <2>5. \A q \in Peers, h \in Hashes : Looping(q, h) => Looping(q, h)'
    BY <2>4 DEF Looping, Active
  <2> QED
    BY <1>0, <2>1, <2>3, <2>4, <2>5, AwaitedStep DEF Serves
<1>6. ASSUME NEW p \in Peers, HandleFarRequest(p) PROVE Awaited'
  <2>1. PICK m \in net[p] :
          /\ m.type = "data"
          /\ rt' = AddRequest(p, PseudoHash(m.packet.key), m.conn, m.packet)
          /\ net' = LookupPeer(Read(p, m), p, m.conn, PseudoHash(m.packet.key))
    BY <1>6 DEF HandleFarRequest
  <2> DEFINE g == PseudoHash(m.packet.key)
             o == [socket |-> m.conn, packet |-> m.packet]
             x == [type |-> "lkup", conn |-> m.conn, hash_id |-> g, node |-> p]
  <2>2. m.conn \in Sockets /\ m.packet \in Requests
    BY <2>1, NetMsg, MsgType
  <2>3. g \in Hashes /\ o \in OpenRequest /\ Succ[p] \in Peers
    BY <2>2, RequestType, SuccTest DEF OpenRequest
  <2>4. x.type = "lkup" /\ x.conn = m.conn /\ x.hash_id = g /\ x.node = p /\ o.socket = m.conn
    OBVIOUS
  <2>5. rt' = [rt EXCEPT ![p][g] = Append(@, o)] /\ net' = Forwarded(Read(p, m), Succ[p], x)
    BY <2>1 DEF AddRequest, LookupPeer
  <2> HIDE DEF g, o, x
  <2>6. NetStep(p, {m}, Succ[p], {x})
    <3>1. status[Succ[p]] # "stopped"
      BY <2>3 DEF NoneStopped
    <3> QED
      BY <2>3, <2>5, <3>1, ForwardNet
  <2>7. OnWay(m.conn, p, g)'
    <3>1. x \in net'[Succ[p]]
      BY <2>3, <2>6 DEF NetStep
    <3> QED
      BY <2>3, <2>4, <3>1 DEF OnWay, Serves
  <2>8. ASSUME NEW q \in Peers, NEW h \in Hashes, NEW s, Open(s, q, h)'
        PROVE  Open(s, q, h) \/ (s = m.conn /\ q = p /\ h = g)
    <3>1. PICK i \in DOMAIN rt'[q][h] : rt'[q][h][i].socket = s
      BY <2>8 DEF Open
    <3>2. CASE q = p /\ h = g
      <4>1. rt[p][g] \in Seq(OpenRequest) /\ rt'[p][g] = Append(rt[p][g], o)
        BY <2>3, <2>5 DEF TypeOK
      <4>2. /\ DOMAIN rt[p][g] = 1..Len(rt[p][g]) /\ Len(rt[p][g]) \in Nat
            /\ DOMAIN rt'[p][g] = 1..(Len(rt[p][g]) + 1)
            /\ rt'[p][g][Len(rt[p][g]) + 1] = o
            /\ \A j \in 1..Len(rt[p][g]) : rt'[p][g][j] = rt[p][g][j]
        BY <2>3, <4>1, AppendProperties, LenProperties
      <4>3. \A u \in Nat : \A j \in 1..(u + 1) : j \in 1..u \/ j = u + 1
        OBVIOUS
      <4>4. i \in DOMAIN rt[p][g] \/ i = Len(rt[p][g]) + 1
        BY <3>1, <3>2, <4>2, <4>3
      <4> QED
        BY <2>4, <3>1, <3>2, <4>2, <4>4 DEF Open
    <3>3. CASE ~(q = p /\ h = g)
      <4>1. rt'[q][h] = rt[q][h]
        BY <2>3, <2>5, <3>3 DEF TypeOK
      <4> QED
        BY <3>1, <4>1 DEF Open
    <3> QED
      BY <3>2, <3>3
  <2>9. UNCHANGED <<status, job>>
    BY <1>6 DEF HandleFarRequest
  <2> QED
    BY <1>1, <2>1, <2>6, <2>7, <2>8, <2>9, AwaitedStep DEF Serves
<1>7. ASSUME NEW p \in Peers, AnswerLookup(p) PROVE Awaited'
  <2>1. PICK m \in net[p] :
          /\ m.type = "lkup"
          /\ net' = Forwarded(Read(p, m), m.node,
                              [type |-> "rply", conn |-> m.conn, hash_id |-> m.hash_id,
                               node |-> IF OwnHash(p, m.hash_id) THEN p ELSE Succ[p]])
    BY <1>7 DEF AnswerLookup
  <2> DEFINE x == [type |-> "rply", conn |-> m.conn, hash_id |-> m.hash_id,
                   node |-> IF OwnHash(p, m.hash_id) THEN p ELSE Succ[p]]
  <2>2. m.node \in Peers
    BY <2>1, NetMsg, MsgType
  <2>3. x.type = "rply" /\ x.conn = m.conn /\ x.hash_id = m.hash_id
    OBVIOUS
  <2>4. net' = Forwarded(Read(p, m), m.node, x)
    BY <2>1
  <2> HIDE DEF x
  <2>5. NetStep(p, {m}, m.node, {x})
    BY <2>2, <2>4, ForwardNet DEF NoneStopped
  <2>6. x \in net'[m.node]
    BY <2>2, <2>5 DEF NetStep
  <2>7. \A q \in Peers, h \in Hashes : \A s : Serves(m, p, s, q, h) => OnWay(s, q, h)'
    BY <2>1, <2>2, <2>3, <2>6 DEF Serves, OnWay
  <2>8. UNCHANGED <<rt, status, job>>
    BY <1>7 DEF AnswerLookup
  <2> QED
    BY <1>0, <1>1, <2>5, <2>7, <2>8, AwaitedStep
<1>8. ASSUME NEW p \in Peers, ForwardLookup(p) PROVE Awaited'
  <2>1. PICK m \in net[p] : m.type = "lkup" /\ net' = Forwarded(Read(p, m), Succ[p], m)
    BY <1>8 DEF ForwardLookup
  <2>2. Succ[p] \in Peers /\ status[Succ[p]] # "stopped"
    BY SuccTest DEF NoneStopped
  <2>3. NetStep(p, {m}, Succ[p], {m})
    BY <2>1, <2>2, ForwardNet
  <2>4. m \in net'[Succ[p]]
    BY <2>2, <2>3 DEF NetStep
  <2>5. \A q \in Peers, h \in Hashes : \A s : Serves(m, p, s, q, h) => OnWay(s, q, h)'
    BY <2>1, <2>2, <2>4 DEF Serves, OnWay
  <2>6. UNCHANGED <<rt, status, job>>
    BY <1>8 DEF ForwardLookup
  <2> QED
    BY <1>0, <1>1, <2>3, <2>5, <2>6, AwaitedStep
<1>9. ASSUME NEW p \in Peers, HandleReply(p) PROVE Awaited'
  <2>1. PICK m \in net[p] :
          /\ m.type = "rply"
          /\ StartProxy(Read(p, m), p, m.node, m.hash_id, TRUE, rt[p][m.hash_id])
    BY <1>9 DEF HandleReply
  <2>2. m.node \in Peers /\ m.hash_id \in Hashes
    BY <2>1, NetMsg, MsgType
  <2>3. PICK x : net' = Forwarded(Read(p, m), m.node, x)
    BY <2>1 DEF StartProxy
  <2>4. PICK new : NetStep(p, {m}, m.node, new)
    BY <2>2, <2>3, ForwardNet
  <2>5. /\ \A q \in Peers : q # p => status'[q] = status[q] /\ job'[q] = job[q]
        /\ status'[p] \in {"proxying", "hung"}
        /\ job'[p].reply = TRUE /\ job'[p].hash_id = m.hash_id
        /\ status[p] = "idle" /\ UNCHANGED rt
    BY <1>9, <2>1, <2>2 DEF HandleReply, StartProxy, TypeOK
  <2>6. \A q \in Peers, h \in Hashes : Looping(q, h) => Looping(q, h)'
    BY <2>5 DEF Looping, Active
  <2>7. \A q \in Peers, h \in Hashes : \A s : Serves(m, p, s, q, h) => Looping(q, h)'
    BY <2>1, <2>5 DEF Serves, Looping, Active
  <2> QED
    BY <1>0, <2>4, <2>5, <2>6, <2>7, AwaitedStep
<1>10. ASSUME NEW p \in Peers, IgnoreReply(p) PROVE Awaited'
  <2>1. PICK m \in net[p] : m.type = "rply" /\ rt[p][m.hash_id] = <<>> /\ net' = Read(p, m)
    BY <1>10 DEF IgnoreReply
  <2>2. NetStep(p, {m}, p, {})
    BY <2>1, ReadNet
  <2>3. \A q \in Peers, h \in Hashes : \A s : Serves(m, p, s, q, h) => ~Open(s, q, h)
    BY <2>1 DEF Serves, Open
  <2>4. UNCHANGED <<rt, status, job>>
    BY <1>10 DEF IgnoreReply
  <2> QED
    BY <1>0, <1>1, <2>2, <2>3, <2>4, AwaitedStep
<1>11. ASSUME NEW p \in Peers, FinishProxy(p) PROVE Awaited'
  <2>1. /\ ~job[p].reply /\ UNCHANGED <<rt, net>>
        /\ \A q \in Peers : q # p => status'[q] = status[q] /\ job'[q] = job[q]
    BY <1>11 DEF FinishProxy, TypeOK
  <2>2. \A q \in Peers, h \in Hashes : Looping(q, h) => Looping(q, h)'
    BY <2>1 DEF Looping, Active
  <2>3. NetStep(p, {}, p, {})
    BY <2>1, StillNet
  <2> QED
    BY <1>0, <2>1, <2>2, <2>3, AwaitedStep
<1>12. ASSUME NEW p \in Peers, ProxyNext(p) PROVE Awaited'
  <2>1. /\ status[p] = "proxying" /\ UNCHANGED rt
        /\ StartProxy(net, p, job[p].node, job[p].hash_id, TRUE, Tail(job[p].queue))
    BY <1>12 DEF ProxyNext, Relay
  <2>2. job[p].node \in Peers
    BY <2>1 DEF TypeOK, Job
  <2>3. PICK x : net' = Forwarded(net, job[p].node, x)
    BY <2>1 DEF StartProxy
  <2>4. PICK new : NetStep(p, {}, job[p].node, new)
    BY <2>2, <2>3, ForwardOnlyNet
  <2>5. /\ \A q \in Peers : q # p => status'[q] = status[q] /\ job'[q] = job[q]
        /\ status'[p] \in {"proxying", "hung"}
        /\ job'[p].reply = TRUE /\ job'[p].hash_id = job[p].hash_id
    BY <2>1 DEF StartProxy, TypeOK
  <2>6. \A q \in Peers, h \in Hashes : Looping(q, h) => Looping(q, h)'
    BY <2>5 DEF Looping, Active
  <2> QED
    BY <1>0, <2>1, <2>4, <2>6, AwaitedStep
<1>13. ASSUME NEW p \in Peers, FinishReply(p) PROVE Awaited'
  <2>1. /\ rt' = [rt EXCEPT ![p][job[p].hash_id] = <<>>] /\ UNCHANGED net
        /\ \A q \in Peers : q # p => status'[q] = status[q] /\ job'[q] = job[q]
    BY <1>13 DEF FinishReply, ClearRequests, TypeOK
  <2>2. \A q \in Peers, h \in Hashes : Looping(q, h) => Looping(q, h)' \/ (q = p /\ h = job[p].hash_id)
    BY <2>1 DEF Looping, Active
  <2>3. job[p].hash_id \in Hashes
    BY <1>13 DEF FinishReply, Relay, TypeOK, Job
  <2>4. /\ \A q \in Peers, h \in Hashes : ~(q = p /\ h = job[p].hash_id) => rt'[q][h] = rt[q][h]
        /\ rt'[p][job[p].hash_id] = <<>>
    BY <2>1, <2>3 DEF TypeOK
  <2>5. \A q \in Peers, h \in Hashes : \A s :
          Open(s, q, h)' => Open(s, q, h) /\ ~(q = p /\ h = job[p].hash_id)
    BY <2>4 DEF Open
  <2>6. NetStep(p, {}, p, {})
    BY <2>1, StillNet
  <2> QED
    BY <2>2, <2>5, <2>6, AwaitedStep
<1>14. ASSUME NEW p \in Peers, Sweep(p) PROVE Awaited'
  <2>1. NetStep(p, {}, p, {})
    BY <1>14, StillNet DEF Sweep
  <2> QED
    BY <1>2, <1>14, <2>1 DEF Sweep
<1>15. \A p \in Peers : ~Stop(p)
  BY DEF Stop
<1>16. CASE UNCHANGED vars
  <2>1. UNCHANGED <<rt, net, status, job>>
    BY <1>16 DEF vars
  <2>2. NetStep(None, {}, None, {})
    BY <2>1, StillNet
  <2> QED
    BY <1>0, <1>1, <2>1, <2>2, AwaitedStep
<1> QED
  BY <1>3, <1>4, <1>5, <1>6, <1>7, <1>8, <1>9, <1>10, <1>11, <1>12, <1>13, <1>14, <1>15, <1>16
     DEF Next, PeerStep

LEMMA AwaitedInvariant ==
    ASSUME MayStop = {}
    PROVE  Spec => []Awaited
<1>1. Init => Awaited
  BY DEF Init, Awaited, Open
<1> QED
  BY <1>1, AwaitedPreserved, NoneStoppedInvariant, TypeCorrect, PTL DEF Spec

(***************************************************************************)
(* While no peer stops, a request in a request table always has its lookup *)
(* or its reply under way, or the reply loop of handle_packet_ctrl at work *)
(* on its hash: clear_requests never takes a request away from the reply   *)
(* it waits for, nor a reply from its request.                             *)
(***************************************************************************)
THEOREM LookupsUnderWay ==
    ASSUME MayStop = {}
    PROVE  Spec => []LookupUnderWay
BY AwaitedInvariant, AwaitedIs, PTL

(***************************************************************************)
(* While no peer stops, the only way for the ring to come to rest with a   *)
(* request unanswered is a cycle of peers that wait for one another in     *)
(* proxy_request.                                                          *)
(***************************************************************************)
THEOREM OnlyProxiesDeadlock ==
    ASSUME MayStop = {}
    PROVE  Spec => []StuckOnlyInProxyCycle
<1>1. TypeOK /\ Way /\ NoneStopped /\ Awaited => StuckOnlyInProxyCycle
  <2> SUFFICES ASSUME TypeOK, Way, NoneStopped, Awaited,
                      \A p \in Peers : /\ status[p] = "idle" => net[p] = {} /\ marked[p] = {}
                                       /\ status[p] = "proxying" => p \notin eof,
                      NEW c \in Clients, sent[c] # None, c \notin eof
               PROVE  \E S \in SUBSET Peers \ {{}} :
                          \A p \in S : status[p] = "proxying" /\ job[p].node \in S
    BY DEF StuckOnlyInProxyCycle
  <2> DEFINE S == {p \in Peers : status[p] = "proxying"}
  <2>1. ASSUME NEW p \in S PROVE job[p].node \in S
    <3>1. job[p].node \in Peers
      BY DEF TypeOK, Job
    <3>2. InNet(p, job[p].node)
      BY DEF Way, Proxied
    <3>3. net[job[p].node] # {}
      BY <3>2 DEF InNet
    <3> QED
      BY <3>1, <3>3 DEF NoneStopped
  <2>2. S # {}
    <3> SUFFICES ASSUME S = {} PROVE FALSE
      OBVIOUS
    <3>1. \A p \in Peers : net[p] = {} /\ marked[p] = {} /\ ~Active(p)
      BY DEF NoneStopped, Active
    <3>2. NoNet(c) /\ NoJob(c) /\ NoMarks(c)
      BY <3>1 DEF NoNet, NoJob, NoMarks, InNet, InJob, InMarks
    <3>3. OneTable(c)
      BY <3>2 DEF Way, Custody, OneNet, OneJob, OneMark, NoNet, NoJob, NoMarks
    <3>4. PICK p \in Peers, h \in Hashes : Open(c, p, h)
      BY <3>3 DEF OneTable, InTable, Open
    <3> QED
      BY <3>1, <3>4 DEF Awaited, Looping, OnWay
  <2> QED
    BY <2>1, <2>2
<1> QED
  BY <1>1, TypeCorrect, WayInvariant, NoneStoppedInvariant, AwaitedInvariant, PTL

-----------------------------------------------------------------------------
(* Requests for hashes that nobody owns.                                   *)

Unowned(c) == sent[c] # None /\ ~Owned(PseudoHash(sent[c].key))

IsCtrlFor(m, c) == m.type # "data" /\ m.conn = c

(***************************************************************************)
(* A lookup or a reply carries the hash of the request it serves. For an   *)
(* unowned request there is at most one, and one only while the request is *)
(* in a request table.                                                     *)
(***************************************************************************)
Circling(c) ==
    /\ \A q \in Peers : \A m \in net[q] :
         IsCtrlFor(m, c) => sent[c] # None /\ m.hash_id = PseudoHash(sent[c].key)
    /\ Unowned(c) =>
         /\ c \notin eof
         /\ \A q \in Peers : c \notin marked[q]
         /\ \A q, r \in Peers : \A m \in net[q], y \in net[r] :
              IsCtrlFor(m, c) /\ IsCtrlFor(y, c) => q = r /\ m = y
         /\ (\E q \in Peers : \E m \in net[q] : IsCtrlFor(m, c)) =>
              \E p \in Peers, h \in Hashes : Open(c, p, h)

AllCircling == \A c \in Clients : Circling(c)

\* What a peer works on as a proxy, and what its reply loop clears, is owned.
LEMMA JobsOwned ==
    ASSUME TypeOK, Routing, Way, NEW p \in Peers, Active(p)
    PROVE  /\ \A i \in DOMAIN job[p].queue : ~Unowned(job[p].queue[i].socket)
           /\ job[p].queue # <<>> => ~Unowned(Head(job[p].queue).socket)
           /\ \A c : Open(c, p, job[p].hash_id) => ~Unowned(c)
           /\ job[p].hash_id \in Hashes /\ Owned(job[p].hash_id)
<1>1. job[p].node \in Peers /\ job[p].hash_id \in Hashes /\ job[p].queue \in Seq(OpenRequest)
  BY DEF TypeOK, Job, Active
<1>2. Owned(job[p].hash_id)
  BY <1>1 DEF Routing, JobRouted, Active, Owned
<1>3. ASSUME NEW i \in DOMAIN job[p].queue
      PROVE  ~Unowned(job[p].queue[i].socket)
  <2>1. /\ PseudoHash(job[p].queue[i].packet.key) = job[p].hash_id
        /\ job[p].queue[i].packet = sent[job[p].queue[i].socket]
    BY DEF Routing, JobRouted, Active, Way, Carried
  <2> QED
    BY <1>2, <2>1 DEF Unowned
<1>4. ASSUME NEW c, Open(c, p, job[p].hash_id)
      PROVE  ~Unowned(c)
  <2>1. PICK i \in DOMAIN rt[p][job[p].hash_id] : rt[p][job[p].hash_id][i].socket = c
    BY <1>4 DEF Open
  <2>2. /\ PseudoHash(rt[p][job[p].hash_id][i].packet.key) = job[p].hash_id
        /\ rt[p][job[p].hash_id][i].packet = sent[c]
    BY <1>1, <2>1 DEF Routing, RequestsFiled, Way, Carried
  <2> QED
    BY <1>2, <2>2 DEF Unowned
<1>5. job[p].queue # <<>> => 1 \in DOMAIN job[p].queue /\ Head(job[p].queue) = job[p].queue[1]
  BY <1>1, LenProperties, EmptySeq
<1> QED
  BY <1>1, <1>2, <1>3, <1>4, <1>5

\* A step that sends a lookup or a reply only in place of one that it read.
LEMMA CirclingStep ==
    ASSUME NEW c \in Clients, Circling(c),
           NEW r \in Peers, NEW n \in Peers, NEW gone, NEW new, NetStep(r, gone, n, new),
           sent'[c] = sent[c],
           Unowned(c) => c \notin eof' /\ \A q \in Peers : c \notin marked'[q],
           \A p \in Peers, h \in Hashes : Unowned(c) /\ Open(c, p, h) => Open(c, p, h)',
           \A y, z \in new : y = z,
           \A y \in new : IsCtrlFor(y, c) =>
               \E m \in gone : m \in net[r] /\ IsCtrlFor(m, c) /\ y.hash_id = m.hash_id
    PROVE  Circling(c)'
<1>1. ASSUME NEW q \in Peers, NEW y \in net'[q], IsCtrlFor(y, c)
      PROVE  \/ y \in net[q] /\ ~(q = r /\ y \in gone)
             \/ /\ q = n /\ y \in new
                /\ \E m \in gone : m \in net[r] /\ IsCtrlFor(m, c) /\ y.hash_id = m.hash_id
  BY <1>1 DEF NetStep
<1>2. Unowned(c)' <=> Unowned(c)
  BY DEF Unowned
<1>3. ASSUME NEW q \in Peers, NEW y \in net'[q], IsCtrlFor(y, c)
      PROVE  sent'[c] # None /\ y.hash_id = PseudoHash(sent'[c].key)
  BY <1>1, <1>3 DEF Circling
<1>4. ASSUME Unowned(c), NEW q \in Peers, NEW u \in Peers, NEW y \in net'[q], NEW z \in net'[u],
             IsCtrlFor(y, c), IsCtrlFor(z, c)
      PROVE  q = u /\ y = z
  <2>1. \A a, b \in Peers : \A m \in net[a], x \in net[b] :
          IsCtrlFor(m, c) /\ IsCtrlFor(x, c) => a = b /\ m = x
    BY <1>4 DEF Circling
  <2>2. \/ y \in net[q] /\ ~(q = r /\ y \in gone)
        \/ q = n /\ y \in new /\ \E m \in gone : m \in net[r] /\ IsCtrlFor(m, c)
    BY <1>1, <1>4
  <2>3. \/ z \in net[u] /\ ~(u = r /\ z \in gone)
        \/ u = n /\ z \in new /\ \E m \in gone : m \in net[r] /\ IsCtrlFor(m, c)
    BY <1>1, <1>4
  <2> QED
    BY <1>4, <2>1, <2>2, <2>3
<1>5. ASSUME Unowned(c), NEW q \in Peers, NEW y \in net'[q], IsCtrlFor(y, c)
      PROVE  \E p \in Peers, h \in Hashes : Open(c, p, h)'
  <2>1. \E a \in Peers : \E m \in net[a] : IsCtrlFor(m, c)
    BY <1>1, <1>5
  <2>2. PICK p \in Peers, h \in Hashes : Open(c, p, h)
    BY <1>5, <2>1 DEF Circling
  <2> QED
    BY <1>5, <2>2
<1> QED
  BY <1>2, <1>3, <1>4, <1>5 DEF Circling, IsCtrlFor

LEMMA CirclingPreserved ==
    ASSUME MayStop = {}
    PROVE  TypeOK /\ Routing /\ Way /\ NoneStopped /\ AllCircling /\ [Next]_vars => AllCircling'
<1> SUFFICES ASSUME TypeOK, Routing, Way, NoneStopped, AllCircling, [Next]_vars, NEW c \in Clients
             PROVE  Circling(c)'
  BY DEF AllCircling
<1>0. Circling(c) /\ Custody(c) /\ c \notin Peers
  BY NamesAssumption DEF Way, AllCircling
\* What a step that touches neither eof, marks nor tables leaves alone.
<1>1. Unowned(c) => c \notin eof /\ \A q \in Peers : c \notin marked[q]
  BY <1>0 DEF Circling
<1>2. ASSUME UNCHANGED rt
      PROVE  \A p \in Peers, h \in Hashes : Open(c, p, h) => Open(c, p, h)'
  BY <1>2 DEF Open
<1>3. ASSUME NEW d \in Clients, NEW p \in Gateways, Send(d, p) PROVE Circling(c)'
  <2>1. p \in Peers /\ UNCHANGED <<rt, marked, eof>>
    BY <1>3, NamesAssumption DEF Send
  <2>2. PICK q \in Requests :
          /\ sent' = [sent EXCEPT ![d] = q]
          /\ net' = [net EXCEPT ![p] = @ \cup {[type |-> "data", conn |-> d, packet |-> q]}]
    BY <1>3 DEF Send
  <2> DEFINE x == [type |-> "data", conn |-> d, packet |-> q]
  <2>3. x.type = "data" /\ net' = [net EXCEPT ![p] = @ \cup {x}]
    BY <2>2
  <2> HIDE DEF x
  <2>4. NetStep(p, {}, p, {x})
    BY <2>1, <2>2, <2>3 DEF NetStep, TypeOK
  <2>5. CASE c # d
    <3>1. sent'[c] = sent[c]
      BY <2>2, <2>5 DEF TypeOK
    <3> QED
      BY <1>0, <1>1, <1>2, <2>1, <2>3, <2>4, <3>1, CirclingStep DEF IsCtrlFor
  <2>6. CASE c = d
    <3>1. sent[c] = None
      BY <1>3, <2>6 DEF Send
    <3>2. \A u \in Peers : \A m \in net[u] : ~IsCtrlFor(m, c)
      BY <1>0, <3>1 DEF Circling
    <3>3. \A u \in Peers : \A m \in net'[u] : ~IsCtrlFor(m, c)
      BY <2>3, <2>4, <3>2 DEF NetStep, IsCtrlFor
    <3>4. c \notin eof /\ NoTable(c) /\ NoMarks(c)
      BY <1>0, <3>1 DEF Custody
    <3>5. \A u \in Peers : c \notin marked[u]
      BY <3>4 DEF NoTable, NoMarks, InMarks
    <3> QED
      BY <2>1, <3>3, <3>4, <3>5 DEF Circling, IsCtrlFor
  <2> QED
    BY <2>5, <2>6
<1>4. ASSUME NEW p \in Peers, HandleOwnRequest(p) PROVE Circling(c)'
  <2>1. PICK m \in net[p] :
          /\ m.type = "data" /\ net' = Read(p, m) /\ OwnHash(p, PseudoHash(m.packet.key))
          /\ eof' = eof \cup {m.conn}
    BY <1>4 DEF HandleOwnRequest
  <2>2. NetStep(p, {m}, p, {})
    BY <2>1, ReadNet
  <2>3. UNCHANGED <<rt, marked, sent>>
    BY <1>4 DEF HandleOwnRequest
  <2>4. m.conn = c => ~Unowned(c)
    BY <2>1 DEF Way, Carried, Unowned, Owned
  <2> QED
    BY <1>0, <1>1, <1>2, <2>1, <2>2, <2>3, <2>4, CirclingStep
<1>5. ASSUME NEW p \in Peers, HandleSuccRequest(p) PROVE Circling(c)'
  <2>1. PICK m \in net[p] :
          /\ m.type = "data"
          /\ StartProxy(Read(p, m), p, Succ[p], PseudoHash(m.packet.key), FALSE,
                        <<[socket |-> m.conn, packet |-> m.packet]>>)
    BY <1>5 DEF HandleSuccRequest
  <2>2. PICK x : net' = Forwarded(Read(p, m), Succ[p], x) /\ x.type = "data"
    BY <2>1 DEF StartProxy
  <2>3. PICK new : NetStep(p, {m}, Succ[p], new) /\ new \subseteq {x}
    <3>1. NetStep(p, {m}, Succ[p], IF status[Succ[p]] = "stopped" THEN {} ELSE {x})
      BY <2>2, SuccTest, ForwardNet
    <3> QED
      BY <3>1
  <2>4. UNCHANGED <<rt, marked, eof, sent>> /\ Succ[p] \in Peers
    BY <1>5, SuccTest DEF HandleSuccRequest
  <2> QED
    BY <1>0, <1>1, <1>2, <2>2, <2>3, <2>4, CirclingStep DEF IsCtrlFor
<1>6. ASSUME NEW p \in Peers, HandleFarRequest(p) PROVE Circling(c)'
  <2>1. PICK m \in net[p] :
          /\ m.type = "data"
          /\ rt' = AddRequest(p, PseudoHash(m.packet.key), m.conn, m.packet)
          /\ net' = LookupPeer(Read(p, m), p, m.conn, PseudoHash(m.packet.key))
    BY <1>6 DEF HandleFarRequest
  <2> DEFINE g == PseudoHash(m.packet.key)
             o == [socket |-> m.conn, packet |-> m.packet]
             x == [type |-> "lkup", conn |-> m.conn, hash_id |-> g, node |-> p]
  <2>2. m.conn \in Sockets /\ m.packet \in Requests
    BY <2>1, NetMsg, MsgType
  <2>3. g \in Hashes /\ o \in OpenRequest /\ Succ[p] \in Peers
    BY <2>2, RequestType, SuccTest DEF OpenRequest
  <2>4. x.type = "lkup" /\ x.conn = m.conn /\ x.hash_id = g /\ o.socket = m.conn
    OBVIOUS
  <2>5. rt' = [rt EXCEPT ![p][g] = Append(@, o)] /\ net' = Forwarded(Read(p, m), Succ[p], x)
    BY <2>1 DEF AddRequest, LookupPeer
  <2>6. m.conn = c => m.packet = sent[c] /\ g = PseudoHash(sent[c].key)
    BY <2>1 DEF Way, Carried
  <2> HIDE DEF g, o, x
  <2>7. NetStep(p, {m}, Succ[p], {x})
    <3>1. status[Succ[p]] # "stopped"
      BY <2>3 DEF NoneStopped
    <3> QED
      BY <2>3, <2>5, <3>1, ForwardNet
  <2>8. UNCHANGED <<marked, eof, sent>>
    BY <1>6 DEF HandleFarRequest
  <2>9. /\ \A q \in Peers, h \in Hashes : ~(q = p /\ h = g) => rt'[q][h] = rt[q][h]
        /\ rt[p][g] \in Seq(OpenRequest) /\ rt'[p][g] = Append(rt[p][g], o)
    BY <2>3, <2>5 DEF TypeOK
  <2>10. PICK k \in Nat : k = Len(rt[p][g])
    BY <2>9, LenProperties
  <2>11. /\ DOMAIN rt[p][g] = 1..k /\ DOMAIN rt'[p][g] = 1..(k + 1) /\ rt'[p][g][k + 1] = o
         /\ \A j \in 1..k : rt'[p][g][j] = rt[p][g][j]
    BY <2>3, <2>9, <2>10, AppendProperties, LenProperties
  <2>12. \A q \in Peers, h \in Hashes : Open(c, q, h) => Open(c, q, h)'
    <3> SUFFICES ASSUME NEW q \in Peers, NEW h \in Hashes, Open(c, q, h) PROVE Open(c, q, h)'
      OBVIOUS
    <3>1. CASE ~(q = p /\ h = g)
      BY <2>9, <3>1 DEF Open
    <3>2. CASE q = p /\ h = g
      <4>1. PICK i \in 1..k : rt[p][g][i].socket = c
        BY <2>11, <3>2 DEF Open
      <4>2. i \in DOMAIN rt'[p][g] /\ rt'[p][g][i].socket = c
        BY <2>11, <4>1
      <4> QED
        BY <3>2, <4>2 DEF Open
    <3> QED
      BY <3>1, <3>2
  <2>13. CASE m.conn # c
    BY <1>0, <1>1, <2>3, <2>4, <2>7, <2>8, <2>12, <2>13, CirclingStep DEF IsCtrlFor
  <2>14. CASE m.conn = c
    <3>1. InNet(c, p)
      BY <2>1, <2>14 DEF InNet
    <3>2. sent[c] # None /\ NoTable(c)
      BY <1>0, <3>1 DEF Custody, NoNet
    <3>3. \A q \in Peers, h \in Hashes : ~Open(c, q, h)
      BY <3>2 DEF NoTable, InTable, Open
    <3>4. Unowned(c) => \A q \in Peers : \A y \in net[q] : ~IsCtrlFor(y, c)
      BY <1>0, <3>3 DEF Circling
    <3>5. \A q \in Peers : \A y \in net'[q] : y \in net[q] \/ (q = Succ[p] /\ y = x)
      BY <2>7 DEF NetStep
    <3>6. Open(c, p, g)'
      <4>1. k + 1 \in DOMAIN rt'[p][g] /\ rt'[p][g][k + 1].socket = c
        BY <2>4, <2>11, <2>14
      <4> QED
        BY <4>1 DEF Open
    <3>7. \A q \in Peers : \A y \in net'[q] :
            IsCtrlFor(y, c) => sent[c] # None /\ y.hash_id = PseudoHash(sent[c].key)
      BY <1>0, <2>4, <2>6, <2>14, <3>2, <3>5 DEF Circling
    <3>8. Unowned(c) => \A q, r \in Peers : \A y \in net'[q], z \in net'[r] :
              IsCtrlFor(y, c) /\ IsCtrlFor(z, c) => q = r /\ y = z
      BY <3>4, <3>5
    <3>9. Unowned(c)' <=> Unowned(c)
      BY <2>8 DEF Unowned
    <3> QED
      BY <1>1, <2>3, <2>8, <3>6, <3>7, <3>8, <3>9 DEF Circling, IsCtrlFor
  <2> QED
    BY <2>13, <2>14
<1>7. ASSUME NEW p \in Peers, AnswerLookup(p) PROVE Circling(c)'
  <2>1. PICK m \in net[p] :
          /\ m.type = "lkup"
          /\ net' = Forwarded(Read(p, m), m.node,
                              [type |-> "rply", conn |-> m.conn, hash_id |-> m.hash_id,
                               node |-> IF OwnHash(p, m.hash_id) THEN p ELSE Succ[p]])
    BY <1>7 DEF AnswerLookup
  <2>2. PICK x : /\ x.type = "rply" /\ x.conn = m.conn /\ x.hash_id = m.hash_id
                 /\ net' = Forwarded(Read(p, m), m.node, x)
    BY <2>1
  <2>3. m.node \in Peers
    BY <2>1, NetMsg, MsgType
  <2>4. NetStep(p, {m}, m.node, {x})
    BY <2>2, <2>3, ForwardNet DEF NoneStopped
  <2>5. UNCHANGED <<rt, marked, eof, sent>>
    BY <1>7 DEF AnswerLookup
  <2> QED
    BY <1>0, <1>1, <1>2, <2>1, <2>2, <2>3, <2>4, <2>5, CirclingStep DEF IsCtrlFor
<1>8. ASSUME NEW p \in Peers, ForwardLookup(p) PROVE Circling(c)'
  <2>1. PICK m \in net[p] : m.type = "lkup" /\ net' = Forwarded(Read(p, m), Succ[p], m)
    BY <1>8 DEF ForwardLookup
  <2>2. Succ[p] \in Peers /\ status[Succ[p]] # "stopped"
    BY SuccTest DEF NoneStopped
  <2>3. NetStep(p, {m}, Succ[p], {m})
    BY <2>1, <2>2, ForwardNet
  <2>4. UNCHANGED <<rt, marked, eof, sent>>
    BY <1>8 DEF ForwardLookup
  <2> QED
    BY <1>0, <1>1, <1>2, <2>1, <2>2, <2>3, <2>4, CirclingStep
<1>9. ASSUME NEW p \in Peers, HandleReply(p) PROVE Circling(c)'
  <2>1. PICK m \in net[p] :
          /\ m.type = "rply"
          /\ StartProxy(Read(p, m), p, m.node, m.hash_id, TRUE, rt[p][m.hash_id])
    BY <1>9 DEF HandleReply
  <2>2. m.node \in Peers
    BY <2>1, NetMsg, MsgType
  <2>3. PICK x : net' = Forwarded(Read(p, m), m.node, x) /\ x.type = "data"
    BY <2>1 DEF StartProxy
  <2>4. PICK new : NetStep(p, {m}, m.node, new) /\ new \subseteq {x}
    <3>1. NetStep(p, {m}, m.node, IF status[m.node] = "stopped" THEN {} ELSE {x})
      BY <2>2, <2>3, ForwardNet
    <3> QED
      BY <3>1
  <2>5. UNCHANGED <<rt, marked, eof, sent>>
    BY <1>9 DEF HandleReply
  <2> QED
    BY <1>0, <1>1, <1>2, <2>2, <2>3, <2>4, <2>5, CirclingStep DEF IsCtrlFor
<1>10. ASSUME NEW p \in Peers, IgnoreReply(p) PROVE Circling(c)'
  <2>1. PICK m \in net[p] : net' = Read(p, m)
    BY <1>10 DEF IgnoreReply
  <2>2. NetStep(p, {m}, p, {})
    BY <2>1, ReadNet
  <2>3. UNCHANGED <<rt, marked, eof, sent>>
    BY <1>10 DEF IgnoreReply
  <2> QED
    BY <1>0, <1>1, <1>2, <2>2, <2>3, CirclingStep
<1>11. ASSUME NEW p \in Peers, Relay(p)
       PROVE  Active(p) /\ (Head(job[p].queue).socket = c => ~Unowned(c))
  <2>1. Active(p) /\ job[p].queue # <<>>
    BY <1>11 DEF Relay, Active, TypeOK
  <2> QED
    BY <2>1, JobsOwned
<1>12. ASSUME NEW p \in Peers, FinishProxy(p) PROVE Circling(c)'
  <2>1. /\ Relay(p) /\ UNCHANGED <<rt, net, marked, sent>>
        /\ eof' = (eof \ {p}) \cup {Head(job[p].queue).socket}
    BY <1>12 DEF FinishProxy
  <2>2. NetStep(p, {}, p, {}) /\ (Unowned(c) => c \notin eof')
    BY <1>1, <1>11, <2>1, StillNet
  <2> QED
    BY <1>0, <1>1, <1>2, <2>1, <2>2, CirclingStep
<1>13. ASSUME NEW p \in Peers, ProxyNext(p) PROVE Circling(c)'
  <2>1. /\ Relay(p) /\ UNCHANGED <<rt, sent>> /\ eof' = eof \ {p}
        /\ marked' = [marked EXCEPT ![p] = @ \cup {Head(job[p].queue).socket}]
        /\ StartProxy(net, p, job[p].node, job[p].hash_id, TRUE, Tail(job[p].queue))
    BY <1>13 DEF ProxyNext
  <2>2. job[p].node \in Peers
    BY <2>1 DEF Relay, TypeOK, Job
  <2>3. PICK x : net' = Forwarded(net, job[p].node, x) /\ x.type = "data"
    BY <2>1 DEF StartProxy
  <2>4. PICK new : NetStep(p, {}, job[p].node, new) /\ new \subseteq {x}
    <3>1. NetStep(p, {}, job[p].node, IF status[job[p].node] = "stopped" THEN {} ELSE {x})
      BY <2>2, <2>3, ForwardOnlyNet
    <3> QED
      BY <3>1
  <2>5. Unowned(c) => c \notin eof' /\ \A q \in Peers : c \notin marked'[q]
    BY <1>1, <1>11, <2>1 DEF TypeOK
  <2> QED
    BY <1>0, <1>2, <2>1, <2>2, <2>3, <2>4, <2>5, CirclingStep DEF IsCtrlFor
<1>14. ASSUME NEW p \in Peers, FinishReply(p) PROVE Circling(c)'
  <2>1. /\ Relay(p) /\ UNCHANGED <<net, sent>> /\ eof' = eof \ {p}
        /\ marked' = [marked EXCEPT ![p] = @ \cup {Head(job[p].queue).socket}]
        /\ rt' = [rt EXCEPT ![p][job[p].hash_id] = <<>>]
    BY <1>14 DEF FinishReply, ClearRequests
  <2>2. NetStep(p, {}, p, {}) /\ Active(p)
    BY <1>11, <2>1, StillNet
  <2>3. Unowned(c) => c \notin eof' /\ \A q \in Peers : c \notin marked'[q]
    BY <1>1, <1>11, <2>1 DEF TypeOK
  <2>4. job[p].hash_id \in Hashes /\ (Open(c, p, job[p].hash_id) => ~Unowned(c))
    BY <2>2, JobsOwned
  <2>5. \A q \in Peers, h \in Hashes : ~(q = p /\ h = job[p].hash_id) => rt'[q][h] = rt[q][h]
    BY <2>1, <2>4 DEF TypeOK
  <2>6. \A q \in Peers, h \in Hashes : Unowned(c) /\ Open(c, q, h) => Open(c, q, h)'
    BY <2>4, <2>5 DEF Open
  <2> QED
    BY <1>0, <2>1, <2>2, <2>3, <2>6, CirclingStep
<1>15. ASSUME NEW p \in Peers, Sweep(p) PROVE Circling(c)'
  <2>1. /\ UNCHANGED <<rt, net, sent>> /\ eof' = eof \cup marked[p]
        /\ marked' = [marked EXCEPT ![p] = {}]
    BY <1>15 DEF Sweep
  <2>2. NetStep(p, {}, p, {})
    BY <2>1, StillNet
  <2>3. Unowned(c) => c \notin eof' /\ \A q \in Peers : c \notin marked'[q]
    BY <1>1, <2>1 DEF TypeOK
  <2> QED
    BY <1>0, <1>2, <2>1, <2>2, <2>3, CirclingStep
<1>16. \A p \in Peers : ~Stop(p)
  BY DEF Stop
<1>17. CASE UNCHANGED vars
  BY <1>0, <1>17 DEF vars, Circling, Unowned, Open
<1> QED
  BY <1>3, <1>4, <1>5, <1>6, <1>7, <1>8, <1>9, <1>10, <1>12, <1>13, <1>14, <1>15, <1>16, <1>17
     DEF Next, PeerStep

LEMMA CirclingInvariant ==
    ASSUME MayStop = {}
    PROVE  Spec => []AllCircling
<1>1. Init => AllCircling
  BY DEF Init, AllCircling, Circling, Unowned
<1> QED
  BY <1>1, CirclingPreserved, NoneStoppedInvariant, TypeCorrect, RoutingInvariant, WayInvariant, PTL
     DEF Spec

\* The lookup of an unowned request that is open is under way, and there is one.
LEMMA OneLookup ==
    ASSUME TypeOK, Routing, Way, Awaited, NEW c \in Clients, Circling(c), Unowned(c),
           NEW p \in Peers, NEW h \in Hashes, Open(c, p, h)
    PROVE  \E q \in Peers : \E m \in net[q] :
               /\ IsCtrlFor(m, c)
               /\ \A r \in Peers : \A y \in net[r] : IsCtrlFor(y, c) => r = q /\ y = m
<1>1. ~Looping(p, h)
  BY JobsOwned DEF Looping
<1>2. OnWay(c, p, h)
  BY <1>1 DEF Awaited
<1>3. PICK q \in Peers : \E m \in net[q] : IsCtrlFor(m, c)
  BY <1>2 DEF OnWay, Serves, IsCtrlFor
<1>4. PICK m \in net[q] : IsCtrlFor(m, c)
  BY <1>3
<1>5. \A r \in Peers : \A y \in net[r] : IsCtrlFor(y, c) => r = q /\ y = m
  BY <1>4 DEF Circling
<1> QED
  BY <1>4, <1>5

LEMMA UnownedFollows ==
    TypeOK /\ Routing /\ Way /\ Awaited /\ AllCircling => UnownedCircles
<1> SUFFICES ASSUME TypeOK, Routing, Way, Awaited, AllCircling,
                    NEW c \in Clients, Unowned(c)
             PROVE  /\ Places(c) \subseteq UnreadAt(c) \cup OpenAt(c)
                    /\ \A p \in Peers : ht[p][sent[c].key] = None
                    /\ Cardinality(CtrlFor(c)) = Cardinality(OpenAt(c))
                    /\ \A x \in CtrlFor(c) : x[2].type = "lkup"
  BY DEF UnownedCircles, Unowned
<1>1. Circling(c) /\ Custody(c) /\ sent[c] # None /\ c \notin eof
  BY DEF Way, Unowned, AllCircling, Circling
<1>2. NoJob(c) /\ NoMarks(c)
  <2>1. ASSUME NEW p \in Peers, InJob(c, p) PROVE FALSE
    <3>1. Active(p) /\ job[p].queue # <<>> /\ Head(job[p].queue).socket = c
      BY <2>1 DEF InJob, Active, TypeOK
    <3> QED
      BY <3>1, JobsOwned
  <2> QED
    BY <1>1, <2>1 DEF NoJob, NoMarks, InMarks, Circling
<1>3. Places(c) \subseteq UnreadAt(c) \cup OpenAt(c)
  <2>1. ProxiedAt(c) = {} /\ MarkedAt(c) = {}
    BY <1>2 DEF ProxiedAt, MarkedAt, NoJob, NoMarks, InJob, InMarks, InTable, Active
  <2> QED
    BY <1>1, <2>1 DEF Places
<1>4. \A p \in Peers : ht[p][sent[c].key] = None
  <2>1. sent[c] \in Requests
    BY <1>1 DEF TypeOK
  <2>2. sent[c].key \in Keys
    BY <2>1 DEF Keys
  <2> QED
    BY <2>2 DEF Routing, OwnerHoldsKey, Unowned, Owned
<1>5. \A z : z \in CtrlFor(c) <=> \E q \in Peers : \E m \in net[q] : IsCtrlFor(m, c) /\ z = <<q, m>>
  BY DEF CtrlFor, IsCtrlFor
<1>6. \A z : z \in OpenAt(c) <=>
         \E p \in Peers, h \in Hashes : \E i \in DOMAIN rt[p][h] :
             InTable(c, p, h, i) /\ z = <<"rt", p, h, i>>
  BY DEF OpenAt, InTable
<1>7. Cardinality(CtrlFor(c)) = Cardinality(OpenAt(c))
  <2>1. CASE NoTable(c)
    <3>1. \A p \in Peers, h \in Hashes : ~Open(c, p, h)
      BY <2>1 DEF NoTable, InTable, Open
    <3>2. \A q \in Peers : \A m \in net[q] : ~IsCtrlFor(m, c)
      BY <1>1, <3>1 DEF Circling
    <3>3. (\A z : z \notin CtrlFor(c)) /\ (\A z : z \notin OpenAt(c))
      BY <1>5, <1>6, <2>1, <3>2 DEF NoTable
    <3>4. CtrlFor(c) = {} /\ OpenAt(c) = {}
      BY <3>3
    <3> QED
      BY <3>4
  <2>2. CASE OneTable(c)
    <3>1. PICK p \in Peers, h \in Hashes : \E i \in DOMAIN rt[p][h] :
            /\ InTable(c, p, h, i)
            /\ \A q \in Peers, g \in Hashes : \A j \in DOMAIN rt[q][g] :
                 InTable(c, q, g, j) => q = p /\ g = h /\ j = i
      BY <2>2 DEF OneTable
    <3>2. PICK i \in DOMAIN rt[p][h] :
            /\ InTable(c, p, h, i)
            /\ \A q \in Peers, g \in Hashes : \A j \in DOMAIN rt[q][g] :
                 InTable(c, q, g, j) => q = p /\ g = h /\ j = i
      BY <3>1
    <3>3. \A z : z \in OpenAt(c) <=> z = <<"rt", p, h, i>>
      BY <1>6, <3>2
    <3>4. Open(c, p, h)
      BY <3>2 DEF InTable, Open
    <3>5. PICK q \in Peers : \E m \in net[q] :
            /\ IsCtrlFor(m, c)
            /\ \A r \in Peers : \A y \in net[r] : IsCtrlFor(y, c) => r = q /\ y = m
      BY <1>1, <3>4, OneLookup
    <3>6. PICK m \in net[q] :
            /\ IsCtrlFor(m, c)
            /\ \A r \in Peers : \A y \in net[r] : IsCtrlFor(y, c) => r = q /\ y = m
      BY <3>5
    <3>7. \A z : z \in CtrlFor(c) <=> z = <<q, m>>
      BY <1>5, <3>6
    <3>8. OpenAt(c) = {<<"rt", p, h, i>>} /\ CtrlFor(c) = {<<q, m>>}
      BY <3>3, <3>7
    <3> QED
      BY <3>8, FS_Singleton
  <2> QED
    BY <1>1, <1>2, <2>1, <2>2 DEF Custody, OneJob, OneMark, NoJob, NoMarks
<1>8. ASSUME NEW x \in CtrlFor(c) PROVE x[2].type = "lkup"
  <2>1. PICK q \in Peers : \E m \in net[q] : IsCtrlFor(m, c) /\ x = <<q, m>>
    BY <1>5
  <2>2. PICK m \in net[q] : IsCtrlFor(m, c) /\ x = <<q, m>>
    BY <2>1
  <2>3. m \in Msg /\ m.type # "data" /\ m.hash_id = PseudoHash(sent[c].key)
    BY <1>1, <2>2, NetMsg DEF Circling, IsCtrlFor
  <2>4. m.type \in {"lkup", "rply"} /\ m.node \in Peers
    BY <2>3 DEF Msg, DataMsg, CtrlMsg
  <2>5. m.type # "rply"
    BY <2>2, <2>3, <2>4 DEF Routing, NetRouted, MsgRouted, Unowned, Owned
  <2> QED
    BY <2>2, <2>4, <2>5
<1> QED
  BY <1>3, <1>4, <1>7, <1>8

(***************************************************************************)
(* While no peer stops, a request for a hash that nobody is responsible    *)
(* for (neighbour.c peer_is_responsible) is never executed, answered or    *)
(* waited for by a peer: it stays open at its gateway, and the lookup that *)
(* handle_packet_ctrl passes round the ring for it is always exactly one.  *)
(***************************************************************************)
THEOREM UnownedGoRound ==
    ASSUME MayStop = {}
    PROVE  Spec => []UnownedCircles
BY UnownedFollows, CirclingInvariant, AwaitedInvariant, TypeCorrect, RoutingInvariant, WayInvariant,
   PTL
=============================================================================
