-------------------------- MODULE PeerServerProofs --------------------------
(***************************************************************************)
(* Proofs about the event loop of a peer, for every finite set of          *)
(* connections, every choice of their packets and every header length.     *)
(***************************************************************************)
EXTENDS PeerServer, FiniteSetTheorems, SequenceTheorems, WellFoundedInduction, TLAPS

-----------------------------------------------------------------------------
(* The inductive invariant.                                                *)

\* Readable connections that the scan has not come to yet.
Ahead ==
    {polled[j] : j \in {k \in DOMAIN polled : i <= k /\ k <= Len(clients)}} \ {None}

\* The connections whose requests are open.
Askers == {rt[j].asker : j \in DOMAIN rt}

\* Connections move from the backlog to the list, and from there to eof.
Places ==
    /\ \A j, k \in DOMAIN backlog : backlog[j] = backlog[k] => j = k
    /\ \A j \in DOMAIN backlog : backlog[j] \in opened \ (Listed \cup eof)
    /\ Listed \cup eof \cup left \cup broken \subseteq opened
    /\ \A x \in Conn \ Listed : client[x] = NewClient(NoFd)
    /\ pc = "accept" \/ (pc = "scan" /\ accepting) => backlog # <<>>

\* What the buffers of a client hold in each state, and when a mark can be seen.
Buffers ==
    \A x \in Conn :
        /\ client[x].state = "IDLE" => client[x].body = 0 /\ client[x].hdr < HdrLen
        /\ client[x].state = "HDR_RECVD" => client[x].hdr = 0 /\ client[x].body <= BodyLen[x]
        /\ client[x].state = "REMOVE" => client[x].fd # NoFd /\ pc \in {"scan", "crashed"}

\* What poll found readable is still there when the scan comes to it.
ScanFinds ==
    pc = "scan" =>
        /\ \A x \in Ahead : x \in Listed /\ client[x].fd # NoFd
        /\ \A j, k \in DOMAIN polled : polled[j] = polled[k] /\ polled[j] # None => j = k

\* An open request has sent everything, and keeps its client as it was accepted.
Requests ==
    /\ \A j, k \in DOMAIN rt : rt[j].asker = rt[k].asker => j = k
    /\ \A j \in DOMAIN rt :
         LET x == rt[j].asker
         IN  /\ Kind[x] = "far"
             /\ inbox[x] = 0 /\ unsent[x] = 0
             /\ \/ x \in eof \ Listed
                \/ x \in Listed /\ client[x] = NewClient(rt[j].socket)

\* The bytes of a packet in the buffers of the server.
Held(x) == IF client[x].state = "IDLE" THEN client[x].hdr ELSE HdrLen + client[x].body

Bytes ==
    /\ \A x \in Conn \ opened : inbox[x] = 0
    /\ \A x \in Conn \ eof :
         x \notin Askers /\ client[x].state # "REMOVE" =>
             unsent[x] + inbox[x] + Held(x) = HdrLen + BodyLen[x]

\* What holds as long as no client leaves early.
Patience ==
    AllPatient =>
        /\ pc # "crashed"
        /\ pc # "stopped" => Askers \cap eof = {}
        /\ pc = "scan" => \A x \in Ahead : x \notin Askers /\ client[x].state # "REMOVE"
        /\ \A x, y \in Conn : x # y => answers[x][y] = 0
        /\ \A x \in Conn :
             \/ answers[x][x] = 0
             \/ answers[x][x] = 1 /\ (x \in eof \/ client[x].state = "REMOVE")

Inv ==
    /\ TypeOK
    /\ ListMatchesFiles
    /\ Places
    /\ Buffers
    /\ ScanFinds
    /\ Requests
    /\ Bytes
    /\ Patience

-----------------------------------------------------------------------------
(* Facts about the operators of the model.                                 *)

\* Every set of numbers that is not empty has a least one.
LEMMA LeastNumber ==
    ASSUME NEW T, T \subseteq Nat, T # {}
    PROVE  \E n \in T : \A m \in T : ~(m < n)
<1> DEFINE R == OpToRel(<, Nat)
<1>1. \A m, n \in Nat : m < n => <<m, n>> \in R
  BY DEF OpToRel
<1>2. IsWellFoundedOn(R, Nat)
  BY NatLessThanWellFounded, Zenon
<1> HIDE DEF R
<1>3. \E x \in T : \A y \in T : ~(<<y, x>> \in R)
  BY <1>2, WFMin, Zenon
<1> QED
  BY <1>1, <1>3

\* server_remove_client takes one client out of the list and no other.
LEMMA WithoutEffect ==
    ASSUME clients \in Seq(Conn),
           \A j, k \in DOMAIN clients : clients[j] = clients[k] => j = k,
           NEW x \in Listed
    PROVE  LET w == Without(x)
           IN  /\ w \in Seq(Conn)
               /\ Len(w) = Len(clients) - 1
               /\ \A j, k \in DOMAIN w : w[j] = w[k] => j = k
               /\ {w[j] : j \in DOMAIN w} = Listed \ {x}
<1> DEFINE n == Len(clients)
           w == Without(x)
           k == CHOOSE k \in DOMAIN clients : clients[k] = x
<1>1. k \in 1..n /\ clients[k] = x
  BY DEF Listed
<1>2. w = SubSeq(clients, 1, k - 1) \o SubSeq(clients, k + 1, n)
  BY DEF Without
<1> HIDE DEF k, w
<1>3. /\ w \in Seq(Conn)
      /\ Len(w) = n - 1
      /\ \A j \in 1..(n - 1) : w[j] = IF j < k THEN clients[j] ELSE clients[j + 1]
  <2> DEFINE a == SubSeq(clients, 1, k - 1)
             b == SubSeq(clients, k + 1, n)
  <2>1. n \in Nat /\ k \in Nat /\ \A j \in 1..n : clients[j] \in Conn
    BY <1>1
  <2>2. /\ a \in Seq(Conn) /\ Len(a) = k - 1
        /\ \A j \in 1..(k - 1) : a[j] = clients[j]
    BY <1>1, <2>1, SubSeqProperties
  <2>3. /\ b \in Seq(Conn) /\ Len(b) = n - k
        /\ \A j \in 1..(n - k) : b[j] = clients[j + k]
    BY <1>1, <2>1, SubSeqProperties
  <2> HIDE DEF a, b
  <2>4. /\ w \in Seq(Conn) /\ Len(w) = n - 1
        /\ \A j \in 1..(n - 1) : w[j] = IF j <= k - 1 THEN a[j] ELSE b[j - (k - 1)]
    <3>1. w = a \o b
      BY <1>2 DEF a, b
    <3> QED
      <4>1. Len(a) + Len(b) = n - 1
        BY <1>1, <2>1, <2>2, <2>3
      <4>2. /\ a \o b \in Seq(Conn) /\ Len(a \o b) = Len(a) + Len(b)
            /\ \A j \in 1..(Len(a) + Len(b)) :
                 (a \o b)[j] = IF j <= Len(a) THEN a[j] ELSE b[j - Len(a)]
        BY <2>2, <2>3, ConcatProperties
      <4> QED
        BY <2>2, <3>1, <4>1, <4>2
  <2>5. ASSUME NEW j \in 1..(n - 1)
        PROVE  w[j] = IF j < k THEN clients[j] ELSE clients[j + 1]
    <3>1. CASE j < k
      BY <1>1, <2>1, <2>2, <2>4, <3>1
    <3>2. CASE ~(j < k)
      <4>1. j - (k - 1) \in 1..(n - k) /\ j - (k - 1) + k = j + 1 /\ ~(j <= k - 1)
        BY <1>1, <2>1, <3>2
      <4> QED
        BY <2>3, <2>4, <3>2, <4>1
    <3> QED
      BY <3>1, <3>2
  <2> QED
    BY <2>4, <2>5
<1>4. \A j, m \in DOMAIN w : w[j] = w[m] => j = m
  <2> TAKE j, m \in DOMAIN w
  <2>1. j \in 1..(n - 1) /\ m \in 1..(n - 1) /\ n \in Nat
    BY <1>3
  <2> DEFINE pos(q) == IF q < k THEN q ELSE q + 1
  <2>2. pos(j) \in DOMAIN clients /\ pos(m) \in DOMAIN clients
    BY <1>1, <2>1
  <2>3. w[j] = clients[pos(j)] /\ w[m] = clients[pos(m)]
    BY <1>3, <2>1
  <2>4. pos(j) = pos(m) => j = m
    BY <1>1, <2>1
  <2> HIDE DEF pos
  <2> QED
    BY <2>2, <2>3, <2>4
<1>5. \A j \in DOMAIN w : w[j] \in Listed \ {x}
  BY <1>1, <1>3 DEF Listed
<1>6. \A y \in Listed \ {x} : \E j \in DOMAIN w : w[j] = y
  <2> TAKE y \in Listed \ {x}
  <2>1. PICK m \in 1..n : clients[m] = y
    BY DEF Listed
  <2>2. CASE m < k
    BY <1>1, <1>3, <2>1, <2>2
  <2>3. CASE m > k
    <3>1. m - 1 \in 1..(n - 1) /\ ~(m - 1 < k) /\ m - 1 + 1 = m
      BY <1>1, <2>1, <2>3
    <3> QED
      BY <1>3, <2>1, <3>1
  <2> QED
    BY <1>1, <2>1, <2>2, <2>3
<1> QED
  BY <1>3, <1>4, <1>5, <1>6 DEF w

\* While a connection waits in the backlog, a descriptor is free.
LEMMA FreeDescriptor ==
    ASSUME TypeOK, ListMatchesFiles, Places, backlog # <<>>
    PROVE  \E f \in Fd : files[f] = None /\ \A g \in Fd : g < f => files[g] # None
<1> DEFINE x == Head(backlog)
           n == Cardinality(Conn)
<1>1. x \in Conn /\ x \notin Listed
  <2>1. backlog \in Seq(Conn)
    BY DEF TypeOK
  <2>2. x \in Conn /\ 1 \in DOMAIN backlog /\ x = backlog[1]
    BY <2>1
  <2> QED
    BY <2>2 DEF Places
<1>2. /\ IsFiniteSet(Conn) /\ n \in Nat
      /\ IsFiniteSet(Conn \ {x}) /\ Cardinality(Conn \ {x}) = n - 1
      /\ IsFiniteSet(Fd) /\ Cardinality(Fd) = n
  <2>1. IsFiniteSet(Conn) /\ n \in Nat
    BY ConnAssumption, FS_CardinalityType
  <2>2. IsFiniteSet(Conn \ {x}) /\ Cardinality(Conn \ {x}) = n - 1
    BY <1>1, <2>1, FS_RemoveElement
  <2>3. IsFiniteSet(1..n) /\ Cardinality(1..n) = n
    BY <2>1, FS_Interval
  <2> QED
    BY <2>1, <2>2, <2>3 DEF Fd
<1>3. \E f \in Fd : files[f] = None
  <2> SUFFICES ASSUME \A f \in Fd : files[f] # None PROVE FALSE
    OBVIOUS
  <2>1. files \in [Fd -> Conn \ {x}]
    <3>1. files \in [Fd -> Conn \cup {None}]
      BY DEF TypeOK
    <3> QED
      BY <1>1, <3>1 DEF ListMatchesFiles
  <2>2. PICK f, g \in Fd : f # g /\ files[f] = files[g]
    <3>1. Cardinality(Conn \ {x}) < Cardinality(Fd)
      BY <1>2
    <3> HIDE DEF x
    <3> QED
      BY <1>2, <2>1, <3>1, FS_PigeonHole
  <2> QED
    BY <2>2 DEF ListMatchesFiles
<1>4. {f \in Fd : files[f] = None} \subseteq Nat
  BY <1>2 DEF Fd
<1>5. PICK f \in {g \in Fd : files[g] = None} :
          \A h \in {g \in Fd : files[g] = None} : ~(h < f)
  BY <1>3, <1>4, LeastNumber
<1> QED
  BY <1>5

\* The connections that are listed, and what is known of any connection's client.
LEMMA ListedConn == TypeOK => Listed \subseteq Conn
<1> SUFFICES ASSUME TypeOK PROVE Listed \subseteq Conn
  OBVIOUS
<1>1. clients \in Seq(Conn)
  BY DEF TypeOK
<1> QED
  BY <1>1 DEF Listed

LEMMA ClientFields ==
    ASSUME TypeOK, NEW x \in Conn
    PROVE  /\ client[x] \in Client
           /\ client[x].fd \in Fd \cup {NoFd}
           /\ client[x].state \in {"IDLE", "HDR_RECVD", "REMOVE"}
           /\ client[x].hdr \in 0..HdrLen /\ client[x].hdr \in Nat
           /\ client[x].body \in Nat
<1>1. client[x] \in Client
  BY DEF TypeOK
<1> QED
  BY <1>1, ConnAssumption DEF Client

LEMMA RequestFields ==
    ASSUME TypeOK
    PROVE  \A j \in DOMAIN rt : rt[j].asker \in Conn /\ rt[j].socket \in Fd
<1> DEFINE R == [socket : Fd, asker : Conn]
<1>1. rt \in Seq(R)
  BY DEF TypeOK
<1>2. \A r \in R : r.asker \in Conn /\ r.socket \in Fd
  OBVIOUS
<1> HIDE DEF R
<1>3. \A j \in DOMAIN rt : rt[j] \in R
  BY <1>1
<1> QED
  BY <1>2, <1>3

LEMMA NewClientType ==
    ASSUME NEW f \in Fd \cup {NoFd}
    PROVE  NewClient(f) \in Client
  BY ConnAssumption DEF NewClient, Client

\* The scan takes a connection that is ahead of it, and leaves it behind.
LEMMA ScanMoves ==
    ASSUME TypeOK, ScanFinds, NEW x, Scanning(x), polled' = polled,
           Len(clients') \in Nat, Len(clients') <= Len(clients)
    PROVE  /\ x \in Ahead /\ x \in Listed /\ x \in Conn
           /\ client[x].fd # NoFd /\ client[x].fd \in Fd
           /\ Ahead' \subseteq Ahead \ {x}
           /\ i' \in Nat \ {0}
           /\ pc = "scan"
<1>1. PICK j \in DOMAIN polled : At(j) /\ polled[j] = x /\ i' = j + 1
  BY DEF Scanning
<1>2. pc = "scan" /\ x \in Ahead
  BY <1>1 DEF At, Ahead
<1>3. x \in Listed /\ client[x].fd # NoFd
  BY <1>2 DEF ScanFinds
<1>4. x \in Conn /\ client[x].fd \in Fd
  BY <1>3, ListedConn, ClientFields
<1>5. i \in Nat \ {0} /\ j \in Nat /\ i <= j /\ Len(clients) \in Nat /\ DOMAIN polled \subseteq Nat
  <2>1. i \in Nat \ {0} /\ polled \in Seq(Conn \cup {None}) /\ clients \in Seq(Conn)
    BY DEF TypeOK
  <2> QED
    BY <1>1, <2>1 DEF At
<1>6. ASSUME NEW y \in Ahead' PROVE y \in Ahead \ {x}
  <2>1. PICK k \in DOMAIN polled' : y = polled'[k] /\ i' <= k /\ k <= Len(clients') /\ y # None
    BY <1>6 DEF Ahead
  <2>2. k \in Nat /\ i <= k /\ k <= Len(clients) /\ k # j
    BY <1>1, <1>5, <2>1
  <2> QED
    BY <1>1, <1>2, <2>1, <2>2 DEF Ahead, ScanFinds
<1> QED
  BY <1>1, <1>2, <1>3, <1>4, <1>5, <1>6

\* Where the scan is over, nothing is ahead of it.
LEMMA NothingAhead ==
    ASSUME TypeOK, ScanOver
    PROVE  Ahead = {}
<1> DEFINE T == {k \in DOMAIN polled : i <= k /\ k <= Len(clients) /\ polled[k] # None}
<1> SUFFICES ASSUME T # {} PROVE FALSE
  BY DEF Ahead
<1>1. T \subseteq Nat
  <2>1. polled \in Seq(Conn \cup {None})
    BY DEF TypeOK
  <2> QED
    BY <2>1
<1>2. PICK n \in T : \A m \in T : ~(m < n)
  BY <1>1, LeastNumber
<1>3. At(n)
  <2>1. /\ i \in Nat /\ n \in Nat /\ i <= n /\ n <= Len(polled)
        /\ \A k \in i..(n - 1) : k \in DOMAIN polled /\ k <= Len(clients) /\ k < n
    <3>1. i \in Nat \ {0} /\ polled \in Seq(Conn \cup {None}) /\ clients \in Seq(Conn)
      BY DEF TypeOK
    <3> QED
      BY <1>2, <3>1
  <2> QED
    BY <1>2, <2>1 DEF At, ScanOver
<1> QED
  BY <1>2, <1>3 DEF ScanOver

\* What server_remove_client does to the list, the descriptors and the client.
LEMMA RemoveEffect ==
    ASSUME TypeOK, ListMatchesFiles, NEW x \in Listed, client[x].fd # NoFd,
           NEW cl \in [Conn -> Client], RemoveClient(x, cl)
    PROVE  /\ x \in Conn /\ client[x].fd \in Fd /\ files[client[x].fd] = x
           /\ clients' \in Seq(Conn) /\ Len(clients') = Len(clients) - 1
           /\ Len(clients') \in Nat /\ Len(clients') <= Len(clients)
           /\ \A j, k \in DOMAIN clients' : clients'[j] = clients'[k] => j = k
           /\ Listed' = Listed \ {x}
           /\ client' \in [Conn -> Client] /\ client'[x] = NewClient(NoFd)
           /\ \A y \in Conn \ {x} : client'[y] = cl[y]
           /\ files' \in [Fd -> Conn \cup {None}]
           /\ \A f \in Fd : files'[f] = IF f = client[x].fd THEN None ELSE files[f]
           /\ inbox' \in [Conn -> Nat] /\ inbox'[x] = 0
           /\ \A y \in Conn \ {x} : inbox'[y] = inbox[y]
           /\ eof' = eof \cup {x} /\ eof' \subseteq Conn
<1>1. x \in Conn /\ client[x].fd \in Fd /\ files[client[x].fd] = x
  BY ListedConn, ClientFields DEF ListMatchesFiles
<1>2. clients \in Seq(Conn) /\ \A j, k \in DOMAIN clients : clients[j] = clients[k] => j = k
  BY DEF TypeOK, ListMatchesFiles
<1>3. clients' = Without(x)
  BY DEF RemoveClient
<1>4. /\ clients' \in Seq(Conn) /\ Len(clients') = Len(clients) - 1
      /\ \A j, k \in DOMAIN clients' : clients'[j] = clients'[k] => j = k
      /\ {clients'[j] : j \in DOMAIN clients'} = Listed \ {x}
  BY <1>2, <1>3, WithoutEffect
<1>5. Listed' = Listed \ {x}
  BY <1>4 DEF Listed
<1>6. Len(clients) \in Nat /\ Len(clients') \in Nat
  BY <1>2, <1>4
<1>7. client' = [cl EXCEPT ![x] = NewClient(NoFd)] /\ NewClient(NoFd) \in Client
  BY NewClientType DEF RemoveClient
<1>8. /\ files \in [Fd -> Conn \cup {None}] /\ files' = [files EXCEPT ![client[x].fd] = None]
      /\ inbox \in [Conn -> Nat] /\ inbox' = [inbox EXCEPT ![x] = 0]
      /\ eof \subseteq Conn /\ eof' = eof \cup {x}
  BY DEF RemoveClient, TypeOK
<1>9. client' \in [Conn -> Client] /\ client'[x] = NewClient(NoFd)
      /\ \A y \in Conn \ {x} : client'[y] = cl[y]
  BY <1>1, <1>7
<1>10. /\ files' \in [Fd -> Conn \cup {None}]
       /\ \A f \in Fd : files'[f] = IF f = client[x].fd THEN None ELSE files[f]
  BY <1>1, <1>8
<1>11. /\ inbox' \in [Conn -> Nat] /\ inbox'[x] = 0
       /\ \A y \in Conn \ {x} : inbox'[y] = inbox[y]
  BY <1>1, <1>8
<1> QED
  BY <1>1, <1>4, <1>5, <1>6, <1>8, <1>9, <1>10, <1>11

\* Removing a client keeps the list and the descriptors in agreement.
LEMMA RemoveKeepsList ==
    ASSUME TypeOK, ListMatchesFiles, Places, NEW x \in Listed, client[x].fd # NoFd,
           NEW cl \in [Conn -> Client], \A y \in Conn : cl[y].fd = client[y].fd,
           \A y \in Conn \ Listed : cl[y] = client[y],
           RemoveClient(x, cl), pc' = pc,
           UNCHANGED <<accepting, backlog, opened, left, broken>>
    PROVE  ListMatchesFiles' /\ Places'
<1>1. x \in Conn /\ client[x].fd \in Fd /\ files[client[x].fd] = x
  BY RemoveEffect
<1>2. /\ \A j, k \in DOMAIN clients' : clients'[j] = clients'[k] => j = k
      /\ Listed' = Listed \ {x} /\ eof' = eof \cup {x}
      /\ client'[x] = NewClient(NoFd)
      /\ \A y \in Conn \ {x} : client'[y] = cl[y]
      /\ \A f \in Fd : files'[f] = IF f = client[x].fd THEN None ELSE files[f]
  BY RemoveEffect
<1>3. \A f \in Fd : files'[f] # None => files'[f] \in Listed' \ eof' /\ client'[files'[f]].fd = f
  BY <1>1, <1>2, ListedConn DEF ListMatchesFiles
<1>4. \A y \in Listed' : client'[y].fd # NoFd => files'[client'[y].fd] = y
  <2> SUFFICES ASSUME NEW y \in Listed', client'[y].fd # NoFd
               PROVE  files'[client'[y].fd] = y
    OBVIOUS
  <2>1. y \in Conn /\ y \in Listed /\ y # x /\ client'[y].fd = client[y].fd
    BY <1>2, ListedConn
  <2>2. files[client[y].fd] = y /\ client[y].fd \in Fd
    BY <2>1, ClientFields DEF ListMatchesFiles
  <2> QED
    BY <1>1, <1>2, <2>1, <2>2
<1>5. Places'
  BY <1>1, <1>2 DEF Places
<1> QED
  BY <1>2, <1>3, <1>4, <1>5 DEF ListMatchesFiles

-----------------------------------------------------------------------------
(* The invariant holds at first, and the other ends preserve it.           *)

LEMMA InitInv == Init => Inv
<1> SUFFICES ASSUME Init PROVE Inv
  OBVIOUS
<1>1. Listed = {} /\ Askers = {} /\ Ahead = {}
  BY DEF Init, Listed, Askers, Ahead
<1>2. TypeOK
  <2>1. client \in [Conn -> Client]
    BY NewClientType DEF Init
  <2>2. unsent \in [Conn -> Nat]
    BY ConnAssumption DEF Init
  <2>3. /\ clients \in Seq(Conn) /\ rt \in Seq([socket : Fd, asker : Conn])
        /\ polled \in Seq(Conn \cup {None}) /\ backlog \in Seq(Conn)
    BY DEF Init
  <2>4. files \in [Fd -> Conn \cup {None}] /\ answers \in [Conn -> [Conn -> Nat]]
        /\ inbox \in [Conn -> Nat]
    BY DEF Init
  <2>5. /\ pc \in {"poll", "scan", "accept", "crashed", "stopped"}
        /\ i \in Nat \ {0}
        /\ opened \subseteq Conn /\ left \subseteq Conn /\ broken \subseteq Conn
        /\ eof \subseteq Conn
    BY DEF Init
  <2>6. accepting \in BOOLEAN
    BY Zenon DEF Init
  <2> QED
    BY <2>1, <2>2, <2>3, <2>4, <2>5, <2>6, Zenon DEF TypeOK
<1>3. ListMatchesFiles
  BY <1>1 DEF Init, ListMatchesFiles
<1>4. Places
  BY <1>1 DEF Init, Places
<1>5. Buffers
  BY ConnAssumption DEF Init, Buffers, NewClient
<1>6. ScanFinds /\ Requests
  BY DEF Init, ScanFinds, Requests
<1>7. Bytes
  BY ConnAssumption DEF Init, Bytes, Held, NewClient
<1>8. Patience
  BY <1>1 DEF Init, Patience
<1> QED
  BY <1>2, <1>3, <1>4, <1>5, <1>6, <1>7, <1>8 DEF Inv

\* The steps of the other ends leave the list, the scan and the requests alone.
LEMMA ServerFrame ==
    ASSUME UNCHANGED <<server, answers, eof>>
    PROVE  /\ ListMatchesFiles => ListMatchesFiles'
           /\ Buffers => Buffers'
           /\ ScanFinds => ScanFinds'
           /\ Listed' = Listed /\ Askers' = Askers /\ Ahead' = Ahead
  BY DEF server, ListMatchesFiles, Buffers, ScanFinds, Listed, Askers, Ahead

LEMMA PatienceLost ==
    ASSUME UNCHANGED <<server, answers, eof>>, left \subseteq left', broken \subseteq broken',
           Patience
    PROVE  Patience'
<1>1. AllPatient' => AllPatient
  BY DEF AllPatient
<1> QED
  BY <1>1, ServerFrame DEF server, Patience

LEMMA ConnectStep ==
    ASSUME Inv, NEW x \in Conn, Connect(x)
    PROVE  Inv'
<1>1. UNCHANGED <<server, answers, eof>> /\ UNCHANGED <<unsent, inbox, left, broken>>
  BY DEF Connect
<1>2. backlog \in Seq(Conn) /\ backlog' = Append(backlog, x) /\ opened' = opened \cup {x}
      /\ x \notin opened
  BY DEF Connect, Inv, TypeOK
<1>3. /\ backlog' \in Seq(Conn) /\ Len(backlog') = Len(backlog) + 1 /\ Len(backlog) \in Nat
      /\ backlog' # <<>>
      /\ \A j \in DOMAIN backlog : backlog'[j] = backlog[j]
      /\ backlog'[Len(backlog) + 1] = x
      /\ DOMAIN backlog = 1..Len(backlog) /\ DOMAIN backlog' = 1..(Len(backlog) + 1)
  BY <1>2, AppendProperties
<1>4. TypeOK'
  BY <1>1, <1>2, <1>3 DEF Inv, TypeOK, server
<1>5. Places'
  <2>1. \A j \in DOMAIN backlog' : j \in DOMAIN backlog \/ j = Len(backlog) + 1
    BY <1>3
  <2>2. \A j \in DOMAIN backlog : backlog[j] \in opened \ (Listed \cup eof)
    BY DEF Inv, Places
  <2>3. \A j, k \in DOMAIN backlog' : backlog'[j] = backlog'[k] => j = k
    BY <1>2, <1>3, <2>1, <2>2 DEF Inv, Places
  <2>4. \A j \in DOMAIN backlog' : backlog'[j] \in opened' \ (Listed' \cup eof')
    BY <1>1, <1>2, <1>3, <2>1, <2>2, ServerFrame DEF Inv, Places
  <2> QED
    BY <1>1, <1>2, <1>3, <2>3, <2>4, ServerFrame DEF Inv, Places, server
<1>6. Requests' /\ Bytes'
  BY <1>1, <1>2, ServerFrame DEF Inv, Requests, Bytes, Held, server
<1> QED
  BY <1>1, <1>4, <1>5, <1>6, ServerFrame, PatienceLost DEF Inv

LEMMA TransmitStep ==
    ASSUME Inv, NEW x \in Conn, Transmit(x)
    PROVE  Inv'
<1>1. UNCHANGED <<server, answers, eof>> /\ UNCHANGED <<backlog, opened, left, broken>>
  BY DEF Transmit
<1>2. unsent \in [Conn -> Nat] /\ inbox \in [Conn -> Nat]
  BY DEF Inv, TypeOK
<1>3. PICK n \in 1..unsent[x] : /\ unsent' = [unsent EXCEPT ![x] = @ - n]
                               /\ inbox' = [inbox EXCEPT ![x] = @ + n]
  BY DEF Transmit
<1>4. /\ unsent' \in [Conn -> Nat] /\ inbox' \in [Conn -> Nat]
      /\ unsent'[x] + inbox'[x] = unsent[x] + inbox[x]
      /\ unsent[x] # 0
      /\ \A y \in Conn \ {x} : unsent'[y] = unsent[y] /\ inbox'[y] = inbox[y]
  BY <1>2, <1>3
<1>5. x \notin broken /\ x \in opened
  BY DEF Transmit
<1>6. TypeOK'
  BY <1>1, <1>4 DEF Inv, TypeOK, server
<1>7. Places'
  BY <1>1, ServerFrame DEF Inv, Places, server
<1>8. Requests'
  <2>1. ASSUME NEW j \in DOMAIN rt
        PROVE  rt[j].asker \in Conn /\ rt[j].asker # x
    <3>1. rt[j].asker \in Conn /\ unsent[rt[j].asker] = 0
      BY RequestFields DEF Inv, Requests
    <3> QED
      BY <1>4, <1>5, <3>1
  <2> QED
    BY <1>1, <1>4, <2>1, ServerFrame DEF Inv, Requests, server
<1>9. Bytes'
  <2>1. \A y \in Conn \ opened : y \in Conn \ {x}
    BY <1>5 DEF Inv, TypeOK
  <2>2. \A y \in Conn : Held(y)' = Held(y)
    BY <1>1 DEF Held, server
  <2>3. Held(x) \in Nat
    BY ClientFields, ConnAssumption DEF Inv, Held
  <2>4. \A y \in Conn : unsent'[y] + inbox'[y] + Held(y)' = unsent[y] + inbox[y] + Held(y)
    BY <1>4, <2>2
  <2> QED
    BY <1>1, <1>4, <2>1, <2>4, ServerFrame DEF Inv, Bytes, server
<1> QED
  BY <1>1, <1>6, <1>7, <1>8, <1>9, ServerFrame, PatienceLost DEF Inv

LEMMA LeaveStep ==
    ASSUME Inv, NEW x \in Conn, Leave(x)
    PROVE  Inv'
<1>1. UNCHANGED <<server, answers, eof>> /\ UNCHANGED <<backlog, opened, unsent, inbox, broken>>
  BY DEF Leave
<1>2. left' = left \cup {x} /\ x \in opened
  BY DEF Leave
<1>3. TypeOK'
  BY <1>1, <1>2 DEF Inv, TypeOK, server
<1>4. Places'
  BY <1>1, <1>2, ServerFrame DEF Inv, Places, server
<1>5. Requests' /\ Bytes'
  BY <1>1, ServerFrame DEF Inv, Requests, Bytes, Held, server
<1> QED
  BY <1>1, <1>2, <1>3, <1>4, <1>5, ServerFrame, PatienceLost DEF Inv

LEMMA ResetStep ==
    ASSUME Inv, NEW x \in Conn, Reset(x)
    PROVE  Inv'
<1>1. UNCHANGED <<server, answers, eof>> /\ UNCHANGED <<backlog, opened, unsent, inbox, left>>
  BY DEF Reset
<1>2. broken' = broken \cup {x} /\ x \in opened
  BY DEF Reset
<1>3. TypeOK'
  BY <1>1, <1>2 DEF Inv, TypeOK, server
<1>4. Places'
  BY <1>1, <1>2, ServerFrame DEF Inv, Places, server
<1>5. Requests' /\ Bytes'
  BY <1>1, ServerFrame DEF Inv, Requests, Bytes, Held, server
<1> QED
  BY <1>1, <1>2, <1>3, <1>4, <1>5, ServerFrame, PatienceLost DEF Inv

-----------------------------------------------------------------------------
(* The server preserves the invariant.                                     *)

LEMMA PollStep ==
    ASSUME Inv, Poll
    PROVE  Inv'
<1>1. UNCHANGED <<clients, client, files, rt>> /\ UNCHANGED <<answers, eof>>
      /\ UNCHANGED <<backlog, opened, unsent, inbox, left, broken>>
  BY DEF Poll, network
<1>2. pc = "poll" /\ pc' = "scan" /\ i' = 1
  BY DEF Poll
<1>3. Listed' = Listed /\ Askers' = Askers
  BY <1>1 DEF Listed, Askers
<1>4. /\ clients \in Seq(Conn) /\ DOMAIN polled' = DOMAIN clients
      /\ DOMAIN clients = 1..Len(clients) /\ Len(clients) \in Nat
      /\ \A j \in DOMAIN clients :
           polled'[j] = IF clients[j] \in Readable THEN clients[j] ELSE None
  BY DEF Inv, TypeOK, Poll
<1>5. polled' \in Seq(Conn \cup {None})
  <2>1. polled' = [j \in 1..Len(clients) |-> polled'[j]]
    BY <1>4 DEF Poll
  <2>2. \A j \in 1..Len(clients) : polled'[j] \in Conn \cup {None}
    BY <1>4
  <2> QED
    BY <1>4, <2>1, <2>2
<1>6. Ahead' \subseteq Readable
  BY <1>4 DEF Ahead
<1>7. TypeOK'
  <2>1. accepting' \in BOOLEAN
    BY Zenon DEF Poll
  <2> QED
    BY <1>1, <1>2, <1>5, <2>1 DEF Inv, TypeOK
<1>8. ListMatchesFiles'
  BY <1>1, <1>3 DEF Inv, ListMatchesFiles
<1>9. Places'
  <2>1. accepting' => backlog' # <<>>
    BY <1>1, Zenon DEF Poll
  <2> QED
    BY <1>1, <1>2, <1>3, <2>1 DEF Inv, Places
<1>10. Buffers'
  BY <1>1, <1>2 DEF Inv, Buffers
<1>11. ScanFinds'
  <2>1. \A x \in Ahead' : x \in Listed /\ client[x].fd # NoFd
    BY <1>6 DEF Readable
  <2>2. \A j, k \in DOMAIN polled' : polled'[j] = polled'[k] /\ polled'[j] # None => j = k
    BY <1>4 DEF Inv, ListMatchesFiles
  <2> QED
    BY <1>1, <1>3, <2>1, <2>2 DEF ScanFinds
<1>12. Requests' /\ Bytes'
  BY <1>1, <1>3 DEF Inv, Requests, Bytes, Held
<1>13. Patience'
  <2> SUFFICES ASSUME AllPatient' PROVE Patience'
    BY DEF Patience
  <2>1. AllPatient
    BY <1>1 DEF AllPatient
  <2>2. ASSUME NEW x \in Ahead' PROVE x \notin Askers /\ client[x].state # "REMOVE"
    <3>1. x \in Conn /\ (inbox[x] > 0 \/ x \in left)
      BY <1>6, ListedConn DEF Inv, Readable
    <3>2. inbox[x] \in Nat
      BY <3>1 DEF Inv, TypeOK
    <3>3. x \notin Askers
      <4> SUFFICES ASSUME x \in Askers PROVE FALSE
        OBVIOUS
      <4>1. Kind[x] = "far" /\ inbox[x] = 0
        BY DEF Askers, Inv, Requests
      <4> QED
        BY <2>1, <3>1, <3>2, <4>1 DEF AllPatient
    <3>4. client[x].state # "REMOVE"
      BY <1>2, <3>1 DEF Inv, Buffers
    <3> QED
      BY <3>3, <3>4
  <2> QED
    BY <1>1, <1>2, <1>3, <2>1, <2>2 DEF Inv, Patience
<1> QED
  BY <1>7, <1>8, <1>9, <1>10, <1>11, <1>12, <1>13 DEF Inv

\* What is known of a connection that the scan has come to.
LEMMA ScannedClient ==
    ASSUME Inv, NEW x \in Conn, x \in Listed, client[x].fd # NoFd
    PROVE  /\ x \notin eof
           /\ inbox[x] # 0 => x \notin Askers
<1>1. x \notin eof
  BY ClientFields, ConnAssumption DEF Inv, ListMatchesFiles
<1>2. inbox[x] # 0 => x \notin Askers
  BY DEF Inv, Requests, Askers, Bytes
<1> QED
  BY <1>1, <1>2

\* recv of bytes that do not complete the packet.
LEMMA FillStep ==
    ASSUME Inv, NEW x \in Conn, Scanning(x), client[x].state # "REMOVE",
           NEW n \in 1..inbox[x], inbox' = [inbox EXCEPT ![x] = @ - n],
           NEW c \in Client, client' = [client EXCEPT ![x] = c],
           c.fd = client[x].fd, c.state # "REMOVE",
           c.state = "IDLE" => c.body = 0 /\ c.hdr < HdrLen,
           c.state = "HDR_RECVD" => c.hdr = 0 /\ c.body <= BodyLen[x],
           (IF c.state = "IDLE" THEN c.hdr ELSE HdrLen + c.body) = Held(x) + n,
           UNCHANGED <<clients, files, rt, pc, polled, accepting,
                       backlog, opened, unsent, left, broken, answers, eof>>
    PROVE  Inv'
<1>1. clients \in Seq(Conn) /\ inbox \in [Conn -> Nat] /\ client \in [Conn -> Client]
      /\ unsent \in [Conn -> Nat]
  BY DEF Inv, TypeOK
<1>2. /\ x \in Ahead /\ x \in Listed /\ client[x].fd # NoFd
      /\ Ahead' \subseteq Ahead \ {x}
      /\ i' \in Nat \ {0} /\ pc = "scan"
  BY <1>1, ScanMoves DEF Inv
<1>3. x \notin eof /\ x \notin Askers
  <2>1. inbox[x] # 0
    BY <1>1
  <2> QED
    BY <1>2, <2>1, ScannedClient
<1>4. /\ inbox' \in [Conn -> Nat] /\ inbox'[x] = inbox[x] - n
      /\ \A y \in Conn \ {x} : inbox'[y] = inbox[y]
  BY <1>1
<1>5. /\ client' \in [Conn -> Client] /\ client'[x] = c
      /\ \A y \in Conn \ {x} : client'[y] = client[y]
  BY <1>1
<1>6. Listed' = Listed /\ Askers' = Askers /\ Listed \subseteq Conn
  BY ListedConn DEF Inv, Listed, Askers
<1>7. TypeOK'
  BY <1>2, <1>4, <1>5 DEF Inv, TypeOK
<1>8. ListMatchesFiles'
  <2>1. \A y \in Conn : client'[y].fd = client[y].fd
    BY <1>5
  <2> QED
    BY <1>6, <2>1 DEF Inv, ListMatchesFiles
<1>9. Places'
  BY <1>2, <1>5, <1>6 DEF Inv, Places
<1>10. Buffers'
  BY <1>5 DEF Inv, Buffers
<1>11. ScanFinds'
  BY <1>2, <1>5, <1>6 DEF Inv, ScanFinds
<1>12. Requests'
  <2>1. \A j \in DOMAIN rt : rt[j].asker \in Conn \ {x}
    BY <1>3, RequestFields DEF Inv, Askers
  <2> QED
    BY <1>4, <1>5, <1>6, <2>1 DEF Inv, Requests
<1>13. Bytes'
  <2>1. Held(x)' = Held(x) + n
    BY <1>5 DEF Held
  <2>2. Held(x) \in Nat /\ unsent[x] \in Nat /\ inbox[x] \in Nat
    BY <1>1, ClientFields, ConnAssumption DEF Inv, Held
  <2>3. unsent[x] + (inbox[x] - n) + (Held(x) + n) = unsent[x] + inbox[x] + Held(x)
    BY <2>2
  <2>4. \A y \in Conn \ {x} : Held(y)' = Held(y)
    BY <1>5 DEF Held
  <2>5. \A y \in Conn \ opened : y \in Conn \ {x}
    BY <1>2, <1>3 DEF Inv, TypeOK, Places
  <2> QED
    BY <1>3, <1>4, <1>5, <1>6, <2>1, <2>3, <2>4, <2>5 DEF Inv, Bytes
<1>14. Patience'
  <2> SUFFICES ASSUME AllPatient' PROVE Patience'
    BY DEF Patience
  <2>1. AllPatient
    BY DEF AllPatient
  <2>2. \A y \in Ahead' : y \in Conn \ {x}
    BY <1>2, <1>6 DEF Inv, ScanFinds
  <2>3. answers[x][x] = 0
    BY <1>3, <2>1 DEF Inv, Patience
  <2> QED
    BY <1>2, <1>3, <1>5, <1>6, <2>1, <2>2, <2>3 DEF Inv, Patience
<1> QED
  BY <1>7, <1>8, <1>9, <1>10, <1>11, <1>12, <1>13, <1>14 DEF Inv

LEMMA ReceivedBounds ==
    ASSUME TypeOK, NEW x \in Conn, NEW room \in Nat
    PROVE  /\ Received(x, room) \in Nat
           /\ Received(x, room) <= inbox[x] /\ Received(x, room) <= room
           /\ inbox[x] \in Nat
           /\ Received(x, room) > 0 => Received(x, room) \in 1..inbox[x]
           /\ Received(x, room) = 0 => inbox[x] = 0 \/ room = 0
<1>1. inbox[x] \in Nat
  BY DEF TypeOK
<1> QED
  BY <1>1 DEF Received

LEMMA ScanHeaderStep ==
    ASSUME Inv, NEW x \in Conn, ScanHeader(x)
    PROVE  Inv'
<1> DEFINE old == client[x]
           n == Received(x, HdrLen - old.hdr)
           h == old.hdr + n
           c == IF h = HdrLen THEN [old EXCEPT !.state = "HDR_RECVD", !.hdr = 0]
                              ELSE [old EXCEPT !.hdr = h]
<1>1. /\ Scanning(x) /\ old.state = "IDLE" /\ n > 0
      /\ inbox' = [inbox EXCEPT ![x] = @ - n]
      /\ UNCHANGED <<clients, files, rt, pc, polled, accepting,
                     backlog, opened, unsent, left, broken, answers, eof>>
  BY DEF ScanHeader
<1>2. client' = [client EXCEPT ![x] = c]
  BY DEF ScanHeader, Inv, TypeOK
<1>3. /\ old \in Client /\ old.fd \in Fd \cup {NoFd} /\ old.body \in Nat
      /\ old.hdr \in 0..HdrLen /\ HdrLen \in Nat /\ BodyLen[x] \in Nat
      /\ old.body = 0
  BY <1>1, ClientFields, ConnAssumption DEF Inv, Buffers
<1>4. n \in 1..inbox[x] /\ n \in Nat /\ n <= HdrLen - old.hdr
  <2>1. HdrLen - old.hdr \in Nat
    BY <1>3
  <2> QED
    BY <1>1, <2>1, ReceivedBounds DEF Inv
<1> HIDE DEF n
<1>5. h \in 0..HdrLen
  BY <1>3, <1>4
<1>6. Held(x) = old.hdr
  BY <1>1 DEF Held
<1>7. /\ c \in Client /\ c.fd = old.fd /\ c.state # "REMOVE"
      /\ c.state = "IDLE" => c.body = 0 /\ c.hdr < HdrLen
      /\ c.state = "HDR_RECVD" => c.hdr = 0 /\ c.body <= BodyLen[x]
      /\ (IF c.state = "IDLE" THEN c.hdr ELSE HdrLen + c.body) = Held(x) + n
  <2>1. CASE h = HdrLen
    <3>1. c = [fd |-> old.fd, state |-> "HDR_RECVD", hdr |-> 0, body |-> old.body]
      BY <1>3, <2>1 DEF Client
    <3>2. c \in Client
      BY <1>3, <3>1 DEF Client
    <3>3. /\ c.fd = old.fd /\ c.state = "HDR_RECVD" /\ c.hdr = 0 /\ c.body = 0
      BY <1>3, <3>1
    <3> QED
      BY <1>3, <1>6, <2>1, <3>2, <3>3
  <2>2. CASE h # HdrLen
    BY <1>1, <1>3, <1>4, <1>5, <1>6, <2>2 DEF Client
  <2> QED
    BY <2>1, <2>2
<1> HIDE DEF c
<1> QED
  BY <1>1, <1>2, <1>4, <1>7, FillStep

\* How much of the body recv can deliver.
LEMMA BodyBounds ==
    ASSUME Inv, NEW x \in Conn, client[x].state = "HDR_RECVD"
    PROVE  /\ BodyLen[x] - client[x].body \in Nat /\ BodyLen[x] \in Nat
           /\ BodyBytes(x) \in Nat /\ BodyBytes(x) <= BodyLen[x] - client[x].body
           /\ BodyBytes(x) > 0 => BodyBytes(x) \in 1..inbox[x]
           /\ BodyBytes(x) = 0 => inbox[x] = 0 \/ BodyLen[x] - client[x].body = 0
           /\ inbox[x] \in Nat
           /\ Held(x) = HdrLen + client[x].body
<1>1. BodyLen[x] - client[x].body \in Nat /\ BodyLen[x] \in Nat
  BY ClientFields, ConnAssumption DEF Inv, Buffers
<1>2. Held(x) = HdrLen + client[x].body
  BY DEF Held
<1> QED
  BY <1>1, <1>2, ReceivedBounds DEF Inv, BodyBytes

LEMMA ScanBodyStep ==
    ASSUME Inv, NEW x \in Conn, ScanBody(x)
    PROVE  Inv'
<1> DEFINE old == client[x]
           n == BodyBytes(x)
           c == [old EXCEPT !.body = old.body + n]
<1>1. /\ Scanning(x) /\ old.state = "HDR_RECVD" /\ n > 0
      /\ old.body + n < BodyLen[x]
      /\ inbox' = [inbox EXCEPT ![x] = @ - n]
      /\ UNCHANGED <<clients, files, rt, pc, polled, accepting,
                     backlog, opened, unsent, left, broken, answers, eof>>
  BY DEF ScanBody
<1>2. client' = [client EXCEPT ![x] = c]
  BY DEF ScanBody, Inv, TypeOK
<1>3. /\ old \in Client /\ old.fd \in Fd \cup {NoFd} /\ old.body \in Nat
      /\ old.hdr \in 0..HdrLen /\ HdrLen \in Nat /\ BodyLen[x] \in Nat
      /\ old.hdr = 0
  BY <1>1, ClientFields, ConnAssumption DEF Inv, Buffers
<1>4. n \in 1..inbox[x] /\ n \in Nat /\ Held(x) = HdrLen + old.body
  BY <1>1, BodyBounds
<1> HIDE DEF n
<1>5. /\ c \in Client /\ c.fd = old.fd /\ c.state = "HDR_RECVD"
      /\ c.hdr = 0 /\ c.body = old.body + n
  BY <1>1, <1>3, <1>4 DEF Client
<1>6. c.body <= BodyLen[x] /\ HdrLen + c.body = Held(x) + n
  BY <1>1, <1>3, <1>4, <1>5
<1> HIDE DEF c
<1> QED
  BY <1>1, <1>2, <1>4, <1>5, <1>6, FillStep

\* A client is removed while others may be marked, and requests cleared.
LEMMA RemoveStep ==
    ASSUME Inv, pc = "scan", NEW x \in Listed, client[x].fd # NoFd,
           NEW cl \in [Conn -> Client],
           \A y \in Conn :
               \/ cl[y] = client[y]
               \/ /\ y \in Listed /\ client[y].fd # NoFd
                  /\ cl[y] = [client[y] EXCEPT !.state = "REMOVE"],
           RemoveClient(x, cl), Ahead' \subseteq Ahead, x \notin Ahead', i' \in Nat \ {0},
           \/ rt' = rt /\ cl = client
           \/ rt' = <<>> /\ \A y \in Askers : y \in eof \/ cl[y].state = "REMOVE",
           answers' \in [Conn -> [Conn -> Nat]],
           UNCHANGED <<pc, polled, accepting, backlog, opened, unsent, left, broken>>
    PROVE  /\ TypeOK' /\ ListMatchesFiles' /\ Places' /\ Buffers'
           /\ ScanFinds' /\ Requests' /\ Bytes'
<1>1. TypeOK /\ ListMatchesFiles /\ Places /\ Listed \subseteq Conn
  BY ListedConn DEF Inv
<1>2. /\ x \in Conn
      /\ clients' \in Seq(Conn) /\ Listed' = Listed \ {x}
      /\ client' \in [Conn -> Client] /\ client'[x] = NewClient(NoFd)
      /\ \A y \in Conn \ {x} : client'[y] = cl[y]
      /\ files' \in [Fd -> Conn \cup {None}]
      /\ inbox' \in [Conn -> Nat] /\ inbox'[x] = 0
      /\ \A y \in Conn \ {x} : inbox'[y] = inbox[y]
      /\ eof' = eof \cup {x} /\ eof' \subseteq Conn
  BY <1>1, RemoveEffect
<1>3. /\ \A y \in Conn : cl[y].fd = client[y].fd
      /\ \A y \in Conn \ Listed : cl[y] = client[y]
      /\ \A y \in Conn : cl[y].state # "REMOVE" => cl[y] = client[y]
  <2> SUFFICES ASSUME NEW y \in Conn,
                      y \in Listed, cl[y] = [client[y] EXCEPT !.state = "REMOVE"]
               PROVE  cl[y].fd = client[y].fd /\ cl[y].state = "REMOVE"
    OBVIOUS
  <2>1. client[y] \in Client
    BY <1>1, ClientFields
  <2> QED
    BY <2>1 DEF Client
<1>4. TypeOK'
  <2>1. rt' \in Seq([socket : Fd, asker : Conn])
    <3>1. rt \in Seq([socket : Fd, asker : Conn])
      BY <1>1 DEF TypeOK
    <3> DEFINE R == [socket : Fd, asker : Conn]
    <3> HIDE DEF R
    <3>2. <<>> \in Seq(R)
      OBVIOUS
    <3> QED
      BY <3>1, <3>2 DEF R
  <2> QED
    BY <1>1, <1>2, <2>1 DEF TypeOK
<1>5. ListMatchesFiles' /\ Places'
  BY <1>1, <1>3, RemoveKeepsList
<1>6. Buffers'
  <2>1. NewClient(NoFd).state = "IDLE" /\ NewClient(NoFd).body = 0 /\ NewClient(NoFd).hdr = 0
    BY DEF NewClient
  <2>2. HdrLen \in Nat /\ 0 < HdrLen
    BY ConnAssumption
  <2>3. \A y \in Conn : cl[y].state = "REMOVE" => cl[y].fd # NoFd
    BY <1>3 DEF Inv, Buffers
  <2> SUFFICES ASSUME NEW y \in Conn
               PROVE  /\ client'[y].state = "IDLE" =>
                           client'[y].body = 0 /\ client'[y].hdr < HdrLen
                      /\ client'[y].state = "HDR_RECVD" =>
                           client'[y].hdr = 0 /\ client'[y].body <= BodyLen[y]
                      /\ client'[y].state = "REMOVE" => client'[y].fd # NoFd
    BY DEF Buffers
  <2>4. CASE y = x
    BY <1>2, <2>1, <2>2, <2>4
  <2>5. CASE y # x
    <3>1. client'[y] = cl[y]
      BY <1>2, <2>5
    <3> QED
      BY <1>3, <2>3, <3>1 DEF Inv, Buffers
  <2> QED
    BY <2>4, <2>5
<1>7. ScanFinds'
  BY <1>1, <1>2, <1>3 DEF Inv, ScanFinds
<1>8. Requests'
  <2>1. CASE rt' = <<>>
    BY <2>1 DEF Requests
  <2>2. CASE rt' = rt /\ cl = client
    <3>1. ASSUME NEW j \in DOMAIN rt
          PROVE  LET y == rt[j].asker
                 IN  /\ Kind[y] = "far"
                     /\ inbox'[y] = 0 /\ unsent[y] = 0
                     /\ \/ y \in eof' \ Listed'
                        \/ y \in Listed' /\ client'[y] = NewClient(rt[j].socket)
      <4>1. rt[j].asker \in Conn
        BY <1>1, RequestFields
      <4>2. CASE rt[j].asker = x
        BY <1>2, <4>1, <4>2 DEF Inv, Requests
      <4>3. CASE rt[j].asker # x
        BY <1>2, <2>2, <4>1, <4>3 DEF Inv, Requests
      <4> QED
        BY <4>2, <4>3
    <3> QED
      BY <2>2, <3>1 DEF Inv, Requests
  <2> QED
    BY <2>1, <2>2
<1>9. Bytes'
  <2>1. \A y \in Conn \ opened : inbox'[y] = 0
    BY <1>1, <1>2 DEF Inv, Bytes, TypeOK
  <2> SUFFICES ASSUME NEW y \in Conn \ eof',
                      y \notin Askers', client'[y].state # "REMOVE"
               PROVE  unsent[y] + inbox'[y] + Held(y)' = HdrLen + BodyLen[y]
    BY <2>1 DEF Bytes
  <2>2. y \in Conn \ {x} /\ y \notin eof /\ client'[y] = cl[y] /\ cl[y] = client[y]
    BY <1>2, <1>3
  <2>3. y \notin Askers
    BY <2>2 DEF Askers
  <2>4. Held(y)' = Held(y) /\ inbox'[y] = inbox[y]
    BY <1>2, <2>2 DEF Held
  <2> QED
    BY <2>2, <2>3, <2>4 DEF Inv, Bytes
<1> QED
  BY <1>4, <1>5, <1>6, <1>7, <1>8, <1>9

\* A client that does not wait is removed, with or without an answer of its own.
LEMMA RemovePatience ==
    ASSUME Inv, pc = "scan", NEW x \in Listed, client[x].fd # NoFd, NEW k \in {0, 1},
           RemoveClient(x, client), Ahead' \subseteq Ahead, x \notin Ahead', rt' = rt,
           AllPatient => x \notin Askers,
           \A y \in Conn : \A z \in Conn :
               answers'[y][z] = answers[y][z]
                   + (IF y = x /\ z = x /\ client[x].state # "REMOVE" THEN k ELSE 0),
           UNCHANGED <<pc, left, broken>>
    PROVE  Patience'
<1> SUFFICES ASSUME AllPatient' PROVE Patience'
  BY DEF Patience
<1>1. AllPatient
  BY DEF AllPatient
<1>2. /\ x \in Conn /\ client'[x] = NewClient(NoFd)
      /\ \A y \in Conn \ {x} : client'[y] = client[y]
      /\ eof' = eof \cup {x} /\ Listed \subseteq Conn
  <2>1. TypeOK /\ ListMatchesFiles /\ client \in [Conn -> Client]
    BY DEF Inv, TypeOK
  <2> QED
    BY <2>1, RemoveEffect, ListedConn
<1>3. x \notin eof
  BY <1>2, ScannedClient
<1>4. Askers' = Askers
  BY DEF Askers
<1>5. \A y \in Ahead' : y \in Conn \ {x}
  BY <1>2 DEF Inv, ScanFinds
<1>6. \A y, z \in Conn : y # z => answers'[y][z] = 0
  <2> TAKE y, z \in Conn
  <2>1. y # z => answers'[y][z] = answers[y][z] + 0
    OBVIOUS
  <2>2. y # z => answers[y][z] = 0
    BY <1>1 DEF Inv, Patience
  <2> QED
    BY <2>1, <2>2
<1>7. \A y \in Conn :
          \/ answers'[y][y] = 0
          \/ answers'[y][y] = 1 /\ (y \in eof' \/ client'[y].state = "REMOVE")
  <2> TAKE y \in Conn
  <2>1. CASE y = x
    <3>1. answers'[x][x] = answers[x][x] + (IF client[x].state # "REMOVE" THEN k ELSE 0)
      BY <1>2
    <3>2. answers[x][x] = 0 \/ answers[x][x] = 1
      BY <1>1, <1>2 DEF Inv, Patience
    <3>3. client[x].state # "REMOVE" => answers[x][x] = 0
      BY <1>1, <1>2, <1>3 DEF Inv, Patience
    <3> QED
      BY <1>2, <2>1, <3>1, <3>2, <3>3
  <2>2. CASE y # x
    <3>1. answers'[y][y] = answers[y][y] + 0
      BY <2>2
    <3>2. \/ answers[y][y] = 0
          \/ answers[y][y] = 1 /\ (y \in eof \/ client[y].state = "REMOVE")
      BY <1>1 DEF Inv, Patience
    <3>3. answers'[y][y] = answers[y][y]
      BY <3>1, <3>2
    <3>4. client'[y] = client[y] /\ eof \subseteq eof'
      BY <1>2, <2>2
    <3> QED
      BY <3>2, <3>3, <3>4
  <2> QED
    BY <2>1, <2>2
<1> QED
  BY <1>1, <1>2, <1>4, <1>5, <1>6, <1>7 DEF Inv, Patience

\* The scan has come to x, and the list does not grow under it.
LEMMA ScanRemoves ==
    ASSUME Inv, NEW x \in Conn, Scanning(x), polled' = polled,
           NEW cl \in [Conn -> Client], RemoveClient(x, cl)
    PROVE  /\ x \in Ahead /\ x \in Listed /\ client[x].fd # NoFd
           /\ Ahead' \subseteq Ahead /\ x \notin Ahead'
           /\ i' \in Nat \ {0} /\ pc = "scan"
<1>1. PICK j \in DOMAIN polled : At(j) /\ polled[j] = x
  BY DEF Scanning
<1>2. pc = "scan" /\ x \in Ahead
  BY <1>1, ConnAssumption DEF At, Ahead
<1>3. x \in Listed /\ client[x].fd # NoFd
  BY <1>2 DEF Inv, ScanFinds
<1>4. Len(clients') \in Nat /\ Len(clients') <= Len(clients)
  BY <1>3, RemoveEffect DEF Inv
<1> QED
  BY <1>4, ScanMoves DEF Inv

LEMMA FullPacketFacts ==
    ASSUME Inv, NEW x \in Conn, FullPacket(x)
    PROVE  /\ Scanning(x) /\ client[x].state = "HDR_RECVD"
           /\ inbox[x] # 0 /\ x \notin Askers
           /\ UNCHANGED <<pc, polled, accepting, backlog, opened, unsent, left, broken>>
<1>1. /\ Scanning(x) /\ client[x].state = "HDR_RECVD" /\ BodyBytes(x) > 0
      /\ UNCHANGED <<pc, polled, accepting, backlog, opened, unsent, left, broken>>
  BY DEF FullPacket
<1>2. BodyBytes(x) \in 1..inbox[x] /\ inbox[x] \in Nat
  BY <1>1, BodyBounds
<1>3. inbox[x] # 0
  BY <1>2
<1>4. x \notin Askers
  BY <1>3 DEF Inv, Requests, Askers
<1> QED
  BY <1>1, <1>3, <1>4

LEMMA DeliverOwnStep ==
    ASSUME Inv, NEW x \in Conn, DeliverOwn(x)
    PROVE  Inv'
<1>1. /\ Scanning(x) /\ client[x].state = "HDR_RECVD" /\ x \notin Askers
      /\ UNCHANGED <<pc, polled, accepting, backlog, opened, unsent, left, broken>>
  BY FullPacketFacts DEF DeliverOwn
<1>2. RemoveClient(x, client) /\ rt' = rt /\ client \in [Conn -> Client]
  BY DEF DeliverOwn, Inv, TypeOK
<1>3. /\ x \in Listed /\ client[x].fd # NoFd
      /\ Ahead' \subseteq Ahead /\ x \notin Ahead'
      /\ i' \in Nat \ {0} /\ pc = "scan"
  BY <1>1, <1>2, ScanRemoves
<1>4. /\ answers \in [Conn -> [Conn -> Nat]]
      /\ answers' = [answers EXCEPT ![x][x] = @ + 1]
  BY DEF Inv, TypeOK, DeliverOwn
<1>5. answers' \in [Conn -> [Conn -> Nat]]
  BY <1>4
<1>6. \A y \in Conn : \A z \in Conn :
          answers'[y][z] = answers[y][z]
              + (IF y = x /\ z = x /\ client[x].state # "REMOVE" THEN 1 ELSE 0)
  <2> TAKE y \in Conn
  <2> TAKE z \in Conn
  <2>1. answers[y][z] \in Nat
    BY <1>4
  <2> QED
    BY <1>1, <1>4, <2>1
<1>7. Patience'
  BY <1>1, <1>2, <1>3, <1>6, RemovePatience
<1>8. /\ TypeOK' /\ ListMatchesFiles' /\ Places' /\ Buffers'
      /\ ScanFinds' /\ Requests' /\ Bytes'
  BY <1>1, <1>2, <1>3, <1>5, RemoveStep
<1> QED
  BY <1>7, <1>8 DEF Inv

LEMMA DeliverLookupStep ==
    ASSUME Inv, NEW x \in Conn, DeliverLookup(x)
    PROVE  Inv'
<1>1. /\ Scanning(x) /\ client[x].state = "HDR_RECVD" /\ x \notin Askers
      /\ UNCHANGED <<pc, polled, accepting, backlog, opened, unsent, left, broken>>
  BY FullPacketFacts DEF DeliverLookup
<1>2. RemoveClient(x, client) /\ rt' = rt /\ client \in [Conn -> Client]
      /\ answers' = answers /\ answers \in [Conn -> [Conn -> Nat]]
  BY DEF DeliverLookup, Inv, TypeOK
<1>3. /\ x \in Listed /\ client[x].fd # NoFd
      /\ Ahead' \subseteq Ahead /\ x \notin Ahead'
      /\ i' \in Nat \ {0} /\ pc = "scan"
  BY <1>1, <1>2, ScanRemoves
<1>4. Patience'
  <2>1. \A y \in Conn : \A z \in Conn :
            answers'[y][z] = answers[y][z]
                + (IF y = x /\ z = x /\ client[x].state # "REMOVE" THEN 0 ELSE 0)
    BY <1>1, <1>2
  <2> QED
    BY <2>1, <1>1, <1>2, <1>3, RemovePatience
<1>5. /\ TypeOK' /\ ListMatchesFiles' /\ Places' /\ Buffers'
      /\ ScanFinds' /\ Requests' /\ Bytes'
  BY <1>1, <1>2, <1>3, RemoveStep
<1> QED
  BY <1>4, <1>5 DEF Inv

LEMMA ScanClosedStep ==
    ASSUME Inv, NEW x \in Conn, ScanClosed(x)
    PROVE  Inv'
<1>1. /\ Scanning(x)
      /\ UNCHANGED <<pc, polled, accepting, backlog, opened, unsent, left, broken>>
      /\ RemoveClient(x, client) /\ rt' = rt /\ answers' = answers
  BY DEF ScanClosed
<1>2. client \in [Conn -> Client] /\ answers \in [Conn -> [Conn -> Nat]]
  BY DEF Inv, TypeOK
<1>3. /\ x \in Listed /\ client[x].fd # NoFd /\ x \in Ahead
      /\ Ahead' \subseteq Ahead /\ x \notin Ahead'
      /\ i' \in Nat \ {0} /\ pc = "scan"
  BY <1>1, <1>2, ScanRemoves
<1>4. AllPatient => x \notin Askers
  BY <1>3 DEF Inv, Patience
<1>5. Patience'
  <2>1. \A y \in Conn : \A z \in Conn :
            answers'[y][z] = answers[y][z]
                + (IF y = x /\ z = x /\ client[x].state # "REMOVE" THEN 0 ELSE 0)
    BY <1>1, <1>2
  <2> QED
    BY <2>1, <1>1, <1>2, <1>3, <1>4, RemovePatience
<1>6. /\ TypeOK' /\ ListMatchesFiles' /\ Places' /\ Buffers'
      /\ ScanFinds' /\ Requests' /\ Bytes'
  BY <1>1, <1>2, <1>3, RemoveStep
<1> QED
  BY <1>5, <1>6 DEF Inv

LEMMA SweepStep ==
    ASSUME Inv, NEW x \in Conn, Sweep(x)
    PROVE  Inv'
<1>1. /\ UNCHANGED <<pc, polled, accepting, backlog, opened, unsent, left, broken>>
      /\ RemoveClient(x, client) /\ rt' = rt /\ answers' = answers /\ i' = i
      /\ x \in Listed /\ client[x].state = "REMOVE" /\ ScanOver /\ pc = "scan"
  BY DEF Sweep, Listed, ScanOver
<1>2. /\ client \in [Conn -> Client] /\ answers \in [Conn -> [Conn -> Nat]]
      /\ i \in Nat \ {0} /\ polled \in Seq(Conn \cup {None}) /\ clients \in Seq(Conn)
  BY DEF Inv, TypeOK
<1>3. client[x].fd # NoFd
  BY <1>1 DEF Inv, Buffers
<1>4. Ahead' = {}
  <2>1. Len(clients') \in Nat /\ Len(clients') <= Len(clients) /\ Len(clients) \in Nat
    BY <1>1, <1>2, <1>3, RemoveEffect DEF Inv
  <2>2. Ahead = {}
    BY <1>1, NothingAhead DEF Inv
  <2>3. Ahead' \subseteq Ahead
    BY <1>1, <1>2, <2>1 DEF Ahead
  <2> QED
    BY <2>2, <2>3
<1>5. x \notin Askers
  <2> SUFFICES ASSUME x \in Askers PROVE FALSE
    OBVIOUS
  <2>1. PICK j \in DOMAIN rt : rt[j].asker = x
    BY DEF Askers
  <2>2. client[x] = NewClient(rt[j].socket)
    BY <1>1, <2>1 DEF Inv, Requests
  <2> QED
    BY <1>1, <2>2 DEF NewClient
<1>6. Patience'
  <2>1. \A y \in Conn : \A z \in Conn :
            answers'[y][z] = answers[y][z]
                + (IF y = x /\ z = x /\ client[x].state # "REMOVE" THEN 0 ELSE 0)
    BY <1>1, <1>2
  <2> QED
    BY <2>1, <1>1, <1>2, <1>3, <1>4, <1>5, RemovePatience
<1>7. /\ TypeOK' /\ ListMatchesFiles' /\ Places' /\ Buffers'
      /\ ScanFinds' /\ Requests' /\ Bytes'
  BY <1>1, <1>2, <1>3, <1>4, RemoveStep
<1> QED
  BY <1>6, <1>7 DEF Inv

LEMMA DeliverFarStep ==
    ASSUME Inv, NEW x \in Conn, DeliverFar(x)
    PROVE  Inv'
<1> DEFINE f == client[x].fd
           n == BodyBytes(x)
           e == [socket |-> f, asker |-> x]
<1>1. /\ Scanning(x) /\ client[x].state = "HDR_RECVD" /\ x \notin Askers /\ inbox[x] # 0
      /\ UNCHANGED <<pc, polled, accepting, backlog, opened, unsent, left, broken>>
  BY FullPacketFacts DEF DeliverFar
<1>2. /\ Kind[x] = "far" /\ UNCHANGED <<clients, files, answers, eof>>
      /\ client[x].body + n = BodyLen[x]
      /\ rt' = Append(rt, e)
      /\ inbox' = [inbox EXCEPT ![x] = @ - n]
  BY DEF DeliverFar, FullPacket
<1>3. /\ clients \in Seq(Conn) /\ client \in [Conn -> Client] /\ inbox \in [Conn -> Nat]
      /\ unsent \in [Conn -> Nat]
  BY DEF Inv, TypeOK
<1>4. /\ x \in Ahead /\ x \in Listed /\ f # NoFd /\ f \in Fd
      /\ Ahead' \subseteq Ahead \ {x}
      /\ i' \in Nat \ {0} /\ pc = "scan"
  BY <1>1, <1>2, <1>3, ScanMoves DEF Inv
<1>5. x \notin eof
  BY <1>1, <1>4, ScannedClient
<1>6. client' = [client EXCEPT ![x] = NewClient(f)]
  BY <1>3 DEF DeliverFar
<1>7. NewClient(f) \in Client
  BY <1>4, NewClientType
<1>8. /\ client' \in [Conn -> Client] /\ client'[x] = NewClient(f)
      /\ \A y \in Conn \ {x} : client'[y] = client[y]
  BY <1>3, <1>6, <1>7
<1>9. n \in 1..inbox[x] /\ n \in Nat /\ inbox[x] \in Nat /\ Held(x) = HdrLen + client[x].body
  <2>1. n > 0
    BY DEF DeliverFar, FullPacket
  <2> QED
    BY <1>1, <2>1, BodyBounds
<1>10. unsent[x] = 0 /\ inbox[x] = n
  <2>1. unsent[x] + inbox[x] + Held(x) = HdrLen + BodyLen[x]
    BY <1>1, <1>5 DEF Inv, Bytes
  <2>2. unsent[x] \in Nat /\ HdrLen \in Nat /\ client[x].body \in Nat /\ BodyLen[x] \in Nat
    BY <1>3, ConnAssumption, ClientFields DEF Inv
  <2>3. client[x].body + n = BodyLen[x] /\ n <= inbox[x]
    BY <1>2, <1>9
  <2>4. unsent[x] + inbox[x] + (HdrLen + client[x].body) = HdrLen + (client[x].body + n)
    BY <1>9, <2>1, <2>3
  <2>5. n \in Nat /\ inbox[x] \in Nat
    BY <1>9
  <2>6. \A u, v, h, b, m \in Nat :
            m <= v /\ u + v + (h + b) = h + (b + m) => u = 0 /\ v = m
    OBVIOUS
  <2>7. n <= inbox[x] /\ unsent[x] + inbox[x] + (HdrLen + client[x].body)
                           = HdrLen + (client[x].body + n)
        => unsent[x] = 0 /\ inbox[x] = n
    BY <2>2, <2>5, <2>6
  <2> QED
    BY <2>3, <2>4, <2>7, Zenon
<1>11. /\ inbox' \in [Conn -> Nat] /\ inbox'[x] = 0
       /\ \A y \in Conn \ {x} : inbox'[y] = inbox[y]
  BY <1>2, <1>3, <1>10
<1>12. Listed' = Listed /\ Listed \subseteq Conn
  BY <1>2, ListedConn DEF Inv, Listed
<1>13. /\ rt' \in Seq([socket : Fd, asker : Conn])
       /\ DOMAIN rt' = DOMAIN rt \cup {Len(rt) + 1} /\ Len(rt) + 1 \notin DOMAIN rt
       /\ \A j \in DOMAIN rt : rt'[j] = rt[j]
       /\ rt'[Len(rt) + 1].socket = f /\ rt'[Len(rt) + 1].asker = x
  <2> DEFINE R == [socket : Fd, asker : Conn]
  <2>1. rt \in Seq(R) /\ e \in R /\ e.socket = f /\ e.asker = x
    BY <1>4 DEF Inv, TypeOK
  <2> HIDE DEF R, e
  <2>2. /\ rt' \in Seq(R) /\ Len(rt') = Len(rt) + 1 /\ rt'[Len(rt) + 1] = e
        /\ \A j \in 1..Len(rt) : rt'[j] = rt[j]
    BY <1>2, <2>1, AppendProperties
  <2>3. Len(rt) \in Nat /\ DOMAIN rt = 1..Len(rt) /\ DOMAIN rt' = 1..(Len(rt) + 1)
    BY <2>1, <2>2
  <2> QED
    BY <2>1, <2>2, <2>3 DEF R
<1>14. Askers' = Askers \cup {x}
  BY <1>13 DEF Askers
<1>15. TypeOK'
  BY <1>1, <1>2, <1>4, <1>8, <1>11, <1>13 DEF Inv, TypeOK
<1>16. \A y \in Conn : client'[y].fd = client[y].fd
  BY <1>8 DEF NewClient
<1>17. ListMatchesFiles'
  BY <1>2, <1>12, <1>16 DEF Inv, ListMatchesFiles
<1>18. Places'
  BY <1>1, <1>2, <1>4, <1>8, <1>12 DEF Inv, Places
<1>19. Buffers'
  <2>1. NewClient(f).state = "IDLE" /\ NewClient(f).body = 0 /\ NewClient(f).hdr = 0
    BY DEF NewClient
  <2>2. HdrLen \in Nat /\ 0 < HdrLen
    BY ConnAssumption
  <2> QED
    BY <1>1, <1>8, <2>1, <2>2 DEF Inv, Buffers
<1>20. ScanFinds'
  BY <1>1, <1>4, <1>12, <1>16 DEF Inv, ScanFinds
<1>21. Requests'
  <2>1. \A j \in DOMAIN rt : rt[j].asker \in Conn \ {x}
    BY <1>1, RequestFields DEF Inv, Askers
  <2>2. \A j, k \in DOMAIN rt' : rt'[j].asker = rt'[k].asker => j = k
    BY <1>13, <2>1 DEF Inv, Requests
  <2>3. ASSUME NEW j \in DOMAIN rt'
        PROVE  LET y == rt'[j].asker
               IN  /\ Kind[y] = "far"
                   /\ inbox'[y] = 0 /\ unsent[y] = 0
                   /\ \/ y \in eof' \ Listed'
                      \/ y \in Listed' /\ client'[y] = NewClient(rt'[j].socket)
    <3>1. CASE j = Len(rt) + 1
      BY <1>2, <1>4, <1>8, <1>10, <1>11, <1>12, <1>13, <3>1
    <3>2. CASE j \in DOMAIN rt
      BY <1>2, <1>8, <1>11, <1>12, <1>13, <2>1, <3>2 DEF Inv, Requests
    <3> QED
      BY <1>13, <3>1, <3>2
  <2> QED
    BY <1>1, <2>2, <2>3 DEF Requests
<1>22. Bytes'
  <2>1. \A y \in Conn \ {x} : Held(y)' = Held(y)
    BY <1>8 DEF Held
  <2>2. \A y \in Conn \ opened : y \in Conn \ {x}
    BY <1>4, <1>5 DEF Inv, TypeOK, Places
  <2> QED
    BY <1>1, <1>2, <1>8, <1>11, <1>14, <2>1, <2>2 DEF Inv, Bytes
<1>23. Patience'
  <2> SUFFICES ASSUME AllPatient' PROVE Patience'
    BY DEF Patience
  <2>1. AllPatient
    BY <1>1 DEF AllPatient
  <2>2. \A y \in Ahead' : y \in Conn \ {x}
    BY <1>4, <1>12 DEF Inv, ScanFinds
  <2>3. answers[x][x] = 0
    BY <1>1, <1>5, <2>1 DEF Inv, Patience
  <2> QED
    BY <1>1, <1>2, <1>4, <1>5, <1>8, <1>14, <2>1, <2>2, <2>3 DEF Inv, Patience
<1> QED
  BY <1>15, <1>17, <1>18, <1>19, <1>20, <1>21, <1>22, <1>23 DEF Inv

\* server_close_socket marks the clients that wait, whoever holds the socket.
LEMMA CloseSocketsEffect ==
    ASSUME Inv
    PROVE  /\ CloseSockets \in [Conn -> Client]
           /\ \A y \in Conn :
                \/ CloseSockets[y] = client[y]
                \/ /\ y \in Listed /\ client[y].fd # NoFd
                   /\ CloseSockets[y] = [client[y] EXCEPT !.state = "REMOVE"]
           /\ \A y \in Askers : y \in eof \/ CloseSockets[y].state = "REMOVE"
           /\ \A y \in Conn : CloseSockets[y] = client[y]
                             \/ \E j \in DOMAIN rt : rt[j].socket = client[y].fd
<1>1. /\ \A y \in Conn : client[y] \in Client
      /\ \A j \in DOMAIN rt : rt[j].asker \in Conn /\ rt[j].socket \in Fd
      /\ NoFd \notin Fd
  BY ClientFields, RequestFields DEF Inv, Fd, NoFd
<1>2. \A c \in Client : /\ [c EXCEPT !.state = "REMOVE"] \in Client
                       /\ [c EXCEPT !.state = "REMOVE"].state = "REMOVE"
  BY DEF Client
<1>3. CloseSockets \in [Conn -> Client]
  BY <1>1, <1>2 DEF CloseSockets
<1>4. ASSUME NEW y \in Conn
      PROVE  \/ CloseSockets[y] = client[y]
             \/ /\ y \in Listed /\ client[y].fd # NoFd
                /\ CloseSockets[y] = [client[y] EXCEPT !.state = "REMOVE"]
                /\ \E j \in DOMAIN rt : rt[j].socket = client[y].fd
  BY <1>1 DEF CloseSockets
<1>5. ASSUME NEW y \in Askers
      PROVE  y \in eof \/ CloseSockets[y].state = "REMOVE"
  <2>1. PICK j \in DOMAIN rt : rt[j].asker = y
    BY DEF Askers
  <2>2. y \in Conn /\ (y \in eof \/ (y \in Listed /\ client[y] = NewClient(rt[j].socket)))
    BY <1>1, <2>1 DEF Inv, Requests
  <2>3. NewClient(rt[j].socket).fd = rt[j].socket
    BY DEF NewClient
  <2> QED
    BY <1>1, <1>2, <2>2, <2>3 DEF CloseSockets
<1> QED
  BY <1>3, <1>4, <1>5

LEMMA DeliverReplyStep ==
    ASSUME Inv, NEW x \in Conn, DeliverReply(x)
    PROVE  Inv'
<1> DEFINE cl == CloseSockets
<1>1. /\ Scanning(x) /\ client[x].state = "HDR_RECVD" /\ x \notin Askers
      /\ UNCHANGED <<pc, polled, accepting, backlog, opened, unsent, left, broken>>
  BY FullPacketFacts DEF DeliverReply
<1>2. RemoveClient(x, cl) /\ rt' = <<>>
  BY DEF DeliverReply
<1>3. /\ cl \in [Conn -> Client]
      /\ \A y \in Conn :
           \/ cl[y] = client[y]
           \/ /\ y \in Listed /\ client[y].fd # NoFd
              /\ cl[y] = [client[y] EXCEPT !.state = "REMOVE"]
      /\ \A y \in Askers : y \in eof \/ cl[y].state = "REMOVE"
  BY CloseSocketsEffect
<1> HIDE DEF cl
<1>4. /\ x \in Listed /\ client[x].fd # NoFd
      /\ Ahead' \subseteq Ahead /\ x \notin Ahead'
      /\ i' \in Nat \ {0} /\ pc = "scan"
  BY <1>1, <1>2, <1>3, ScanRemoves
<1>5. /\ IsFiniteSet(DOMAIN rt)
      /\ \A y, z \in Conn : /\ IsFiniteSet(Written(y, z))
                            /\ Cardinality(Written(y, z)) \in Nat
  <2>1. IsFiniteSet(DOMAIN rt)
    <3>1. rt \in Seq([socket : Fd, asker : Conn])
      BY DEF Inv, TypeOK
    <3>2. Len(rt) \in Nat /\ DOMAIN rt = 1..Len(rt)
      BY <3>1
    <3> QED
      BY <3>2, FS_Interval
  <2>2. \A y, z \in Conn : Written(y, z) \subseteq DOMAIN rt
    BY DEF Written
  <2> QED
    BY <2>1, <2>2, FS_Subset, FS_CardinalityType
<1>6. /\ answers \in [Conn -> [Conn -> Nat]]
      /\ answers' = [y \in Conn |-> [z \in Conn |-> answers[y][z] + Cardinality(Written(y, z))]]
  BY DEF Inv, TypeOK, DeliverReply
<1>7. answers' \in [Conn -> [Conn -> Nat]]
  BY <1>5, <1>6
<1>8. /\ TypeOK' /\ ListMatchesFiles' /\ Places' /\ Buffers'
      /\ ScanFinds' /\ Requests' /\ Bytes'
  BY <1>1, <1>2, <1>3, <1>4, <1>7, RemoveStep
<1>9. Patience'
  <2> SUFFICES ASSUME AllPatient' PROVE Patience'
    BY DEF Patience
  <2>1. AllPatient
    BY <1>1 DEF AllPatient
  <2>2. /\ client'[x] = NewClient(NoFd) /\ eof' = eof \cup {x} /\ Listed \subseteq Conn
        /\ \A y \in Conn \ {x} : client'[y] = cl[y]
    BY <1>2, <1>3, <1>4, RemoveEffect, ListedConn DEF Inv
  <2>3. \A y \in Ahead' : y \in Conn \ {x} /\ y \in Ahead
    BY <1>4, <2>2 DEF Inv, ScanFinds
  <2>4. \A j \in DOMAIN rt :
            /\ rt[j].asker \in Listed \ eof /\ rt[j].asker \in Conn /\ rt[j].socket \in Fd
            /\ client[rt[j].asker] = NewClient(rt[j].socket)
            /\ files[rt[j].socket] = rt[j].asker
    <3> TAKE j \in DOMAIN rt
    <3>1. rt[j].asker \in Conn /\ rt[j].socket \in Fd
      BY RequestFields DEF Inv
    <3>2. rt[j].asker \in Listed \ eof /\ client[rt[j].asker] = NewClient(rt[j].socket)
      BY <1>4, <2>1 DEF Inv, Patience, Requests, Askers
    <3>3. client[rt[j].asker].fd = rt[j].socket /\ rt[j].socket # NoFd
      BY <3>1, <3>2 DEF NewClient, Fd, NoFd
    <3> QED
      BY <3>1, <3>2, <3>3 DEF Inv, ListMatchesFiles
  <2>5. Askers' = {}
    BY <1>2 DEF Askers
  <2>6. \A y \in Ahead' : client'[y].state # "REMOVE"
    <3> TAKE y \in Ahead'
    <3>1. /\ y \in Conn \ {x} /\ y \in Listed /\ y \notin Askers
          /\ client[y].state # "REMOVE" /\ client[y].fd # NoFd
      BY <1>4, <2>1, <2>3 DEF Inv, Patience, ScanFinds
    <3>2. files[client[y].fd] = y
      BY <3>1 DEF Inv, ListMatchesFiles
    <3>3. \A j \in DOMAIN rt : rt[j].socket # client[y].fd
      BY <2>4, <3>1, <3>2 DEF Askers
    <3>4. cl[y] = client[y]
      BY <3>1, <3>3, CloseSocketsEffect DEF cl
    <3> QED
      BY <2>2, <3>1, <3>4
  <2>7. \A y, z \in Conn : y # z => Written(y, z) = {}
    BY <2>4 DEF Written
  <2>8. \A y \in Conn \ Askers : Written(y, y) = {}
    BY DEF Written, Askers
  <2>9. \A y \in Askers : Cardinality(Written(y, y)) = 1
    <3> TAKE y \in Askers
    <3>1. PICK j \in DOMAIN rt : rt[j].asker = y
      BY DEF Askers
    <3>2. Written(y, y) = {j}
      BY <2>4, <3>1 DEF Written, Inv, Requests
    <3> QED
      BY <3>2, FS_Singleton
  <2>10. \A y, z \in Conn : y # z => answers'[y][z] = 0
    <3> TAKE y, z \in Conn
    <3> HAVE y # z
    <3>1. answers[y][z] = 0
      BY <2>1 DEF Inv, Patience
    <3>2. Cardinality(Written(y, z)) = 0
      BY <2>7, FS_EmptySet
    <3> QED
      BY <1>6, <3>1, <3>2
  <2>11. \A y \in Conn :
             \/ answers'[y][y] = 0
             \/ answers'[y][y] = 1 /\ (y \in eof' \/ client'[y].state = "REMOVE")
    <3> TAKE y \in Conn
    <3>1. answers'[y][y] = answers[y][y] + Cardinality(Written(y, y))
      BY <1>6
    <3>2. \/ answers[y][y] = 0
          \/ answers[y][y] = 1 /\ (y \in eof \/ client[y].state = "REMOVE")
      BY <2>1 DEF Inv, Patience
    <3>3. CASE y \in Askers
      <4>1. y \notin eof /\ client[y].state = "IDLE"
        <5>1. PICK j \in DOMAIN rt : rt[j].asker = y
          BY <3>3 DEF Askers
        <5>2. NewClient(rt[j].socket).state = "IDLE"
          BY DEF NewClient
        <5> QED
          BY <2>4, <5>1, <5>2
      <4>2. answers'[y][y] = 1
        BY <2>9, <3>1, <3>2, <3>3, <4>1
      <4>3. client'[y].state = "REMOVE"
        BY <1>1, <1>3, <2>2, <3>3, <4>1
      <4> QED
        BY <4>2, <4>3
    <3>4. CASE y \notin Askers
      <4>1. Cardinality(Written(y, y)) = 0
        BY <2>8, <3>4, FS_EmptySet
      <4>2. answers'[y][y] = answers[y][y]
        BY <3>1, <3>2, <4>1
      <4>3. client[y].state = "REMOVE" => y \in eof' \/ client'[y].state = "REMOVE"
        <5>1. client[y] \in Client
          BY ClientFields DEF Inv
        <5>2. cl[y] = client[y] \/ cl[y].state = "REMOVE"
          BY <1>3, <5>1 DEF Client
        <5> QED
          BY <2>2, <5>2
      <4> QED
        BY <2>2, <3>2, <4>2, <4>3
    <3> QED
      BY <3>3, <3>4
  <2> QED
    BY <1>1, <1>4, <2>5, <2>6, <2>10, <2>11 DEF Patience
<1> QED
  BY <1>8, <1>9 DEF Inv

LEMMA ScanMarkedStep ==
    ASSUME Inv, NEW x \in Conn, ScanMarked(x)
    PROVE  Inv'
<1>1. /\ Scanning(x) /\ client[x].state = "REMOVE" /\ pc' = "crashed"
      /\ UNCHANGED <<clients, client, files, rt, polled, accepting, answers, eof>>
      /\ UNCHANGED <<backlog, opened, unsent, inbox, left, broken>>
  BY DEF ScanMarked, network
<1>2. clients \in Seq(Conn)
  BY DEF Inv, TypeOK
<1>3. x \in Ahead /\ i' \in Nat \ {0} /\ pc = "scan"
  BY <1>1, <1>2, ScanMoves DEF Inv
<1>4. Listed' = Listed /\ Askers' = Askers /\ AllPatient' = AllPatient
  BY <1>1 DEF Listed, Askers, AllPatient
<1>5. TypeOK'
  BY <1>1, <1>3 DEF Inv, TypeOK
<1>6. ListMatchesFiles' /\ Places' /\ Buffers' /\ ScanFinds'
  BY <1>1, <1>4 DEF Inv, ListMatchesFiles, Places, Buffers, ScanFinds
<1>7. Requests' /\ Bytes'
  BY <1>1, <1>4 DEF Inv, Requests, Bytes, Held
<1>8. ~AllPatient
  BY <1>1, <1>3 DEF Inv, Patience
<1>9. Patience'
  BY <1>4, <1>8 DEF Patience
<1> QED
  BY <1>5, <1>6, <1>7, <1>9 DEF Inv

LEMMA ScanEndStep ==
    ASSUME Inv, ScanEnd
    PROVE  Inv'
<1>1. /\ polled' = <<>> /\ i' = 1 /\ pc = "scan" /\ pc' \in {"accept", "poll"}
      /\ \A x \in Listed : client[x].state # "REMOVE"
      /\ UNCHANGED <<clients, client, files, rt, accepting, answers, eof>>
      /\ UNCHANGED <<backlog, opened, unsent, inbox, left, broken>>
  BY DEF ScanEnd, ScanOver, network
<1>2. Listed' = Listed /\ Askers' = Askers /\ AllPatient' = AllPatient
  BY <1>1 DEF Listed, Askers, AllPatient
<1>3. TypeOK'
  <2>1. polled' \in Seq(Conn \cup {None})
    BY <1>1
  <2> QED
    BY <1>1, <2>1 DEF Inv, TypeOK
<1>4. Places'
  <2>1. pc' = "accept" => accepting
    BY DEF ScanEnd
  <2>2. pc' = "accept" => backlog # <<>>
    BY <1>1, <2>1, Zenon DEF Inv, Places
  <2> QED
    BY <1>1, <1>2, <2>2 DEF Inv, Places
<1>5. Buffers'
  <2>1. NewClient(NoFd).state = "IDLE"
    BY DEF NewClient
  <2>2. \A x \in Conn : client[x].state # "REMOVE"
    BY <1>1, <2>1 DEF Inv, Places
  <2> QED
    BY <1>1, <2>2 DEF Inv, Buffers
<1>6. ListMatchesFiles' /\ ScanFinds'
  BY <1>1, <1>2 DEF Inv, ListMatchesFiles, ScanFinds
<1>7. Requests' /\ Bytes'
  BY <1>1, <1>2 DEF Inv, Requests, Bytes, Held
<1>8. Patience'
  BY <1>1, <1>2 DEF Inv, Patience
<1> QED
  BY <1>3, <1>4, <1>5, <1>6, <1>7, <1>8 DEF Inv

\* The connection at the head of the backlog, and the lists without and with it.
LEMMA AcceptEffect ==
    ASSUME Inv, pc = "accept", NEW x, x = Head(backlog),
           backlog' = Tail(backlog), clients' = <<x>> \o clients,
           eof' \subseteq eof \cup {x}, opened' = opened
    PROVE  /\ x \in Conn /\ x \in opened /\ x \notin Listed /\ x \notin eof /\ x \notin Askers
           /\ backlog # <<>> /\ backlog' \in Seq(Conn)
           /\ \A j, k \in DOMAIN backlog' : backlog'[j] = backlog'[k] => j = k
           /\ \A j \in DOMAIN backlog' : backlog'[j] \in opened \ (Listed' \cup eof')
           /\ clients' \in Seq(Conn) /\ Listed' = Listed \cup {x}
           /\ \A j, k \in DOMAIN clients' : clients'[j] = clients'[k] => j = k
<1>1. backlog \in Seq(Conn) /\ backlog # <<>> /\ clients \in Seq(Conn)
  BY DEF Inv, TypeOK, Places
<1>2. /\ 1 \in DOMAIN backlog /\ x = backlog[1] /\ x \in Conn
      /\ backlog' \in Seq(Conn) /\ Len(backlog') = Len(backlog) - 1
      /\ \A j \in 1..Len(backlog') : backlog'[j] = backlog[j + 1]
      /\ Len(backlog) \in Nat /\ DOMAIN backlog = 1..Len(backlog)
      /\ DOMAIN backlog' = 1..(Len(backlog) - 1)
  BY <1>1, HeadTailProperties
<1>3. x \in opened /\ x \notin Listed /\ x \notin eof
  BY <1>2 DEF Inv, Places
<1>4. x \notin Askers
  BY <1>3 DEF Askers, Inv, Requests
<1>5. \A j \in DOMAIN backlog' : j + 1 \in DOMAIN backlog /\ j + 1 # 1 /\ backlog'[j] = backlog[j + 1]
  BY <1>2
<1>6. \A j, k \in DOMAIN backlog' : j + 1 = k + 1 => j = k
  BY <1>2
<1>7. \A j, k \in DOMAIN backlog' : backlog'[j] = backlog'[k] => j = k
  BY <1>5, <1>6 DEF Inv, Places
<1>8. /\ clients' \in Seq(Conn) /\ Len(clients') = Len(clients) + 1 /\ Len(clients) \in Nat
      /\ DOMAIN clients = 1..Len(clients) /\ DOMAIN clients' = 1..(Len(clients) + 1)
      /\ clients'[1] = x
      /\ \A j \in 1..Len(clients) : clients'[j + 1] = clients[j]
  <2>1. /\ <<x>> \in Seq(Conn) /\ Len(<<x>>) = 1 /\ <<x>>[1] = x
    BY <1>2
  <2>2. /\ clients' \in Seq(Conn) /\ Len(clients') = 1 + Len(clients)
        /\ \A j \in 1..(1 + Len(clients)) :
             clients'[j] = IF j <= 1 THEN <<x>>[j] ELSE clients[j - 1]
    BY <1>1, <2>1, ConcatProperties
  <2>3. Len(clients) \in Nat
    BY <1>1
  <2>4. \A j \in 1..Len(clients) : j + 1 \in 1..(1 + Len(clients)) /\ ~(j + 1 <= 1) /\ j + 1 - 1 = j
    BY <2>3
  <2> QED
    BY <1>1, <2>1, <2>2, <2>3, <2>4
<1>9. \A j \in DOMAIN clients' : j = 1 \/ (j - 1 \in DOMAIN clients /\ clients'[j] = clients[j - 1])
  <2> TAKE j \in DOMAIN clients'
  <2>1. j # 1 => j - 1 \in 1..Len(clients) /\ j - 1 + 1 = j
    BY <1>8
  <2> QED
    BY <1>8, <2>1
<1>10. Listed' = Listed \cup {x}
  <2>1. \A j \in DOMAIN clients : j + 1 \in DOMAIN clients' /\ clients'[j + 1] = clients[j]
    BY <1>8
  <2>2. 1 \in DOMAIN clients'
    BY <1>8
  <2>3. \A y \in Listed \cup {x} : y \in Listed'
    BY <1>8, <2>1, <2>2 DEF Listed
  <2>4. \A y \in Listed' : y \in Listed \cup {x}
    BY <1>8, <1>9 DEF Listed
  <2> QED
    BY <2>3, <2>4
<1>11. \A j, k \in DOMAIN clients' : clients'[j] = clients'[k] => j = k
  <2> TAKE j, k \in DOMAIN clients'
  <2>1. \A m \in DOMAIN clients : clients[m] # x
    BY <1>3 DEF Listed
  <2>2. j - 1 = k - 1 => j = k
    BY <1>8
  <2> QED
    BY <1>8, <1>9, <2>1, <2>2 DEF Inv, ListMatchesFiles
<1>12. \A j \in DOMAIN backlog' : backlog'[j] \in opened \ (Listed' \cup eof')
  BY <1>2, <1>5, <1>10 DEF Inv, Places
<1> QED
  BY <1>1, <1>2, <1>3, <1>4, <1>7, <1>8, <1>10, <1>11, <1>12

\* What a new client in the list changes, whether it got a descriptor or not.
LEMMA AcceptFrame ==
    ASSUME Inv, pc = "accept", pc' = "poll", NEW x, x = Head(backlog),
           backlog' = Tail(backlog), clients' = <<x>> \o clients,
           NEW f \in Fd \cup {NoFd}, client' = [client EXCEPT ![x] = NewClient(f)],
           eof' = eof \/ eof' = eof \cup {x}, accepting' = FALSE,
           UNCHANGED <<rt, polled, i, opened, unsent, inbox, left, broken, answers>>
    PROVE  /\ files' \in [Fd -> Conn \cup {None}] => TypeOK'
           /\ Places' /\ Buffers' /\ ScanFinds' /\ Requests' /\ Bytes' /\ Patience'
<1>1. /\ x \in Conn /\ x \in opened /\ x \notin Listed /\ x \notin eof /\ x \notin Askers
      /\ backlog' \in Seq(Conn)
      /\ \A j, k \in DOMAIN backlog' : backlog'[j] = backlog'[k] => j = k
      /\ \A j \in DOMAIN backlog' : backlog'[j] \in opened \ (Listed' \cup eof')
      /\ clients' \in Seq(Conn) /\ Listed' = Listed \cup {x}
  BY AcceptEffect
<1>2. client \in [Conn -> Client] /\ NewClient(f) \in Client
  BY NewClientType DEF Inv, TypeOK
<1>3. /\ client' \in [Conn -> Client] /\ client'[x] = NewClient(f)
      /\ \A y \in Conn \ {x} : client'[y] = client[y]
  BY <1>1, <1>2
<1>4. /\ client[x] = NewClient(NoFd)
      /\ \A g : /\ NewClient(g).state = "IDLE" /\ NewClient(g).body = 0
                /\ NewClient(g).hdr = 0 /\ NewClient(g).fd = g
  <2>1. client[x] = NewClient(NoFd)
    BY <1>1 DEF Inv, Places
  <2> QED
    BY <2>1 DEF NewClient
<1>5. files' \in [Fd -> Conn \cup {None}] => TypeOK'
  <2> SUFFICES ASSUME files' \in [Fd -> Conn \cup {None}] PROVE TypeOK'
    OBVIOUS
  <2>1. eof' \subseteq Conn
    BY <1>1 DEF Inv, TypeOK
  <2>2. accepting' \in BOOLEAN
    BY Zenon
  <2> QED
    BY <1>1, <1>3, <2>1, <2>2 DEF Inv, TypeOK
<1>6. Places'
  BY <1>1, <1>3 DEF Inv, Places
<1>7. Buffers'
  <2>1. HdrLen \in Nat /\ 0 < HdrLen
    BY ConnAssumption
  <2>2. \A y \in Conn : client[y].state # "REMOVE"
    BY DEF Inv, Buffers
  <2> QED
    BY <1>3, <1>4, <2>1, <2>2 DEF Inv, Buffers
<1>8. ScanFinds'
  BY DEF ScanFinds
<1>9. Requests'
  <2>1. \A j \in DOMAIN rt : rt[j].asker \in Conn \ {x}
    BY <1>1, RequestFields DEF Inv, Askers
  <2> QED
    BY <1>1, <1>3, <2>1 DEF Inv, Requests
<1>10. Bytes'
  <2>1. \A y \in Conn : Held(y)' = Held(y)
    BY <1>3, <1>4 DEF Held
  <2>2. Askers' = Askers
    BY DEF Askers
  <2> QED
    BY <1>1, <1>3, <1>4, <2>1, <2>2 DEF Inv, Bytes
<1>11. Patience'
  <2> SUFFICES ASSUME AllPatient' PROVE Patience'
    BY DEF Patience
  <2>1. AllPatient /\ Askers' = Askers
    BY DEF AllPatient, Askers
  <2>2. answers[x][x] = 0
    BY <1>1, <1>4, <2>1 DEF Inv, Patience
  <2> QED
    BY <1>1, <1>3, <2>1, <2>2 DEF Inv, Patience
<1> QED
  BY <1>5, <1>6, <1>7, <1>8, <1>9, <1>10, <1>11

LEMMA AcceptStep ==
    ASSUME Inv, Accept
    PROVE  Inv'
<1> DEFINE x == Head(backlog)
           f == CHOOSE f \in Fd : files[f] = None /\ \A g \in Fd : g < f => files[g] # None
<1>1. /\ pc = "accept" /\ pc' = "poll" /\ backlog' = Tail(backlog)
      /\ clients' = <<x>> \o clients /\ files' = [files EXCEPT ![f] = x]
      /\ client' = [client EXCEPT ![x] = NewClient(f)] /\ accepting' = FALSE
      /\ UNCHANGED <<rt, polled, i, opened, unsent, inbox, left, broken, answers, eof>>
  BY DEF Accept
<1>2. f \in Fd /\ files[f] = None
  BY <1>1, FreeDescriptor DEF Inv, Places
<1> HIDE DEF f, x
<1>3. /\ x \in Conn /\ x \notin Listed /\ x \notin eof
      /\ Listed' = Listed \cup {x} /\ Listed \subseteq Conn
      /\ \A j, k \in DOMAIN clients' : clients'[j] = clients'[k] => j = k
  BY <1>1, AcceptEffect, ListedConn DEF x, Inv
<1>4. files \in [Fd -> Conn \cup {None}] /\ client \in [Conn -> Client]
  BY DEF Inv, TypeOK
<1>5. /\ files' \in [Fd -> Conn \cup {None}] /\ files'[f] = x
      /\ \A g \in Fd \ {f} : files'[g] = files[g]
  BY <1>1, <1>2, <1>3, <1>4
<1>6. /\ client'[x].fd = f
      /\ \A y \in Conn \ {x} : client'[y] = client[y]
  BY <1>1, <1>3, <1>4 DEF NewClient
<1>7. ListMatchesFiles'
  <2>1. \A g \in Fd : files'[g] # None => files'[g] \in Listed' \ eof' /\ client'[files'[g]].fd = g
    BY <1>1, <1>3, <1>5, <1>6 DEF Inv, ListMatchesFiles
  <2>2. \A y \in Listed' : client'[y].fd # NoFd => files'[client'[y].fd] = y
    <3> SUFFICES ASSUME NEW y \in Listed', client'[y].fd # NoFd
                 PROVE  files'[client'[y].fd] = y
      OBVIOUS
    <3>1. CASE y = x
      BY <1>5, <1>6, <3>1
    <3>2. CASE y # x
      <4>1. y \in Listed /\ y \in Conn /\ client'[y] = client[y]
        BY <1>3, <1>6, <3>2
      <4>2. client[y].fd \in Fd /\ files[client[y].fd] = y
        BY <4>1, ClientFields DEF Inv, ListMatchesFiles
      <4>3. client[y].fd # f
        BY <1>2, <4>1, <4>2, ConnAssumption
      <4> QED
        BY <1>5, <4>1, <4>2, <4>3
    <3> QED
      BY <3>1, <3>2
  <2> QED
    BY <1>3, <2>1, <2>2 DEF ListMatchesFiles
<1>8. TypeOK' /\ Places' /\ Buffers' /\ ScanFinds' /\ Requests' /\ Bytes' /\ Patience'
  BY <1>1, <1>2, <1>5, AcceptFrame DEF x
<1> QED
  BY <1>7, <1>8 DEF Inv

LEMMA AcceptFailsStep ==
    ASSUME Inv, AcceptFails
    PROVE  Inv'
<1> DEFINE x == Head(backlog)
<1>1. /\ pc = "accept" /\ pc' = "poll" /\ backlog' = Tail(backlog)
      /\ clients' = <<x>> \o clients /\ eof' = eof \cup {x}
      /\ client' = [client EXCEPT ![x] = NewClient(NoFd)] /\ accepting' = FALSE
      /\ UNCHANGED <<files, rt, polled, i, opened, unsent, inbox, left, broken, answers>>
  BY DEF AcceptFails
<1> HIDE DEF x
<1>2. /\ x \in Conn /\ x \notin Listed /\ x \notin eof
      /\ Listed' = Listed \cup {x} /\ Listed \subseteq Conn
      /\ \A j, k \in DOMAIN clients' : clients'[j] = clients'[k] => j = k
  BY <1>1, AcceptEffect, ListedConn DEF x, Inv
<1>3. files \in [Fd -> Conn \cup {None}] /\ client \in [Conn -> Client]
  BY DEF Inv, TypeOK
<1>4. /\ client'[x].fd = NoFd
      /\ \A y \in Conn \ {x} : client'[y] = client[y]
  BY <1>1, <1>2, <1>3 DEF NewClient
<1>5. ListMatchesFiles'
  BY <1>1, <1>2, <1>4 DEF Inv, ListMatchesFiles
<1>6. TypeOK' /\ Places' /\ Buffers' /\ ScanFinds' /\ Requests' /\ Bytes' /\ Patience'
  BY <1>1, <1>3, AcceptFrame DEF x
<1> QED
  BY <1>5, <1>6 DEF Inv

LEMMA StopStep ==
    ASSUME Inv, Stop
    PROVE  Inv'
<1>1. /\ pc = "poll" /\ pc' = "stopped" /\ clients' = <<>>
      /\ client' = [x \in Conn |-> NewClient(NoFd)] /\ files' = [f \in Fd |-> None]
      /\ eof' = opened /\ backlog' = <<>> /\ inbox' = [x \in Conn |-> 0]
      /\ UNCHANGED <<rt, polled, accepting, i, opened, unsent, left, broken, answers>>
  BY DEF Stop
<1>2. Listed' = {} /\ Askers' = Askers /\ AllPatient' = AllPatient
  BY <1>1 DEF Listed, Askers, AllPatient
<1>3. /\ NewClient(NoFd).state = "IDLE" /\ NewClient(NoFd).body = 0 /\ NewClient(NoFd).hdr = 0
      /\ NewClient(NoFd) \in Client /\ HdrLen \in Nat /\ 0 < HdrLen
  BY NewClientType, ConnAssumption DEF NewClient
<1>4. TypeOK'
  <2>1. clients' \in Seq(Conn) /\ backlog' \in Seq(Conn)
    BY <1>1
  <2>2. /\ client' \in [Conn -> Client] /\ files' \in [Fd -> Conn \cup {None}]
        /\ inbox' \in [Conn -> Nat]
    BY <1>1, <1>3
  <2> QED
    BY <1>1, <2>1, <2>2 DEF Inv, TypeOK
<1>5. ListMatchesFiles' /\ ScanFinds'
  BY <1>1, <1>2 DEF ListMatchesFiles, ScanFinds
<1>6. Places' /\ Buffers'
  BY <1>1, <1>2, <1>3 DEF Inv, Places, Buffers
<1>7. Requests'
  <2>1. \A j \in DOMAIN rt : rt[j].asker \in Conn /\ rt[j].asker \in opened
    BY RequestFields DEF Inv, Requests, Places
  <2> QED
    BY <1>1, <1>2, <2>1 DEF Inv, Requests
<1>8. Bytes'
  <2> SUFFICES ASSUME NEW y \in Conn, y \notin opened, y \notin Askers
               PROVE  unsent[y] + inbox'[y] + Held(y)' = HdrLen + BodyLen[y]
    BY <1>1, <1>2 DEF Bytes
  <2>2. y \notin Listed /\ y \notin eof
    BY DEF Inv, Places
  <2>3. client[y] = NewClient(NoFd) /\ inbox[y] = 0
    BY <2>2 DEF Inv, Places, Bytes
  <2>4. Held(y)' = Held(y) /\ inbox'[y] = inbox[y]
    BY <1>1, <1>3, <2>3 DEF Held
  <2>5. client[y].state # "REMOVE"
    BY <1>3, <2>3
  <2> QED
    BY <2>2, <2>4, <2>5 DEF Inv, Bytes
<1>9. Patience'
  <2> SUFFICES ASSUME AllPatient PROVE Patience'
    BY <1>2 DEF Patience
  <2>1. \A x \in Conn : client[x].state = "REMOVE" => FALSE
    BY <1>1 DEF Inv, Buffers
  <2>2. eof \subseteq opened
    BY DEF Inv, Places
  <2> QED
    BY <1>1, <2>1, <2>2 DEF Inv, Patience
<1> QED
  BY <1>4, <1>5, <1>6, <1>7, <1>8, <1>9 DEF Inv

LEMMA NextInv == Inv /\ [Next]_vars => Inv'
<1> SUFFICES ASSUME Inv, [Next]_vars PROVE Inv'
  OBVIOUS
<1>1. CASE UNCHANGED vars
  <2>1. UNCHANGED <<server, answers, eof>> /\ UNCHANGED network
    BY <1>1 DEF vars
  <2>2. TypeOK' /\ Places' /\ Requests' /\ Bytes'
    BY <2>1, ServerFrame DEF server, network, Inv, TypeOK, Places, Requests, Bytes, Held
  <2> QED
    BY <2>1, <2>2, ServerFrame, PatienceLost DEF network, Inv
<1>2. CASE Poll \/ ScanEnd \/ Accept \/ AcceptFails
  BY <1>2, PollStep, ScanEndStep, AcceptStep, AcceptFailsStep
<1>3. ASSUME NEW x \in Conn, ScanHeader(x) \/ ScanBody(x) \/ Deliver(x)
      PROVE  Inv'
  BY <1>3, ScanHeaderStep, ScanBodyStep, DeliverOwnStep, DeliverFarStep, DeliverLookupStep,
     DeliverReplyStep DEF Deliver
<1>4. ASSUME NEW x \in Conn, ScanClosed(x) \/ ScanMarked(x) \/ Sweep(x)
      PROVE  Inv'
  BY <1>4, ScanClosedStep, ScanMarkedStep, SweepStep
<1>5. ASSUME NEW x \in Conn, Connect(x) \/ Transmit(x) \/ Leave(x) \/ Reset(x)
      PROVE  Inv'
  BY <1>5, ConnectStep, TransmitStep, LeaveStep, ResetStep
<1>6. CASE Stop
  BY <1>6, StopStep
<1> QED
  BY <1>1, <1>2, <1>3, <1>4, <1>5, <1>6 DEF Next, ServerStep, Environment

(***************************************************************************)
(* The inductive invariant of the event loop: where each connection is,    *)
(* what its buffers hold, what the scan has still to meet, and what the    *)
(* request table says of the clients that wait.                            *)
(***************************************************************************)
THEOREM InvHolds == Spec => []Inv
<1>1. Init => Inv
  BY InitInv
<1>2. Inv /\ [Next]_vars => Inv'
  BY NextInv
<1> QED
  BY <1>1, <1>2, PTL DEF Spec

-----------------------------------------------------------------------------
(* What the runs check, for every instance.                                *)

\* The variables of the event loop keep their types, whatever the clients do.
THEOREM TypeCorrect == Spec => []TypeOK
<1>1. Inv => TypeOK
  BY DEF Inv
<1> QED
  BY <1>1, InvHolds, PTL

(***************************************************************************)
(* server_add_client and server_remove_client keep the client list and the *)
(* descriptors in agreement, however connections come, leave and are swept.*)
(***************************************************************************)
THEOREM ListAgrees == Spec => []ListMatchesFiles
<1>1. Inv => ListMatchesFiles
  BY DEF Inv
<1> QED
  BY <1>1, InvHolds, PTL

(***************************************************************************)
(* The scan loses and invents no byte of a packet not delivered yet, for   *)
(* every way in which headers and bodies can arrive in pieces.             *)
(***************************************************************************)
THEOREM BytesKept == Spec => []BytesAccounted
<1>1. Inv => BytesAccounted
  <2> SUFFICES ASSUME Inv, NEW x \in Listed, client[x].fd # NoFd,
                      client[x].state # "REMOVE", x \notin Askers
               PROVE  unsent[x] + inbox[x] + Held(x) = HdrLen + BodyLen[x]
    BY DEF BytesAccounted, Askers, Held
  <2>1. x \in Conn /\ x \notin eof
    BY ListedConn, ScannedClient DEF Inv
  <2> QED
    BY <2>1 DEF Inv, Bytes
<1> QED
  BY <1>1, InvHolds, PTL

(***************************************************************************)
(* As long as no client leaves early, the descriptor kept in the request   *)
(* table denotes the client that asked.                                    *)
(***************************************************************************)
THEOREM WaitingKept == Spec => []WaitingClientKept
<1>1. Inv => WaitingClientKept
  <2> SUFFICES ASSUME Inv, AllPatient, pc # "stopped", NEW j \in DOMAIN rt
               PROVE  files[rt[j].socket] = rt[j].asker
    BY DEF WaitingClientKept
  <2>1. rt[j].asker \in Conn /\ rt[j].socket \in Fd
    BY RequestFields DEF Inv
  <2>2. rt[j].asker \in Listed /\ client[rt[j].asker] = NewClient(rt[j].socket)
    BY DEF Inv, Patience, Requests, Askers
  <2>3. client[rt[j].asker].fd = rt[j].socket /\ rt[j].socket # NoFd
    BY <2>1, <2>2 DEF NewClient, Fd, NoFd
  <2> QED
    BY <2>2, <2>3 DEF Inv, ListMatchesFiles
<1> QED
  BY <1>1, InvHolds, PTL

(***************************************************************************)
(* As long as no client leaves early, every client reads at most one       *)
(* answer, and it is the answer to its own request.                        *)
(***************************************************************************)
THEOREM PatientServed == Spec => []PatientGetTheirs
<1>1. Inv => PatientGetTheirs
  <2> SUFFICES ASSUME Inv, AllPatient, NEW x \in Conn, NEW y \in Conn
               PROVE  answers[x][y] <= (IF x = y THEN 1 ELSE 0)
    BY DEF PatientGetTheirs, AnswerToAsker
  <2>1. CASE x = y
    <3>1. answers[x][x] = 0 \/ answers[x][x] = 1
      BY DEF Inv, Patience
    <3> QED
      BY <2>1, <3>1
  <2>2. CASE x # y
    <3>1. answers[x][y] = 0
      BY <2>2 DEF Inv, Patience
    <3> QED
      BY <2>2, <3>1
  <2> QED
    BY <2>1, <2>2
<1> QED
  BY <1>1, InvHolds, PTL

(***************************************************************************)
(* As long as no client leaves early, the scan meets no client that was    *)
(* marked for removal under it, and the server does not go down.           *)
(***************************************************************************)
THEOREM NoCrash == Spec => []CrashNeedsLeaver
<1>1. Inv => CrashNeedsLeaver
  BY DEF Inv, Patience, CrashNeedsLeaver
<1> QED
  BY <1>1, InvHolds, PTL
=============================================================================
