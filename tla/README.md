# A TLA+ model of RN_22_23

The repository holds two C programs of a networking course: `praxis2`, a
distributed hash table whose peers form a Chord ring, with a command line
client; and `praxis1`, the beginnings of an HTTP server. This directory models
both: the peers and their protocol, the event loop of a peer, the bytes of a
packet between client, gateway and owner, the hash table and the ring buffer at
the bottom, and the web server. Paths are relative to `src/praxis2/` unless they
start with `praxis1`.

## The system

| part | state | operations | talks to |
|---|---|---|---|
| client (`src/client.c`) | one request | connect, send, read the answer to the end of the stream | one peer, TCP |
| handlers of a peer (`src/peer.c`) | `self`, `pred`, `succ`, `ht`, `rt` | `handle_packet_data`, `handle_packet_ctrl`, `proxy_request`, `lookup_peer`, `answer_lookup` | called by the event loop; other peers, TCP |
| hash table (`src/hash_table.c` on `include/uthash.h`) | list of entries, bucket chains, counters | set, get, delete; expansion of the buckets | called by the handlers |
| request table (`src/requests.c`) | hash -> list of (descriptor, packet) | add, get, clear | called by the handlers |
| neighbours (`src/neighbour.c`) | ids, addresses, one socket per peer object | connect, disconnect, `peer_is_responsible` | the other peers |
| event loop (`src/server.c`) | list of clients, state and buffers of each | poll, scan, deliver, sweep, accept, stop | calls `handle_packet` |
| ring buffer, `recvall`, `sendall`, `pseudo_hash` (`src/util.c`) | positions and bytes | read, write | used by all |
| packet codec (`src/packet.c`) | none | new, dup, body size, serialise, decode header, decode body | used by all |
| web server (`praxis1/webserver.c`) | two buffers and scanner positions | receive, scan, reply | one HTTP client |

A request for a key is hashed to 16 bits. The peer that receives it executes it
if the hash is its own, proxies it if the hash is its successor's, and otherwise
parks it in the request table and sends a lookup round the ring. The predecessor
of the owner answers the lookup with a reply; the reply makes the first peer
proxy every parked request of that hash to the owner, one after the other, and
close their clients. Peers are single threaded, and `proxy_request` blocks that
thread until the owner has closed the connection. There are no timeouts, no
retries, no joins, and nothing is persisted.

What is hard about it: the interleaving of requests, lookups and replies of
several clients at several peers; blocking proxies; an owner that stops; file
descriptors that outlive their connection; packets that arrive in pieces; a list
that shrinks under the scan; arithmetic modulo 2^16 and in `size_t`; lengths at
the limit of their fields; a `recv` that fails; pointers that an expansion of the
buckets rearranges; positions in the web server's buffers that survive from one
piece of the stream to the next. The list of hazards in `PROJECT.json` places each at its line.

## Modules

| module | what it models |
|---|---|
| `Responsibility` | `pseudo_hash`, `peer_is_responsible`, the sorted ring of the command lines |
| `ChordRing` | peers and clients; properties of the ring |
| `KVStore` | what the ring promises its clients: one linearizable map |
| `ChordRingProofs` | theorems about `ChordRing`: types, ownership, routing |
| `ChordRequestProofs` | EXTENDS it: the way of one request through the ring |
| `ChordStoreProofs` | EXTENDS that: the ring implements `KVStore` |
| `MCChordRing` | the rings of `launch.sh` and `tests.py`, sets of requests |
| `PeerServer` | the event loop of one peer, the descriptors in its request table |
| `MCPeerServer` | small sets of connections |
| `PeerServerProofs` | theorems about `PeerServer` |
| `RingBuffer`, `BoundedFifo`, `MCRingBuffer` | the ring buffer, the queue it implements, an instance |
| `RingBufferProofs` | theorems about `RingBuffer` |
| `UtHash`, `HashMap`, `MCUtHash` | the table below `hash_table.c`, the map it implements, an instance |
| `UtHashProofs` | theorems about `UtHash` |
| `PacketCodec` | packets and their bytes, the widths of their fields |
| `Neighbour` | addresses and ports of peers and how they travel in packets |
| `Exchange`, `MCExchange` | client, gateway and owner exchanging one packet byte by byte; an instance |
| `ExchangeProofs` | theorems about `PacketCodec` and `Exchange` |
| `WebServer`, `MCWebServer` | `praxis1/webserver.c`; an instance |
| `WebServerProofs` | theorems about `WebServer` |

`ChordRing` EXTENDS `Responsibility` and instantiates `KVStore` for the
refinement; `RingBuffer` instantiates `BoundedFifo` and `UtHash` instantiates
`HashMap`. `Exchange` EXTENDS `Neighbour`, which EXTENDS `PacketCodec`, and
composes the codec with the client, the event loop's reassembly and `recvall`.
`ChordRing` leaves out bytes, `Exchange` leaves out the ring: a packet is
delivered whole in the first because of what the second checks.

### ChordRing

One state machine for any set of peers and clients. `ht` and `rt` are the two
tables of every peer; `net[p]` holds the packets `p` has not read, each with the
connection it came on; `status` and `job` say whether a peer is in
`proxy_request`, and for whom; `marked` are the clients in state `REMOVE`;
`stream` and `eof` are what has been written to a connection and whether it has
been closed; `sent` is the request of each client.

* `Send` is the client. `HandleOwnRequest`, `HandleSuccRequest` and
  `HandleFarRequest` are the three branches of `handle_packet_data`;
  `AnswerLookup` and `ForwardLookup` the LKUP branch of `handle_packet_ctrl`,
  `HandleReply` and `IgnoreReply` the RPLY branch; `FinishProxy`, `ProxyNext`
  and `FinishReply` what follows when `recvall` returns. `Sweep` is the removal
  of marked clients behind the scan, `Stop` is `server_stop`.
* A handler is one step, split where it blocks: at the `recvall` of
  `proxy_request`. Until then nobody can observe its parts, since each packet
  travels on a connection of its own.
* A peer may read any waiting packet next: `poll` order and arrival order are not
  related by the code. `net[p]` is a set; two equal packets cannot be under way
  because a packet carries its connection. A control packet carries no
  connection in the code; in the model it carries the client on whose behalf it
  was sent, a history value that no action reads.
* The kernel accepts and buffers what is sent to a peer that is busy, so
  `forward` to a blocked peer succeeds. `forward` to a stopped one is refused: a
  control packet is lost, and a proxy hangs in `recvall`, which counts the `-1`
  of each failing `recv` as bytes. A peer that stops while it has unread bytes of
  a proxied request resets the connection; `recvall` then returns a negative
  length, and the client is sent what lies in memory (`Garbage`).
* `strncpy` is modelled as it is: everything behind a zero byte becomes zero.
  The test for DELETE is always true, as it is in the code.
* Keys and values are sequences of bytes, a byte a number below `Base` (256).

### KVStore

The ring as its clients may see it: a store, one request per client, an instant
at which it takes effect and fixes its answer, and the end of the connection
behind it. The mapping takes the value of a key from the table of its owner and
the answer of a client from the connection it will be relayed on.

### PeerServer

One peer and the connections to it, packets reduced to their number of bytes and
to what the callback does with them. `clients`, `client`, `rt` are the
structures of the code, `files` the descriptor table of the process, which hands
out the lowest free descriptor. A round is `Poll`, the scan in steps of one
client (`ScanHeader`, `ScanBody`, `Deliver...`, `ScanClosed`,
`ScanMarked`), `Sweep`, which removes marked clients one at a time, `ScanEnd` and
`Accept`; the other ends act between any two of these steps.
`polled` remembers the list as `poll` saw it, and `At` ends the scan at the
current number of clients, as the loop condition does. `AcceptFails` is the
outcome of an uninitialised `addr_len`, `ScanMarked` the read through the null
`pkt_buf` of a client already marked. A request in `rt` carries its `asker`
beside the descriptor: a history value that no action reads but to record whose
answer was written where. `answers[x][y]` counts the answers to `y` that were
written to connection `x`. What has arrived before a `Reset` can still be received,
so that `recv` never returns -1 for what `poll` reported; `poll` does not report
the connection again, because `revents` is compared for equality with `POLLIN`.

### RingBuffer

`rb_can_read`, `rb_can_write`, `rb_write`, `rb_read` over an array of `Size + 1`
slots. `Word` is the number of values of `size_t`; `rpos - 1` wraps around in it
when `rpos` is 0. `put` and `got` record what the last write was given and the
last read returned; the queue of `BoundedFifo` has to agree with both.

### UtHash

The macros `hash_table.c` expands, at the level of their pointers: `next` and
`prev` are the list of all entries, `hh_next` and `hh_prev` the chains, `tbl` the
`UT_hash_table` with its buckets and its counters, all zero while there is none
(`head = NULL`). `TwoTo` is the shift of a one. A call is one of
`htable_set`, `htable_get` and `htable_delete`; its search (`FindNext`) and an
expansion (`ExpandMove`, `ExpandNextBucket`) take one step for each entry or
bucket, which shows the tables half rebuilt. A freed entry's pointers are
`Freed`. The hash of a key is any function: which one it is does not matter to
correctness, only how keys collide. `store` and `res` are history, by which the
table is compared with `HashMap`; `Intact` is the library's own `HASH_FSCK`, with
the tail and with the keys that were set.

### PacketCodec, Neighbour, Exchange

`PacketCodec` has one operator per function of `packet.c`. A field of two bytes
holds numbers below `Base^2`, one of four bytes numbers below `Base^4`; with
`Base = 2` a key of four bytes and a value of sixteen are too long for the
header, and their wrap-around is within reach. Reads beyond the end of a buffer
yield `Junk`. `Neighbour` has the operators of `neighbour.c`.

`Exchange` is one job at a time: a client's request, or a lookup of another
peer. Client actions are `ConnectSocket`, `ReadStdin`, `SendRequest`, `Finish`;
a sending peer's are `StartPeer`, `TryAddress` (one turn of `peer_connect`) and
`SendLookup`; a receiving peer's are `RecvHeader`, `RecvBody`, then `PassOn` (as
a gateway), `HandleOwnRequest`, `TakeLookup` or, for an empty body, `RecvNothing`.
`RecvallPiece`, `RecvallReset`, and `Relay` are `recvall` in the client and in
`proxy_request`. `Killed` is a peer whose process ends, with or without a reset.
`wire` and `back` are the bytes under way in each direction; `recv` takes any
number of them that its buffer has room for.

A turn of `peer_connect` ends in one of the `Outcomes`: no socket, a refusal, a
connection, or, from the first success on, a `connect` to nobody. The loop has no
break and uses the first address in every turn, and the `memcpy` at
`neighbour.c:93` has its arguments swapped: it overwrites that address with
`p->addr`, which `peer_init`, `peer_from_packet` and `peer_disconnect` leave zero.
In `conn`, `open` counts the sockets left open, `held` those of them that are
connected to the host, `usable` says that the neighbour's socket is one of these,
and `connected` is the code's flag. `SendLookup` is the rest of `forward`. Its
`sendall` fails on a socket that is not connected, and may fail on one that is;
`forward` then returns without `peer_disconnect`. The exit `"-1"` stands for that
return and for the end of the peer by SIGPIPE alike.

Three exceptions in its properties are behaviours of the code: `packet_decode`
accepts an answer that lacks no more bytes than a header has; a reset before the
first byte gives `recvall` a negative length; a lookup that is not sent leaves its
connection open until the process ends.

### WebServer

The two receive loops and the two scan loops of `main`, one scan position per
step. `buf`, `scan`, `begin` and `fully` are `recv_buf` and the variables that
are not reset between pieces; `req` is the secondary buffer; `script` is what
the client will send, `taken` how much of it has been received, `replies` counts
the answers. The scan of the secondary buffer does not advance (`Scan2` may
stutter for ever), and a free of that buffer follows its answer
(`ProcessSecondary`), as in the code. Bytes are `"x"`, `"r"` and `"n"`: none is
zero, so that `strncpy` copies what it is told to.

## Runs

Passing runs:

| run | instance | properties |
|---|---|---|
| `ring_safety` | ring of `launch.sh`, 3 clients, any gateway, two SETs, GET and DELETE of a key far away, SET of one behind the largest id and SET of one that nobody owns | `LookupMissesOwner`, `ProxyHitsOwner`, `LookupUnderWay`, `UnownedCircles`, `StuckOnlyInProxyCycle`, `IsKVStore` |
| `ring_stop` | the same ring, one SET, and peer 138, owner of a key and neighbour of everybody else's path, may stop | `TypeOK`, `RequestInOnePlace`, `AnswerIsOurs` |
| `ring_gateway` | five peers of `tests.py`, 3 clients at peer 53428 | `OwnedAnswered` (liveness) |
| `server_safety` | two far requests and a reply; one client may close or reset its connection, `accept` may fail | `TypeOK`, `ListMatchesFiles`, `BytesAccounted`, `WaitingClientKept`, `PatientGetTheirs`, `CrashNeedsLeaver` |
| `server_live` | a far request whose client may leave, one answered at once, a lookup | `PacketDelivered`, `LeaverForgotten` (liveness) |
| `ring_buffer` | 3 bytes, two byte values, writes of 0 to 4 bytes | `TypeOK`, `RoomAccounted`, `IsFifo` |
| `uthash` | four keys that collide for ever and two more that do, threshold 2, one bucket at first | `TypeOK`, `Intact`, `ChainsBounded`, `IsMap` |
| `exchange` | `Base = 2`, buffers of 3 bytes at first, lengths and ports at and beyond their limits, one hop or two, hosts with one to three addresses | `TypeOK`, `RequestIntact`, `AnswerIntact`, `BuffersHold`, `OneConnection`, `ClientEnds` (liveness) |
| `web_server` | up to three requests of four kinds, cut into pieces in every way | `TypeOK`, `NoSpuriousReply`, `FirstPieceAnswered`, `SecondaryIntact` |

Runs in which TLC refutes what a comment or a test says:

| run | property | what happens |
|---|---|---|
| `claim_ack_in_time` | `OwnedAnswered` | two peers proxy to one another and block for good |
| `claim_right_client` | `AnswerToAsker` | an answer goes to the client that was given the descriptor next |
| `claim_web` | `EveryRequestAnswered` | the second request of `packets.py` is scanned from where the first one ended, and dropped |

Further disagreements are visible in the definitions and have no run:

* a key whose hash is at most the smallest id has no owner (theorem
  `SmallestHashesUnowned`), and its lookup circulates for ever (`UnownedCircles`); `peer.c:208` supposes
  that there is one;
* a packet with none of the flags GET, SET and DEL, which `peer.c:141` calls
  invalid, deletes its key, because the test in `peer.c:136` always holds
  (`TableAfter`);
* a key of one byte is hashed to its byte, where `tests.py:27` has `key[0] << 8`
  (`PseudoHash`);
* a GET returns key and value cut at their first zero byte (`StrNCpy`), against
  `hash_table.c:5` and the tests of zero bytes in `tests.py:663`;
* a packet with neither key nor value is never delivered and never refused,
  because `server.c:186` looks for the end of the body only behind a `recv` that
  returned bytes: `ClientEnds` has to leave it out;
* a client that leaves in the round in which it is answered makes the scan read
  through a null `pkt_buf` (`ScanMarked`): `CrashNeedsLeaver` says that nothing
  else does;
* the comment on `expand_mult` (`include/uthash.h:1298`) has the threshold
  enforced on every chain, times the multiplier of its bucket. The multiplier is
  set by comparison with the ideal length and not with the threshold, and crowded
  buckets can put an expansion off so long that the ideal length itself reaches
  the threshold; chains then stay above it between calls. `ChainsBounded` has
  this case as its second alternative, without which it could not be proved, and
  which `uthash` reaches;
* `peer_connect` reports success when any of its turns succeeded, and each turn
  replaces the socket. For a host with several addresses a turn behind the first
  success can only yield a socket that is refused or connected to nobody
  (`Outcomes`), so that no lookup is sent although the host was reached.
  `OneConnection` says what is left open then: that one connection, and never a
  second one;
* the web server ends when a terminator lies where an earlier piece began a
  request (`ScanEmpty` with a stale `begin`), and never leaves the scan of its
  secondary buffer when that starts with an incomplete request (`Scan2`).

### Bounds

Clients send one request each because `client.c` does; three of them are enough
for two requests of one hash in a request table with a third arriving between
reply and reply, and for a cycle of proxies. Four peers give the four relations
a peer can have to a hash: own, successor's, predecessor's, and farther away,
and lookups that are forwarded at least once; five peers lookups that travel
further and across zero. Three connections at the server let one be marked, one
be removed and one be accepted in the same round. In `server_safety` a header has
two bytes and bodies one or two, so that each can arrive in pieces; in
`server_live` both have one. Clients are interchangeable
(`Symmetry`) in runs without liveness properties: no definition chooses among
them. `CHECK_DEADLOCK FALSE` appears wherever clients are finite and one-shot:
when all are served the peers wait in `poll`, and the system really stops.
`ring_buffer` and `uthash` never stop and are checked for deadlock.

Four colliding keys at threshold 2 expand twice without effect and so reach the
state in which expansion is given up, with chains beyond the threshold; the two
others are needed for chains that do split, and for enough entries that the ideal
length reaches the threshold. `MaxLog2` bounds the number of buckets: no set
begins in a table of eight. `exchange` has values of 13 to 17
bytes because a sum with a key of three wraps at 16; `Killed` may happen at any
step; buffers that start at 3 bytes are doubled up to three times, on a boundary
and off it; three addresses let a turn fail before the first success and another
follow it. Buffers of 12 bytes in `web_server` hold two short requests or a long one,
and of three requests only empty ones, so that pieces end everywhere in a
request. `SecondaryIntact` shows there that `buf_struct_expand`, which the model
has, is never called: the scan of the secondary buffer does not come to an end
once four bytes are in it.

### Fairness

`ChordRing!FairSpec` assumes weak fairness of each peer's own steps: a process
that is not blocked keeps running, `poll` reports waiting packets, and TCP
delivers them. Nothing obliges a client to send or an operator to stop a peer.
Weak fairness of `PeerStep(p)` as a whole does not say that every waiting packet
is read: with finitely many packets that suffices. `PeerServer!FairSpec` assumes
weak fairness of the server's loop and nothing of the other ends.
`Exchange!FairSpec` assumes it of the programs and of TCP and never of `Killed`;
`WebServer!FairSpec` of the server, not of the client that may close.
`OwnedAnswered` holds when all clients use one gateway, and is refuted by
`claim_ack_in_time` when two of them use two at the same time. The tests use
several gateways, but one request after the other; `StuckOnlyInProxyCycle` says
that such a cycle is the only reason.

## Proofs

A proof holds for every value of the constants that meets the assumptions of the
module, which TLC evaluates on the instances of the runs. Every invariant that a
run checks is a theorem, and so is each of the refinements. Few are inductive as
they stand; each proof module begins with the invariant that is.

| property | theorem | module |
|---|---|---|
| `TypeOK` | `TypeCorrect` | `ChordRingProofs` |
| `LookupMissesOwner`, `ProxyHitsOwner` | `LookupNeverReachesOwner`, `ProxiedToOwner` | `ChordRingProofs` |
| `RequestInOnePlace`, `AnswerIsOurs` | `InOnePlace`, `AnswersOurs` | `ChordRequestProofs` |
| `LookupUnderWay`, `UnownedCircles`, `StuckOnlyInProxyCycle` | `LookupsUnderWay`, `UnownedGoRound`, `OnlyProxiesDeadlock` | `ChordRequestProofs` |
| `IsKVStore` | `RingIsStore` | `ChordStoreProofs` |
| `TypeOK`, `ListMatchesFiles`, `BytesAccounted` | `TypeCorrect`, `ListAgrees`, `BytesKept` | `PeerServerProofs` |
| `WaitingClientKept`, `PatientGetTheirs`, `CrashNeedsLeaver` | `WaitingKept`, `PatientServed`, `NoCrash` | `PeerServerProofs` |
| `TypeOK`, `RoomAccounted`, `IsFifo` | `TypeCorrect`, `RoomTheorem`, `Refinement` | `RingBufferProofs` |
| `TypeOK`, `RequestIntact`, `AnswerIntact` | `TypeCorrect`, `RequestArrives`, `AnswerArrives` | `ExchangeProofs` |
| `BuffersHold`, `OneConnection` | `BuffersKept`, `OneConnectionHeld` | `ExchangeProofs` |
| `TypeOK`, `SecondaryIntact`, `NoSpuriousReply`, `FirstPieceAnswered` | `TypeCorrect`, `SecondaryKept`, `NoSpurious`, `FirstPiece` | `WebServerProofs` |
| `TypeOK`, `Intact`, `ChainsBounded`, `IsMap` | `TypeCorrect`, `IntactAlways`, `ChainsAreBounded`, `TableIsMap` | `UtHashProofs` |

### The ring

`ChordRingProofs` holds for every `Base`, every sorted ring, any clients,
requests, gateways and any peers that may stop. It assumes what `Responsibility`
and `ChordRing` state as assumptions: ids and hashes are below `Base^2`;
`Succ` and `Pred` are inverse to one another; no id lies strictly between a peer
and its successor; clients are not peers; `None` and `Garbage` are not packets;
a request has one of the three commands of `client.c` and a key from its command
line, which has no zero byte.

* `TypeCorrect`: `Spec => []TypeOK`, one step per action. `TypeOK` includes that
  a busy peer has a job with a non-empty queue, without which `Head` and `Tail`
  mean nothing.
* `AtMostOneOwner`, `SmallestHashesUnowned`: arithmetic on the ring. The first
  is what makes the tables disjoint; the second is the gap in
  `peer_is_responsible`, on every ring.
* `LookupNeverReachesOwner`, `ProxiedToOwner`, `TablesDisjoint`: the first two
  invariants are not inductive alone. A reply names the owner
  because a lookup is answered by a peer that tested its successor; a request is
  proxied to the owner because requests are filed under their hash. The inductive
  invariant `Routing` says all of it: every table binds only owned keys (all
  that `TablesDisjoint` needs, and inductive by itself); every lookup under way is
  at a peer that does not own its hash and every reply names the owner; every job is bound for the owner, with requests of its hash; every
  request table files requests under their hash. The step that matters is
  `SuccTest`: the test a peer makes for its successor is the one the successor
  makes for itself, so a lookup that is passed on cannot arrive at the owner.

`ChordRequestProofs` follows one request. Its inductive invariant `Way` says that
what travels under a client's name is what it sent (`Carried`); that the queue of
a reply loop is what is left of the open requests of its hash, and the others are
marked (`Loops`); that a client's request is at exactly one of its possible
places (`Custody`); that the connection of a proxy carries the request it was
opened for (`Proxied`), and that a connection holds no answer but to its request
(`Answered`).

* `InOnePlace` and `AnswersOurs` follow, whichever peers stop and whenever.
  Custody is stated with quantifiers over places, not with cardinalities:
  `CustodyCounts` makes the counts of `RequestInOnePlace` from it at the end.
* `LookupsUnderWay`, `UnownedGoRound` and `OnlyProxiesDeadlock` need
  `MayStop = {}`: a stopped peer loses the lookups sent to it, and there is no
  retry. `Awaited` adds that each hash with open requests has a lookup or a reply
  on its way, or is being served.
* `UnownedGoRound`: a request whose hash nobody owns is never executed, answered
  or waited for; it stays in the table of its gateway, and just one lookup for it
  goes round the ring. `Awaited` gives a lookup, `Routing` rules out replies and
  jobs for such a hash; that there is one lookup only is `Circling`: control
  packets carry the hash of the request they were sent for, there are never two
  for an unowned one, and none before it is in a table.

`ChordStoreProofs` proves `RingIsStore`: the ring is the linearizable map of
`KVStore` to its clients, if `MayStop = {}` and if no value has a zero byte
(`PlainValues`), at which `strncpy` would cut it. The mapping reads the answer of
a client from the connection it will be relayed on, possibly two connections
away; `AnswerOf` names it without the choice in the mapping, and `Answers` shows
that the two agree. `Tidy` is what the steps need beside `Way`: nothing has been
written to a client that still waits (`Fresh`), none is closed before its answer
(`Served`), tables hold values without zero bytes (`PlainTables`). The step of the
map is `HandleOwnRequest` at the owner; relaying and closing are stutters or the
end of a request. The exceptions are real: the runs `ring_safety` and `ring_stop`
are instances with and without the hypotheses.

### The event loop

`PeerServerProofs` holds for every finite set of connections, every choice of
their packets and every header length that is not 0. The inductive invariant is
the type invariant, the agreement of list and descriptors, and

* `Places`: a connection moves from the backlog to the list and from there to
  `eof`, and is nowhere twice;
* `Buffers`: what the header and body buffers hold in each state, and that a
  marked client is seen only during a scan;
* `ScanFinds`: what `poll` reported and the scan has not come to yet is still in
  the list, though removals shift the list under the scan;
* `Requests`: an open request has sent all its bytes, and its client is as it was
  accepted, or gone;
* `Bytes`: sent, received and buffered bytes add up to the packet, for every
  connection and not only for those in the list;
* `Patience`: while no client leaves early, the descriptor of an open request
  denotes its asker, and an asker has had no answer yet.

The six theorems follow. `WaitingKept`, `PatientServed` and `NoCrash` are about
runs without impatient clients; the run `claim_right_client` shows what an
impatient one does to the others.

### The ring buffer

`RingBufferProofs` holds for every size, every set of bytes and every width of
`size_t` that can count twice the array (`WordAssumption`).

* `TypeCorrect`: both positions stay inside the array. `BehindOnce` replaces the
  remainder by a case distinction: a position moves by at most the length of the
  array, so it wraps around at most once.
* `RoomTheorem`: what can be read and what can be written add up to the size,
  which `Counters` derives from the type invariant alone, the wrap-around of
  `rpos - 1` included.
* `Refinement`: `Spec => IsFifo`. The contents are the bytes from `rpos` on;
  `WriteAppends` shows that a write leaves them in place and puts its bytes
  behind them, `ReadTakes` that a read returns their front and leaves the rest.

### The hash table

`UtHashProofs` holds for every finite set of keys, every hash function, every
threshold above 0, every number of buckets to begin with and whatever bound
`MaxLog2` puts on their growth (`HashAssumption`). The inductive invariant `Inv`:

* `Rest(x, R, link, back)` says what it is to be a list from `x` on with the
  entries `R`: it is closed under its link, the two links undo one another, every
  entry but `x` has one before it, and a rank grows along it (`Ordered`). The rank
  is what rules out a circle beside the list, which all local conditions allow.
  `Chain` is a `Rest` that nothing precedes.
* `Listed` and `Chained`: all entries are a chain along `next`, and those of each
  bucket along `hh_next`, with the right counts and tail.
* `Searching`: from `out` on there is a rest of a chain that has the key of the
  call, if the table has it. So a search that ends has found the key or shown that
  it is absent (`SearchedFound`, `SearchedAll`).
* `Moving`: during an expansion some set of entries has been moved; these are
  chains of the new buckets, what follows `thh` is a rest of the old bucket, and
  the buckets behind it are as they were.
* `Bounded` and `Agreed`: the length of the chains, and the values of the map,
  except for a key whose entry is being replaced.

`Prepended`, `Appended`, `Removed` and `RestNext` are what the pointer assignments
do to a list, `ChainFrame` that they leave other lists alone; the proof of each
action applies them. `ChainLinked` leads back to the walk of `HASH_FSCK`, which
climbs in rank and so meets each entry once and comes to an end within as many
steps as there are keys. `MultKeepsUp` is the arithmetic of the expansion: each
entry that is moved keeps a chain within `expand_mult + 1` times the ideal length.
The two recursive functions, `TwoTo` and `Walk`, are shown to satisfy their
equations by way of a least counterexample (`LeastNumber`).

The proof corrected a property. `ChainsBounded` used to say that a chain is
shorter than its threshold, which held on the six keys and threshold 3 of the run;
its step for `ExpandEnd` could not be proved, and at threshold 2 TLC shows why.

### Codec and exchange

`ExchangeProofs` holds for every `Base` above 1, every first buffer size above 0,
any jobs and any stored values. It begins with the codec. A number of two or four
digits is got back from its digits; `packet_serialize` yields a header of seven
bytes and a body (`Serialized`); the header decodes to what it announces
(`HeaderDecoded`); the body decodes to the packet when neither its lengths nor
their sum have wrapped around (`BodyDecoded`); decoded from any other bytes a
request keeps the lengths of its header (`BodyCopied`); `packet_dup` of a request
is that request (`Copied`).

The inductive invariant then says where the bytes are: `Phases` relates the
states of sender, gateway and owner; `Receiving` that header, body and the bytes
under way are together the packet, on the first hop and on the second;
`Answering` that what `recvall` has read, followed by what is under way, is a
beginning of the answer; `Connecting` where `peer_connect` stands. `RequestIntact`
and `BuffersHold` follow from it; `AnswerIntact` and `OneConnection` are
conjuncts of it; the second is inductive only with the rest of `Connecting`, which
bounds the sockets by the turns taken and says that no lookup counts as sent before
`forward` has returned.

### The web server

`WebServerProofs` holds for every buffer of at least four bytes and every set of
streams of requests. `RequestsAssumption` says what a request is: a client that
sends no empty request ends each one with the terminator, which occurs nowhere
else. The invariant is the type invariant, `Primary` (the first buffer holds the
last bytes of the stream up to `taken`; in the first piece, all of them),
`Secondary` (the second buffer holds the stream from its first byte, within its
space, and is never scanned past its beginning) and `Counted` (no more answers
than terminators the scan has passed, and in the first piece just as many). That the
flattened stream is one sequence of bytes is an induction over the requests,
carried out on the least counterexample (`LeastNumber`).

### Only model-checked

* `OwnedAnswered`, `PacketDelivered`, `LeaverForgotten`, `ClientEnds`: liveness
  under fairness is out of the prover's reach.
* The runs that end in a violation, which are counterexamples already.

## Not modelled

* Failing `malloc`, `server_setup`, the limit of the listen backlog, a failing
  `poll`, a failing `fwrite` of the client's output. A host name resolves to the
  number of addresses a job says, which ones does not matter: the code connects to
  the first one only.
* SIGPIPE: a peer writes each answer at once, to a connection that it has not
  written to before; what the operating system has learnt about the other end by
  the second `send` of a long answer is outside the model.
* Of `uthash.h`: sorting, selecting, iterating, ordered insertion, replacing,
  Bloom filters and recovery from lack of memory, which nothing in the program
  uses, and the hash functions. `requests.c` uses the table as `hash_table.c`
  does; its lists are in `ChordRing` and `PeerServer`.
* The heap: the web server allocates eight bytes for a structure of twenty-four
  (`praxis1/webserver.c:34`), and memory is never returned in several places.
* `cmp_buffend_terminator` of the web server is never called.
* `include/scratch1.c` (disabled test drivers), files that CMake generated,
  logging, the Python test bench.

## Plan

All parts that were planned are modelled: the ring with its abstract store, the
event loop, the ring buffer, the hash table with its map, codec and exchange, the
web server. Every safety invariant of theirs is proved, and the refinements of
`KVStore`, `BoundedFifo` and `HashMap`.

What could follow: the composition of `ChordRing` with `PeerServer`, whose
request tables name clients in one and descriptors in the other; the liveness
properties, if a prover for them is at hand; a version of `OwnedAnswered` for a
protocol in which proxies do not block.

To reproduce: `tlc -config <run>.cfg <module>` for a run of `PROJECT.json`, and
`tlapm <module>.tla` for each module whose name ends in `Proofs`.
