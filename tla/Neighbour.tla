----------------------------- MODULE Neighbour -----------------------------
(***************************************************************************)
(* What a peer knows of another one and how it travels in packets          *)
(* (neighbour.c).  A host name is the four numbers of a dotted address; an *)
(* empty one stands for a name that cannot be resolved.                    *)
(***************************************************************************)
EXTENDS PacketCodec

\* The neighbour could not be created.
NoPeer == [node_id |-> -1, hostname |-> <<>>, port |-> -1]

\* Only a port that is too large is refused; a negative one wraps around.
peer_init(id, hostname, port) ==
    IF port >= Max16 THEN NoPeer
    ELSE [node_id |-> id, hostname |-> hostname, port |-> port % Max16]

\* The address is turned into its dotted form; the node id is not taken over.
peer_from_packet(pack) ==
    [node_id |-> 0, hostname |-> Bytes4(pack.node_ip), port |-> pack.node_port]

\* The addresses that the resolver has for a host; none for an unknown one.
peer_lookup(p) == IF p.hostname = <<>> THEN {} ELSE {Number4(p.hostname, 1)}

peer_get_ip(p) == IF peer_lookup(p) = {} THEN 0 ELSE CHOOSE ip \in peer_lookup(p) : TRUE

\* The lookup that peer self sends for hash_id (lookup_peer of peer.c).
Lookup(self, hash_id) ==
    [packet_new EXCEPT !.flags = PKT_FLAG_CTRL + PKT_FLAG_LKUP, !.hash_id = hash_id,
        !.node_id = self.node_id, !.node_ip = peer_get_ip(self), !.node_port = self.port]
=============================================================================
