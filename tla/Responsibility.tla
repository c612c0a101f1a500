--------------------------- MODULE Responsibility ---------------------------
(***************************************************************************)
(* Who stores what in the Chord ring of praxis2: the hash of a key         *)
(* (util.c: pseudo_hash), the test that a peer makes to find out whether   *)
(* a hash is its own (neighbour.c: peer_is_responsible) and the ring that  *)
(* the command lines of the peers describe (peer.c: main).                 *)
(*                                                                         *)
(* A byte is a number below Base (256 in the code, any base here), a key   *)
(* a sequence of bytes and a hash a number below Base * Base, which is     *)
(* what uint16_t is when Base is 256.                                      *)
(***************************************************************************)
EXTENDS Naturals, Sequences

CONSTANTS Base,     \* number of values of a byte
          Peers,    \* node ids of the peers
          Succ,     \* id of the successor, as given on the command line of a peer
          Pred      \* id of the predecessor, likewise

Byte == 0..(Base - 1)

HashId == 0..(Base * Base - 1)

ASSUME BaseAssumption == Base \in Nat \ {0}

ASSUME PeersAssumption == Peers \subseteq HashId

ASSUME NeighbourAssumption ==
    /\ Succ \in [Peers -> Peers]
    /\ Pred \in [Peers -> Peers]
    /\ \A p \in Peers : Pred[Succ[p]] = p /\ Succ[Pred[p]] = p

(***************************************************************************)
(* The peers have been started as one sorted ring, as launch.sh and the    *)
(* tests do: no peer has an id strictly between a peer and its successor,  *)
(* going upwards and, behind the largest id, around through zero.          *)
(***************************************************************************)
ASSUME SortedAssumption ==
    \A p, q \in Peers :
        /\ p < Succ[p] => ~(p < q /\ q < Succ[p])
        /\ p >= Succ[p] => Succ[p] <= q /\ q <= p

-----------------------------------------------------------------------------
\* neighbour.c: peer_is_responsible
PeerIsResponsible(predId, peerId, hashId) ==
    \/ predId > peerId /\ hashId > predId
    \/ hashId <= peerId /\ hashId > predId

\* util.c: pseudo_hash
PseudoHash(key) ==
    IF Len(key) >= 2 THEN key[1] * Base + key[2]
    ELSE IF Len(key) = 1 THEN key[1]
    ELSE 0

\* The test a peer makes for itself and the one it makes for its successor.
OwnHash(p, h) == PeerIsResponsible(Pred[p], p, h)

SuccHash(p, h) == PeerIsResponsible(p, Succ[p], h)

\* The hashes that some peer takes for its own.
Owned(h) == \E p \in Peers : OwnHash(p, h)

=============================================================================
