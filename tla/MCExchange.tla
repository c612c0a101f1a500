---------------------------- MODULE MCExchange ----------------------------
(***************************************************************************)
(* An instance of Exchange with bytes of one bit: key lengths up to 3 and  *)
(* value lengths up to 15 fit, and their sum may wrap.  The bytes of keys  *)
(* and values are numbered by their places.                                *)
(***************************************************************************)
EXTENDS Exchange

Key(n) == [i \in 1 .. n |-> 100 + i]
Value(n) == [i \in 1 .. n |-> 200 + i]

\* Requests with keys and values at and around the limits of their lengths.
ClientJobs ==
    { [role |-> "client", method |-> m, key |-> Key(k), value |-> Value(n), hops |-> h] :
        m \in {"SET", "GET", "DELETE", "PUT"}, k \in {0, 1, 3, 4, 5},
        n \in {0, 1, 13, 14, 16, 17}, h \in {1, 2} }

\* Peers with all ports that fit and those just outside, some without address.
PeerJobs ==
    { [role |-> "peer", id |-> i, hash |-> g, host |-> a, port |-> p, addrs |-> n, hops |-> h] :
        i \in {0, 3}, g \in {1, 2}, p \in -1 .. 4, n \in 1 .. 3, h \in {1, 2},
        a \in {<<>>, <<0, 0, 0, 1>>, <<1, 0, 1, 1>>, <<0, 1, 1, 0>>} }

AllJobs ==
    { j \in ClientJobs : j.method # "SET" => j.value = <<>> } \cup PeerJobs

StoredValues == { Value(0), Value(1), Value(6), Value(15) }
=============================================================================
