------------------------------ MODULE KVStore -------------------------------
(***************************************************************************)
(* What the hash table promises to its clients, whatever the number of     *)
(* peers behind it: one map from keys to values. Each client process       *)
(* issues one request; the request takes effect at one instant between     *)
(* the moment it is sent and the moment its connection is closed, and its  *)
(* answer is the one that instant determines.                              *)
(***************************************************************************)
CONSTANTS Clients,
          Requests,   \* requests a client may issue: flags, key and value
          Keys,
          None        \* no entry, no request, no answer

VARIABLES store,      \* the value of every key
          request,    \* the request of every client
          answer,     \* the answer fixed for it
          closed      \* clients whose connection has been closed

vars == <<store, request, answer, closed>>

Init ==
    /\ store = [k \in Keys |-> None]
    /\ request = [c \in Clients |-> None]
    /\ answer = [c \in Clients |-> None]
    /\ closed = {}

\* The value of the key of request r after it, v being the value before it.
Updated(r, v) ==
    IF "GET" \in r.flags THEN v ELSE IF "SET" \in r.flags THEN r.value ELSE None

\* A GET of a bound key returns the pair, everything else an empty acknowledgement.
Reply(r, v) ==
    IF "GET" \in r.flags /\ v # None
      THEN [flags |-> {"GET", "ACK"}, key |-> r.key, value |-> v]
      ELSE [flags |-> r.flags \cup {"ACK"}, key |-> <<>>, value |-> <<>>]

Issue(c) ==
    /\ request[c] = None
    /\ \E r \in Requests : request' = [request EXCEPT ![c] = r]
    /\ UNCHANGED <<store, answer, closed>>

\* The request of c takes effect; its connection may be closed along with it.
Execute(c) ==
    /\ request[c] # None
    /\ answer[c] = None
    /\ LET r == request[c] IN
         /\ store' = [store EXCEPT ![r.key] = Updated(r, store[r.key])]
         /\ answer' = [answer EXCEPT ![c] = Reply(r, store[r.key])]
    /\ closed' \in {closed, closed \cup {c}}
    /\ UNCHANGED request

\* Connections whose answer has been fixed are closed.
Close ==
    /\ closed \subseteq closed'
    /\ closed' \subseteq Clients
    /\ \A c \in closed' : answer[c] # None
    /\ UNCHANGED <<store, request, answer>>

Next == (\E c \in Clients : Issue(c) \/ Execute(c)) \/ Close

Spec == Init /\ [][Next]_vars

=============================================================================
