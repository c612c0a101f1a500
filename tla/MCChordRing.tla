---------------------------- MODULE MCChordRing -----------------------------
(***************************************************************************)
(* Instances of ChordRing: the ring that launch.sh starts and smaller      *)
(* ones. A one-byte key has its byte for a hash; "/c" hashes to 12131, of  *)
(* which peer 10 is the owner around zero.                                 *)
(***************************************************************************)
EXTENDS ChordRing, TLC

\* launch.sh: ID2, ID3, ID0, ID1
LaunchRing == {10, 74, 138, 202}
LaunchSucc == (10 :> 74) @@ (74 :> 138) @@ (138 :> 202) @@ (202 :> 10)
LaunchPred == (74 :> 10) @@ (138 :> 74) @@ (202 :> 138) @@ (10 :> 202)

\* tests.py: setup_student_peers
TestRing == {1000, 14107, 27214, 40321, 53428}
TestSucc == (1000 :> 14107) @@ (14107 :> 27214) @@ (27214 :> 40321) @@ (40321 :> 53428)
            @@ (53428 :> 1000)
TestPred == (14107 :> 1000) @@ (27214 :> 14107) @@ (40321 :> 27214) @@ (53428 :> 40321)
            @@ (1000 :> 53428)

Set(k, v) == [flags |-> {"SET"}, key |-> k, value |-> v]
Get(k) == [flags |-> {"GET"}, key |-> k, value |-> <<>>]
Del(k) == [flags |-> {"DEL"}, key |-> k, value |-> <<>>]

FarKey == <<100>>       \* owned by 138
WrapKey == <<47, 99>>   \* "/c", owned by 10

MixedRequests == {Set(FarKey, <<7>>), Get(FarKey), Del(FarKey), Set(WrapKey, <<8>>), Get(WrapKey)}

LowKey == <<5>>         \* owned by nobody

\* Two values for the same key, and a key that nobody owns.
ValueRequests ==
    {Set(FarKey, <<7>>), Set(FarKey, <<9>>), Get(FarKey), Del(FarKey), Set(WrapKey, <<8>>),
     Set(LowKey, <<7>>)}

\* From peer 53428 of the test ring: a key of its own, one of its successor, and
\* two found by lookups, "Ho" across zero and past two peers.
GatewayRequests ==
    {Set(<<200, 1>>, <<8>>), Get(<<255, 1>>), Get(<<40, 1>>),
     Set(<<72, 111>>, <<7>>), Get(<<72, 111>>)}

\* Two peers that proxy to one another: <<100>> of 138 and <<50>> of 74.
CrossRequests == {Get(FarKey), Get(<<50>>)}

Symmetry == Permutations(Clients)

=============================================================================
