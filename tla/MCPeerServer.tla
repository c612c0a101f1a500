---------------------------- MODULE MCPeerServer ----------------------------
(***************************************************************************)
(* Instances of PeerServer: a handful of connections of chosen kinds, with *)
(* headers and bodies of one or two bytes, so that each can arrive in      *)
(* pieces.                                                                 *)
(***************************************************************************)
EXTENDS PeerServer, TLC

CONSTANTS a, b, r, l    \* connections

\* A far request, one answered at once and a lookup.
MixedKind == (a :> "far") @@ (b :> "own") @@ (l :> "lkup")
MixedBody == (a :> 1) @@ (b :> 1) @@ (l :> 1)

\* Two far requests and a reply.
FarKind == (a :> "far") @@ (b :> "far") @@ (r :> "rply")
FarBody == (a :> 1) @@ (b :> 2) @@ (r :> 1)
=============================================================================
