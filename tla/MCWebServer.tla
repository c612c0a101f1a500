---------------------------- MODULE MCWebServer ----------------------------
(***************************************************************************)
(* Instances of WebServer: requests of one and of two lines, empty ones,   *)
(* and the requests that the test packets.py sends.                        *)
(***************************************************************************)
EXTENDS WebServer

Short == <<"x", "r", "n", "r", "n">>
TwoLines == <<"x", "r", "n", "x", "r", "n", "r", "n">>
Long == <<"x", "x", "x", "x", "x", "x", "x", "r", "n", "r", "n">>

\* Up to three requests, of all kinds and in every order.
AllScripts == UNION { [1 .. n -> {Short, TwoLines, Long, http_terminator}] : n \in 1 .. 3 }

\* The two requests of packets.py.
TestScript == { <<Short, TwoLines>> }
=============================================================================
