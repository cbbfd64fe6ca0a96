---------------------------- MODULE MCWsHandler ----------------------------
(* Model-checking instance of WsHandler: connections are model values.    *)
EXTENDS WsHandler, TLC

\* Connections are interchangeable (uuid ids), so they may be permuted.
ConnSymmetry == Permutations(Conns)
=============================================================================
