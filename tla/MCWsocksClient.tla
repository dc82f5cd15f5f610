--------------------------- MODULE MCWsocksClient ---------------------------
(* WsocksClient on small instances: see the cfg files for the bounds.      *)
EXTENDS WsocksClient, TLC

\* Pipes are interchangeable.
PipeSymmetry == Permutations(Pipe)
=============================================================================
