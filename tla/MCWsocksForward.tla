-------------------------- MODULE MCWsocksForward --------------------------
(* WsocksForward on small instances: see the cfg files for the bounds.     *)
EXTENDS WsocksForward

\* Up to two frames one way against one the other way.
TwoAgainstOne == [s \in Side |-> IF s = "client" THEN 2 ELSE 1]
=============================================================================
