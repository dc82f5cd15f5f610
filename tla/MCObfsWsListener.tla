-------------------------- MODULE MCObfsWsListener --------------------------
(* ObfsWsListener on small instances: see the cfg files for the bounds.    *)
EXTENDS ObfsWsListener

\* Clients that send the same kind of request are interchangeable.
ClientSymmetry == Permutations(Keyed)
=============================================================================
