---------------------------- MODULE MCObfsWsPipe ----------------------------
(* ObfsWsPipe on small instances: see the cfg files for the bounds.        *)
EXTENDS ObfsWsPipe

\* Clones are interchangeable.
HandleSymmetry == Permutations(Handle)
=============================================================================
