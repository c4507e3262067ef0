------------------------------ MODULE MCTHurl ------------------------------
(* Instances of THurl for model checking: the symmetry of the connections. *)
EXTENDS THurl, TLC

ConnSymmetry == Permutations(Conns)
=============================================================================
