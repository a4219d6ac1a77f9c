-------------------------------- MODULE MCApi -------------------------------
(* Api on small instances: symmetry for the safety runs. *)
EXTENDS Api, TLC

Symmetry == Permutations(Proc) \cup Permutations(Pair)
=============================================================================
