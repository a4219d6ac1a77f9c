------------------------------ MODULE MCProfile -----------------------------
(* Profile on small instances: symmetry for the safety runs. *)
EXTENDS Profile, TLC

Symmetry == Permutations(Proc) \cup Permutations(Account) \cup Permutations(Name)
=============================================================================
