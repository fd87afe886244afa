--------------------------- MODULE MCSecretStore ----------------------------
(* SecretStore, checked up to the names of its processes: nothing in it     *)
(* tells them apart.                                                       *)
EXTENDS SecretStore, TLC

Symmetry == Permutations(Procs)
=============================================================================
