------------------------------ MODULE MCJobApi ------------------------------
(* TLC instances of JobApi.                                                *)
EXTENDS JobApi, TLC

(* Hashes are interchangeable; the runs that use it check no liveness.     *)
Symmetry == Permutations(Hash)
=============================================================================
