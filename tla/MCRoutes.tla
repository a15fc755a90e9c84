------------------------------ MODULE MCRoutes ------------------------------
(* Instances of Routes for TLC. *)
EXTENDS Routes, TLC

RoutesSymmetry == Permutations(Procs) \cup Permutations(Users) \cup Permutations(Options)
=============================================================================
