---------------------------- MODULE MCTransfers -----------------------------
(* Instances of Transfers for TLC. *)
EXTENDS Transfers, TLC

CONSTANTS u1, u2

Purses == u1 :> 2 @@ u2 :> 0

CallIds == 1..MaxCalls

ProcSymmetry == Permutations(Procs)
=============================================================================
