----------------------------- MODULE MCPayments -----------------------------
(* Instances of Payments for TLC. *)
EXTENDS Payments, TLC

CONSTANTS u1

NothingYet == u1 :> 0

CallIds == 1..MaxCalls

ProcSymmetry == Permutations(Procs)
=============================================================================
