---------------------------- MODULE MCWalletRepo ----------------------------
(* Instances of WalletRepo for TLC. *)
EXTENDS WalletRepo, TLC

CONSTANTS u1, u2

OneOpen == u1 :> 2 @@ u2 :> 0       \* u2's row is created on first use

ProcSymmetry == Permutations(Procs)
=============================================================================
