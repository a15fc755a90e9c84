---------------------------- MODULE MCPurchases -----------------------------
(* Instances of Purchases for TLC. *)
EXTENDS Purchases, TLC

CONSTANTS u1, plain, gold

Purse == u1 :> 3
Prices == plain :> 1 @@ gold :> 0      \* gold: free, but for subscribers
\* Of one plan the two numbers differ.
PlanPrices ==
    LET Plan(inr, usd) == "INR" :> inr @@ "USD" :> usd
    IN "free" :> Plan(0, 0) @@ "premium" :> Plan(1, 1) @@ "business" :> Plan(2, 1)

CallIds == 1..MaxCalls

ProcSymmetry == Permutations(Procs)
=============================================================================
