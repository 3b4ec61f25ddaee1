----------------------------- MODULE MCPurchases -----------------------------
(* Intake and Purchases together on small instances, everything symmetric.  *)
EXTENDS Purchases, TLC

Symmetry == Permutations(Numbers) \cup Permutations(Users) \cup Permutations(Warehouses)
            \cup Permutations(Orders)
=============================================================================
