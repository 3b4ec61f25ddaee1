--------------------------------- MODULE MCERP ---------------------------------
(* Goods, money and purchases together on small instances.                  *)
EXTENDS ERP, TLC

Symmetry == Permutations(Parcels) \cup Permutations(Waybills) \cup Permutations(Users)
            \cup Permutations(Keys) \cup Permutations(Requests)
=============================================================================
