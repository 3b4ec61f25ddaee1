---------------------------- MODULE MCFulfilment ----------------------------
(* Fulfilment on small instances: symmetric parcels and waybills.           *)
EXTENDS Fulfilment, TLC

Symmetry == Permutations(Parcels) \cup Permutations(Waybills) \cup Permutations(Batches)
            \cup Permutations(Users) \cup Permutations(Warehouses) \cup Permutations(Channels)
=============================================================================
