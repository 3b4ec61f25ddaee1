------------------------------- MODULE MCWallet -------------------------------
(* Wallet on small instances: symmetric members, requests and keys.         *)
EXTENDS Wallet, TLC

Symmetry == Permutations(Users) \cup Permutations(Requests) \cup Permutations(Keys)
=============================================================================
