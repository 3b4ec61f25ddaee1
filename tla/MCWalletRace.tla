----------------------------- MODULE MCWalletRace -----------------------------
(* WalletRace with a handful of requests that compete for two bills, one    *)
(* remittance and one wallet.                                               *)
EXTENDS WalletRace, TLC

CONSTANTS u1, w1, o1, r1, k1

Job(kind, amount, ref, key) ==
    [kind |-> kind, user |-> u1, amount |-> amount, ref |-> ref, key |-> key]

\* The purchase is paid with the key of the waybill, by mistake.
SomeJobs == {Job("recharge", 1, Null, Null), Job("deduct", 1, Null, Null),
             Job("submit", 1, Null, Null), Job("approve", 1, r1, Null), Job("reject", 1, r1, Null),
             Job("pay", 0, w1, k1), Job("pay", 0, o1, k1)}

Symmetry == Permutations(Clients)
=============================================================================
