------------------------------- MODULE Custody -------------------------------
(***************************************************************************)
(* What the warehouse promises about goods, whatever waybills and batches  *)
(* do underneath: a parcel that has arrived is in exactly one place, it    *)
(* travels as part of one whole consignment, and what has left stays out.  *)
(* This module states the promise and translates no code by itself:        *)
(* Fulfilment is shown to implement it.                                    *)
(***************************************************************************)
CONSTANTS Goods, Consignments

VARIABLES
    shelf,      \* goods in stock
    packed,     \* goods set aside for each consignment
    gone        \* goods that left with each consignment

cvars == <<shelf, packed, gone>>

Nothing == [c \in Consignments |-> {}]

Init == shelf = {} /\ packed = Nothing /\ gone = Nothing

Handled == shelf \cup UNION {packed[c] \cup gone[c] : c \in Consignments}

\* A parcel arrives, and never twice.
Arrive(g) ==
    /\ g \notin Handled
    /\ shelf' = shelf \cup {g}
    /\ UNCHANGED <<packed, gone>>

\* Goods on the shelf are set aside for a consignment that has none.
Pack(c, gs) ==
    /\ gs # {} /\ gs \subseteq shelf
    /\ packed[c] = {} /\ gone[c] = {}
    /\ shelf' = shelf \ gs
    /\ packed' = [packed EXCEPT ![c] = gs]
    /\ UNCHANGED gone

\* A consignment is called off: all its goods go back.
Unpack(c) ==
    /\ shelf' = shelf \cup packed[c]
    /\ packed' = [packed EXCEPT ![c] = {}]
    /\ UNCHANGED gone

\* Some consignments leave together, each of them whole.
Dispatch(cs) ==
    /\ \A c \in cs : packed[c] # {}
    /\ packed' = [c \in Consignments |-> IF c \in cs THEN {} ELSE packed[c]]
    /\ gone' = [c \in Consignments |-> IF c \in cs THEN packed[c] ELSE gone[c]]
    /\ UNCHANGED shelf

Next ==
    \/ \E g \in Goods : Arrive(g)
    \/ \E c \in Consignments, gs \in SUBSET Goods : Pack(c, gs)
    \/ \E c \in Consignments : Unpack(c)
    \/ \E cs \in SUBSET Consignments : Dispatch(cs)

Spec == Init /\ [][Next]_cvars
=============================================================================
