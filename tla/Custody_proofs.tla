---------------------------- MODULE Custody_proofs ----------------------------
(***************************************************************************)
(* Proofs about Custody: that its steps amount to what it promises, for    *)
(* any goods and any consignments. What implements Custody inherits them.  *)
(***************************************************************************)
EXTENDS Custody, TLAPS

Placed ==
    /\ shelf \in SUBSET Goods
    /\ packed \in [Consignments -> SUBSET Goods]
    /\ gone \in [Consignments -> SUBSET Goods]

\* Shelf and consignments share no goods, and a consignment has left as a whole or not at all.
OnePlace ==
    /\ \A c \in Consignments : shelf \cap (packed[c] \cup gone[c]) = {}
    /\ \A c \in Consignments : packed[c] = {} \/ gone[c] = {}
    /\ \A c, d \in Consignments :
        c # d => (packed[c] \cup gone[c]) \cap (packed[d] \cup gone[d]) = {}

CustodyInv == Placed /\ OnePlace

\* An empty warehouse is in order.
LEMMA EmptyInOrder == Init => CustodyInv
  BY DEF Init, CustodyInv, Placed, OnePlace, Nothing

\* Whatever is done, goods that are handled stay handled and goods that left stay out.
GoodsStay == Handled \subseteq Handled' /\ \A c \in Consignments : gone[c] \subseteq gone'[c]

\* What is handled is on the shelf or with some consignment.
LEMMA HandledIn ==
  ASSUME NEW g
  PROVE  /\ g \in Handled <=> g \in shelf \/ \E c \in Consignments : g \in packed[c] \cup gone[c]
         /\ (g \in Handled)' <=> g \in shelf' \/ \E c \in Consignments : g \in packed'[c] \cup gone'[c]
  BY DEF Handled

\* Every step keeps all goods, each in one place.
LEMMA CustodyKeeps == CustodyInv /\ [Next]_cvars => CustodyInv' /\ GoodsStay
<1> SUFFICES ASSUME CustodyInv, [Next]_cvars PROVE CustodyInv' /\ GoodsStay
  OBVIOUS
<1> USE DEF CustodyInv, Placed
<1>0. ASSUME \A g \in Goods : g \in Handled => (g \in Handled)',
             \A c \in Consignments : gone[c] \subseteq gone'[c]
      PROVE  GoodsStay
  <2>1. ASSUME NEW g \in Handled PROVE g \in Goods
    BY HandledIn
  <2> QED
    BY <1>0, <2>1 DEF GoodsStay
<1>1. ASSUME NEW g \in Goods, Arrive(g) PROVE CustodyInv' /\ GoodsStay
  <2>1. g \notin shelf /\ \A c \in Consignments : g \notin packed[c] \cup gone[c]
    BY <1>1, HandledIn DEF Arrive
  <2>2. OnePlace'
    BY <1>1, <2>1 DEF Arrive, OnePlace
  <2> QED
    BY <1>0, <1>1, <2>2, HandledIn DEF Arrive
<1>2. ASSUME NEW k \in Consignments, NEW gs \in SUBSET Goods, Pack(k, gs)
      PROVE  CustodyInv' /\ GoodsStay
  <2>1. /\ gs \subseteq shelf /\ shelf' = shelf \ gs /\ gone' = gone
        /\ packed[k] = {} /\ gone[k] = {} /\ packed'[k] = gs
        /\ \A c \in Consignments \ {k} : packed'[c] = packed[c]
    BY <1>2 DEF Pack
  <2>2. packed' \in [Consignments -> SUBSET Goods]
    BY <1>2 DEF Pack
  <2>3. OnePlace'
    BY <2>1 DEF OnePlace
  <2>4. GoodsStay
    BY <1>0, <2>1, HandledIn
  <2> QED
    BY <2>1, <2>2, <2>3, <2>4
<1>3. ASSUME NEW k \in Consignments, Unpack(k) PROVE CustodyInv' /\ GoodsStay
  <2>1. /\ shelf' = shelf \cup packed[k] /\ gone' = gone /\ packed'[k] = {}
        /\ \A c \in Consignments \ {k} : packed'[c] = packed[c]
    BY <1>3 DEF Unpack
  <2>2. packed' \in [Consignments -> SUBSET Goods]
    BY <1>3 DEF Unpack
  <2>3. OnePlace'
    BY <2>1 DEF OnePlace
  <2>4. GoodsStay
    BY <1>0, <2>1, HandledIn
  <2> QED
    BY <2>1, <2>2, <2>3, <2>4
<1>4. ASSUME NEW cs \in SUBSET Consignments, Dispatch(cs) PROVE CustodyInv' /\ GoodsStay
  <2>1. /\ shelf' = shelf
        /\ \A c \in cs : gone[c] = {} /\ packed'[c] = {} /\ gone'[c] = packed[c]
        /\ \A c \in Consignments \ cs : packed'[c] = packed[c] /\ gone'[c] = gone[c]
    BY <1>4 DEF Dispatch, OnePlace
  <2>2. packed' \in [Consignments -> SUBSET Goods] /\ gone' \in [Consignments -> SUBSET Goods]
    BY <1>4 DEF Dispatch
  <2>3. \A c \in Consignments : packed'[c] \cup gone'[c] = packed[c] \cup gone[c]
    BY <2>1
  <2>4. OnePlace'
    BY <2>1, <2>3 DEF OnePlace
  <2>5. GoodsStay
    BY <1>0, <2>1, <2>3, HandledIn
  <2> QED
    BY <2>1, <2>2, <2>4, <2>5
<1>5. CASE UNCHANGED cvars
  BY <1>5 DEF cvars, OnePlace, GoodsStay, Handled
<1> QED
  BY <1>1, <1>2, <1>3, <1>4, <1>5 DEF Next

\* Goods are on the shelf, in one consignment that waits, or in one that has left.
THEOREM CustodyOnePlace == Spec => []OnePlace
<1>1. Spec => []CustodyInv
  BY EmptyInOrder, CustodyKeeps, PTL DEF Spec
<1> QED
  BY <1>1, PTL DEF CustodyInv

\* No step loses goods or takes back what has left.
THEOREM CustodyKeepsGoods == Spec => [][GoodsStay]_cvars
  BY EmptyInOrder, CustodyKeeps, PTL DEF Spec
=============================================================================
