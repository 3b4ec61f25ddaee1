--------------------------- MODULE Purchases_proofs ---------------------------
(***************************************************************************)
(* Proofs about Intake and Purchases together, for every set of tracking   *)
(* numbers, members, warehouses and purchase orders.                       *)
(***************************************************************************)
EXTENDS Purchases, TLAPS

\* A claim under review and an order that exists name their member, and a number that
\* was scanned unannounced names the warehouse it was found in.
RowsNamed ==
    /\ \A n \in Numbers : unclaimed[n].status # "NONE" => unclaimed[n].warehouse \in Warehouses
    /\ \A n \in Numbers : unclaimed[n].status = "CLAIM_PENDING" => unclaimed[n].claimed_by \in Users
    /\ \A o \in Orders : orders[o].status # "NONE" => orders[o].user \in Users

\* What the parcels and the claims owe each other, whatever the orders do.
IntakeInv == IntakeTypeOK /\ RowsNamed /\ InboundOnce /\ ClaimBecameParcel

OrderInv == TypeOK /\ TaskFollowsOrder /\ WorkIsPaid /\ ConvertedOnce

\* Empty tables satisfy everything.
LEMMA SourcingInit == Init => IntakeInv /\ OrderInv
  BY DEF Init, IntakeInit, IntakeInv, OrderInv, IntakeTypeOK, TypeOK, RowsNamed, InboundOnce,
         ClaimBecameParcel, TaskFollowsOrder, WorkIsPaid, ConvertedOnce, ParcelRow, UnclaimedRow,
         OrderRow, TaskStatus, AfterPayment, InWork

\* Parcels only ever come into stock; once there, they keep owner and warehouse, and a
\* claim is only ever approved for a number that had no parcel.
StockKept ==
    \A n \in Numbers :
        /\ parcels[n].status = "IN_STOCK" =>
                parcels'[n].status = "IN_STOCK" /\ parcels'[n].user = parcels[n].user
        /\ parcels[n].status = "IN_STOCK" /\ unclaimed[n].status # "CLAIMED" =>
                unclaimed'[n].status # "CLAIMED"

\* Every operation of the intake keeps its invariant and disturbs no stock.
LEMMA IntakeStep ==
  ASSUME IntakeInv, IntakeNext, UNCHANGED <<orders, tasks>>
  PROVE  IntakeInv' /\ StockKept
<1> USE DEF IntakeInv, IntakeTypeOK, RowsNamed, InboundOnce, ClaimBecameParcel, ParcelRow,
            UnclaimedRow, StockKept
<1>1. ASSUME NEW u \in Users, NEW ns \in SUBSET Numbers, NEW at \in [ns -> Warehouses],
             ForecastParcels(u, at)
      PROVE  IntakeInv' /\ StockKept
  BY <1>1 DEF ForecastParcels
<1>2. ASSUME NEW n \in Numbers, TakeIn(n) PROVE IntakeInv' /\ StockKept
  BY <1>2 DEF TakeIn
<1>3. ASSUME NEW n \in Numbers, NEW wh \in Warehouses, ScanInbound(n, wh)
      PROVE  IntakeInv' /\ StockKept
  <2>1. CASE parcels[n].status # "NONE" /\ parcels[n].warehouse = wh
    BY <1>2, <1>3, <2>1 DEF ScanInbound
  <2>2. CASE ~ (parcels[n].status # "NONE" /\ parcels[n].warehouse = wh)
    <3>1. /\ parcels' = parcels /\ unclaimed[n].status = "NONE"
          /\ unclaimed' = [unclaimed EXCEPT ![n] =
                [status |-> "UNCLAIMED", warehouse |-> wh, claimed_by |-> Null]]
      BY <1>3, <2>2 DEF ScanInbound
    <3>2. unclaimed' \in [Numbers -> UnclaimedRow]
      BY <3>1
    <3> QED
      BY <3>1, <3>2
  <2> QED
    BY <2>1, <2>2
<1>4. ASSUME NEW n \in Numbers, NEW u \in Users, SubmitClaim(n, u) PROVE IntakeInv' /\ StockKept
  BY <1>4 DEF SubmitClaim
<1>5. ASSUME NEW n \in Numbers, ApproveClaim(n) PROVE IntakeInv' /\ StockKept
  BY <1>5 DEF ApproveClaim, EnterStock
<1>6. ASSUME NEW n \in Numbers, RejectClaim(n) PROVE IntakeInv' /\ StockKept
  BY <1>6 DEF RejectClaim
<1> QED
  BY <1>1, <1>2, <1>3, <1>4, <1>5, <1>6 DEF IntakeNext, InboundParcel

\* An order step other than a conversion leaves the intake alone.
LEMMA AdvanceStep ==
  ASSUME IntakeInv, OrderInv, UNCHANGED intakeVars, NEW o \in Orders,
         \/ \E u \in Users : CreatePurchaseOrder(o, u)
         \/ PayPurchaseOrder(o) \/ ReviewPurchaseOrder(o) \/ ProcurePurchaseOrder(o)
         \/ MarkArrived(o) \/ MarkException(o) \/ CancelPurchaseOrder(o)
  PROVE  IntakeInv' /\ OrderInv'
<1> USE DEF OrderInv, TypeOK, OrderRow, TaskStatus, InWork, AfterPayment
<1>1. \A other \in Orders \ {o} : orders'[other] = orders[other] /\ tasks'[other] = tasks[other]
  BY DEF CreatePurchaseOrder, PayPurchaseOrder, ReviewPurchaseOrder, ProcurePurchaseOrder,
         MarkArrived, MarkException, CancelPurchaseOrder, Advance
<1> DEFINE Sound ==
        /\ orders' \in [Orders -> OrderRow] /\ tasks' \in [Orders -> TaskStatus]
        /\ orders[o].status # "COMPLETED" /\ orders'[o].status \notin {"NONE", "COMPLETED"}
        /\ orders'[o].parcel = orders[o].parcel /\ orders'[o].user \in Users
        /\ TaskFollowsOrder' /\ WorkIsPaid'
<1>2. Sound
  <2>0. orders[o] \in OrderRow /\ orders[o].user \in Users \cup {Null}
    OBVIOUS
  <2> USE <1>1 DEF IntakeInv, RowsNamed, TaskFollowsOrder, WorkIsPaid, Advance, TaskOf
  <2>1. ASSUME NEW u \in Users, CreatePurchaseOrder(o, u) PROVE Sound
    <3>1. orders'[o] = [status |-> "PENDING_PAYMENT", user |-> u, paid |-> orders[o].paid,
                        parcel |-> orders[o].parcel]
      BY <2>0, <2>1 DEF CreatePurchaseOrder
    <3>2. orders'[o] \in OrderRow /\ orders'[o].status = "PENDING_PAYMENT" /\ orders'[o].user = u
          /\ orders'[o].paid = orders[o].paid /\ orders'[o].parcel = orders[o].parcel
      BY <2>0, <3>1
    <3>3. orders[o].status = "NONE" /\ tasks' = tasks
      BY <2>1 DEF CreatePurchaseOrder
    <3>4. orders' \in [Orders -> OrderRow]
      BY <2>1, <3>2 DEF CreatePurchaseOrder
    <3> QED
      BY <3>2, <3>3, <3>4
  <2>2. CASE PayPurchaseOrder(o)
    <3>1. orders'[o] = [status |-> "PENDING_REVIEW", user |-> orders[o].user, paid |-> TRUE,
                        parcel |-> orders[o].parcel]
      BY <2>0, <2>2 DEF PayPurchaseOrder
    <3>2. orders'[o] \in OrderRow /\ orders'[o].status = "PENDING_REVIEW" /\ orders'[o].paid
          /\ orders'[o].user = orders[o].user /\ orders'[o].parcel = orders[o].parcel
      BY <2>0, <3>1
    <3>3. orders[o].status = "PENDING_PAYMENT" /\ tasks' = tasks
      BY <2>2 DEF PayPurchaseOrder
    <3>4. orders' \in [Orders -> OrderRow]
      BY <2>2, <3>2 DEF PayPurchaseOrder
    <3> QED
      BY <3>2, <3>3, <3>4
  <2>3. CASE ReviewPurchaseOrder(o)
    BY <2>3 DEF ReviewPurchaseOrder
  <2>4. CASE ProcurePurchaseOrder(o)
    BY <2>4 DEF ProcurePurchaseOrder
  <2>5. CASE MarkArrived(o)
    BY <2>5 DEF MarkArrived
  <2>6. CASE MarkException(o)
    BY <2>6 DEF MarkException
  <2>7. CASE CancelPurchaseOrder(o)
    BY <2>7 DEF CancelPurchaseOrder
  <2> QED
    BY <2>1, <2>2, <2>3, <2>4, <2>5, <2>6, <2>7
<1>3. IntakeInv'
  BY <1>1, <1>2 DEF IntakeInv, IntakeTypeOK, RowsNamed, InboundOnce, ClaimBecameParcel, intakeVars
<1>4. ConvertedOnce'
  BY <1>1, <1>2 DEF ConvertedOnce, intakeVars
<1> QED
  BY <1>2, <1>3, <1>4 DEF IntakeInv

\* A conversion is an arrival for a number no other order and no claim has.
LEMMA ConvertStep ==
  ASSUME IntakeInv, OrderInv, NEW o \in Orders, NEW n \in Numbers, NEW wh \in Warehouses,
         ConvertToParcel(o, n, wh)
  PROVE  IntakeInv' /\ OrderInv'
<1> USE DEF ConvertToParcel, EnterStock
<1>1. orders[o].user \in Users
  BY DEF IntakeInv, RowsNamed
<1>2. IntakeInv'
  BY <1>1 DEF IntakeInv, IntakeTypeOK, RowsNamed, InboundOnce, ClaimBecameParcel, ParcelRow,
              OrderInv, TypeOK, OrderRow
<1>3. orders' \in [Orders -> OrderRow]
  BY DEF OrderInv, TypeOK, OrderRow, AfterPayment
<1>4. ConvertedOnce'
  BY NullAssumption DEF OrderInv, TypeOK, OrderRow, ConvertedOnce, IntakeInv, IntakeTypeOK,
                        ParcelRow, ClaimBecameParcel
<1>5. TaskFollowsOrder' /\ WorkIsPaid'
  BY DEF OrderInv, TypeOK, OrderRow, TaskFollowsOrder, WorkIsPaid, AfterPayment
<1> QED
  BY <1>2, <1>3, <1>4, <1>5 DEF OrderInv, TypeOK, IntakeInv

\* Every step keeps the whole invariant.
LEMMA SourcingStep == IntakeInv /\ OrderInv /\ [Next]_vars => IntakeInv' /\ OrderInv'
<1> SUFFICES ASSUME IntakeInv, OrderInv, [Next]_vars PROVE IntakeInv' /\ OrderInv'
  OBVIOUS
<1>1. CASE IntakeNext /\ UNCHANGED <<orders, tasks>>
  <2>1. IntakeInv' /\ StockKept
    BY <1>1, IntakeStep
  <2>2. ConvertedOnce'
    BY <1>1, <2>1 DEF OrderInv, TypeOK, OrderRow, ConvertedOnce, StockKept
  <2> QED
    BY <1>1, <2>1, <2>2 DEF OrderInv, TypeOK, IntakeInv, TaskFollowsOrder, WorkIsPaid
<1>2. CASE OrderStep
  <2>1. ASSUME NEW o \in Orders, NEW n \in Numbers, NEW wh \in Warehouses, ConvertToParcel(o, n, wh)
        PROVE  IntakeInv' /\ OrderInv'
    BY <2>1, ConvertStep
  <2>2. ASSUME NEW o \in Orders,
               \/ \E u \in Users : CreatePurchaseOrder(o, u)
               \/ PayPurchaseOrder(o) \/ ReviewPurchaseOrder(o) \/ ProcurePurchaseOrder(o)
               \/ MarkArrived(o) \/ MarkException(o) \/ CancelPurchaseOrder(o)
        PROVE  IntakeInv' /\ OrderInv'
    <3>1. UNCHANGED intakeVars
      BY <2>2 DEF CreatePurchaseOrder, PayPurchaseOrder, ReviewPurchaseOrder, ProcurePurchaseOrder,
                  MarkArrived, MarkException, CancelPurchaseOrder, Advance
    <3> QED
      BY <2>2, <3>1, AdvanceStep
  <2> QED
    BY <1>2, <2>1, <2>2 DEF OrderStep
<1>3. CASE UNCHANGED vars
  BY <1>3 DEF vars, intakeVars, IntakeInv, OrderInv, IntakeTypeOK, TypeOK, RowsNamed,
              InboundOnce, ClaimBecameParcel, TaskFollowsOrder, WorkIsPaid, ConvertedOnce
<1> QED
  BY <1>1, <1>2, <1>3 DEF Next

\* Parcels, claims, orders and tasks always satisfy the invariant.
THEOREM SourcingCorrect == Spec => [](IntakeInv /\ OrderInv)
  BY SourcingInit, SourcingStep, PTL DEF Spec

\* Every row has a legal status and names a member, a warehouse and a parcel that exist.
THEOREM SourcingTypeCorrect == Spec => []TypeOK
  BY SourcingCorrect, PTL DEF OrderInv

\* A tracking number is received once, in whatever way it comes in.
THEOREM AlwaysInboundOnce == Spec => []InboundOnce
  BY SourcingCorrect, PTL DEF IntakeInv

\* An approved claim is the claimant's parcel.
THEOREM AlwaysClaimBecameParcel == Spec => []ClaimBecameParcel
  BY SourcingCorrect, PTL DEF IntakeInv

\* The procurement task stays in step with its order.
THEOREM AlwaysTaskFollowsOrder == Spec => []TaskFollowsOrder
  BY SourcingCorrect, PTL DEF OrderInv

\* No purchase is worked on unpaid.
THEOREM AlwaysWorkIsPaid == Spec => []WorkIsPaid
  BY SourcingCorrect, PTL DEF OrderInv

\* A completed order has exactly one parcel, which no other order has.
THEOREM AlwaysConvertedOnce == Spec => []ConvertedOnce
  BY SourcingCorrect, PTL DEF OrderInv
-----------------------------------------------------------------------------
(* What a step may never do, and the arrivals as Fulfilment knows them.    *)

\* The action under the box of OwnershipKept.
OwnersStay ==
    \A n \in Numbers :
        /\ unclaimed[n].status = "CLAIM_PENDING" =>
                \/ unclaimed'[n].claimed_by = unclaimed[n].claimed_by
                \/ unclaimed'[n].status = "UNCLAIMED"
        /\ parcels[n].status # "NONE" =>
                /\ parcels'[n].user = parcels[n].user
                /\ parcels'[n].warehouse = parcels[n].warehouse

\* An operation of the intake takes neither a claim nor a parcel from its member.
LEMMA IntakeOwners == ASSUME IntakeTypeOK, IntakeNext PROVE OwnersStay
<1> USE DEF IntakeTypeOK, ParcelRow, UnclaimedRow, OwnersStay
<1>1. ASSUME NEW u \in Users, NEW ns \in SUBSET Numbers, NEW at \in [ns -> Warehouses],
             ForecastParcels(u, at)
      PROVE  OwnersStay
  BY <1>1 DEF ForecastParcels
<1>2. ASSUME NEW n \in Numbers, TakeIn(n) PROVE OwnersStay
  BY <1>2 DEF TakeIn
<1>3. ASSUME NEW n \in Numbers, NEW wh \in Warehouses, ScanInbound(n, wh) PROVE OwnersStay
  BY <1>2, <1>3 DEF ScanInbound
<1>4. ASSUME NEW n \in Numbers, NEW u \in Users, SubmitClaim(n, u) PROVE OwnersStay
  BY <1>4 DEF SubmitClaim
<1>5. ASSUME NEW n \in Numbers, ApproveClaim(n) PROVE OwnersStay
  BY <1>5 DEF ApproveClaim, EnterStock
<1>6. ASSUME NEW n \in Numbers, RejectClaim(n) PROVE OwnersStay
  BY <1>6 DEF RejectClaim
<1> HIDE DEF OwnersStay
<1> QED
  BY <1>1, <1>2, <1>3, <1>4, <1>5, <1>6 DEF IntakeNext, InboundParcel

\* An order changes the intake only by a conversion, which brings a new parcel.
LEMMA OrderArrivals ==
  ASSUME OrderStep
  PROVE  \/ UNCHANGED intakeVars
         \/ /\ UNCHANGED unclaimed
            /\ \E o \in Orders, n \in Numbers, wh \in Warehouses : EnterStock(n, orders[o].user, wh)
<1>1. ASSUME NEW o \in Orders, NEW n \in Numbers, NEW wh \in Warehouses, ConvertToParcel(o, n, wh)
      PROVE  UNCHANGED unclaimed /\ EnterStock(n, orders[o].user, wh)
  BY <1>1 DEF ConvertToParcel
<1> QED
  BY <1>1 DEF OrderStep, CreatePurchaseOrder, PayPurchaseOrder, ReviewPurchaseOrder,
              ProcurePurchaseOrder, MarkArrived, MarkException, CancelPurchaseOrder, Advance

\* A claim is its first claimant's until it is rejected, a parcel its owner's for good.
THEOREM OwnershipCorrect == Spec => OwnershipKept
<1>1. ASSUME IntakeTypeOK, NEW n \in Numbers, NEW u, NEW wh, EnterStock(n, u, wh),
             UNCHANGED unclaimed
      PROVE  OwnersStay
  BY <1>1 DEF EnterStock, IntakeTypeOK, ParcelRow, OwnersStay
<1>2. IntakeTypeOK /\ [Next]_vars => [OwnersStay]_intakeVars
  BY <1>1, IntakeOwners, OrderArrivals DEF Next, vars, intakeVars
<1>3. Spec => []IntakeTypeOK
  BY SourcingCorrect, PTL DEF IntakeInv
<1>4. Spec => [][OwnersStay]_intakeVars
  BY <1>2, <1>3, PTL DEF Spec
<1> QED
  BY <1>4 DEF OwnershipKept, OwnersStay

\* Empty tables are empty tables.
LEMMA ArrivalsInit == IntakeInit => Core!Init
<1>1. <<>> = [w \in {} |-> 0]
  OBVIOUS
<1> QED
  BY <1>1 DEF IntakeInit, Core!Init

\* Each operation of the intake is an arrival or a forecast, or does not concern parcels.
LEMMA ArrivalsStep ==
  ASSUME IntakeInv, IntakeNext PROVE [Core!Next]_(Core!vars)
<1> USE DEF Core!vars
<1>1. ASSUME NEW u \in Users, NEW ns \in SUBSET Numbers, NEW at \in [ns -> Warehouses],
             ForecastParcels(u, at)
      PROVE  Core!Next
  <2>1. Core!ForecastParcels(u, at)
    BY <1>1 DEF ForecastParcels, Core!ForecastParcels
  <2> QED
    BY <2>1 DEF Core!Next, Core!ParcelStep
<1>2. ASSUME NEW n \in Numbers, TakeIn(n) PROVE Core!Next
  <2>1. Core!InboundParcel(n)
    BY <1>2 DEF TakeIn, Core!InboundParcel
  <2> QED
    BY <2>1 DEF Core!Next, Core!ParcelStep
<1>3. ASSUME NEW n \in Numbers, NEW u \in Users, NEW wh \in Warehouses, EnterStock(n, u, wh)
      PROVE  Core!Next
  <2>1. Core!EnterStock(n, u, wh)
    BY <1>3 DEF EnterStock, Core!EnterStock
  <2> QED
    BY <2>1 DEF Core!Next, Core!ParcelStep
<1>4. ASSUME NEW n \in Numbers, ApproveClaim(n) PROVE parcels' = parcels \/ Core!Next
  <2>1. unclaimed[n].claimed_by \in Users
    BY <1>4 DEF ApproveClaim, IntakeInv, RowsNamed
  <2>2. unclaimed[n].warehouse \in Warehouses
    BY <1>4 DEF ApproveClaim, IntakeInv, RowsNamed
  <2> QED
    BY <1>3, <1>4, <2>1, <2>2 DEF ApproveClaim
<1> QED
  BY <1>1, <1>2, <1>3, <1>4 DEF IntakeNext, InboundParcel, ScanInbound, SubmitClaim, RejectClaim

\* To the rest of the system every step of the intake and of the purchases is a
\* forecast, an arrival, or nothing.
THEOREM ArrivalsCorrect == Spec => ImplementsArrivals
<1>1. ASSUME IntakeInv, OrderInv, NEW o \in Orders, NEW n \in Numbers, NEW wh \in Warehouses,
             EnterStock(n, orders[o].user, wh), ConvertToParcel(o, n, wh)
      PROVE  Core!Next
  <2>1. orders[o].user \in Users
    BY <1>1 DEF IntakeInv, RowsNamed, ConvertToParcel
  <2>2. Core!EnterStock(n, orders[o].user, wh)
    BY <1>1 DEF EnterStock, Core!EnterStock
  <2> QED
    BY <2>1, <2>2 DEF Core!Next, Core!ParcelStep
<1>2. ASSUME IntakeInv, OrderInv, OrderStep PROVE [Core!Next]_(Core!vars)
  <2>1. ASSUME NEW o \in Orders, NEW n \in Numbers, NEW wh \in Warehouses, ConvertToParcel(o, n, wh)
        PROVE  Core!Next
    BY <1>1, <1>2, <2>1 DEF ConvertToParcel
  <2>2. parcels' = parcels \/ Core!Next
    BY <1>2, <2>1 DEF OrderStep, CreatePurchaseOrder, PayPurchaseOrder, ReviewPurchaseOrder,
                ProcurePurchaseOrder, MarkArrived, MarkException, CancelPurchaseOrder, Advance,
                intakeVars
  <2> QED
    BY <2>2 DEF Core!vars
<1>3. UNCHANGED vars => UNCHANGED Core!vars
  BY DEF vars, intakeVars, Core!vars
<1>4. IntakeInv /\ OrderInv /\ [Next]_vars => [Core!Next]_(Core!vars)
  BY <1>2, <1>3, ArrivalsStep DEF Next
<1>5. Init => Core!Init
  BY ArrivalsInit DEF Init
<1> QED
  BY <1>4, <1>5, SourcingCorrect, PTL DEF Spec, ImplementsArrivals, Core!Spec
=============================================================================
