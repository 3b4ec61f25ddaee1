------------------------------ MODULE ERP_proofs ------------------------------
(***************************************************************************)
(* Proofs about ERP, for every set of parcels, waybills, batches, purchase *)
(* orders, members and keys, and for every fee and amount.                 *)
(*                                                                         *)
(* The argument has three parts: the rows shared by two sides satisfy one  *)
(* inductive invariant; under it every step of the whole is a step of each *)
(* side, so that what was proved of a side holds in the whole; and three   *)
(* such facts, one of each side, meet in GoodsArePaid.                     *)
(***************************************************************************)
EXTENDS ERP, Fulfilment_proofs

\* What was proved about the other two sides, over the rows of the whole.
Buying == INSTANCE Purchases_proofs WITH Numbers <- Parcels, parcels <- Stock, orders <- purchases
Paying == INSTANCE Wallet_proofs WITH
    Purchases <- Orders, Amounts <- Amounts \cup Fees, orders <- charges, bills <- BillRows

\* What Purchases assumes of its constants.
LEMMA BuyingAssumed == Null \notin Users \cup Warehouses \cup Parcels
  BY NullAssumption, NoRowAssumption

\* What Wallet assumes of its constants.
LEMMA PayingAssumed ==
  /\ Home \in Currencies
  /\ Amounts \cup Fees \subseteq Nat /\ MaxBalance \in Nat /\ MaxRows \in Nat
  /\ Waybills \cap Orders = {} /\ Paying!Bills \cap Requests = {}
  /\ Null \notin Users \cup Keys \cup Paying!Bills \cup Requests
  BY HomeAssumption, AmountsAssumption, ReferencesAssumption, NoRowAssumption, NullAssumption,
     FeesAssumption DEF Paying!Bills

\* The steps of Purchases are the steps its proofs are about.
LEMMA BuyingNext == Sourcing!Next <=> Buying!Next
  BY DEF Sourcing!Next, Buying!Next, Sourcing!IntakeNext, Buying!IntakeNext, Sourcing!OrderStep,
         Buying!OrderStep, Sourcing!ForecastParcels, Buying!ForecastParcels,
         Sourcing!InboundParcel, Buying!InboundParcel, Sourcing!TakeIn, Buying!TakeIn,
         Sourcing!ScanInbound, Buying!ScanInbound, Sourcing!SubmitClaim, Buying!SubmitClaim,
         Sourcing!ApproveClaim, Buying!ApproveClaim, Sourcing!RejectClaim, Buying!RejectClaim,
         Sourcing!EnterStock, Buying!EnterStock, Sourcing!Advance, Buying!Advance,
         Sourcing!TaskOf, Buying!TaskOf, Sourcing!InWork, Buying!InWork,
         Sourcing!intakeVars, Buying!intakeVars,
         Sourcing!CreatePurchaseOrder, Buying!CreatePurchaseOrder,
         Sourcing!PayPurchaseOrder, Buying!PayPurchaseOrder,
         Sourcing!ReviewPurchaseOrder, Buying!ReviewPurchaseOrder,
         Sourcing!ProcurePurchaseOrder, Buying!ProcurePurchaseOrder,
         Sourcing!MarkArrived, Buying!MarkArrived, Sourcing!MarkException, Buying!MarkException,
         Sourcing!CancelPurchaseOrder, Buying!CancelPurchaseOrder,
         Sourcing!ConvertToParcel, Buying!ConvertToParcel

\* The steps of Wallet are the steps its proofs are about.
LEMMA PayingNext == Money!Next <=> Paying!Next
  BY DEF Money!Next, Paying!Next, Money!AdminRecharge, Paying!AdminRecharge, Money!AdminDeduct,
         Paying!AdminDeduct, Money!SubmitRemittance, Paying!SubmitRemittance,
         Money!ApproveRemittance, Paying!ApproveRemittance, Money!CancelRemittance,
         Paying!CancelRemittance, Money!PresentBill, Paying!PresentBill, Money!CancelBill,
         Paying!CancelBill, Money!Pay, Paying!Pay, Money!Post, Paying!Post, Money!Fits, Paying!Fits,
         Money!Signed, Paying!Signed, Money!Credits, Paying!Credits, Money!Reviewable,
         Paying!Reviewable, Money!MayCancel, Paying!MayCancel, Money!Payable, Paying!Payable,
         Money!PaymentType, Paying!PaymentType, Money!Bills, Paying!Bills, Money!Wallets,
         Paying!Wallets

\* The empty tables are those of Purchases, and those its proofs start from.
LEMMA BuyingInit == Sourcing!Init <=> Buying!Init
  BY DEF Sourcing!Init, Buying!Init, Sourcing!IntakeInit, Buying!IntakeInit

\* The empty tables are those of Wallet, and those its proofs start from.
LEMMA PayingInit == Money!Init <=> Paying!Init
  BY DEF Money!Init, Paying!Init, Money!Wallets, Paying!Wallets, Money!Bills, Paying!Bills
-----------------------------------------------------------------------------
(* The invariant of the shared rows.                                       *)

\* A waybill has no fee until one is asked for, and is not paid for without one; an
\* inserted waybill names its member.
FeesAsked ==
    \A w \in Waybills :
        /\ waybills[w].status \in {"NONE", "PENDING_REVIEW", "PENDING_PACKING"} => waybills[w].fee = 0
        /\ waybills[w].status \in Paid => waybills[w].fee > 0
        /\ waybills[w].status # "NONE" => waybills[w].user \in Users

GoodsInv == TypeOK /\ CustodyInv /\ ScopeInv /\ FeesAsked
BuyingInv == Buying!IntakeInv /\ Buying!OrderInv
ERPInv == GoodsInv /\ BuyingInv /\ totals \in [Orders -> Nat]

\* To a bill, batches only ever ship what is paid for.
LEMMA BatchKeepsFees ==
  ASSUME TypeOK, BatchStep
  PROVE  \A w \in Waybills :
            /\ waybills'[w].user = waybills[w].user /\ waybills'[w].fee = waybills[w].fee
            /\ \/ waybills'[w].status = waybills[w].status
               \/ waybills[w].status \in Paid /\ waybills'[w].status \in Paid
<1> DEFINE Kept ==
        \A w \in Waybills :
            /\ waybills'[w].user = waybills[w].user /\ waybills'[w].fee = waybills[w].fee
            /\ \/ waybills'[w].status = waybills[w].status
               \/ waybills[w].status \in Paid /\ waybills'[w].status \in Paid
<1> USE DEF TypeOK, WaybillRow
<1>0. ASSUME waybills' = waybills PROVE Kept
  BY <1>0
<1>1. ASSUME NEW b, NEW row, NEW ws, Join(b, row, ws) PROVE Kept
  BY <1>1, JoinKeepsRows
<1>2. ASSUME NEW b \in Batches, NEW t \in TransferNos, UpdateShippingBatch(b, t) PROVE Kept
  BY <1>2 DEF UpdateShippingBatch
<1>3. ASSUME NEW b \in Batches, NEW w \in Waybills, RemoveWaybill(b, w) PROVE Kept
  BY <1>3 DEF RemoveWaybill
<1>4. ASSUME NEW b \in Batches, ShipShippingBatch(b) PROVE Kept
  BY <1>4 DEF ShipShippingBatch, Shippable, Paid, Gone
<1> HIDE DEF Kept
<1>5. ASSUME NEW b \in Batches, NEW t \in TransferNos, NEW ws \in SUBSET Waybills,
             CreateShippingBatch(b, t, ws)
      PROVE  Kept
  BY <1>0, <1>1, <1>5 DEF CreateShippingBatch
<1>6. ASSUME NEW b \in Batches, NEW ws \in SUBSET Waybills, AddWaybills(b, ws) PROVE Kept
  BY <1>1, <1>6 DEF AddWaybills
<1>7. Kept
  BY <1>0, <1>2, <1>3, <1>4, <1>5, <1>6 DEF BatchStep, LockShippingBatch, AddShippingBatchTrackingEvent
<1> QED
  BY <1>7 DEF Kept

\* Every operation on goods keeps fees in step with statuses.
LEMMA FeesStep == TypeOK /\ FeesAsked /\ [Next]_vars => FeesAsked'
<1> SUFFICES ASSUME TypeOK, FeesAsked, [Next]_vars PROVE FeesAsked'
  OBVIOUS
<1> USE DEF TypeOK, WaybillRow
<1>0. ASSUME \A w \in Waybills :
                /\ waybills'[w].user = waybills[w].user /\ waybills'[w].fee = waybills[w].fee
                /\ \/ waybills'[w].status = waybills[w].status
                   \/ waybills[w].status \in Paid /\ waybills'[w].status \in Paid
      PROVE  FeesAsked'
  BY <1>0 DEF FeesAsked, Paid, Gone
<1>1. CASE UNCHANGED waybills
  BY <1>0, <1>1
<1>2. ASSUME NEW w \in Waybills, NEW u \in Users, NEW ps \in SUBSET Parcels,
             NEW c \in Channels \cup {Null}, CreateWaybill(w, u, ps, c)
      PROVE  FeesAsked'
  <2>1. PICK wh : waybills' = [waybills EXCEPT ![w] =
            [@ EXCEPT !.status = "PENDING_REVIEW", !.user = u, !.warehouse = wh, !.channel = c]]
    BY <1>2 DEF CreateWaybill
  <2>2. waybills[w].fee = 0
    BY <1>2 DEF CreateWaybill, FeesAsked
  <2> QED
    BY <2>1, <2>2 DEF FeesAsked, Paid, Gone
<1>3. ASSUME NEW w \in Waybills, ReviewWaybill(w) PROVE FeesAsked'
  BY <1>3 DEF ReviewWaybill, SetWaybill, FeesAsked, Paid, Gone
<1>4. ASSUME NEW w \in Waybills, NEW fee \in Fees, SetWaybillFee(w, fee) PROVE FeesAsked'
  BY <1>4 DEF SetWaybillFee, FeesAsked, Paid, Gone
<1>5. ASSUME NEW w \in Waybills, PayWaybill(w) PROVE FeesAsked'
  BY <1>5 DEF PayWaybill, SetWaybill, FeesAsked, Paid, Gone
<1>6. ASSUME NEW w \in Waybills, CancelWaybill(w) PROVE FeesAsked'
  BY <1>6 DEF CancelWaybill, SetWaybill, FeesAsked, Paid, Gone, Cancellable, BeforePayment
<1>7. ASSUME NEW w \in Waybills, ShipWaybill(w) \/ ConfirmReceipt(w) PROVE FeesAsked'
  BY <1>0, <1>7 DEF ShipWaybill, ConfirmReceipt, Shippable, SetWaybill, Paid, Gone
<1>8. CASE BatchStep
  BY <1>0, <1>8, BatchKeepsFees
<1> QED
  BY <1>1, <1>2, <1>3, <1>4, <1>5, <1>6, <1>7, <1>8
     DEF Next, ParcelStep, ForecastParcels, InboundParcel, EnterStock, WaybillStep,
         AddTrackingEvent, vars
-----------------------------------------------------------------------------
(* A step of the whole is a step of every side.                            *)

\* To Fulfilment, what the other sides do are arrivals, payments or nothing. A purchase
\* that is converted has a member, so that its parcel has one.
LEMMA GoodsNext == ERPInv /\ [ERPNext]_allVars => [Next]_vars
<1> SUFFICES ASSUME ERPInv, [ERPNext]_allVars PROVE [Next]_vars
  OBVIOUS
<1>1. CASE Arrivals
  BY <1>1 DEF Arrivals, Next
<1>2. CASE Shipping
  BY <1>2 DEF Shipping, Next, WaybillStep
<1>3. ASSUME NEW w \in Waybills, NEW key \in Keys, PayForWaybill(w, key) PROVE Next
  BY <1>3 DEF PayForWaybill, Next, WaybillStep
<1>4. ASSUME NEW o \in Orders, NEW p \in Parcels, NEW wh \in Warehouses, ConvertPurchase(o, p, wh)
      PROVE  Next
  <2>1. purchases[o].status = "ARRIVED"
    BY <1>4 DEF ConvertPurchase, Sourcing!ConvertToParcel
  <2>2. purchases[o].user \in Users
    BY <2>1 DEF ERPInv, BuyingInv, Buying!IntakeInv, Buying!RowsNamed
  <2> QED
    BY <1>4, <2>2 DEF ConvertPurchase, Next, ParcelStep
<1> QED
  BY <1>1, <1>2, <1>3, <1>4
     DEF ERPNext, Finance, PlacePurchase, WorkOnPurchase, PayForPurchase, allVars, vars

\* What becomes of stock inside the warehouse is not seen from outside.
LEMMA SetParcelsStock ==
  ASSUME TypeOK, NEW ps, NEW s \in Shelved, \A p \in ps \cap Parcels : parcels[p].status \in Shelved,
         SetParcels(ps, s)
  PROVE  Stock' = Stock
<1>1. ASSUME NEW p \in Parcels PROVE Received(parcels'[p]) = Received(parcels[p])
  BY <1>1 DEF SetParcels, Received, Shelved, TypeOK, ParcelRow
<1> QED
  BY <1>1 DEF Stock

\* Waybills are made of stock, ship what was packed for them, and give back stock.
LEMMA ShippingStock == TypeOK /\ GoodsFollowWaybill /\ Shipping => Stock' = Stock
<1> SUFFICES ASSUME TypeOK, GoodsFollowWaybill, Shipping PROVE Stock' = Stock
  OBVIOUS
<1>0. ASSUME parcels' = parcels PROVE Stock' = Stock
  BY <1>0 DEF Stock
<1>1. ASSUME NEW w \in Waybills, NEW u \in Users, NEW ps \in SUBSET Parcels,
             NEW c \in Channels \cup {Null}, CreateWaybill(w, u, ps, c)
      PROVE  Stock' = Stock
  BY <1>1, SetParcelsStock DEF CreateWaybill, Selectable, Shelved
<1>2. ASSUME NEW w \in Waybills, CancelWaybill(w) PROVE Stock' = Stock
  BY <1>2, SetParcelsStock DEF CancelWaybill, Returned, Shelved
<1>3. ASSUME NEW ws \in SUBSET Waybills, \A w \in ws : Shippable(w),
             SetParcels(Contents(ws), "OUTBOUND")
      PROVE  Stock' = Stock
  <2>1. ASSUME NEW p \in Contents(ws) \cap Parcels PROVE parcels[p].status \in Shelved
    BY <1>3 DEF Contents, GoodsFollowWaybill, Shippable, Open, Shelved
  <2> QED
    BY <1>3, <2>1, SetParcelsStock DEF Shelved
<1>4. ASSUME NEW w \in Waybills, ShipWaybill(w) PROVE Stock' = Stock
  <2>1. Contents({w}) = links[w]
    BY DEF Contents
  <2> QED
    BY <1>3, <1>4, <2>1 DEF ShipWaybill
<1>5. ASSUME NEW b \in Batches, ShipShippingBatch(b) PROVE Stock' = Stock
  BY <1>3, <1>5 DEF ShipShippingBatch, Members
<1> QED
  BY <1>0, <1>1, <1>2, <1>4, <1>5
     DEF Shipping, ReviewWaybill, SetWaybillFee, ConfirmReceipt, AddTrackingEvent, BatchStep,
         CreateShippingBatch, UpdateShippingBatch, AddWaybills, RemoveWaybill, LockShippingBatch,
         AddShippingBatchTrackingEvent

\* To Purchases, the whole is the intake, the work on purchases or nothing.
LEMMA SourcingNext == ERPInv /\ [ERPNext]_allVars => [Sourcing!Next]_(Sourcing!vars)
<1> SUFFICES ASSUME ERPInv, [ERPNext]_allVars, ~ UNCHANGED <<<<Stock, unclaimed>>, purchases, tasks>>
             PROVE  Sourcing!Next
  BY DEF Sourcing!vars, Sourcing!intakeVars
<1>0. ASSUME parcels' = parcels PROVE Stock' = Stock
  BY <1>0 DEF Stock
<1>1. CASE Arrivals
  BY <1>1 DEF Arrivals, Sourcing!Next
<1>2. ~ Shipping
  BY ShippingStock DEF Shipping, sourcingVars, ERPInv, GoodsInv, CustodyInv
<1>3. ~ Finance
  BY <1>0 DEF Finance, vars, sourcingVars
<1>4. ASSUME NEW w \in Waybills, NEW key \in Keys PROVE ~ PayForWaybill(w, key)
  BY <1>0 DEF PayForWaybill, PayWaybill, sourcingVars
<1>5. ASSUME NEW o \in Orders, NEW u \in Users, NEW total \in Amounts, PlacePurchase(o, u, total)
      PROVE  Sourcing!Next
  BY <1>5 DEF PlacePurchase, Sourcing!Next, Sourcing!OrderStep
<1>6. ASSUME NEW o \in Orders, WorkOnPurchase(o) PROVE Sourcing!Next
  BY <1>6 DEF WorkOnPurchase, Sourcing!Next, Sourcing!OrderStep
<1>7. ASSUME NEW o \in Orders, NEW p \in Parcels, NEW wh \in Warehouses, ConvertPurchase(o, p, wh)
      PROVE  Sourcing!Next
  BY <1>7 DEF ConvertPurchase, Sourcing!Next, Sourcing!OrderStep
<1>8. ASSUME NEW o \in Orders, NEW key \in Keys, PayForPurchase(o, key) PROVE Sourcing!Next
  BY <1>8 DEF PayForPurchase, Sourcing!Next, Sourcing!OrderStep
<1>9. ~ UNCHANGED allVars
  BY <1>0 DEF allVars, vars, sourcingVars
<1> QED
  BY <1>1, <1>2, <1>3, <1>4, <1>5, <1>6, <1>7, <1>8, <1>9 DEF ERPNext

\* The row of one bill changes.
LEMMA OneWaybillBill ==
  ASSUME NEW w \in Waybills, NEW bill, WaybillBill(w)' = bill,
         \A v \in Waybills \ {w} : waybills'[v] = waybills[v], UNCHANGED <<purchases, totals>>
  PROVE  BillRows' = [BillRows EXCEPT ![w] = bill]
<1>1. ASSUME NEW v \in Waybills \ {w} PROVE WaybillBill(v)' = WaybillBill(v)
  BY <1>1 DEF WaybillBill, NoBill, Paid, Gone
<1>2. ASSUME NEW o \in Orders PROVE PurchaseBill(o)' = PurchaseBill(o)
  BY <1>2 DEF PurchaseBill, NoBill, Sourcing!AfterPayment, Sourcing!InWork
<1> QED
  BY <1>1, <1>2 DEF BillRows

\* Likewise for the bill of a purchase.
LEMMA OnePurchaseBill ==
  ASSUME NEW o \in Orders, NEW bill, PurchaseBill(o)' = bill, waybills' = waybills,
         \A q \in Orders \ {o} : purchases'[q] = purchases[q] /\ totals'[q] = totals[q]
  PROVE  BillRows' = [BillRows EXCEPT ![o] = bill]
<1>1. ASSUME NEW v \in Waybills PROVE WaybillBill(v)' = WaybillBill(v)
  BY <1>1 DEF WaybillBill, NoBill, Paid, Gone
<1>2. ASSUME NEW q \in Orders \ {o} PROVE PurchaseBill(q)' = PurchaseBill(q)
  BY <1>2 DEF PurchaseBill, NoBill, Sourcing!AfterPayment, Sourcing!InWork
<1>3. o \notin Waybills
  BY ReferencesAssumption
<1> QED
  BY <1>1, <1>2, <1>3 DEF BillRows

\* No bill changes while fees, members and totals stay and nothing is paid or cancelled.
LEMMA BillsStay ==
  ASSUME UNCHANGED <<purchases, totals>>,
         \A w \in Waybills :
            \/ waybills[w].fee = 0 /\ waybills'[w].fee = 0
            \/ /\ waybills'[w].user = waybills[w].user /\ waybills'[w].fee = waybills[w].fee
               /\ \/ waybills'[w].status = waybills[w].status
                  \/ waybills[w].status \in Paid /\ waybills'[w].status \in Paid
  PROVE  BillRows' = BillRows
<1>1. ASSUME NEW w \in Waybills PROVE WaybillBill(w)' = WaybillBill(w)
  BY DEF WaybillBill, NoBill, Paid, Gone
<1>2. ASSUME NEW o \in Orders PROVE PurchaseBill(o)' = PurchaseBill(o)
  BY <1>2 DEF PurchaseBill, NoBill, Sourcing!AfterPayment, Sourcing!InWork
<1> QED
  BY <1>1, <1>2 DEF BillRows

\* To Wallet, a waybill appears as a bill when a fee is asked for, and disappears when
\* it is cancelled with one; nothing else about waybills and batches is seen.
LEMMA ShippingBills ==
  ASSUME TypeOK, FeesAsked, Shipping
  PROVE  \/ BillRows' = BillRows
         \/ \E w \in Waybills : \/ \E u \in Users, due \in Fees : Money!PresentBill(w, u, due)
                                \/ Money!CancelBill(w)
<1> USE DEF TypeOK, WaybillRow
<1>0. UNCHANGED <<purchases, totals, balance, ledger, charges, requests>>
  BY DEF Shipping, sourcingVars, moneyVars
<1>1. ASSUME NEW w \in Waybills, NEW u \in Users, NEW ps \in SUBSET Parcels,
             NEW c \in Channels \cup {Null}, CreateWaybill(w, u, ps, c)
      PROVE  BillRows' = BillRows
  <2>1. PICK wh : waybills' = [waybills EXCEPT ![w] =
            [@ EXCEPT !.status = "PENDING_REVIEW", !.user = u, !.warehouse = wh, !.channel = c]]
    BY <1>1 DEF CreateWaybill
  <2>2. waybills[w].fee = 0 /\ waybills'[w].fee = 0
    BY <1>1, <2>1 DEF CreateWaybill, FeesAsked
  <2>3. \A v \in Waybills \ {w} : waybills'[v] = waybills[v]
    BY <2>1
  <2> QED
    BY <1>0, <2>2, <2>3, BillsStay
<1>2. ASSUME NEW w \in Waybills, ReviewWaybill(w) PROVE BillRows' = BillRows
  <2>1. waybills[w].fee = 0
    BY <1>2 DEF ReviewWaybill, FeesAsked
  <2> QED
    BY <1>0, <1>2, <2>1, BillsStay DEF ReviewWaybill, SetWaybill
<1>3. ASSUME NEW w \in Waybills, NEW fee \in Fees, SetWaybillFee(w, fee)
      PROVE  BillRows' = BillRows \/ \E u \in Users, due \in Fees : Money!PresentBill(w, u, due)
  <2> DEFINE u == waybills[w].user
  <2>1. /\ waybills[w].status = "PENDING_PACKING" /\ waybills[w].fee = 0
        /\ waybills' = [waybills EXCEPT ![w] = [@ EXCEPT !.status = "PENDING_PAYMENT", !.fee = fee]]
    BY <1>3 DEF SetWaybillFee, FeesAsked
  <2>2. u \in Users
    BY <2>1 DEF FeesAsked
  <2>3. CASE fee = 0
    BY <1>0, <2>1, <2>3, BillsStay
  <2>4. CASE fee # 0
    <3>1. fee \in Nat /\ fee > 0
      BY <2>4, FeesAssumption
    <3>2. WaybillBill(w)' = [status |-> "PENDING_PAYMENT", user |-> u, due |-> fee]
      BY <2>1, <2>4 DEF WaybillBill, Paid, Gone
    <3>3. BillRows' = [BillRows EXCEPT ![w] = [status |-> "PENDING_PAYMENT", user |-> u, due |-> fee]]
      BY <1>0, <2>1, <3>2, OneWaybillBill
    <3>4. BillRows[w].status = "NONE"
      BY <2>1 DEF BillRows, WaybillBill, NoBill
    <3>5. Money!PresentBill(w, u, fee)
      BY <1>0, <3>1, <3>3, <3>4 DEF Money!PresentBill
    <3> QED
      BY <2>2, <3>5
  <2> QED
    BY <2>3, <2>4
<1>4. ASSUME NEW w \in Waybills, CancelWaybill(w)
      PROVE  BillRows' = BillRows \/ Money!CancelBill(w)
  <2>1. waybills' = [waybills EXCEPT ![w].status = "CANCELLED"] /\ waybills[w].status \in BeforePayment
    BY <1>4 DEF CancelWaybill, SetWaybill, Cancellable
  <2>2. CASE waybills[w].fee = 0
    BY <1>0, <2>1, <2>2, BillsStay
  <2>3. CASE waybills[w].fee # 0
    <3>1. waybills[w].status = "PENDING_PAYMENT"
      BY <2>1, <2>3 DEF BeforePayment, FeesAsked
    <3>2. BillRows[w] = [status |-> "PENDING_PAYMENT", user |-> waybills[w].user, due |-> waybills[w].fee]
      BY <2>3, <3>1 DEF BillRows, WaybillBill, Paid, Gone
    <3>3. WaybillBill(w)' = [BillRows[w] EXCEPT !.status = "CANCELLED"]
      BY <2>1, <2>3, <3>2 DEF WaybillBill, Paid, Gone
    <3>4. BillRows' = [BillRows EXCEPT ![w] = [BillRows[w] EXCEPT !.status = "CANCELLED"]]
      BY <1>0, <2>1, <3>3, OneWaybillBill
    <3> QED
      BY <1>0, <3>2, <3>4 DEF Money!CancelBill, Money!MayCancel
  <2> QED
    BY <2>2, <2>3
<1>5. ASSUME NEW w \in Waybills, ShipWaybill(w) \/ ConfirmReceipt(w) PROVE BillRows' = BillRows
  BY <1>0, <1>5, BillsStay DEF ShipWaybill, ConfirmReceipt, Shippable, SetWaybill, Paid, Gone
<1>6. ASSUME NEW w \in Waybills, AddTrackingEvent(w) PROVE BillRows' = BillRows
  BY <1>0, <1>6, BillsStay DEF AddTrackingEvent
<1>7. CASE BatchStep
  BY <1>0, <1>7, BatchKeepsFees, BillsStay
<1> QED
  BY <1>1, <1>2, <1>3, <1>4, <1>5, <1>6, <1>7 DEF Shipping

\* To Wallet, work on a purchase is its calling off, or nothing.
LEMMA PurchaseBills ==
  ASSUME NEW o \in Orders, purchases \in [Orders -> Sourcing!OrderRow], WorkOnPurchase(o)
  PROVE  BillRows' = BillRows \/ Money!CancelBill(o)
<1> USE DEF Sourcing!OrderRow
<1>0. waybills' = waybills /\ UNCHANGED <<totals, balance, ledger, charges, requests>>
  BY DEF WorkOnPurchase, vars, moneyVars
<1>1. o \notin Waybills
  BY ReferencesAssumption
<1>2. ASSUME NEW to \in Sourcing!AfterPayment, purchases[o].status \in Sourcing!AfterPayment,
             purchases' = [purchases EXCEPT ![o].status = to]
      PROVE  BillRows' = BillRows
  <2>1. PurchaseBill(o)' = PurchaseBill(o)
    BY <1>0, <1>2 DEF PurchaseBill, NoBill, Sourcing!AfterPayment, Sourcing!InWork
  <2>2. BillRows' = [BillRows EXCEPT ![o] = PurchaseBill(o)]
    BY <1>0, <1>2, <2>1, OnePurchaseBill
  <2> QED
    BY <1>1, <2>2 DEF BillRows
<1>3. ASSUME Sourcing!CancelPurchaseOrder(o) PROVE Money!CancelBill(o)
  <2>1. /\ purchases[o].status \in {"PENDING_PAYMENT", "EXCEPTION"}
        /\ purchases' = [purchases EXCEPT ![o].status = "CANCELLED"]
    BY <1>3 DEF Sourcing!CancelPurchaseOrder, Sourcing!Advance
  <2>2. /\ BillRows[o].status \in {"PENDING_PAYMENT", "SETTLED"}
        /\ BillRows[o] = [status |-> BillRows[o].status, user |-> purchases[o].user, due |-> totals[o]]
    BY <1>1, <2>1 DEF BillRows, PurchaseBill, Sourcing!AfterPayment, Sourcing!InWork
  <2>3. PurchaseBill(o)' = [BillRows[o] EXCEPT !.status = "CANCELLED"]
    <3>1. PurchaseBill(o)' = [status |-> "CANCELLED", user |-> purchases[o].user, due |-> totals[o]]
      BY <1>0, <2>1 DEF PurchaseBill, Sourcing!AfterPayment, Sourcing!InWork
    <3> QED
      BY <2>2, <3>1
  <2>4. BillRows' = [BillRows EXCEPT ![o] = [BillRows[o] EXCEPT !.status = "CANCELLED"]]
    BY <1>0, <2>1, <2>3, OnePurchaseBill
  <2> QED
    BY <1>0, <2>2, <2>4 DEF Money!CancelBill, Money!MayCancel
<1> QED
  BY <1>2, <1>3
     DEF WorkOnPurchase, Sourcing!ReviewPurchaseOrder, Sourcing!ProcurePurchaseOrder,
         Sourcing!MarkArrived, Sourcing!MarkException, Sourcing!Advance, Sourcing!AfterPayment,
         Sourcing!InWork

\* To Wallet, the whole is movements of money, bills that come and go, or nothing.
LEMMA MoneyNext == ERPInv /\ [ERPNext]_allVars => [Money!Next]_(Money!vars)
<1> SUFFICES ASSUME ERPInv, [ERPNext]_allVars,
                    ~ UNCHANGED <<balance, ledger, BillRows, charges, requests>>
             PROVE  Money!Next
  BY DEF Money!vars
<1>b. Money!Bills = Waybills \cup Orders
  BY DEF Money!Bills
<1>p. purchases \in [Orders -> Sourcing!OrderRow]
  BY DEF ERPInv, BuyingInv, Buying!OrderInv, Buying!TypeOK, Buying!OrderRow, Sourcing!OrderRow,
         Buying!AfterPayment, Buying!InWork, Sourcing!AfterPayment, Sourcing!InWork
<1>0. ASSUME UNCHANGED <<waybills, purchases, totals>> PROVE BillRows' = BillRows
  BY <1>0, BillsStay
<1>1. ~ Arrivals
  <2>1. ParcelStep => waybills' = waybills
    BY DEF ParcelStep, ForecastParcels, InboundParcel, EnterStock
  <2> QED
    BY <1>0, <2>1 DEF Arrivals, vars, moneyVars
<1>2. CASE Shipping
  <2>1. \E w \in Waybills : \/ \E u \in Users, due \in Fees : Money!PresentBill(w, u, due)
                            \/ Money!CancelBill(w)
    BY <1>2, ShippingBills DEF ERPInv, GoodsInv, Shipping, moneyVars
  <2> QED
    BY <1>b, <2>1 DEF Money!Next
<1>3. CASE Finance
  BY <1>3 DEF Finance, Money!Next
<1>4. ASSUME NEW w \in Waybills, NEW key \in Keys, PayForWaybill(w, key) PROVE Money!Next
  BY <1>b, <1>4 DEF PayForWaybill, Charge, Money!Next
<1>5. ASSUME NEW o \in Orders, NEW u \in Users, NEW total \in Amounts, PlacePurchase(o, u, total)
      PROVE  Money!Next
  <2> DEFINE bill == [status |-> "PENDING_PAYMENT", user |-> u, due |-> total]
  <2>1. /\ total > 0 /\ totals' = [totals EXCEPT ![o] = total]
        /\ purchases[o].status = "NONE"
        /\ purchases' = [purchases EXCEPT ![o] = [@ EXCEPT !.status = "PENDING_PAYMENT", !.user = u]]
        /\ waybills' = waybills /\ UNCHANGED <<balance, ledger, charges, requests>>
    BY <1>5 DEF PlacePurchase, vars, moneyVars, Sourcing!CreatePurchaseOrder
  <2>2. PurchaseBill(o)' = bill
    BY <1>p, <2>1 DEF ERPInv, PurchaseBill, Sourcing!OrderRow, Sourcing!AfterPayment, Sourcing!InWork
  <2>3. BillRows' = [BillRows EXCEPT ![o] = bill]
    BY <2>1, <2>2, OnePurchaseBill
  <2>4. BillRows[o].status = "NONE"
    BY <2>1, ReferencesAssumption DEF BillRows, PurchaseBill, NoBill
  <2>5. Money!PresentBill(o, u, total)
    BY <2>1, <2>3, <2>4 DEF Money!PresentBill
  <2> QED
    BY <1>b, <2>5 DEF Money!Next
<1>6. ASSUME NEW o \in Orders, WorkOnPurchase(o) PROVE Money!Next
  <2>1. Money!CancelBill(o)
    BY <1>6, <1>p, PurchaseBills DEF WorkOnPurchase, moneyVars
  <2> QED
    BY <1>b, <2>1 DEF Money!Next
<1>7. ASSUME NEW o \in Orders, NEW p \in Parcels, NEW wh \in Warehouses PROVE ~ ConvertPurchase(o, p, wh)
  <2> SUFFICES ASSUME ConvertPurchase(o, p, wh) PROVE FALSE
    OBVIOUS
  <2>1. /\ waybills' = waybills /\ totals' = totals /\ UNCHANGED <<balance, ledger, charges, requests>>
        /\ purchases[o].status = "ARRIVED"
        /\ purchases' = [purchases EXCEPT ![o] = [@ EXCEPT !.status = "COMPLETED", !.parcel = p]]
    BY DEF ConvertPurchase, EnterStock, moneyVars, Sourcing!ConvertToParcel
  <2>2. PurchaseBill(o)' = PurchaseBill(o)
    BY <1>p, <2>1 DEF PurchaseBill, NoBill, Sourcing!OrderRow, Sourcing!AfterPayment, Sourcing!InWork
  <2>3. BillRows' = [BillRows EXCEPT ![o] = PurchaseBill(o)]
    BY <2>1, <2>2, OnePurchaseBill
  <2>4. BillRows' = BillRows
    BY <2>3, ReferencesAssumption DEF BillRows
  <2> QED
    BY <2>1, <2>4
<1>8. ASSUME NEW o \in Orders, NEW key \in Keys, PayForPurchase(o, key) PROVE Money!Next
  BY <1>b, <1>8 DEF PayForPurchase, Charge, Money!Next
<1>9. ~ UNCHANGED allVars
  BY <1>0 DEF allVars, vars, sourcingVars, moneyVars
<1> QED
  BY <1>1, <1>2, <1>3, <1>4, <1>5, <1>6, <1>7, <1>8, <1>9 DEF ERPNext

-----------------------------------------------------------------------------
(* The whole implements its parts.                                         *)

\* The empty tables satisfy the invariant.
LEMMA ERPInvInit == ERPInit => ERPInv
<1> SUFFICES ASSUME ERPInit PROVE ERPInv
  OBVIOUS
<1>1. FeesAsked
  BY DEF ERPInit, Init, FeesAsked, Paid, Gone
<1>2. BuyingInv
  BY BuyingAssumed, BuyingInit, Buying!SourcingInit DEF ERPInit, BuyingInv
<1>3. totals \in [Orders -> Nat]
  BY DEF ERPInit
<1> QED
  BY <1>1, <1>2, <1>3, TypeInit, CustodyInit, ScopeInit DEF ERPInit, ERPInv, GoodsInv

\* Every operation keeps it.
LEMMA ERPInvStep == ERPInv /\ [ERPNext]_allVars => ERPInv'
<1> SUFFICES ASSUME ERPInv, [ERPNext]_allVars PROVE ERPInv'
  OBVIOUS
<1>1. GoodsInv'
  <2>1. [Next]_vars /\ TypeOK /\ CustodyInv /\ ScopeInv /\ FeesAsked
    BY GoodsNext DEF ERPInv, GoodsInv
  <2>2. UNCHANGED vars => ScopeInv'
    BY <2>1 DEF ScopeInv, LinksFilled, WaybillScope, vars
  <2> QED
    BY <2>1, <2>2, TypeStep, CustodyNext, ScopeStep, FeesStep DEF GoodsInv
<1>2. BuyingInv'
  <2>1. [Buying!Next]_(Buying!vars)
    BY SourcingNext, BuyingNext DEF Sourcing!vars, Buying!vars, Sourcing!intakeVars, Buying!intakeVars
  <2> QED
    BY <2>1, BuyingAssumed, Buying!SourcingStep DEF ERPInv, BuyingInv
<1>3. totals' \in [Orders -> Nat]
  BY AmountsAssumption
     DEF ERPInv, ERPNext, Arrivals, Shipping, Finance, PlacePurchase, WorkOnPurchase, ConvertPurchase,
         PayForWaybill, PayForPurchase, sourcingVars, allVars
<1> QED
  BY <1>1, <1>2, <1>3 DEF ERPInv

\* The shared rows always satisfy the invariant.
THEOREM ERPInvariant == ERPSpec => []ERPInv
  BY ERPInvInit, ERPInvStep, PTL DEF ERPSpec

\* Fulfilment, Purchases and Wallet each describe the whole as they describe their side.
THEOREM ERPImplementsParts == ERPSpec => ImplementsParts
<1>1. ERPInit => Init /\ Sourcing!Init /\ Money!Init
  BY DEF ERPInit
<1> QED
  BY <1>1, ERPInvariant, GoodsNext, SourcingNext, MoneyNext, PTL
     DEF ERPSpec, ImplementsParts, Spec, Sourcing!Spec, Money!Spec

-----------------------------------------------------------------------------
(* Goods and money.                                                        *)

\* The behaviours of Wallet are those its proofs are about.
LEMMA PayingSpec == Money!Spec => Paying!Spec
<1>1. [Money!Next]_(Money!vars) => [Paying!Next]_(Paying!vars)
  BY PayingNext DEF Money!vars, Paying!vars
<1> QED
  BY <1>1, PayingInit, PTL DEF Money!Spec, Paying!Spec

\* What Wallet was shown to keep, the whole keeps.
LEMMA MoneyKept == ERPSpec => [](Paying!ChargedOnce /\ Paying!PaidMeansSettled)
<1>1. Paying!Spec => []Paying!ChargedOnce
  BY PayingAssumed, Paying!AlwaysChargedOnce
<1>2. Paying!Spec => []Paying!PaidMeansSettled
  BY PayingAssumed, Paying!AlwaysPaidMeansSettled
<1> QED
  BY <1>1, <1>2, PayingSpec, ERPImplementsParts, PTL DEF ImplementsParts

\* A settled bill has its one row.
LEMMA SettledIsCharged ==
  ASSUME Paying!ChargedOnce, Paying!PaidMeansSettled, NEW b \in Waybills \cup Orders,
         BillRows[b].status = "SETTLED"
  PROVE  charges[b] # Null /\ ChargedTo(b, BillRows[b].user, BillRows[b].due)
<1>1. charges[b] # Null
  BY DEF Paying!PaidMeansSettled, Paying!Bills
<1>2. PICK i \in 1 .. MaxRows : /\ Paying!RowsOf(b) = {<<<<BillRows[b].user, Home>>, i>>}
                                /\ ledger[<<BillRows[b].user, Home>>][i].amount = BillRows[b].due
  BY <1>1 DEF Paying!ChargedOnce, Paying!Bills
<1>3. Money!RowsOf(b) = Paying!RowsOf(b)
  BY DEF Money!RowsOf, Paying!RowsOf, Money!Wallets, Paying!Wallets
<1> QED
  BY <1>1, <1>2, <1>3 DEF ChargedTo

\* Goods, purchases and money agree because each pair of them does.
LEMMA PartsMeet == ERPInv /\ Paying!ChargedOnce /\ Paying!PaidMeansSettled => GoodsArePaid
<1> SUFFICES ASSUME ERPInv, Paying!ChargedOnce, Paying!PaidMeansSettled PROVE GoodsArePaid
  OBVIOUS
<1>1. ASSUME NEW w \in Waybills, waybills[w].status \in Paid
      PROVE  charges[w] # Null /\ ChargedTo(w, waybills[w].user, waybills[w].fee)
  <2>1. waybills[w].fee # 0
    BY <1>1 DEF ERPInv, GoodsInv, FeesAsked
  <2>2. BillRows[w] = [status |-> "SETTLED", user |-> waybills[w].user, due |-> waybills[w].fee]
    BY <1>1, <2>1 DEF BillRows, WaybillBill
  <2> QED
    BY <2>2, SettledIsCharged
<1>2. ASSUME NEW w \in Waybills, charges[w] # Null PROVE waybills[w].status \in Paid
  <2>1. w \notin Orders
    BY ReferencesAssumption
  <2>2. BillRows[w].status = "SETTLED"
    BY <1>2, <2>1 DEF Paying!PaidMeansSettled, Paying!Bills
  <2>3. waybills[w].status # "SETTLED"
    BY DEF ERPInv, GoodsInv, TypeOK, WaybillRow, WaybillStatus, Open, BeforePayment, Gone
  <2> QED
    BY <2>2, <2>3 DEF BillRows, WaybillBill, NoBill
<1>3. ASSUME NEW p \in Parcels, parcels[p].status = "OUTBOUND"
      PROVE  \E w \in Waybills : p \in links[w] /\ ChargedTo(w, parcels[p].user, waybills[w].fee)
  <2>1. PICK w \in Waybills : p \in links[w] /\ waybills[w].status \in Gone
    BY <1>3 DEF ERPInv, GoodsInv, CustodyInv, GoodsFollowWaybill
  <2>2. parcels[p].user = waybills[w].user
    BY <2>1 DEF ERPInv, GoodsInv, ScopeInv, WaybillScope
  <2> QED
    BY <1>1, <2>1, <2>2 DEF Paid
<1>4. ASSUME NEW o \in Orders, purchases[o].parcel # Null
      PROVE  ChargedTo(o, parcels[purchases[o].parcel].user, totals[o])
  <2> DEFINE n == purchases[o].parcel
  <2>1. n \in Parcels
    BY <1>4 DEF ERPInv, BuyingInv, Buying!OrderInv, Buying!TypeOK, Buying!OrderRow
  <2>2. purchases[o].status = "COMPLETED" /\ Stock[n].user = purchases[o].user
    BY <1>4 DEF ERPInv, BuyingInv, Buying!OrderInv, Buying!ConvertedOnce
  <2>3. Stock[n].user = parcels[n].user
    BY <2>1 DEF Stock, Received, ERPInv, GoodsInv, TypeOK, ParcelRow
  <2>4. BillRows[o] = [status |-> "SETTLED", user |-> parcels[n].user, due |-> totals[o]]
    BY <2>2, <2>3, ReferencesAssumption DEF BillRows, PurchaseBill, Sourcing!AfterPayment
  <2> QED
    BY <2>4, SettledIsCharged
<1> QED
  BY <1>1, <1>2, <1>3, <1>4 DEF GoodsArePaid

\* Whatever left the warehouse was charged for, once and in full, to its owner; so was
\* whatever was bought and is in stock.
THEOREM AlwaysGoodsArePaid == ERPSpec => []GoodsArePaid
  BY ERPInvariant, MoneyKept, PartsMeet, PTL

\* What each side was shown to keep by itself holds while they share their rows: goods
\* and shipments, balances and credits, parcels and purchases.
COROLLARY WholeKeepsParts ==
  ERPSpec => [](/\ SoleCustody /\ ShippedOnce /\ BatchShipsWhole /\ TransferNoFollowsBatch
                /\ Paying!LedgerExplainsBalance /\ Paying!CreditedOnce
                /\ Buying!InboundOnce /\ Buying!ClaimBecameParcel /\ Buying!TaskFollowsOrder)
<1>1. ERPSpec => Spec /\ Money!Spec
  BY ERPImplementsParts, PTL DEF ImplementsParts
<1>2. Money!Spec => Paying!Spec
  BY PayingSpec
<1>3. Paying!Spec => [](Paying!TypeOK /\ Paying!LedgerExplainsBalance)
  BY PayingAssumed, Paying!LedgerCorrect
<1>4. Paying!Spec => []Paying!CreditedOnce
  BY PayingAssumed, Paying!AlwaysCreditedOnce
<1>5. ERPInv => Buying!InboundOnce /\ Buying!ClaimBecameParcel /\ Buying!TaskFollowsOrder
  BY DEF ERPInv, BuyingInv, Buying!IntakeInv, Buying!OrderInv
<1> QED
  BY <1>1, <1>2, <1>3, <1>4, <1>5, ERPInvariant, AlwaysSoleCustody, AlwaysShippedOnce,
     AlwaysBatchShipsWhole, AlwaysTransferNoFollowsBatch, PTL
=============================================================================
