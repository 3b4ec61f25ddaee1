---------------------------------- MODULE ERP ----------------------------------
(***************************************************************************)
(* Goods, money and purchases together. Fulfilment, Wallet and Purchases   *)
(* each model one side of the database; here they share their rows, and a  *)
(* service function that works on two sides is one step of both.           *)
(*                                                                         *)
(* The rows of parcels and waybills are those of Fulfilment, which this    *)
(* module extends. Purchases sees the parcels without what waybills do to  *)
(* them; Wallet sees waybills and purchase orders as bills. An operation   *)
(* is what the modules it concerns say of it, and leaves the rest alone.   *)
(***************************************************************************)
EXTENDS Fulfilment

CONSTANTS
    Orders,         \* rows of purchase_orders
    Currencies,     \* currencies of wallets
    Home,           \* the currency of bills
    Requests,       \* rows of recharge_requests
    Keys,           \* idempotency keys clients send
    Amounts,        \* amounts people type, and totals of purchases
    MaxBalance,     \* largest balance the decimal column holds
    MaxRows         \* bound: wallet transactions recorded per wallet

ASSUME HomeAssumption == Home \in Currencies
ASSUME AmountsAssumption == Amounts \subseteq Nat /\ MaxBalance \in Nat /\ MaxRows \in Nat
ASSUME ReferencesAssumption == Waybills \cap Orders = {} /\ (Waybills \cup Orders) \cap Requests = {}
ASSUME NoRowAssumption == Null \notin Parcels \cup Waybills \cup Orders \cup Requests \cup Keys

VARIABLES
    unclaimed,      \* unclaimed_parcels
    purchases,      \* purchase_orders, as Purchases has them
    totals,         \* purchase_orders.total_amount
    tasks,          \* procurement tasks
    balance,        \* wallets.balance
    ledger,         \* wallet_transactions
    charges,        \* payment_orders: the idempotency key of each PAID order
    requests        \* recharge_requests

sourcingVars == <<unclaimed, purchases, totals, tasks>>
moneyVars == <<balance, ledger, charges, requests>>
allVars == <<vars, sourcingVars, moneyVars>>

-----------------------------------------------------------------------------
(* What one side sees of the others.                                       *)

\* Intake and purchases do not look at what becomes of stock.
Received(row) ==
    [row EXCEPT !.status = IF @ \in {"PACKING_REQUESTED", "OUTBOUND"} THEN "IN_STOCK" ELSE @]

Stock == [p \in Parcels |-> Received(parcels[p])]

Sourcing == INSTANCE Purchases WITH Numbers <- Parcels, parcels <- Stock, orders <- purchases

\* A waybill is a bill once a fee is asked for, and settled from its payment on. A fee of 0
\* is accepted, and refused by every payment: there is nothing to pay.
Paid == {"PENDING_SHIPMENT"} \cup Gone
NoBill == [status |-> "NONE", user |-> Null, due |-> 0]
WaybillBill(w) ==
    IF waybills[w].fee = 0 THEN NoBill
    ELSE [status |-> IF waybills[w].status \in Paid THEN "SETTLED" ELSE waybills[w].status,
          user |-> waybills[w].user, due |-> waybills[w].fee]

\* A purchase order is one from the start, and settled while it is worked on.
PurchaseBill(o) ==
    IF purchases[o].status = "NONE" THEN NoBill
    ELSE [status |-> IF purchases[o].status \in Sourcing!AfterPayment THEN "SETTLED" ELSE purchases[o].status,
          user |-> purchases[o].user, due |-> totals[o]]

BillRows == [b \in Waybills \cup Orders |-> IF b \in Waybills THEN WaybillBill(b) ELSE PurchaseBill(b)]

Money == INSTANCE Wallet WITH
    Purchases <- Orders, Amounts <- Amounts \cup Fees, orders <- charges, bills <- BillRows

ERPInit ==
    /\ Init
    /\ totals = [o \in Orders |-> 0]
    /\ Sourcing!Init
    /\ Money!Init

-----------------------------------------------------------------------------
(* Operations of one side, or of goods with the intake.                    *)

\* Forecasts, inbound, scans and claims. What they do to parcels, Fulfilment has as well.
Arrivals ==
    /\ ParcelStep \/ UNCHANGED vars
    /\ UNCHANGED <<purchases, totals, tasks, moneyVars>>
    /\ Sourcing!IntakeNext

\* Everything about waybills but their payment, and batches.
Shipping ==
    /\ \/ \E w \in Waybills :
            \/ \E u \in Users, ps \in SUBSET Parcels, c \in Channels \cup {Null} :
                    CreateWaybill(w, u, ps, c)
            \/ ReviewWaybill(w)
            \/ \E fee \in Fees : SetWaybillFee(w, fee)
            \/ CancelWaybill(w)
            \/ ShipWaybill(w)
            \/ ConfirmReceipt(w)
            \/ AddTrackingEvent(w)
       \/ BatchStep
    /\ UNCHANGED <<sourcingVars, moneyVars>>

\* Money that moves without a bill.
Finance ==
    /\ UNCHANGED <<vars, sourcingVars>>
    /\ \/ \E r \in Requests, wt \in Money!Wallets, amount \in Amounts :
            Money!AdminRecharge(r, wt, amount) \/ Money!SubmitRemittance(r, wt, amount)
       \/ \E r \in Requests : Money!ApproveRemittance(r) \/ Money!CancelRemittance(r)
       \/ \E wt \in Money!Wallets, amount \in Amounts : Money!AdminDeduct(wt, amount)

\* create_manual_purchase_order and create_purchase_order_from_cart add up their items.
PlacePurchase(o, u, total) ==
    /\ total > 0
    /\ totals' = [totals EXCEPT ![o] = total]
    /\ UNCHANGED <<vars, moneyVars>>
    /\ Sourcing!CreatePurchaseOrder(o, u)

WorkOnPurchase(o) ==
    /\ UNCHANGED <<vars, totals, moneyVars>>
    /\ \/ Sourcing!ReviewPurchaseOrder(o)
       \/ Sourcing!ProcurePurchaseOrder(o)
       \/ Sourcing!MarkArrived(o)
       \/ Sourcing!MarkException(o)
       \/ Sourcing!CancelPurchaseOrder(o)

-----------------------------------------------------------------------------
(* Operations of two sides.                                                *)

\* convert_purchase_order_to_parcel inserts a parcel as the claims do.
ConvertPurchase(o, p, wh) ==
    /\ EnterStock(p, purchases[o].user, wh)
    /\ UNCHANGED <<totals, moneyVars>>
    /\ Sourcing!ConvertToParcel(o, p, wh)

\* The money half of a payment.
Charge_KeyKnown(b, key) ==      \* mutant: any order with the key answers the request
    IF \E other \in Waybills \cup Orders : charges[other] = key
    THEN UNCHANGED moneyVars
    ELSE Money!Pay(b, key)
Charge(b, key) == Money!Pay(b, key)

\* pay_with_wallet: one transaction charges the wallet and moves the waybill on.
PayForWaybill(w, key) ==
    /\ PayWaybill(w)
    /\ UNCHANGED sourcingVars
    /\ Charge(w, key)

\* pay_purchase_order_with_wallet, likewise.
PayForPurchase(o, key) ==
    /\ UNCHANGED <<vars, totals>>
    /\ Sourcing!PayPurchaseOrder(o)
    /\ Charge(o, key)

ERPNext ==
    \/ Arrivals \/ Shipping \/ Finance
    \/ \E w \in Waybills, key \in Keys : PayForWaybill(w, key)
    \/ \E o \in Orders :
        \/ \E u \in Users, total \in Amounts : PlacePurchase(o, u, total)
        \/ WorkOnPurchase(o)
        \/ \E p \in Parcels, wh \in Warehouses : ConvertPurchase(o, p, wh)
        \/ \E key \in Keys : PayForPurchase(o, key)

ERPSpec == ERPInit /\ [][ERPNext]_allVars

-----------------------------------------------------------------------------
\* The whole is nothing but its parts: whatever one side does, the others take for a step
\* of their own or do not notice. What is shown of a part is so in the whole.
ImplementsParts == Spec /\ Sourcing!Spec /\ Money!Spec

\* The one transaction about a bill, of that amount, in the home wallet of that member.
ChargedTo(b, u, amount) ==
    \E i \in 1 .. MaxRows :
        /\ Money!RowsOf(b) = {<<<<u, Home>>, i>>}
        /\ ledger[<<u, Home>>][i].amount = amount

\* A waybill is ready for shipment exactly when it was paid for; what has left the warehouse
\* was charged once, in full, to its own owner; and so was what was bought and is in stock.
GoodsArePaid ==
    /\ \A w \in Waybills : waybills[w].status \in Paid <=> charges[w] # Null
    /\ \A p \in Parcels : parcels[p].status = "OUTBOUND" =>
            \E w \in Waybills : p \in links[w] /\ ChargedTo(w, parcels[p].user, waybills[w].fee)
    /\ \A o \in Orders : purchases[o].parcel # Null =>
            ChargedTo(o, parcels[purchases[o].parcel].user, totals[o])
=============================================================================
