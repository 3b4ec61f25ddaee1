------------------------------ MODULE Purchases ------------------------------
(***************************************************************************)
(* Purchase orders: the buying agency's work on what members asked and     *)
(* paid for, the procurement task that goes with it, and the conversion of *)
(* what arrived into a parcel next to those of Intake.                     *)
(*                                                                         *)
(* Source: backend/apps/purchases/services.py. Wallet has the money of the *)
(* payment; a payment that fails there is no step here. The amounts and    *)
(* the task's texts are left out; the tracking number of a conversion is   *)
(* the one the operator types or the one the task has, so any.             *)
(***************************************************************************)
EXTENDS Intake

CONSTANT Orders     \* rows of purchase_orders

VARIABLES
    orders,         \* purchase_orders, with the tracking number of converted_parcel
    tasks           \* status of each order's procurement task, "NONE" if it has none

vars == <<intakeVars, orders, tasks>>

\* What may be called an exception, and what only happens to a paid order.
InWork == {"PENDING_REVIEW", "PENDING_PROCUREMENT", "PROCURED"}
AfterPayment == InWork \cup {"ARRIVED", "COMPLETED", "EXCEPTION"}

OrderRow == [status : {"NONE", "PENDING_PAYMENT", "CANCELLED"} \cup AfterPayment,
             user : Users \cup {Null}, paid : BOOLEAN, parcel : Numbers \cup {Null}]
TaskStatus == {"NONE", "PENDING", "PROCURED", "ARRIVED", "CANCELLED"}

TypeOK ==
    /\ IntakeTypeOK
    /\ orders \in [Orders -> OrderRow]
    /\ tasks \in [Orders -> TaskStatus]

Init ==
    /\ IntakeInit
    /\ orders = [o \in Orders |-> [status |-> "NONE", user |-> Null, paid |-> FALSE, parcel |-> Null]]
    /\ tasks = [o \in Orders |-> "NONE"]

-----------------------------------------------------------------------------
Advance(o, from, to) ==
    /\ orders[o].status \in from
    /\ orders' = [orders EXCEPT ![o].status = to]
    /\ UNCHANGED intakeVars

\* get_or_create of the procurement task.
TaskOf(o) == IF tasks[o] = "NONE" THEN "PENDING" ELSE tasks[o]

\* create_manual_purchase_order; create_purchase_order_from_cart inserts the same row.
CreatePurchaseOrder(o, u) ==
    /\ orders[o].status = "NONE"
    /\ orders' = [orders EXCEPT ![o] = [@ EXCEPT !.status = "PENDING_PAYMENT", !.user = u]]
    /\ UNCHANGED <<intakeVars, tasks>>

PayPurchaseOrder(o) ==
    /\ orders[o].status = "PENDING_PAYMENT"
    /\ orders' = [orders EXCEPT ![o] = [@ EXCEPT !.status = "PENDING_REVIEW", !.paid = TRUE]]
    /\ UNCHANGED <<intakeVars, tasks>>

ReviewPurchaseOrder_Unpaid(o) ==    \* mutant: may be reviewed before it is paid
    /\ Advance(o, {"PENDING_PAYMENT", "PENDING_REVIEW"}, "PENDING_PROCUREMENT")
    /\ tasks' = [tasks EXCEPT ![o] = TaskOf(o)]
ReviewPurchaseOrder(o) ==
    /\ Advance(o, {"PENDING_REVIEW"}, "PENDING_PROCUREMENT")
    /\ tasks' = [tasks EXCEPT ![o] = TaskOf(o)]

ProcurePurchaseOrder(o) ==
    /\ Advance(o, {"PENDING_PROCUREMENT"}, "PROCURED")
    /\ tasks' = [tasks EXCEPT ![o] = "PROCURED"]

MarkArrived(o) ==
    /\ Advance(o, {"PROCURED"}, "ARRIVED")
    /\ tasks' = [tasks EXCEPT ![o] = "ARRIVED"]

\* The task is made if need be, and keeps its status.
MarkException_TaskToo(o) ==     \* mutant: the task takes the order's status, which it does not have
    /\ Advance(o, InWork, "EXCEPTION")
    /\ tasks' = [tasks EXCEPT ![o] = "EXCEPTION"]
MarkException(o) ==
    /\ Advance(o, InWork, "EXCEPTION")
    /\ tasks' = [tasks EXCEPT ![o] = TaskOf(o)]

\* A paid order is only cancelled out of EXCEPTION, and its task with it.
CancelPurchaseOrder_TaskLeft(o) ==  \* mutant: the task is forgotten
    /\ Advance(o, {"PENDING_PAYMENT", "EXCEPTION"}, "CANCELLED")
    /\ UNCHANGED tasks
CancelPurchaseOrder(o) ==
    /\ Advance(o, {"PENDING_PAYMENT", "EXCEPTION"}, "CANCELLED")
    /\ tasks' = [tasks EXCEPT ![o] = IF @ = "NONE" THEN "NONE" ELSE "CANCELLED"]

\* convert_purchase_order_to_parcel: refused if a parcel has the number already.
ConvertToParcel_Links(o, n, wh) ==  \* mutant: or it is linked to that parcel
    /\ orders[o].status = "ARRIVED"
    /\ EnterStock(n, orders[o].user, wh) \/ (parcels[n].status = "IN_STOCK" /\ UNCHANGED parcels)
    /\ orders' = [orders EXCEPT ![o] = [@ EXCEPT !.status = "COMPLETED", !.parcel = n]]
    /\ UNCHANGED <<unclaimed, tasks>>
ConvertToParcel(o, n, wh) ==
    /\ orders[o].status = "ARRIVED"
    /\ orders[o].parcel = Null
    /\ EnterStock(n, orders[o].user, wh)
    /\ orders' = [orders EXCEPT ![o] = [@ EXCEPT !.status = "COMPLETED", !.parcel = n]]
    /\ UNCHANGED <<unclaimed, tasks>>

OrderStep ==
    \E o \in Orders :
        \/ \E u \in Users : CreatePurchaseOrder(o, u)
        \/ PayPurchaseOrder(o)
        \/ ReviewPurchaseOrder(o)
        \/ ProcurePurchaseOrder(o)
        \/ MarkArrived(o)
        \/ MarkException(o)
        \/ CancelPurchaseOrder(o)
        \/ \E n \in Numbers, wh \in Warehouses : ConvertToParcel(o, n, wh)

Next == (IntakeNext /\ UNCHANGED <<orders, tasks>>) \/ OrderStep

Spec == Init /\ [][Next]_vars

-----------------------------------------------------------------------------
\* The procurement task agrees with its order: none before the review, then in step
\* with it, cancelled with it; an exception keeps the task at what had been done.
TaskFollowsOrder ==
    \A o \in Orders :
        LET status == orders[o].status
        IN  /\ status \in {"NONE", "PENDING_PAYMENT", "PENDING_REVIEW"} => tasks[o] = "NONE"
            /\ status = "PENDING_PROCUREMENT" => tasks[o] = "PENDING"
            /\ status = "PROCURED" => tasks[o] = "PROCURED"
            /\ status \in {"ARRIVED", "COMPLETED"} => tasks[o] = "ARRIVED"
            /\ status = "EXCEPTION" => tasks[o] \in {"PENDING", "PROCURED"}
            /\ status = "CANCELLED" => tasks[o] = IF orders[o].paid THEN "CANCELLED" ELSE "NONE"

\* No work is done for an order that was not paid, and a payment is never forgotten.
WorkIsPaid ==
    \A o \in Orders :
        /\ orders[o].status \in AfterPayment => orders[o].paid
        /\ orders[o].status \in {"NONE", "PENDING_PAYMENT"} => ~ orders[o].paid

\* A completed order and only that one has a parcel: in stock, its member's, no other
\* order's, and not one that came in through a claim.
ConvertedOnce ==
    \A o \in Orders :
        LET n == orders[o].parcel
        IN  /\ orders[o].status = "COMPLETED" <=> n # Null
            /\ n # Null =>
                /\ parcels[n].status = "IN_STOCK" /\ parcels[n].user = orders[o].user
                /\ unclaimed[n].status # "CLAIMED"
                /\ \A other \in Orders \ {o} : orders[other].parcel # n
=============================================================================
