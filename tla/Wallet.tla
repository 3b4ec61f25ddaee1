-------------------------------- MODULE Wallet --------------------------------
(***************************************************************************)
(* Member wallets: administrator recharges and deductions, offline         *)
(* remittances waiting for review, and the payment of waybills and         *)
(* purchase orders from the balance.                                       *)
(*                                                                         *)
(* Source: backend/apps/finance/services.py and models.py, and             *)
(* pay_purchase_order_with_wallet of backend/apps/purchases/services.py.   *)
(* Each function is one transaction, so one action; the actions of this    *)
(* module are what WalletRace shows the interleaved transactions to do.    *)
(*                                                                         *)
(* A wallet row is created on first use with balance 0, so that a wallet   *)
(* with no row and a wallet with balance 0 are one state. frozen_balance   *)
(* is never written and is left out, and so are the order statuses other   *)
(* than PAID: an order is inserted and paid in one transaction.            *)
(***************************************************************************)
EXTENDS Integers, Sequences, FiniteSets

CONSTANTS
    Users,          \* members
    Currencies,     \* currencies of wallets
    Home,           \* the currency of bills: no payment view passes another
    Waybills,       \* bills that are waybills
    Purchases,      \* bills that are purchase orders
    Requests,       \* rows of recharge_requests
    Keys,           \* idempotency keys clients send
    Null,           \* SQL NULL
    Amounts,        \* amounts an administrator or a member types
    MaxBalance,     \* largest balance the decimal column holds
    MaxRows         \* bound: wallet transactions recorded per wallet

Bills == Waybills \cup Purchases
Wallets == Users \X Currencies

ASSUME HomeAssumption == Home \in Currencies
ASSUME AmountsAssumption == Amounts \subseteq Nat /\ MaxBalance \in Nat /\ MaxRows \in Nat
ASSUME BillsAssumption == Waybills \cap Purchases = {} /\ Bills \cap Requests = {}
ASSUME NullAssumption == Null \notin Users \cup Keys \cup Bills \cup Requests

VARIABLES
    balance,    \* wallets.balance
    ledger,     \* wallet_transactions of each wallet, oldest first
    bills,      \* the payable side of waybills and purchase_orders
    orders,     \* payment_orders: the idempotency key of each PAID order, Null if none
    requests    \* recharge_requests

vars == <<balance, ledger, bills, orders, requests>>

Credits == {"ADMIN_RECHARGE", "OFFLINE_REMITTANCE"}
Payments == {"WAYBILL_PAYMENT", "PURCHASE_PAYMENT"}

\* ref is the bill or the request a row is about (business_type and business_id).
LedgerRow == [type : Credits \cup Payments \cup {"ADMIN_DEDUCT"},
              amount : Nat, after : Nat, ref : Bills \cup Requests \cup {Null}]
\* SETTLED stands for every status after payment.
BillRow == [status : {"NONE", "PENDING_PAYMENT", "SETTLED", "CANCELLED"},
            user : Users \cup {Null}, due : Nat]
RequestRow == [status : {"NONE", "PENDING", "COMPLETED", "CANCELLED"},
               wallet : Wallets \cup {Null}, amount : Nat, proof : BOOLEAN]

TypeOK ==
    /\ balance \in [Wallets -> 0 .. MaxBalance]
    /\ ledger \in [Wallets -> Seq(LedgerRow)]
    /\ bills \in [Bills -> BillRow]
    /\ orders \in [Bills -> Keys \cup {Null}]
    /\ requests \in [Requests -> RequestRow]

Init ==
    /\ balance = [wt \in Wallets |-> 0]
    /\ ledger = [wt \in Wallets |-> <<>>]
    /\ bills = [b \in Bills |-> [status |-> "NONE", user |-> Null, due |-> 0]]
    /\ orders = [b \in Bills |-> Null]
    /\ requests = [r \in Requests |->
            [status |-> "NONE", wallet |-> Null, amount |-> 0, proof |-> FALSE]]

-----------------------------------------------------------------------------
\* What a row adds to the balance.
Signed(type, amount) == IF type \in Credits THEN amount ELSE -amount

\* Deductions check the balance first, and a balance the column cannot hold fails the
\* whole transaction.
Fits_Any(after) == TRUE             \* mutant: nothing is checked
Fits(after) == after \in 0 .. MaxBalance

\* One movement of money: the new balance and the row that explains it, written together.
Post_RowFirst(wt, type, amount, ref) ==     \* mutant: the row shows the balance before
    LET after == balance[wt] + Signed(type, amount)
    IN  /\ amount > 0 /\ Fits(after) /\ Len(ledger[wt]) < MaxRows
        /\ balance' = [balance EXCEPT ![wt] = after]
        /\ ledger' = [ledger EXCEPT ![wt] =
                Append(@, [type |-> type, amount |-> amount, after |-> balance[wt], ref |-> ref])]
Post(wt, type, amount, ref) ==
    LET after == balance[wt] + Signed(type, amount)
    IN  /\ amount > 0
        /\ Fits(after)
        /\ Len(ledger[wt]) < MaxRows
        /\ balance' = [balance EXCEPT ![wt] = after]
        /\ ledger' = [ledger EXCEPT ![wt] =
                Append(@, [type |-> type, amount |-> amount, after |-> after, ref |-> ref])]

\* admin_recharge leaves a COMPLETED request behind, without a proof.
AdminRecharge(r, wt, amount) ==
    /\ requests[r].status = "NONE"
    /\ requests' = [requests EXCEPT ![r] =
            [status |-> "COMPLETED", wallet |-> wt, amount |-> amount, proof |-> FALSE]]
    /\ Post(wt, "ADMIN_RECHARGE", amount, r)
    /\ UNCHANGED <<bills, orders>>

AdminDeduct(wt, amount) ==
    /\ Post(wt, "ADMIN_DEDUCT", amount, Null)
    /\ UNCHANGED <<bills, orders, requests>>

SubmitRemittance(r, wt, amount) ==
    /\ requests[r].status = "NONE"
    /\ amount > 0
    /\ requests' = [requests EXCEPT ![r] =
            [status |-> "PENDING", wallet |-> wt, amount |-> amount, proof |-> TRUE]]
    /\ UNCHANGED <<balance, ledger, bills, orders>>

Reviewable_Again(r) == requests[r].proof    \* mutant: whatever came of the first review
Reviewable(r) == requests[r].proof /\ requests[r].status = "PENDING"

ApproveRemittance(r) ==
    /\ Reviewable(r)
    /\ Post(requests[r].wallet, "OFFLINE_REMITTANCE", requests[r].amount, r)
    /\ requests' = [requests EXCEPT ![r].status = "COMPLETED"]
    /\ UNCHANGED <<bills, orders>>

CancelRemittance(r) ==
    /\ Reviewable(r)
    /\ requests' = [requests EXCEPT ![r].status = "CANCELLED"]
    /\ UNCHANGED <<balance, ledger, bills, orders>>

-----------------------------------------------------------------------------
(* Bills. How a waybill or a purchase order reaches PENDING_PAYMENT is     *)
(* elsewhere (Fulfilment for waybills); here it appears with its owner and *)
(* amount. The fee of a waybill may be 0, the total of a purchase may not. *)

PresentBill(b, u, due) ==
    /\ bills[b].status = "NONE"
    /\ b \in Purchases => due > 0
    /\ bills' = [bills EXCEPT ![b] = [status |-> "PENDING_PAYMENT", user |-> u, due |-> due]]
    /\ UNCHANGED <<balance, ledger, orders, requests>>

\* cancel_waybill and cancel_purchase_order before payment; a purchase may also be
\* called off after it was paid, through EXCEPTION, and nothing is paid back.
MayCancel_Paid(b) == bills[b].status \in {"PENDING_PAYMENT", "SETTLED"}    \* mutant: any bill
MayCancel(b) ==
    \/ bills[b].status = "PENDING_PAYMENT"
    \/ b \in Purchases /\ bills[b].status = "SETTLED"

CancelBill(b) ==
    /\ MayCancel(b)
    /\ bills' = [bills EXCEPT ![b].status = "CANCELLED"]
    /\ UNCHANGED <<balance, ledger, orders, requests>>

PaymentType(b) == IF b \in Waybills THEN "WAYBILL_PAYMENT" ELSE "PURCHASE_PAYMENT"

Payable_Twice(b) == bills[b].status \in {"PENDING_PAYMENT", "SETTLED"}     \* mutant: no order check
Payable(b) == orders[b] = Null /\ bills[b].status = "PENDING_PAYMENT"

\* pay_with_wallet and pay_purchase_order_with_wallet. A bill whose order is PAID is
\* answered from that order: no step. A key some other order carries breaks the
\* unique index and fails the payment.
Pay(b, key) ==
    /\ Payable(b)
    /\ \A other \in Bills : orders[other] # key
    /\ Post(<<bills[b].user, Home>>, PaymentType(b), bills[b].due, b)
    /\ orders' = [orders EXCEPT ![b] = key]
    /\ bills' = [bills EXCEPT ![b].status = "SETTLED"]
    /\ UNCHANGED requests

Next ==
    \/ \E r \in Requests, wt \in Wallets, amount \in Amounts :
            AdminRecharge(r, wt, amount) \/ SubmitRemittance(r, wt, amount)
    \/ \E r \in Requests : ApproveRemittance(r) \/ CancelRemittance(r)
    \/ \E wt \in Wallets, amount \in Amounts : AdminDeduct(wt, amount)
    \/ \E b \in Bills :
        \/ \E u \in Users, due \in Amounts \cup {0} : PresentBill(b, u, due)
        \/ CancelBill(b)
        \/ \E key \in Keys : Pay(b, key)

Spec == Init /\ [][Next]_vars

-----------------------------------------------------------------------------
\* The rows that mention a bill or a request, in whatever wallet.
RowsOf(ref) == {row \in Wallets \X (1 .. MaxRows) :
                    /\ row[2] <= Len(ledger[row[1]])
                    /\ ledger[row[1]][row[2]].ref = ref}

\* The transactions of a wallet account for its balance: each row continues the
\* balance the row before it left, and the last one leaves the current balance.
LedgerExplainsBalance ==
    \A wt \in Wallets :
        LET rows == ledger[wt]
            Left(i) == IF i = 0 THEN 0 ELSE rows[i].after
        IN  /\ \A i \in DOMAIN rows :
                    rows[i].after = Left(i - 1) + Signed(rows[i].type, rows[i].amount)
            /\ balance[wt] = Left(Len(rows))

\* A payment order exists exactly when its bill was charged, once, in full, to the
\* wallet of the bill's own member: not twice on a retry, never to someone else.
ChargedOnce ==
    \A b \in Bills :
        IF orders[b] = Null THEN RowsOf(b) = {}
        ELSE \E i \in 1 .. MaxRows :
                LET wt == <<bills[b].user, Home>>
                IN  /\ RowsOf(b) = {<<wt, i>>}
                    /\ ledger[wt][i].amount = bills[b].due
                    /\ ledger[wt][i].type = PaymentType(b)

\* A bill moves on exactly when it is paid; the one exception is a purchase that was
\* called off after payment, whose money stays taken.
PaidMeansSettled ==
    \A b \in Bills :
        /\ bills[b].status = "SETTLED" => orders[b] # Null
        /\ orders[b] # Null =>
                bills[b].status = "SETTLED" \/ (b \in Purchases /\ bills[b].status = "CANCELLED")

\* A recharge request is COMPLETED exactly when its amount was credited, once, to
\* its own wallet, however often and by whomever it was reviewed.
CreditedOnce ==
    \A r \in Requests :
        IF requests[r].status # "COMPLETED" THEN RowsOf(r) = {}
        ELSE \E i \in 1 .. MaxRows :
                /\ RowsOf(r) = {<<requests[r].wallet, i>>}
                /\ ledger[requests[r].wallet][i].amount = requests[r].amount
                /\ ledger[requests[r].wallet][i].type \in Credits
=============================================================================
