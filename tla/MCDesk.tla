-------------------------------- MODULE MCDesk --------------------------------
(* All pages against the server, on small instances.                        *)
EXTENDS Desk, FrontEnds

\* TLC evaluates a definition of another module once.
AllPages == PageTable
TheServer == Functions
TheStatuses == StatusesOf
Symmetry == Permutations(Recs)

\* What a page changes in a list of another page that it does not load again: the wallet is
\* kept three times, and a payment renews one copy. A profile is put into the cache while an
\* older answer may be on its way.
PaidFrom(pages, operation, other) == pages \X {operation} \X other
KnownStale ==
    LET wallet == {"wallet", "wallet-transactions"}
        purchase == {"purchase-wallet", "purchase-wallet-transactions"}
        finance == {"finance-wallet", "finance-transactions"}
        mobile == {"finance-wallet", "finance-wallet-transactions"}
    IN
    PaidFrom({"MemberWaybills"}, "payWaybill", purchase \cup finance) \cup
    PaidFrom({"MemberPurchases"}, "payPurchaseOrder", wallet \cup finance) \cup
    PaidFrom({"MobileWaybills"}, "payWaybill", purchase \cup mobile) \cup
    PaidFrom({"MobileCart", "MobileManual", "MobileOrders"}, "payPurchaseOrder", wallet \cup mobile) \cup
    {"WebAdminFinance"} \X {"approveRemittance", "rechargeWallet", "deductWallet"} \X {"admin-wallet-transactions"} \cup
    {<<p, "updateProfile", "me">> : p \in {"MemberAccount", "MobileAccount"}} \cup {
    <<"WebTickets", "addMessage", "tickets">>,
    <<"WaybillOps", "shipWaybill", "admin-shipping-batches">>,
    <<"WaybillOps", "shipWaybill", "admin-parcels">>,
    <<"WaybillOps", "shipShippingBatch", "admin-parcels">>,
    <<"WaybillOps", "rechargeWallet", "admin-finance-wallet-transactions">>,
    <<"Finance", "approveRemittance", "admin-wallet-transactions">>,
    <<"PurchaseOps", "convertPurchaseOrderToParcel", "admin-parcels">>}
\* web-app offers some actions by another order of the statuses than the server's.
KnownDenied ==
    {<<"WebWaybill", "confirmReceipt", "SIGNED">>, <<"WebTickets", "addMessage", "CLOSED">>} \cup
    {"WebAdminBatches"} \X {"addWaybillsToShippingBatch"} \X {"LOCKED", "SHIPPED"} \cup
    {<<"WebAdminBatches", "shipShippingBatch", "DRAFT">>}
\* A photo that was uploaded for one parcel ends in the form of the next, as do a reply and
\* a note of a ticket, and a claim; a saved member returns to the drawer in which another one
\* is edited, an answered ticket or claim to the box in which the next one is written.
KnownSlips == {
    <<"WebTickets", "addMessage">>, <<"WebAdminFinance", "approveRemittance">>,
    <<"WebAdminFinance", "cancelRemittance">>, <<"MemberTickets", "addMessage">>, <<"MemberUnclaimed", "claimUnclaimedParcel">>,
    <<"MobileTickets", "addMessage">>, <<"MobileUnclaimed", "claimUnclaimedParcel">>,
    <<"ParcelWms", "inboundParcel">>, <<"TicketOps", "replyTicket">>, <<"TicketOps", "closeTicket">>,
    <<"MemberOps", "updateMember">>}
\* web-app locks none of its dialogs for actions.
KnownRepeats == {
    <<"WebTickets", "createTicket">>, <<"WebTickets", "addMessage">>,
    <<"WebAdminWaybills", "addTrackingEvent">>, <<"WebAdminUnclaimed", "rejectUnclaimedParcel">>}
=============================================================================
