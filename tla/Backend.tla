------------------------------- MODULE Backend -------------------------------
(***************************************************************************)
(* What the server does with the operations the pages send: the statuses   *)
(* of the record it accepts, the status it leaves, and whose data changes. *)
(* Fulfilment, Purchases, Intake and Wallet model the same functions in    *)
(* full; here they are what a client can tell apart. "touches" names the    *)
(* lists whose statuses and amounts change, not those that repeat a name.  *)
(* Refusals for other data of the request are left out.                    *)
(*                                                                         *)
(* Source: the services and views of backend/apps.                         *)
(***************************************************************************)
EXTENDS TLC, Sequences

\* An operation on a record in a status of "from", which goes to "to" or stays the same;
\* one that makes a record, or needs none.
On(kind, from, to, touches) ==
    [kind |-> kind, from |-> from, to |-> to, touches |-> touches, idem |-> FALSE]
New(kind, touches) == On(kind, {}, "same", touches)
\* The same request again changes nothing, or is refused for another reason than the status.
Idem(operation) == [operation EXCEPT !.idem = TRUE]

WaybillStatuses == {"PENDING_REVIEW", "PENDING_PACKING", "PENDING_PAYMENT", "PENDING_SHIPMENT",
                    "SHIPPED", "SIGNED", "CANCELLED", "PROBLEM"}
BatchStatuses == {"DRAFT", "LOCKED", "SHIPPED"}     \* nothing cancels one
Money == {"wallets", "transactions", "payments"}

WaybillServer == [
    createWaybill |-> Idem(New("waybills", {"waybills", "parcels", "packable"})),
    reviewWaybill |-> On("waybills", {"PENDING_REVIEW"}, "PENDING_PACKING", {"waybills"}),
    setWaybillFee |-> On("waybills", {"PENDING_PACKING"}, "PENDING_PAYMENT", {"waybills"}),
    payWaybill |-> On("waybills", {"PENDING_PAYMENT"}, "PENDING_SHIPMENT", {"waybills"} \cup Money),
    shipWaybill |-> On("waybills", {"PENDING_SHIPMENT"}, "SHIPPED", {"waybills", "batches", "parcels"}),
    addTrackingEvent |-> On("waybills", WaybillStatuses, "same", {"waybills"}),
    confirmReceipt |-> On("waybills", {"SHIPPED"}, "SIGNED", {"waybills", "batches"})]

BatchServer == [
    createShippingBatch |-> New("batches", {"batches", "waybills"}),
    addWaybillsToShippingBatch |-> Idem(On("batches", {"DRAFT"}, "same", {"batches", "waybills"})),
    removeWaybillFromShippingBatch |-> Idem(On("batches", {"DRAFT"}, "same", {"batches", "waybills"})),
    lockShippingBatch |-> Idem(On("batches", {"DRAFT", "LOCKED"}, "LOCKED", {"batches"})),
    shipShippingBatch |-> Idem(On("batches", {"LOCKED", "SHIPPED"}, "SHIPPED", {"batches", "waybills", "parcels"})),
    addShippingBatchTrackingEvent |-> On("batches", {"LOCKED", "SHIPPED"}, "same", {"waybills"})]

RemittanceStatuses == {"PENDING", "COMPLETED", "CANCELLED"}
PayableStatuses == {"PENDING_REVIEW", "CONFIRMED", "SETTLED", "CANCELLED"}
Switched == {"ACTIVE", "DISABLED"}

MoneyServer == [
    rechargeWallet |-> New("wallets", {"wallets", "transactions"}),
    deductWallet |-> New("wallets", {"wallets", "transactions"}),
    approveRemittance |-> On("remittances", {"PENDING"}, "COMPLETED", {"remittances", "wallets", "transactions"}),
    createOfflineRemittance |-> New("remittances", {"remittances"}),
    cancelRemittance |-> On("remittances", {"PENDING"}, "CANCELLED", {"remittances"})]

PayableServer == [
    createSupplier |-> New("suppliers", {"suppliers"}),
    updateSupplier |-> Idem(On("suppliers", Switched, "same", {"suppliers"})),
    createCostType |-> New("costTypes", {"costTypes"}),
    updateCostType |-> Idem(On("costTypes", Switched, "same", {"costTypes"})),
    createPayable |-> New("payables", {"payables"}),
    updatePayable |-> Idem(On("payables", {"PENDING_REVIEW"}, "same", {"payables"})),
    confirmPayable |-> Idem(On("payables", {"PENDING_REVIEW", "CONFIRMED"}, "CONFIRMED", {"payables"})),
    settlePayable |-> On("payables", {"CONFIRMED"}, "SETTLED", {"payables"}),
    cancelPayable |-> Idem(On("payables", PayableStatuses \ {"SETTLED"}, "CANCELLED", {"payables"}))]

ParcelStatuses == {"PENDING_INBOUND", "IN_STOCK", "PACKING_REQUESTED", "PACKED", "OUTBOUND",
                   "CANCELLED", "PROBLEM"}
UnclaimedStatuses == {"UNCLAIMED", "CLAIM_PENDING", "CLAIMED"}
ParcelServer == [
    forecastParcel |-> New("parcels", {"parcels"}),
    importForecasts |-> New("parcels", {"parcels", "imports"}),
    inboundParcel |-> On("parcels", {"PENDING_INBOUND"}, "IN_STOCK", {"parcels", "packable"}),
    scanInbound |-> Idem(New("parcels", {"parcels", "packable", "unclaimed"})),
    createUnclaimedParcel |-> Idem(New("unclaimed", {"unclaimed"})),
    claimUnclaimedParcel |-> On("unclaimed", {"UNCLAIMED"}, "CLAIM_PENDING", {"unclaimed"}),
    approveUnclaimedParcel |-> On("unclaimed", {"CLAIM_PENDING"}, "CLAIMED", {"unclaimed", "parcels", "packable"}),
    rejectUnclaimedParcel |-> On("unclaimed", {"CLAIM_PENDING"}, "UNCLAIMED", {"unclaimed"})]

PurchaseStatuses == {"PENDING_PAYMENT", "PENDING_REVIEW", "PENDING_PROCUREMENT", "PROCURED",
                     "ARRIVED", "COMPLETED", "CANCELLED", "EXCEPTION"}
PurchaseServer == [
    createPurchaseOrder |-> Idem(New("purchases", {"purchases", "cart"})),
    createManualPurchaseOrder |-> New("purchases", {"purchases"}),
    payPurchaseOrder |-> On("purchases", {"PENDING_PAYMENT"}, "PENDING_REVIEW", {"purchases"} \cup Money),
    reviewPurchaseOrder |-> On("purchases", {"PENDING_REVIEW"}, "PENDING_PROCUREMENT", {"purchases"}),
    procurePurchaseOrder |-> On("purchases", {"PENDING_PROCUREMENT"}, "PROCURED", {"purchases"}),
    markPurchaseOrderArrived |-> On("purchases", {"PROCURED"}, "ARRIVED", {"purchases"}),
    convertPurchaseOrderToParcel |-> On("purchases", {"ARRIVED"}, "COMPLETED", {"purchases", "parcels", "packable"}),
    markPurchaseOrderException |->
        On("purchases", {"PENDING_REVIEW", "PENDING_PROCUREMENT", "PROCURED"}, "EXCEPTION", {"purchases"}),
    cancelPurchaseOrder |-> On("purchases", {"PENDING_PAYMENT", "EXCEPTION"}, "CANCELLED", {"purchases"})]

-----------------------------------------------------------------------------
\* Data that administrators keep: made, edited (the form shows the status too, and leaves
\* it here), switched off and on, removed.
Listed == {"LISTED"}
Creates(kind, name) == ("create" \o name) :> New(kind, {kind})
Updates(kind, statuses, name) == ("update" \o name) :> Idem(On(kind, statuses, "same", {kind}))
Disables(kind, name) == ("disable" \o name) :> Idem(On(kind, Switched, "DISABLED", {kind}))
Enables(kind, name) == ("enable" \o name) :> Idem(On(kind, Switched, "ACTIVE", {kind}))
Deletes(kind, statuses, name) == ("delete" \o name) :> On(kind, statuses, "GONE", {kind})
Keeps(kind, statuses, name) == Creates(kind, name) @@ Updates(kind, statuses, name) @@ Deletes(kind, statuses, name)

\* Rate plans go with their channel.
ConfigServer ==
    LET config(kind, name) == Keeps(kind, Switched, name) @@ Enables(kind, name) @@ Disables(kind, name) IN
    "deleteShippingChannel" :> On("channels", Switched, "GONE", {"channels", "ratePlans"}) @@
    config("warehouses", "Warehouse") @@ config("channels", "ShippingChannel") @@
    config("packaging", "PackagingMethod") @@ config("services", "ValueAddedService") @@
    config("ratePlans", "RatePlan")

\* The SKUs of a product are disabled with it. A value is made again by an edit.
CatalogServer ==
    LET catalog(kind, name) == Creates(kind, name) @@ Updates(kind, Switched, name) @@ Disables(kind, name) IN
    "disableProduct" :> Idem(On("products", Switched, "DISABLED", {"products", "skus"})) @@
    "addProductAttrValue" :> Idem(New("attributeValues", {"attributeValues"})) @@
    "setProductAttrValue" :> Idem(On("attributeValues", Listed \cup {"GONE"}, "LISTED", {"attributeValues"})) @@
    catalog("categories", "Category") @@ catalog("products", "Product") @@ catalog("skus", "Sku") @@
    Keeps("attributes", Listed, "ProductAttribute") @@ Keeps("translations", Listed, "ProductTranslation") @@
    Deletes("attributeValues", Listed, "ProductAttrValue")

MemberStatuses == {"ACTIVE", "FROZEN"}
MemberServer == [
    updateMember |-> Idem(On("members", MemberStatuses, "same", {"members"})),
    freezeMember |-> Idem(On("members", MemberStatuses, "FROZEN", {"members"})),
    unfreezeMember |-> Idem(On("members", MemberStatuses, "ACTIVE", {"members"})),
    resetPassword |-> Idem(On("members", MemberStatuses, "same", {})),
    adjustMemberPoints |-> On("members", MemberStatuses, "same", {"growth"})]

\* messages: one ticket with its messages.
TicketServer ==
    LET open == {"OPEN", "PROCESSING"}  both == {"tickets", "messages"} IN [
    createTicket |-> New("tickets", {"tickets"}),
    addMessage |-> On("tickets", open, "same", both),
    markProcessing |-> Idem(On("tickets", open, "PROCESSING", both)),
    replyTicket |-> On("tickets", open, "PROCESSING", both),
    closeTicket |-> On("tickets", open, "CLOSED", both)]

ContentStatuses == {"DRAFT", "PUBLISHED", "HIDDEN"}
ContentServer ==
    "publishPage" :> Idem(On("content", ContentStatuses, "PUBLISHED", {"content"})) @@
    "hidePage" :> Idem(On("content", ContentStatuses, "HIDDEN", {"content"})) @@
    Creates("content", "Page") @@ Updates("content", ContentStatuses, "Page") @@
    Creates("contentCategories", "ContentCategory") @@
    Updates("contentCategories", Switched, "ContentCategory") @@ Disables("contentCategories", "ContentCategory")

\* access: the permissions and the menus of administrators. Passwords may change with an
\* account, but the same password again is no news to a list.
AccessServer ==
    LET also(operations) == [o \in DOMAIN operations |-> [operations[o] EXCEPT !.touches = @ \cup {"access"}]] IN
    also(Keeps("roles", Listed, "AdminRole") @@ Keeps("accounts", Switched, "AdminAccount")) @@
    Keeps("regions", Switched, "Region")

\* What a member keeps. The same quantity again changes nothing.
MemberOwnServer ==
    "setDefaultAddress" :> Idem(On("addresses", Listed, "same", {"addresses"})) @@
    Keeps("addresses", Listed, "Address") @@ Keeps("cart", Listed, "CartItem") @@
    [updateProfile |-> Idem(New("me", {"me"})), changePassword |-> Idem(New("me", {}))]

Functions == WaybillServer @@ BatchServer @@ MoneyServer @@ PayableServer @@ ParcelServer @@ PurchaseServer @@
    ConfigServer @@ CatalogServer @@ MemberServer @@ TicketServer @@ ContentServer @@ AccessServer @@ MemberOwnServer
StatusesOf ==
    [waybills |-> WaybillStatuses, batches |-> BatchStatuses, wallets |-> {"ACTIVE"},
     remittances |-> RemittanceStatuses, payables |-> PayableStatuses, parcels |-> ParcelStatuses,
     unclaimed |-> UnclaimedStatuses, purchases |-> PurchaseStatuses, members |-> MemberStatuses,
     tickets |-> {"OPEN", "PROCESSING", "CLOSED"}, content |-> ContentStatuses] @@
    [k \in {"suppliers", "costTypes", "warehouses", "channels", "packaging", "services", "ratePlans",
        "categories", "products", "skus", "contentCategories", "accounts", "regions"} |-> Switched \cup {"GONE"}] @@
    [k \in {"attributes", "attributeValues", "translations", "roles", "addresses", "cart"} |-> Listed \cup {"GONE"}]
=============================================================================
