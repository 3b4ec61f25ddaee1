----------------------------- MODULE WebAppPages -----------------------------
(***************************************************************************)
(* The pages of web-app, the site for members and administrators in one,   *)
(* on which something is done, or seen. PageParts says how a page is       *)
(* described. There is no query cache: a list belongs to its page, and     *)
(* what a success loads again is what the page's load function loads.      *)
(* Operations have the names of the other API modules. Statuses the pages  *)
(* name and the server does not know are left out (PENDING_FEE, PAID,      *)
(* IN_TRANSIT, PROCURING). The bodies of requests are taken as good, also  *)
(* those of the two forms of TicketsPage, which name their fields subject  *)
(* and message where the server wants title and content.                   *)
(***************************************************************************)
EXTENDS PageParts, Backend

Site(reads, panels, effects, forms) ==
    [app |-> "web-app", reads |-> reads, panels |-> panels, effects |-> effects, forms |-> forms]
Shows(list, source) == Site(list :> source, <<View({list})>>, <<>>, <<>>)

-----------------------------------------------------------------------------
\* The member's pages. Lists: ParcelsPage, WaybillsPage, PurchasesPage, ParcelDetailPage, WalletPage,
\* WarehouseAddressPage; pages that send one form and leave, or empty it.
WebParcels == Shows("parcels", "parcels")
WebWaybills == Shows("waybills", "waybills")
WebPurchases == Shows("purchase-orders", "purchases")
WebParcelDetail == Shows("parcel", "parcels")
WebWallet == Site("wallet" :> "wallets" @@ "transactions" :> "transactions",
    <<View({"wallet", "transactions"})>>, <<>>, <<>>)
WebWarehouseAddress == Shows("warehouses", "warehouses")

OneForm(reads, op, effect) == Site(reads, <<Panel(Makes({op}), DOMAIN reads)>>, op :> effect, OwnLock({op}))
WebForecast == OneForm("warehouses" :> "warehouses", "forecastParcel", Refresh({}))
WebManual == OneForm(<<>>, "createManualPurchaseOrder", Leaving)
WebRemittance == OneForm(<<>>, "createOfflineRemittance", Leaving)

\* pages/WaybillCreatePage.tsx: after a success the member goes to the new waybill.
WebCreateReads == "packable" :> "packable" @@ "addresses" :> "addresses"
WebCreateParcels == View({"packable"})
WebCreateForm == Panel(Makes({"createWaybill"}), {"addresses"})
WebWaybillCreate == Site(WebCreateReads, <<WebCreateParcels, WebCreateForm>>,
    [createWaybill |-> Leaving], OwnLock({"createWaybill"}))

\* pages/WaybillDetailPage.tsx, pages/PurchaseDetailPage.tsx: one record, loaded again. A signed
\* waybill can still be confirmed, says the page.
WebWaybillControls == [payWaybill |-> {"PENDING_PAYMENT"}, confirmReceipt |-> {"SHIPPED", "SIGNED"}]
WebWaybillEffects == [o \in DOMAIN WebWaybillControls |-> Refresh({"waybill"})]
WebWaybill == Site("waybill" :> "waybills", <<Rows("waybills", "waybill", WebWaybillControls)>>,
    WebWaybillEffects, In("button", JointLock(DOMAIN WebWaybillControls)))
WebPurchaseControls == [payPurchaseOrder |-> {"PENDING_PAYMENT"}]
WebPurchaseEffects == [payPurchaseOrder |-> Refresh({"purchase-order"})]
WebPurchase == Site("purchase-order" :> "purchases", <<Rows("purchases", "purchase-order", WebPurchaseControls)>>,
    WebPurchaseEffects, Buttons({"payPurchaseOrder"}))

\* pages/TicketsPage.tsx: one reply box for all tickets, which is not locked, for closed ones too.
WebTicketReads == "tickets" :> "tickets" @@ "ticket" :> "messages"
WebTicketList == Panel(Makes({"createTicket"}), {"tickets"})
WebTicketDetail == Rows("tickets", "ticket", For({"OPEN", "PROCESSING", "CLOSED"}, {"addMessage"}))
WebTicketEffects == [
    createTicket |-> Refresh({"tickets"}),
    addMessage |-> Selecting("detail", Refresh({"ticket"}))]
WebTickets == Site(WebTicketReads, <<WebTicketList, WebTicketDetail>>, WebTicketEffects,
    In("create", [createTicket |-> Form({})]) @@ In("detail", [addMessage |-> Kept(Form({}))]))

\* pages/AccountAddressesPage.tsx, pages/AccountPage.tsx
WebAddressRows == Rows("addresses", "addresses", For(Listed, {"updateAddress", "deleteAddress", "setDefaultAddress"}))
WebAddressForm == Panel(Makes({"createAddress"}), {})
WebAddressEffects == [o \in {"createAddress", "updateAddress", "deleteAddress", "setDefaultAddress"} |->
    Refresh({"addresses"})]
WebAddresses == Site("addresses" :> "addresses", <<WebAddressRows, WebAddressForm>>, WebAddressEffects,
    In("modal", JointLock({"createAddress", "updateAddress"})) @@ Unlocked({"deleteAddress", "setDefaultAddress"}))
WebProfile == View({"me"})
WebAccountForms == Panel(Makes({"updateProfile", "changePassword"}), {})
WebAccountEffects == [updateProfile |-> Refresh({"me"}), changePassword |-> Refresh({})]
WebAccount == Site("me" :> "me", <<WebProfile, WebAccountForms>>, WebAccountEffects,
    In("editing", [updateProfile |-> Form({})]) @@ In("password", [changePassword |-> Form({})]))

-----------------------------------------------------------------------------
\* The administrator's pages. Most have one dialog for all actions of a table, not locked while
\* a request is sent; it is emptied when it opens.
Actions(kind, list, controls) == Site(list :> kind, <<Rows(kind, list, controls)>>,
    [o \in DOMAIN controls |-> Refresh({list})], [o \in DOMAIN controls |-> Form({})])

\* pages/admin/AdminWaybillsPage.tsx, AdminPurchasesPage.tsx, AdminUnclaimedPage.tsx
WebWaybillActions == [reviewWaybill |-> {"PENDING_REVIEW"}, setWaybillFee |-> {"PENDING_PACKING"},
    shipWaybill |-> {"PENDING_SHIPMENT"}, addTrackingEvent |-> {"SHIPPED"}]
WebAdminWaybills == Actions("waybills", "admin-waybills", WebWaybillActions)
WebPurchaseActions == [reviewPurchaseOrder |-> {"PENDING_REVIEW"}, procurePurchaseOrder |-> {"PENDING_PROCUREMENT"},
    markPurchaseOrderArrived |-> {"PROCURED"}, convertPurchaseOrderToParcel |-> {"ARRIVED"}]
WebAdminPurchases == Actions("purchases", "admin-purchase-orders", WebPurchaseActions)
WebClaimActions == For({"CLAIM_PENDING"}, {"approveUnclaimedParcel", "rejectUnclaimedParcel"})
WebAdminUnclaimed == Actions("unclaimed", "admin-unclaimed-parcels", WebClaimActions)

\* pages/admin/AdminShippingBatchesPage.tsx
WebBatchControls == [
    addWaybillsToShippingBatch |-> BatchStatuses,
    lockShippingBatch |-> {"DRAFT"},
    shipShippingBatch |-> BatchStatuses \ {"SHIPPED"}]
WebBatchEffects == [o \in {"createShippingBatch"} \cup DOMAIN WebBatchControls |-> Refresh({"admin-shipping-batches"})]
WebAdminBatches == Site("admin-shipping-batches" :> "batches",
    <<Rows("batches", "admin-shipping-batches", WebBatchControls), Panel(Makes({"createShippingBatch"}), {})>>,
    WebBatchEffects,
    Buttons({"createShippingBatch"}) @@ Unlocked({"lockShippingBatch", "shipShippingBatch"}) @@
    [addWaybillsToShippingBatch |-> Form({})])

\* pages/admin/AdminFinancePage.tsx: three tabs that know nothing of each other; the remark on a
\* remittance stays in its dialog when that is cancelled.
WebRemittanceTab == Rows("remittances", "admin-remittances", For({"PENDING"}, {"approveRemittance", "cancelRemittance"}))
WebWalletTab == Panel(Makes({"rechargeWallet", "deductWallet"}), {})
WebTransactionsTab == View({"admin-wallet-transactions"})
WebAdminFinance == Site("admin-remittances" :> "remittances" @@ "admin-wallet-transactions" :> "transactions",
    <<WebRemittanceTab, WebWalletTab, WebTransactionsTab>>,
    [o \in {"approveRemittance", "cancelRemittance"} |-> Refresh({"admin-remittances"})] @@
    [o \in {"rechargeWallet", "deductWallet"} |-> Refresh({})],
    [o \in {"approveRemittance", "cancelRemittance"} |-> Kept(Form({}))] @@
    In("wallet", JointLock({"rechargeWallet", "deductWallet"})))

\* pages/admin/AdminInboundPage.tsx, AdminParcelsPage.tsx, AdminMembersPage.tsx
WebAdminInbound == OneForm("admin-warehouses" :> "warehouses", "scanInbound", Refresh({}))
WebAdminParcels == Shows("admin-parcels", "parcels")
WebMemberControls == [freezeMember |-> {"ACTIVE"}, unfreezeMember |-> {"FROZEN"}, resetPassword |-> MemberStatuses]
WebAdminMembers == Site("admin-members" :> "members", <<Rows("members", "admin-members", WebMemberControls)>>,
    [o \in DOMAIN WebMemberControls |-> Refresh({"admin-members"})], Unlocked(DOMAIN WebMemberControls))

\* pages/admin/AdminAdminUsersPage.tsx, AdminRolesPage.tsx: a table, a dialog to make and to edit,
\* and another list to choose from, loaded with the table.
Managed(reads, kind, list, statuses, name) ==
    LET make == "create" \o name  edit == "update" \o name  drop == "delete" \o name IN
    Site(reads, <<Rows(kind, list, For(statuses, {edit, drop})), Panel(Makes({make}), DOMAIN reads)>>,
        [o \in {make, edit, drop} |-> Refresh(DOMAIN reads)],
        In("modal", JointLock({make, edit})) @@ Unlocked({drop}))
WebAdminUsers == Managed("admin-accounts" :> "accounts" @@ "admin-roles" :> "roles",
    "accounts", "admin-accounts", Switched, "AdminAccount")
WebAdminRoles == Managed("admin-roles" :> "roles" @@ "admin-permissions" :> "permissions",
    "roles", "admin-roles", Listed, "AdminRole")

-----------------------------------------------------------------------------
WebPageTable == [
    WebParcels |-> WebParcels, WebWaybills |-> WebWaybills, WebPurchases |-> WebPurchases,
    WebParcelDetail |-> WebParcelDetail, WebWallet |-> WebWallet, WebWarehouseAddress |-> WebWarehouseAddress,
    WebForecast |-> WebForecast, WebManual |-> WebManual, WebRemittance |-> WebRemittance,
    WebWaybillCreate |-> WebWaybillCreate, WebWaybill |-> WebWaybill, WebPurchase |-> WebPurchase,
    WebTickets |-> WebTickets, WebAddresses |-> WebAddresses, WebAccount |-> WebAccount,
    WebAdminWaybills |-> WebAdminWaybills, WebAdminPurchases |-> WebAdminPurchases,
    WebAdminUnclaimed |-> WebAdminUnclaimed, WebAdminBatches |-> WebAdminBatches,
    WebAdminFinance |-> WebAdminFinance, WebAdminInbound |-> WebAdminInbound,
    WebAdminParcels |-> WebAdminParcels, WebAdminMembers |-> WebAdminMembers,
    WebAdminUsers |-> WebAdminUsers, WebAdminRoles |-> WebAdminRoles]
=============================================================================
