----------------------------- MODULE MemberPages -----------------------------
(***************************************************************************)
(* The pages of user-web, the member's site for the desktop, on which      *)
(* something is done. PageParts says how a page is described; the queries  *)
(* are named without their common prefix "member".                         *)
(***************************************************************************)
EXTENDS PageParts, Backend

-----------------------------------------------------------------------------
\* pages/WaybillsPage.tsx
MemberWaybillReads ==
    "me" :> "me" @@ "packable-parcels" :> "packable" @@ "waybills" :> "waybills" @@
    "wallet" :> "wallets" @@ "wallet-transactions" :> "transactions" @@ "addresses" :> "addresses"
MemberWaybillLists == {"packable-parcels", "parcels", "waybills", "wallet", "wallet-transactions"}
MemberWaybillCreate == Panel(Makes({"createWaybill"}), {"packable-parcels", "addresses"})
MemberWaybillList == View({"waybills"})
MemberWaybillDetail == Rows("waybills", "waybills", [
    payWaybill |-> {"PENDING_PAYMENT"}, confirmReceipt |-> {"SHIPPED"}])
MemberWaybillPay == View({"wallet", "wallet-transactions"})
MemberWaybillEffects == [
    createWaybill |-> Refresh(MemberWaybillLists),
    payWaybill |-> PatchRefresh({"waybills", "wallet"}, MemberWaybillLists),
    confirmReceipt |-> PatchRefresh({"waybills"}, {"waybills"})]
MemberWaybillForms == In("createPanel", OwnLock({"createWaybill"})) @@
    In("payWaybillId", OwnLock({"payWaybill"})) @@ Buttons({"confirmReceipt"})
MemberWaybills == [app |-> "user-web", reads |-> MemberWaybillReads,
    panels |-> <<MemberWaybillCreate, MemberWaybillList, MemberWaybillDetail, MemberWaybillPay>>,
    effects |-> MemberWaybillEffects, forms |-> MemberWaybillForms]

-----------------------------------------------------------------------------
\* pages/PurchasesPage.tsx
MemberPurchaseReads ==
    "me" :> "me" @@ "products" :> "products" @@ "cart-items" :> "cart" @@
    "purchase-orders" :> "purchases" @@ "purchase-wallet" :> "wallets" @@
    "purchase-wallet-transactions" :> "transactions"
MemberPurchaseLists ==
    {"cart-items", "purchase-orders", "purchase-wallet", "purchase-wallet-transactions", "parcels"}
MemberShop == Panel(Makes({"createCartItem"}), {"products"})
MemberCart == Rows("cart", "cart-items",
    For(Listed, {"updateCartItem", "deleteCartItem"}) @@ Makes({"createPurchaseOrder"}))
MemberManualPurchase == Panel(Makes({"createManualPurchaseOrder"}), {})
MemberOrderList == View({"purchase-orders"})
MemberOrderDetail == Rows("purchases", "purchase-orders", For({"PENDING_PAYMENT"}, {"payPurchaseOrder"}))
MemberOrderPay == View({"purchase-wallet", "purchase-wallet-transactions"})
\* addCartItem is createCartItem here.
MemberCartEffects == [o \in {"createCartItem", "updateCartItem", "deleteCartItem"} |-> Refresh({"cart-items"})]
MemberOrderEffects ==
    [o \in {"createPurchaseOrder", "createManualPurchaseOrder"} |-> Refresh(MemberPurchaseLists)]
MemberOrderPaid == [payPurchaseOrder |->
    PatchRefresh({"purchase-orders", "purchase-wallet"}, MemberPurchaseLists)]
MemberPurchaseForms ==
    Buttons({"createCartItem"}) @@ Buttons({"updateCartItem"}) @@ Buttons({"deleteCartItem"}) @@
    In("checkoutPanel", OwnLock({"createPurchaseOrder"})) @@
    In("manualPanel", OwnLock({"createManualPurchaseOrder"})) @@
    In("payOrderId", OwnLock({"payPurchaseOrder"}))
MemberPurchases == [app |-> "user-web", reads |-> MemberPurchaseReads,
    panels |-> <<MemberShop, MemberCart, MemberManualPurchase, MemberOrderList, MemberOrderDetail, MemberOrderPay>>,
    effects |-> MemberCartEffects @@ MemberOrderEffects @@ MemberOrderPaid, forms |-> MemberPurchaseForms]

-----------------------------------------------------------------------------
\* pages/FinancePage.tsx
MemberFinanceReads == "finance-wallet" :> "wallets" @@ "finance-transactions" :> "transactions" @@
    "remittances" :> "remittances"
MemberFinanceLists == DOMAIN MemberFinanceReads \cup {"wallet", "wallet-transactions"}
MemberRemittanceForm == Panel(Makes({"createOfflineRemittance"}), {"finance-wallet"})
MemberFinanceRecords == View({"remittances", "finance-transactions"})
\* The proof is uploaded by the operation itself.
MemberFinanceEffects == [createOfflineRemittance |-> Refresh(MemberFinanceLists)]
MemberFinance == [app |-> "user-web", reads |-> MemberFinanceReads,
    panels |-> <<MemberRemittanceForm, MemberFinanceRecords>>,
    effects |-> MemberFinanceEffects, forms |-> OwnLock({"createOfflineRemittance"})]

-----------------------------------------------------------------------------
\* pages/ParcelsPage.tsx
MemberParcelReads == "me" :> "me" @@ "warehouses" :> "warehouses" @@ "parcels" :> "parcels" @@
    "parcel-imports" :> "imports"
MemberForecastForm == Panel(Makes({"forecastParcel"}), {"warehouses"})
MemberImportForm == Panel(Makes({"importForecasts"}), {"parcel-imports"})
MemberParcelList == View({"parcels"})
MemberParcelDetail == View({"parcels"})
MemberParcelEffects == [forecastParcel |-> Refresh({"parcels"}), importForecasts |-> Refresh({"parcels", "parcel-imports"})]
MemberParcels == [app |-> "user-web", reads |-> MemberParcelReads,
    panels |-> <<MemberForecastForm, MemberImportForm, MemberParcelList, MemberParcelDetail>>,
    effects |-> MemberParcelEffects,
    forms |-> In("forecastCard", OwnLock({"forecastParcel"})) @@ In("importFile", OwnLock({"importForecasts"}))]

-----------------------------------------------------------------------------
\* pages/TicketsPage.tsx: replyTicket of its API module is addMessage.
MemberTicketCreate == Panel(Makes({"createTicket"}), {})
MemberTicketList == View({"tickets"})
\* One reply box for all tickets: what was typed stays when another ticket is selected.
MemberTicketReply == Rows("tickets", "tickets", For({"OPEN", "PROCESSING"}, {"addMessage"}))
MemberTicketEffects == [
    createTicket |-> Refresh({"tickets"}),
    addMessage |-> Selecting("replyBox", Refresh({"tickets"}))]
MemberTickets == [app |-> "user-web", reads |-> "tickets" :> "tickets",
    panels |-> <<MemberTicketCreate, MemberTicketList, MemberTicketReply>>,
    effects |-> MemberTicketEffects,
    forms |-> In("formPanel", OwnLock({"createTicket"})) @@
              In("replyBox", [addMessage |-> Kept(Form({"addMessage"}))])]

-----------------------------------------------------------------------------
\* pages/AddressesPage.tsx
MemberAddressRows == Rows("addresses", "addresses",
    For(Listed, {"updateAddress", "deleteAddress", "setDefaultAddress"}) @@ Makes({"createAddress"}))
MemberAddressEffects == [o \in {"createAddress", "updateAddress", "deleteAddress", "setDefaultAddress"} |->
    Refresh({"addresses"})]
\* One form on the page; a saved address empties it, whatever it holds (resetForm).
MemberAddressForms == In("form", JointLock({"createAddress", "updateAddress"})) @@
    Unlocked({"deleteAddress", "setDefaultAddress"})
MemberAddresses == [app |-> "user-web", reads |-> "addresses" :> "addresses",
    panels |-> <<MemberAddressRows>>, effects |-> MemberAddressEffects, forms |-> MemberAddressForms]

-----------------------------------------------------------------------------
\* pages/UnclaimedParcelsPage.tsx
MemberUnclaimedList == View({"unclaimed-parcels"})
\* One claim form for all parcels.
MemberUnclaimedClaim == Rows("unclaimed", "unclaimed-parcels", For({"UNCLAIMED"}, {"claimUnclaimedParcel"}))
MemberUnclaimedEffects == [claimUnclaimedParcel |-> Selecting("claimForm", Refresh({"unclaimed-parcels"}))]
MemberUnclaimed == [app |-> "user-web", reads |-> "unclaimed-parcels" :> "unclaimed",
    panels |-> <<MemberUnclaimedList, MemberUnclaimedClaim>>, effects |-> MemberUnclaimedEffects,
    forms |-> In("claimForm", [claimUnclaimedParcel |-> Kept(Form({"claimUnclaimedParcel"}))])]

-----------------------------------------------------------------------------
\* pages/AccountSettingsPage.tsx
MemberProfileForm == Panel(Makes({"updateProfile"}), {"me"})
MemberPasswordForm == Panel(Makes({"changePassword"}), {})
MemberAccountEffects == [updateProfile |-> Patch({"me"}), changePassword |-> Refresh({})]
MemberAccount == [app |-> "user-web", reads |-> "me" :> "me",
    panels |-> <<MemberProfileForm, MemberPasswordForm>>, effects |-> MemberAccountEffects,
    forms |-> In("profile", OwnLock({"updateProfile"})) @@ In("password", OwnLock({"changePassword"}))]

\* pages/DashboardPage.tsx: where a user sees what was done elsewhere.
MemberDashboardReads ==
    "me" :> "me" @@ "warehouses" :> "warehouses" @@ "waybills" :> "waybills" @@
    "purchase-orders" :> "purchases" @@ "parcels" :> "parcels" @@ "wallet" :> "wallets"
MemberDashboardCards == View({"me", "warehouses"})
MemberDashboardStatus == View({"waybills", "purchase-orders", "parcels", "wallet"})
MemberDashboard == [app |-> "user-web", reads |-> MemberDashboardReads,
    panels |-> <<MemberDashboardCards, MemberDashboardStatus>>, effects |-> <<>>, forms |-> <<>>]

-----------------------------------------------------------------------------
MemberPageTable == [MemberWaybills |-> MemberWaybills, MemberPurchases |-> MemberPurchases,
    MemberFinance |-> MemberFinance, MemberParcels |-> MemberParcels, MemberTickets |-> MemberTickets,
    MemberAddresses |-> MemberAddresses, MemberUnclaimed |-> MemberUnclaimed,
    MemberAccount |-> MemberAccount, MemberDashboard |-> MemberDashboard]
=============================================================================
