----------------------------- MODULE MobilePages -----------------------------
(***************************************************************************)
(* The pages of mobile-h5, the member's site for the phone, on which       *)
(* something is done, or seen. PageParts says how a page is described;     *)
(* queries are named without their common prefix "mobile", "member", and   *)
(* going to another page after a success is left to the user.              *)
(***************************************************************************)
EXTENDS PageParts, Backend

-----------------------------------------------------------------------------
\* pages/WaybillListPage.tsx
MobileWaybillReads == "waybills" :> "waybills" @@ "wallet" :> "wallets" @@ "wallet-transactions" :> "transactions"
MobileWaybillList == View({"waybills"})
MobileWaybillDetail == Rows("waybills", "waybills", [
    payWaybill |-> {"PENDING_PAYMENT"}, confirmReceipt |-> {"SHIPPED"}])
MobileWaybillPay == View({"wallet", "wallet-transactions"})
MobileWaybillEffects == [
    payWaybill |-> PatchRefresh({"wallet", "waybills"}, DOMAIN MobileWaybillReads),
    confirmReceipt |-> PatchRefresh({"waybills"}, {"waybills"})]
MobileWaybills == [app |-> "mobile-h5", reads |-> MobileWaybillReads,
    panels |-> <<MobileWaybillList, MobileWaybillDetail, MobileWaybillPay>>, effects |-> MobileWaybillEffects,
    forms |-> In("payWaybillId", OwnLock({"payWaybill"})) @@ Buttons({"confirmReceipt"})]

\* pages/WaybillPackingPage.tsx
MobilePackingReads == "packable-parcels" :> "packable" @@ "addresses" :> "addresses"
MobilePackingParcels == View({"packable-parcels"})
MobilePackingForm == Panel(Makes({"createWaybill"}), {"addresses"})
MobilePackingEffects == [createWaybill |-> Refresh({"packable-parcels", "parcels", "waybills"})]
MobilePacking == [app |-> "mobile-h5", reads |-> MobilePackingReads,
    panels |-> <<MobilePackingParcels, MobilePackingForm>>, effects |-> MobilePackingEffects,
    forms |-> OwnLock({"createWaybill"})]

-----------------------------------------------------------------------------
\* pages/ProductHomePage.tsx: addCartItem is createCartItem here.
MobileShopReads == "products" :> "products" @@ "cart-items" :> "cart"
MobileShopCards == View({"products", "cart-items"})
MobileShopDetail == Panel(Makes({"createCartItem"}), {"products"})
MobileShopEffects == [createCartItem |-> Refresh({"cart-items"})]
MobileShop == [app |-> "mobile-h5", reads |-> MobileShopReads, panels |-> <<MobileShopCards, MobileShopDetail>>,
    effects |-> MobileShopEffects, forms |-> Buttons({"createCartItem"})]

\* The dialog in which an order is paid: pages/PurchasePaymentModal.tsx
MobileOrderReads == "purchase-orders" :> "purchases" @@ "purchase-wallet" :> "wallets" @@
    "purchase-wallet-transactions" :> "transactions"
MobileOrderPay == View({"purchase-wallet", "purchase-wallet-transactions"})
MobileOrderPayForms == In("payOrderId", OwnLock({"payPurchaseOrder"}))
MobileOrderPayable == Rows("purchases", "purchase-orders", For({"PENDING_PAYMENT"}, {"payPurchaseOrder"}))
MobileOrderPaid(lists) == [payPurchaseOrder |-> PatchRefresh({"purchase-orders", "purchase-wallet"}, lists)]

\* pages/CartPage.tsx: the dialog is open for the order just made.
MobileCartReads == "cart-items" :> "cart" @@ "products" :> "products" @@ MobileOrderReads
MobileCartLists == {"cart-items"} \cup DOMAIN MobileOrderReads
MobileCartRows == Rows("cart", "cart-items", For(Listed, {"updateCartItem", "deleteCartItem"}))
MobileCartPanel == Panel(Makes({"createPurchaseOrder"}), {"cart-items"})
MobileCartEffects ==
    [o \in {"updateCartItem", "deleteCartItem"} |-> Refresh({"cart-items"})] @@
    [createPurchaseOrder |-> PatchRefresh({"purchase-orders"}, MobileCartLists)] @@
    MobileOrderPaid(MobileCartLists)
MobileCart == [app |-> "mobile-h5", reads |-> MobileCartReads,
    panels |-> <<MobileCartRows, MobileCartPanel, MobileOrderPayable, MobileOrderPay>>,
    effects |-> MobileCartEffects,
    forms |-> Buttons({"updateCartItem"}) @@ Buttons({"deleteCartItem"}) @@
              OwnLock({"createPurchaseOrder"}) @@ MobileOrderPayForms]

\* pages/ManualPurchasePage.tsx
MobileManualForm == Panel(Makes({"createManualPurchaseOrder"}), {})
MobileManualEffects ==
    [createManualPurchaseOrder |-> PatchRefresh({"purchase-orders"}, DOMAIN MobileOrderReads)] @@
    MobileOrderPaid(DOMAIN MobileOrderReads)
MobileManual == [app |-> "mobile-h5", reads |-> MobileOrderReads,
    panels |-> <<MobileManualForm, MobileOrderPayable, MobileOrderPay>>, effects |-> MobileManualEffects,
    forms |-> OwnLock({"createManualPurchaseOrder"}) @@ MobileOrderPayForms]

\* pages/PurchaseOrdersPage.tsx
MobileOrderList == View({"purchase-orders"})
MobileOrderDetail == MobileOrderPayable
MobileOrderEffects == MobileOrderPaid(DOMAIN MobileOrderReads \cup {"parcels"})
MobileOrders == [app |-> "mobile-h5", reads |-> MobileOrderReads,
    panels |-> <<MobileOrderList, MobileOrderDetail, MobileOrderPay>>,
    effects |-> MobileOrderEffects, forms |-> MobileOrderPayForms]

-----------------------------------------------------------------------------
\* pages/ParcelForecastPage.tsx, pages/ParcelListPage.tsx
MobileForecastForm == Panel(Makes({"forecastParcel"}), {"warehouses"})
MobileForecastEffects == [forecastParcel |-> Refresh({"parcels"})]
MobileForecast == [app |-> "mobile-h5", reads |-> "warehouses" :> "warehouses",
    panels |-> <<MobileForecastForm>>, effects |-> MobileForecastEffects,
    forms |-> OwnLock({"forecastParcel"})]
MobileParcelList == View({"parcels"})
MobileParcels == [app |-> "mobile-h5", reads |-> "parcels" :> "parcels", panels |-> <<MobileParcelList>>,
    effects |-> <<>>, forms |-> <<>>]

\* pages/UnclaimedParcelsPage.tsx: one claim form for all parcels.
MobileUnclaimedList == View({"unclaimed-parcels"})
MobileUnclaimedClaim == Rows("unclaimed", "unclaimed-parcels", For({"UNCLAIMED"}, {"claimUnclaimedParcel"}))
MobileUnclaimedEffects == [claimUnclaimedParcel |-> Selecting("claimForm", Refresh({"unclaimed-parcels"}))]
MobileUnclaimed == [app |-> "mobile-h5", reads |-> "unclaimed-parcels" :> "unclaimed",
    panels |-> <<MobileUnclaimedList, MobileUnclaimedClaim>>, effects |-> MobileUnclaimedEffects,
    forms |-> In("claimForm", [claimUnclaimedParcel |-> Kept(Form({"claimUnclaimedParcel"}))])]

-----------------------------------------------------------------------------
\* pages/TicketsMobilePage.tsx: one reply box for all tickets; replyTicket is addMessage.
MobileTicketCreate == Panel(Makes({"createTicket"}), {})
MobileTicketList == View({"tickets"})
MobileTicketReply == Rows("tickets", "tickets", For({"OPEN", "PROCESSING"}, {"addMessage"}))
MobileTicketEffects == [
    createTicket |-> Refresh({"tickets"}),
    addMessage |-> Selecting("replyBox", Refresh({"tickets"}))]
MobileTickets == [app |-> "mobile-h5", reads |-> "tickets" :> "tickets",
    panels |-> <<MobileTicketCreate, MobileTicketList, MobileTicketReply>>, effects |-> MobileTicketEffects,
    forms |-> In("form", OwnLock({"createTicket"})) @@
              In("replyBox", [addMessage |-> Kept(Form({"addMessage"}))])]

\* pages/AddressBookPage.tsx: one form, which any saved address empties.
MobileAddressForm == Panel(Makes({"createAddress"}), {})
MobileAddressRows == Rows("addresses", "addresses", For(Listed, {"updateAddress", "deleteAddress", "setDefaultAddress"}))
MobileAddressEffects == [o \in {"createAddress", "updateAddress", "deleteAddress", "setDefaultAddress"} |->
    Refresh({"addresses"})]
MobileAddresses == [app |-> "mobile-h5", reads |-> "addresses" :> "addresses",
    panels |-> <<MobileAddressForm, MobileAddressRows>>, effects |-> MobileAddressEffects,
    forms |-> In("form", JointLock({"createAddress", "updateAddress"})) @@
              Unlocked({"deleteAddress", "setDefaultAddress"})]

\* pages/FinanceMobilePage.tsx
MobileFinanceReads == "finance-wallet" :> "wallets" @@ "finance-wallet-transactions" :> "transactions" @@
    "remittances" :> "remittances"
MobileRemittanceForm == Panel(Makes({"createOfflineRemittance"}), {"finance-wallet"})
MobileFinanceRecords == View({"remittances", "finance-wallet-transactions"})
MobileFinanceEffects == [createOfflineRemittance |-> Refresh(DOMAIN MobileFinanceReads \cup {"purchase-wallet"})]
MobileFinance == [app |-> "mobile-h5", reads |-> MobileFinanceReads,
    panels |-> <<MobileRemittanceForm, MobileFinanceRecords>>, effects |-> MobileFinanceEffects,
    forms |-> OwnLock({"createOfflineRemittance"})]

\* pages/AccountSettingsMobilePage.tsx, pages/MePage.tsx
MobileProfileForm == Panel(Makes({"updateProfile"}), {"me"})
MobilePasswordForm == Panel(Makes({"changePassword"}), {})
MobileAccountEffects == [updateProfile |-> Patch({"me"}), changePassword |-> Refresh({})]
MobileAccount == [app |-> "mobile-h5", reads |-> "me" :> "me",
    panels |-> <<MobileProfileForm, MobilePasswordForm>>, effects |-> MobileAccountEffects,
    forms |-> In("profile", OwnLock({"updateProfile"})) @@ In("password", OwnLock({"changePassword"}))]
MobileMeReads == "me" :> "me" @@ "purchase-orders" :> "purchases" @@ "purchase-wallet" :> "wallets"
MobileMeCards == View({"me", "purchase-wallet", "purchase-orders"})
MobileMe == [app |-> "mobile-h5", reads |-> MobileMeReads, panels |-> <<MobileMeCards>>,
    effects |-> <<>>, forms |-> <<>>]

-----------------------------------------------------------------------------
MobilePageTable == [MobileWaybills |-> MobileWaybills, MobilePacking |-> MobilePacking, MobileShop |-> MobileShop,
    MobileCart |-> MobileCart, MobileManual |-> MobileManual, MobileOrders |-> MobileOrders,
    MobileForecast |-> MobileForecast, MobileParcels |-> MobileParcels, MobileUnclaimed |-> MobileUnclaimed,
    MobileTickets |-> MobileTickets, MobileAddresses |-> MobileAddresses, MobileFinance |-> MobileFinance,
    MobileAccount |-> MobileAccount, MobileMe |-> MobileMe]
=============================================================================
