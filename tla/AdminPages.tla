----------------------------- MODULE AdminPages -----------------------------
(***************************************************************************)
(* The pages of admin-web, for an administrator who has the permissions    *)
(* the page asks for. PageParts says how a page is described.              *)
(***************************************************************************)
EXTENDS PageParts, Backend

-----------------------------------------------------------------------------
\* features/waybills/WaybillOpsPage.tsx
WaybillOpsReads ==
    "admin-waybills" :> "waybills" @@ "admin-shipping-batches" :> "batches" @@
    "admin-wallet-transactions" :> "transactions" @@ "admin-payment-orders" :> "payments"
WaybillOpsControls == [
    reviewWaybill |-> {"PENDING_REVIEW"}, setWaybillFee |-> {"PENDING_PACKING"},
    rechargeWallet |-> {"PENDING_PAYMENT"}, shipWaybill |-> {"PENDING_SHIPMENT"},
    addTrackingEvent |-> {"SHIPPED"}]
WaybillOpsTable == Rows("waybills", "admin-waybills", WaybillOpsControls)
WaybillOpsDrawer == View({"admin-waybills", "admin-payment-orders", "admin-wallet-transactions"})
BatchOpsControls == [
    addWaybillsToShippingBatch |-> {"DRAFT"}, lockShippingBatch |-> {"DRAFT"},
    shipShippingBatch |-> {"LOCKED"}, addShippingBatchTrackingEvent |-> {"LOCKED", "SHIPPED"}]
BatchOpsTable ==
    Rows("batches", "admin-shipping-batches", BatchOpsControls @@ Makes({"createShippingBatch"}))
BatchOpsDrawer == Rows("batches", "admin-shipping-batches",
    BatchOpsControls @@ [removeWaybillFromShippingBatch |-> {"DRAFT"}])
\* invalidateShippingBatches, invalidateFinance
BatchOpsLists == {"admin-shipping-batches", "admin-waybills"}
FinanceOpsLists == {"admin-wallet-transactions", "admin-payment-orders"}
WaybillOpsEffects ==
    LET row == PatchRefresh({"admin-waybills"}, {"admin-waybills"}) IN
    [reviewWaybill |-> row, setWaybillFee |-> row, rechargeWallet |-> Refresh(FinanceOpsLists),
     shipWaybill |-> row, addTrackingEvent |-> row]
\* Every success but that of an event opens the answered batch in the drawer, which has
\* buttons and no form: what is typed elsewhere is not touched.
BatchOpsEffects == [o \in DOMAIN BatchServer |->
    IF o = "addShippingBatchTrackingEvent" THEN Refresh(BatchOpsLists)
                                           ELSE Selecting("detailBatch", Refresh(BatchOpsLists))]
ReviewFeeForms == OwnLock({"reviewWaybill", "setWaybillFee"})
RechargeShipForms == OwnLock({"rechargeWallet"}) @@ JointLock({"shipWaybill", "addTrackingEvent"})
BatchOpsForms ==
    In("batchAction", OwnLock({"createShippingBatch", "addWaybillsToShippingBatch"}) @@
        JointLock({"shipShippingBatch", "addShippingBatchTrackingEvent"})) @@
    Buttons({"lockShippingBatch"}) @@ Unlocked({"removeWaybillFromShippingBatch"})
\* All are emptied when they open (resetActionForm, resetBatchActionForm).
WaybillOpsForms == ReviewFeeForms @@ RechargeShipForms @@ BatchOpsForms
WaybillOps == [app |-> "admin-web", reads |-> WaybillOpsReads,
    panels |-> <<WaybillOpsTable, WaybillOpsDrawer, BatchOpsTable, BatchOpsDrawer>>,
    effects |-> WaybillOpsEffects @@ BatchOpsEffects, forms |-> WaybillOpsForms]

-----------------------------------------------------------------------------
\* features/finance/FinancePage.tsx
FinanceReads ==
    "admin-finance-remittances" :> "remittances" @@ "admin-finance-wallet-transactions" :> "transactions" @@
    "admin-finance-payment-orders" :> "payments" @@ "admin-finance-suppliers" :> "suppliers" @@
    "admin-finance-cost-types" :> "costTypes" @@ "admin-finance-payables" :> "payables"
RemittanceRows == Rows("remittances", "admin-finance-remittances",
    For({"PENDING"}, {"approveRemittance", "cancelRemittance"}))
PayableRows == Rows("payables", "admin-finance-payables", [
    updatePayable |-> {"PENDING_REVIEW"}, confirmPayable |-> {"PENDING_REVIEW"},
    settlePayable |-> {"CONFIRMED"}, cancelPayable |-> PayableStatuses \ {"SETTLED", "CANCELLED"}])
SupplierRows == Rows("suppliers", "admin-finance-suppliers", For(Switched, {"updateSupplier"}))
CostTypeRows == Rows("costTypes", "admin-finance-cost-types", For(Switched, {"updateCostType"}))
FinanceTabs == Panel(Makes({"createPayable", "createSupplier", "createCostType"}), DOMAIN FinanceReads)
FinanceEffects ==
    LET payables == Refresh({"admin-finance-payables"})
        suppliers == Refresh({"admin-finance-suppliers"})
        costTypes == Refresh({"admin-finance-cost-types"})
    IN  [approveRemittance |-> Refresh({"admin-finance-remittances", "admin-finance-wallet-transactions"}),
         cancelRemittance |-> Refresh({"admin-finance-remittances"}),
         createSupplier |-> suppliers, updateSupplier |-> suppliers,
         createCostType |-> costTypes, updateCostType |-> costTypes,
         createPayable |-> payables, updatePayable |-> payables, confirmPayable |-> payables,
         settlePayable |-> payables, cancelPayable |-> payables]
RemittanceForms == In("reviewAction", JointLock({"approveRemittance", "cancelRemittance"}))
MasterDataForms ==
    In("supplierAction", JointLock({"createSupplier", "updateSupplier"})) @@
    In("costTypeAction", JointLock({"createCostType", "updateCostType"}))
PayableForms == In("payableAction",
    JointLock({"createPayable", "updatePayable"}) @@ JointLock({"settlePayable", "cancelPayable"}))
\* The open functions empty the forms; the review form is emptied when its dialog closes,
\* by a dismissal or a success, and so is empty when it opens.
FinanceForms == RemittanceForms @@ MasterDataForms @@ PayableForms @@ Buttons({"confirmPayable"})
Finance == [app |-> "admin-web", reads |-> FinanceReads,
    panels |-> <<RemittanceRows, PayableRows, SupplierRows, CostTypeRows, FinanceTabs>>,
    effects |-> FinanceEffects, forms |-> FinanceForms]

-----------------------------------------------------------------------------
\* features/parcels/ParcelWmsPage.tsx
ParcelWmsReads == "admin-parcels" :> "parcels" @@ "admin-unclaimed-parcels" :> "unclaimed" @@
    "admin-config-warehouses" :> "warehouses"
ParcelWmsLists == {"admin-parcels", "admin-unclaimed-parcels"}
ParcelWmsRows == Rows("parcels", "admin-parcels", For({"PENDING_INBOUND"}, {"inboundParcel"}))
UnclaimedRows == Rows("unclaimed", "admin-unclaimed-parcels",
    For({"CLAIM_PENDING"}, {"approveUnclaimedParcel", "rejectUnclaimedParcel"}))
ParcelWmsTabs == Panel(Makes({"scanInbound", "createUnclaimedParcel"}), DOMAIN ParcelWmsReads)
ParcelWmsEffects ==
    [createUnclaimedParcel |-> Refresh({"admin-unclaimed-parcels"})] @@
    [o \in {"inboundParcel", "scanInbound", "approveUnclaimedParcel", "rejectUnclaimedParcel"} |->
        Refresh(ParcelWmsLists)]
\* A photo is added to the one form of all drawers when its upload ends.
InboundPhotos(forms) == [o \in DOMAIN forms |-> Uploading(forms[o])]
InboundForms == In("inboundParcel", InboundPhotos(OwnLock({"inboundParcel"})))
ClaimForms == In("reviewTarget", JointLock({"approveUnclaimedParcel", "rejectUnclaimedParcel"}))
\* The drawers' forms are emptied when they open; the two on the page stay as they are.
ParcelWmsForms == InboundForms @@ ClaimForms @@
    In("scanForm", InboundPhotos(OwnLock({"scanInbound"}))) @@
    In("unclaimedForm", OwnLock({"createUnclaimedParcel"}))
ParcelWms == [app |-> "admin-web", reads |-> ParcelWmsReads,
    panels |-> <<ParcelWmsRows, UnclaimedRows, ParcelWmsTabs>>,
    effects |-> ParcelWmsEffects, forms |-> ParcelWmsForms]

-----------------------------------------------------------------------------
\* features/purchases/PurchaseOpsPage.tsx
PurchaseOpsReads ==
    "admin-purchase-orders" :> "purchases" @@ "admin-config-warehouses" :> "warehouses"
PurchaseOpsControls == [
    reviewPurchaseOrder |-> {"PENDING_REVIEW"}, procurePurchaseOrder |-> {"PENDING_PROCUREMENT"},
    markPurchaseOrderArrived |-> {"PROCURED"}, convertPurchaseOrderToParcel |-> {"ARRIVED"},
    markPurchaseOrderException |-> {"PENDING_REVIEW", "PENDING_PROCUREMENT", "PROCURED"},
    cancelPurchaseOrder |-> {"PENDING_PAYMENT", "EXCEPTION"}]
PurchaseOpsTable == Rows("purchases", "admin-purchase-orders", PurchaseOpsControls)
PurchaseOpsDrawer == View({"admin-purchase-orders", "admin-config-warehouses"})
\* handleOrderSuccess
PurchaseOpsEffects == [o \in DOMAIN PurchaseOpsControls |->
    PatchRefresh({"admin-purchase-orders"}, {"admin-purchase-orders"})]
PurchaseOpsForms == OwnLock(DOMAIN PurchaseOpsControls)
PurchaseOps == [app |-> "admin-web", reads |-> PurchaseOpsReads,
    panels |-> <<PurchaseOpsTable, PurchaseOpsDrawer>>,
    effects |-> PurchaseOpsEffects, forms |-> PurchaseOpsForms]

-----------------------------------------------------------------------------
AdminPageTable == [WaybillOps |-> WaybillOps, Finance |-> Finance, ParcelWms |-> ParcelWms,
    PurchaseOps |-> PurchaseOps]
=============================================================================
