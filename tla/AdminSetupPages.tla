--------------------------- MODULE AdminSetupPages ---------------------------
(***************************************************************************)
(* The pages of admin-web for master data, members, tickets, content and   *)
(* access. PageParts says how a page is described.                         *)
(***************************************************************************)
EXTENDS PageParts, Backend

\* Every page stands in the layout, which shows the menus of the administrator.
AdminLayout == View({"admin/me", "admin/menus"})
AdminLayoutReads == "admin/me" :> "access" @@ "admin/menus" :> "access"

-----------------------------------------------------------------------------
\* features/members/MemberOpsPage.tsx
MemberOpsReads == "admin-members" :> "members" @@ "admin-member-service-admins" :> "serviceAdmins" @@
    "admin-member-growth" :> "growth"
MemberOpsControls ==
    For({"ACTIVE"}, {"freezeMember"}) @@ For({"FROZEN"}, {"unfreezeMember"}) @@
    For(MemberStatuses, {"resetPassword"})
MemberOpsTable == Rows("members", "admin-members", MemberOpsControls)
MemberOpsDrawer == Rows("members", "admin-members", For(MemberStatuses, {"updateMember", "adjustMemberPoints"}))
MemberGrowth == View({"admin-member-growth", "admin-member-service-admins"})
MemberOpsEffects ==
    LET members == Refresh({"admin-members"}) IN
    [freezeMember |-> members, unfreezeMember |-> members, resetPassword |-> members,
     updateMember |-> Selecting("selectedMember", members),
     adjustMemberPoints |-> Refresh({"admin-member-growth"})]
\* A new selection fills the form of the drawer; the two modals are emptied when they close.
MemberOpsForms ==
    In("selectedMember", OwnLock({"updateMember"})) @@
    In("button", JointLock({"freezeMember", "unfreezeMember"})) @@
    In("resetTarget", OwnLock({"resetPassword"})) @@ In("pointAdjustTarget", OwnLock({"adjustMemberPoints"}))
MemberOps == [app |-> "admin-web", reads |-> MemberOpsReads,
    panels |-> <<MemberOpsTable, MemberOpsDrawer, MemberGrowth>>,
    effects |-> MemberOpsEffects, forms |-> MemberOpsForms]

-----------------------------------------------------------------------------
\* features/warehouses/WarehouseConfigPage.tsx, for each of five kinds of data
ConfigNames == [warehouses |-> "Warehouse", channels |-> "ShippingChannel", packaging |-> "PackagingMethod",
    services |-> "ValueAddedService", ratePlans |-> "RatePlan"]
ConfigKeys == [warehouses |-> "admin-config-warehouses", channels |-> "admin-config-shipping-channels",
    packaging |-> "admin-config-packaging-methods", services |-> "admin-config-value-added-services",
    ratePlans |-> "admin-config-rate-plans"]
ConfigReads == [key \in {ConfigKeys[k] : k \in DOMAIN ConfigKeys} |->
    CHOOSE k \in DOMAIN ConfigKeys : ConfigKeys[k] = key]
\* renderActions: a row is switched to the other status than it shows.
ConfigControls(kind) ==
    For({"ACTIVE"}, {"disable" \o ConfigNames[kind]}) @@ For({"DISABLED"}, {"enable" \o ConfigNames[kind]}) @@
    For(Switched, {"update" \o ConfigNames[kind], "delete" \o ConfigNames[kind]}) @@
    Makes({"create" \o ConfigNames[kind]})
ConfigTable(kind) == Rows(kind, ConfigKeys[kind], ConfigControls(kind))
\* invalidateResource: the rate plans show the names of the channels.
ConfigLists(kind) == {ConfigKeys[kind]} \cup IF kind = "channels" THEN {ConfigKeys["ratePlans"]} ELSE {}
ConfigOps(verbs) == {v \o ConfigNames[k] : v \in verbs, k \in DOMAIN ConfigNames}
ConfigVerbs == {"create", "update", "enable", "disable", "delete"}
ConfigEffects == [o \in ConfigOps(ConfigVerbs) |->
    Refresh(ConfigLists(CHOOSE k \in DOMAIN ConfigNames : \E v \in ConfigVerbs : o = v \o ConfigNames[k]))]
\* One mutation saves all kinds; it fills its modal when it opens. Questions have no lock.
ConfigSaveForms == In("modalState", JointLock(ConfigOps({"create", "update"})))
ConfigForms == ConfigSaveForms @@ Unlocked(ConfigOps({"enable", "disable", "delete"}))
WarehouseConfig == [app |-> "admin-web", reads |-> ConfigReads,
    panels |-> <<ConfigTable("warehouses"), ConfigTable("channels"), ConfigTable("packaging"),
        ConfigTable("services"), ConfigTable("ratePlans")>>,
    effects |-> ConfigEffects, forms |-> ConfigForms]

-----------------------------------------------------------------------------
\* features/products/ProductCatalogPage.tsx and its two panels
CatalogReads == "admin-product-categories" :> "categories" @@ "admin-products" :> "products" @@
    "admin-product-skus" :> "skus"
CategoryRows == Rows("categories", "admin-product-categories",
    For(Switched, {"updateCategory"}) @@ For({"ACTIVE"}, {"disableCategory"}) @@ Makes({"createCategory"}))
ProductRows == Rows("products", "admin-products",
    For(Switched, {"updateProduct"}) @@ For({"ACTIVE"}, {"disableProduct"}) @@ Makes({"createProduct"}))
SkuRows == Rows("skus", "admin-product-skus",
    For(Switched, {"updateSku"}) @@ For({"ACTIVE"}, {"disableSku"}) @@ Makes({"createSku"}))
CatalogTabs == View(DOMAIN CatalogReads)
ProductDetailCard == View({"admin-product-skus", "admin-products/translations",
    "admin-products/attribute-values", "admin-product-attributes"})
\* refreshCatalog: the key of the products is a prefix of two others.
CatalogLists == DOMAIN CatalogReads \cup {"admin-products/translations", "admin-products/attribute-values"}
CatalogOps(verbs) == {v \o name : v \in verbs, name \in {"Category", "Product", "Sku"}}
CatalogEffects == [o \in CatalogOps({"create", "update", "disable"}) |-> Refresh(CatalogLists)]
CatalogForms == In("action", JointLock({"createCategory", "updateCategory"}) @@
    JointLock({"createProduct", "updateProduct"}) @@ JointLock({"createSku", "updateSku"}))
CatalogSwitches == Unlocked(CatalogOps({"disable"}))

AttributeReads == "admin-product-attributes" :> "attributes" @@ "admin-products/attribute-values" :> "attributeValues"
AttributeRows == Rows("attributes", "admin-product-attributes",
    For(Listed, {"updateProductAttribute", "deleteProductAttribute"}) @@ Makes({"createProductAttribute"}))
AttributeValueRows == Rows("attributeValues", "admin-products/attribute-values",
    For(Listed, {"setProductAttrValue", "deleteProductAttrValue"}) @@ Makes({"addProductAttrValue"}))
AttributeOps == {"createProductAttribute", "updateProductAttribute", "deleteProductAttribute"}
AttributeValueOps == {"addProductAttrValue", "setProductAttrValue", "deleteProductAttrValue"}
AttributeEffects ==
    [o \in AttributeOps |-> Refresh({"admin-product-attributes"})] @@
    [o \in AttributeValueOps |-> Refresh({"admin-products/attribute-values"})]
AttributeForms ==
    In("attributeModal", JointLock({"createProductAttribute", "updateProductAttribute"})) @@
    In("valueModal", JointLock({"addProductAttrValue", "setProductAttrValue"})) @@
    Buttons({"deleteProductAttribute", "deleteProductAttrValue"})

TranslationRows == Rows("translations", "admin-products/translations",
    For(Listed, {"updateProductTranslation", "deleteProductTranslation"}) @@ Makes({"createProductTranslation"}))
TranslationOps == {"createProductTranslation", "updateProductTranslation", "deleteProductTranslation"}
TranslationEffects == [o \in TranslationOps |-> Refresh({"admin-products/translations"})]
TranslationForms == In("translationModal", JointLock({"createProductTranslation", "updateProductTranslation"})) @@
    Buttons({"deleteProductTranslation"})
ProductCatalog == [app |-> "admin-web",
    reads |-> CatalogReads @@ AttributeReads @@ "admin-products/translations" :> "translations",
    panels |-> <<CategoryRows, ProductRows, SkuRows, CatalogTabs, ProductDetailCard, AttributeRows,
        AttributeValueRows, TranslationRows>>,
    effects |-> CatalogEffects @@ AttributeEffects @@ TranslationEffects,
    forms |-> CatalogForms @@ CatalogSwitches @@ AttributeForms @@ TranslationForms]

-----------------------------------------------------------------------------
\* features/content/ContentCmsPage.tsx
ContentReads == "admin-content-pages" :> "content" @@ "admin-content-categories" :> "contentCategories"
ContentRows == Rows("content", "admin-content-pages",
    For(ContentStatuses, {"updatePage"}) @@ For(ContentStatuses \ {"PUBLISHED"}, {"publishPage"}) @@
    For(ContentStatuses \ {"HIDDEN"}, {"hidePage"}) @@ Makes({"createPage"}))
ContentCategoryRows == Rows("contentCategories", "admin-content-categories",
    For(Switched, {"updateContentCategory"}) @@ For({"ACTIVE"}, {"disableContentCategory"}) @@
    Makes({"createContentCategory"}))
ContentTabs == View(DOMAIN ContentReads)
\* invalidateContent
ContentLists == DOMAIN ContentReads
ContentEffects == [o \in DOMAIN ContentServer |-> Refresh(ContentLists)]
\* openPageDrawer and openCategoryDrawer set every field.
ContentPageForms == In("pageDrawer", JointLock({"createPage", "updatePage"}))
ContentCategoryForms == In("categoryDrawer", JointLock({"createContentCategory", "updateContentCategory"}))
ContentButtons == Buttons({"publishPage", "hidePage", "disableContentCategory"})
ContentCms == [app |-> "admin-web", reads |-> ContentReads,
    panels |-> <<ContentRows, ContentCategoryRows, ContentTabs>>,
    effects |-> ContentEffects, forms |-> ContentPageForms @@ ContentCategoryForms @@ ContentButtons]

-----------------------------------------------------------------------------
\* features/tickets/TicketOpsPage.tsx
TicketOpsReads == "admin-tickets" :> "tickets"
TicketOpsTable == Rows("tickets", "admin-tickets", For({"OPEN", "PROCESSING"}, {"markProcessing"}))
TicketOpsDrawer == Rows("tickets", "admin-tickets", For({"OPEN", "PROCESSING"}, {"replyTicket", "closeTicket"}))
TicketOpsEffects == [o \in {"markProcessing", "replyTicket", "closeTicket"} |-> Refresh({"admin-tickets"})]
\* What is typed, and the file, wait for the next ticket; a success empties them.
TicketReplyForms == In("replyForm", [replyTicket |-> Kept(Form({"replyTicket"}))]) @@
    In("closeForm", [closeTicket |-> Kept(Form({"closeTicket"}))])
TicketOps == [app |-> "admin-web", reads |-> TicketOpsReads,
    panels |-> <<TicketOpsTable, TicketOpsDrawer>>,
    effects |-> TicketOpsEffects, forms |-> TicketReplyForms @@ Buttons({"markProcessing"})]

-----------------------------------------------------------------------------
\* features/auth/RolePermissionPage.tsx; the role super_admin is left alone.
RoleReads == "admin-roles" :> "roles" @@ "admin-permissions" :> "permissions"
RoleRows == Rows("roles", "admin-roles",
    For(Listed, {"updateAdminRole", "deleteAdminRole"}) @@ Makes({"createAdminRole"}))
RoleCards == View(DOMAIN RoleReads)
RoleLists == {"admin-roles", "admin/me", "admin/menus"}
RoleEffects == [o \in {"createAdminRole", "updateAdminRole", "deleteAdminRole"} |-> Refresh(RoleLists)]
RoleForms == In("modal", JointLock({"createAdminRole", "updateAdminRole"})) @@ Buttons({"deleteAdminRole"})
RolePermission == [app |-> "admin-web", reads |-> RoleReads @@ AdminLayoutReads,
    panels |-> <<RoleRows, RoleCards, AdminLayout>>, effects |-> RoleEffects, forms |-> RoleForms]

\* features/auth/AdminUserManagementPage.tsx; no administrator changes their own account.
AccountReads == "admin-accounts" :> "accounts" @@ "admin-roles" :> "roles"
AccountRows == Rows("accounts", "admin-accounts",
    For(Switched, {"updateAdminAccount", "deleteAdminAccount"}) @@ Makes({"createAdminAccount"}))
AccountCards == View(DOMAIN AccountReads)
AccountLists == {"admin-accounts", "admin/me", "admin/menus"}
AccountEffects == [o \in {"createAdminAccount", "updateAdminAccount", "deleteAdminAccount"} |-> Refresh(AccountLists)]
AccountForms == In("modal", JointLock({"createAdminAccount", "updateAdminAccount"})) @@ Buttons({"deleteAdminAccount"})
AdminUsers == [app |-> "admin-web", reads |-> AccountReads @@ AdminLayoutReads,
    panels |-> <<AccountRows, AccountCards, AdminLayout>>, effects |-> AccountEffects, forms |-> AccountForms]

\* features/regions/RegionManagePage.tsx, for the regions below one
RegionReads == "admin-regions" :> "regions"
RegionRows == Rows("regions", "admin-regions",
    For(Switched, {"updateRegion", "deleteRegion"}) @@ Makes({"createRegion"}))
RegionEffects == [o \in {"createRegion", "updateRegion", "deleteRegion"} |-> Refresh({"admin-regions"})]
\* modal.confirm waits for its request, which disables its button.
RegionForms == In("action", JointLock({"createRegion", "updateRegion"})) @@ Buttons({"deleteRegion"})
RegionManage == [app |-> "admin-web", reads |-> RegionReads, panels |-> <<RegionRows>>,
    effects |-> RegionEffects, forms |-> RegionForms]

-----------------------------------------------------------------------------
AdminSetupTable == [MemberOps |-> MemberOps, WarehouseConfig |-> WarehouseConfig,
    ProductCatalog |-> ProductCatalog, ContentCms |-> ContentCms, TicketOps |-> TicketOps,
    RolePermission |-> RolePermission, AdminUsers |-> AdminUsers, RegionManage |-> RegionManage]
=============================================================================
