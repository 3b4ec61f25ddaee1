------------------------------ MODULE Fulfilment ------------------------------
(***************************************************************************)
(* The consolidation core of the ERP: parcels that members forecast and    *)
(* the warehouse takes in, the waybills that group them, and the shipping  *)
(* batches that group paid waybills for dispatch.                          *)
(*                                                                         *)
(* Source: backend/apps/waybills/services.py, backend/apps/parcels/        *)
(* services.py and the waybill half of backend/apps/finance/services.py.   *)
(* Every service function is one @transaction.atomic block, so it is one   *)
(* action here; a function that raises rolls back and is no step at all.   *)
(* WalletRace breaks the financial transactions up into their statements.  *)
(*                                                                         *)
(* A row that has not been inserted has status "NONE". Warehouses and      *)
(* Channels are the active ones: a disabled one is refused when a parcel   *)
(* is forecast or a waybill created, and nothing reads its status later.   *)
(***************************************************************************)
EXTENDS Naturals, FiniteSets

CONSTANTS
    Parcels,        \* rows of parcels, one per tracking number
    Waybills,       \* rows of waybills
    Batches,        \* rows of shipping_batches
    Users,          \* members
    Warehouses,     \* active warehouses
    Channels,       \* active shipping channels
    Null,           \* SQL NULL of a foreign key
    TransferNos,    \* transfer numbers an operator types
    NoTransfer,     \* the empty transfer number
    Fees,           \* amounts an operator may set as fee_total
    MaxNotes        \* bound: free-text tracking events recorded per waybill

ASSUME NullAssumption == Null \notin Users \cup Warehouses \cup Channels \cup Batches
ASSUME FeesAssumption == Fees \subseteq Nat
ASSUME NotesAssumption == MaxNotes \in Nat
ASSUME TransferAssumption == NoTransfer \in TransferNos

VARIABLES
    parcels,    \* parcel rows: status, owner, warehouse, number of InboundRecord rows
    waybills,   \* waybill rows
    links,      \* waybill_parcels: the parcels of each waybill
    batches,    \* shipping_batches rows
    events      \* tracking_events of each waybill, counted by what wrote them

vars == <<parcels, waybills, links, batches, events>>

ParcelStatus == {"PENDING_INBOUND", "IN_STOCK", "PACKING_REQUESTED", "OUTBOUND"}
BeforePayment == {"PENDING_REVIEW", "PENDING_PACKING", "PENDING_PAYMENT"}
Cancellable_Paid == BeforePayment \cup {"PENDING_SHIPMENT"}     \* mutant: after payment too
Cancellable == BeforePayment
Open == BeforePayment \cup {"PENDING_SHIPMENT"}       \* goods still in the warehouse
Gone == {"SHIPPED", "SIGNED"}
WaybillStatus == Open \cup Gone \cup {"CANCELLED"}
BatchStatus == {"DRAFT", "LOCKED", "SHIPPED"}

ParcelRow == [status : ParcelStatus \cup {"NONE"},
              user : Users \cup {Null},
              warehouse : Warehouses \cup {Null},
              inbound : Nat]
WaybillRow == [status : WaybillStatus \cup {"NONE"},
               user : Users \cup {Null},
               warehouse : Warehouses \cup {Null},
               channel : Channels \cup {Null},
               fee : Fees \cup {0},
               batch : Batches \cup {Null},
               transfer : TransferNos]
BatchRow == [status : BatchStatus \cup {"NONE"},
             warehouse : Warehouses \cup {Null},
             channel : Channels \cup {Null},
             transfer : TransferNos]
EventKinds == {"ship", "receipt", "note"}

TypeOK ==
    /\ parcels \in [Parcels -> ParcelRow]
    /\ waybills \in [Waybills -> WaybillRow]
    /\ links \in [Waybills -> SUBSET Parcels]
    /\ batches \in [Batches -> BatchRow]
    /\ events \in [Waybills -> [EventKinds -> Nat]]

Init ==
    /\ parcels = [p \in Parcels |->
            [status |-> "NONE", user |-> Null, warehouse |-> Null, inbound |-> 0]]
    /\ waybills = [w \in Waybills |->
            [status |-> "NONE", user |-> Null, warehouse |-> Null, channel |-> Null,
             fee |-> 0, batch |-> Null, transfer |-> NoTransfer]]
    /\ links = [w \in Waybills |-> {}]
    /\ batches = [b \in Batches |->
            [status |-> "NONE", warehouse |-> Null, channel |-> Null, transfer |-> NoTransfer]]
    /\ events = [w \in Waybills |-> [kind \in EventKinds |-> 0]]

-----------------------------------------------------------------------------
(* Bulk writes: queryset.update(...) over a set of rows.                   *)

Members(b) == {w \in Waybills : waybills[w].batch = b}
Contents(ws) == UNION {links[w] : w \in ws}

SetParcels(ps, status) ==
    parcels' = [p \in Parcels |->
        IF p \in ps THEN [parcels[p] EXCEPT !.status = status] ELSE parcels[p]]

SetWaybill(w, status) == waybills' = [waybills EXCEPT ![w].status = status]

\* One tracking event of the given kind on each waybill of ws (bulk_create).
Record(ws, kind) ==
    events' = [w \in Waybills |->
        IF w \in ws THEN [events[w] EXCEPT ![kind] = @ + 1] ELSE events[w]]

-----------------------------------------------------------------------------
(* Parcels: how goods come into the warehouse.                             *)

\* forecast_parcel, for one tracking number, and import_parcel_forecasts, for all the
\* rows of a file or none: a member announces numbers that are new in the table.
ForecastParcels(u, at) ==
    /\ \A p \in DOMAIN at : parcels[p].status = "NONE"
    /\ parcels' = [p \in Parcels |->
            IF p \in DOMAIN at
            THEN [status |-> "PENDING_INBOUND", user |-> u, warehouse |-> at[p], inbound |-> 0]
            ELSE parcels[p]]
    /\ UNCHANGED <<waybills, links, batches, events>>

\* inbound_parcel, and scan_inbound when the scan matches a forecast: the status
\* check, the new status and the InboundRecord are one transaction.
InboundParcel_Returns(p) ==       \* mutant: takes in what has left as well
    /\ parcels[p].status \in {"PENDING_INBOUND", "OUTBOUND"}
    /\ parcels' = [parcels EXCEPT ![p].status = "IN_STOCK", ![p].inbound = @ + 1]
    /\ UNCHANGED <<waybills, links, batches, events>>
InboundParcel(p) ==
    /\ parcels[p].status = "PENDING_INBOUND"
    /\ parcels' = [parcels EXCEPT ![p].status = "IN_STOCK", ![p].inbound = @ + 1]
    /\ UNCHANGED <<waybills, links, batches, events>>

\* approve_unclaimed_claim and convert_purchase_order_to_parcel insert a parcel
\* that is already on the shelf, with its InboundRecord.
EnterStock(p, u, wh) ==
    /\ parcels[p].status = "NONE"
    /\ parcels' = [parcels EXCEPT ![p] =
            [status |-> "IN_STOCK", user |-> u, warehouse |-> wh, inbound |-> 1]]
    /\ UNCHANGED <<waybills, links, batches, events>>

-----------------------------------------------------------------------------
(* Waybills.                                                               *)

\* The parcels a member may pick for one waybill.
Selectable_AnyStatus(u, ps) ==      \* mutant: already requested goods may be picked
    /\ ps # {}
    /\ \A p \in ps : parcels[p].user = u /\ parcels[p].status \in {"IN_STOCK", "PACKING_REQUESTED"}
    /\ \A p, q \in ps : parcels[p].warehouse = parcels[q].warehouse
Selectable_AnyOwner(u, ps) ==       \* mutant: other members' goods may be picked
    /\ ps # {}
    /\ \A p \in ps : parcels[p].status = "IN_STOCK"
    /\ \A p, q \in ps : parcels[p].warehouse = parcels[q].warehouse
Selectable(u, ps) ==
    /\ ps # {}
    /\ \A p \in ps : parcels[p].user = u /\ parcels[p].status = "IN_STOCK"
    /\ \A p, q \in ps : parcels[p].warehouse = parcels[q].warehouse

CreateWaybill(w, u, ps, c) ==
    /\ waybills[w].status = "NONE"
    /\ Selectable(u, ps)
    /\ \E wh \in {parcels[p].warehouse : p \in ps} :
        waybills' = [waybills EXCEPT ![w] =
            [@ EXCEPT !.status = "PENDING_REVIEW", !.user = u, !.warehouse = wh, !.channel = c]]
    /\ links' = [links EXCEPT ![w] = ps]
    /\ SetParcels(ps, "PACKING_REQUESTED")
    /\ UNCHANGED <<batches, events>>

ReviewWaybill(w) ==
    /\ waybills[w].status = "PENDING_REVIEW"
    /\ SetWaybill(w, "PENDING_PACKING")
    /\ UNCHANGED <<parcels, links, batches, events>>

SetWaybillFee_Revised(w, fee) ==    \* mutant: the fee may be asked for again
    /\ waybills[w].status \in {"PENDING_PACKING", "PENDING_PAYMENT"}
    /\ waybills' = [waybills EXCEPT ![w] = [@ EXCEPT !.status = "PENDING_PAYMENT", !.fee = fee]]
    /\ UNCHANGED <<parcels, links, batches, events>>
SetWaybillFee(w, fee) ==
    /\ waybills[w].status = "PENDING_PACKING"
    /\ waybills' = [waybills EXCEPT ![w] = [@ EXCEPT !.status = "PENDING_PAYMENT", !.fee = fee]]
    /\ UNCHANGED <<parcels, links, batches, events>>

\* The waybill's side of pay_with_wallet, when the wallet covers the fee.
PayWaybill(w) ==
    /\ waybills[w].status = "PENDING_PAYMENT"
    /\ waybills[w].fee > 0
    /\ SetWaybill(w, "PENDING_SHIPMENT")
    /\ UNCHANGED <<parcels, links, batches, events>>

\* Only the parcels that are still PACKING_REQUESTED go back on the shelf.
Returned_None(w) == {}              \* mutant: a cancelled waybill keeps its goods
Returned(w) == {p \in links[w] : parcels[p].status = "PACKING_REQUESTED"}

CancelWaybill(w) ==
    /\ waybills[w].status \in Cancellable
    /\ SetParcels(Returned(w), "IN_STOCK")
    /\ SetWaybill(w, "CANCELLED")
    /\ UNCHANGED <<links, batches, events>>

Shippable_Again(w) ==               \* mutant: shipped waybills pass once more
    waybills[w].status \in {"PENDING_SHIPMENT", "SHIPPED"}
Shippable(w) == waybills[w].status = "PENDING_SHIPMENT"

\* Ships one waybill; whether it sits in a batch is not looked at.
ShipWaybill(w) ==
    /\ Shippable(w)
    /\ SetWaybill(w, "SHIPPED")
    /\ SetParcels(links[w], "OUTBOUND")
    /\ Record({w}, "ship")
    /\ UNCHANGED <<links, batches>>

ConfirmReceipt_Delivered(w) ==      \* mutant: a status the model does not list
    /\ waybills[w].status = "SHIPPED"
    /\ SetWaybill(w, "DELIVERED")
    /\ Record({w}, "receipt")
    /\ UNCHANGED <<parcels, links, batches>>
ConfirmReceipt(w) ==
    /\ waybills[w].status = "SHIPPED"
    /\ SetWaybill(w, "SIGNED")
    /\ Record({w}, "receipt")
    /\ UNCHANGED <<parcels, links, batches>>

\* add_tracking_event looks at no status.
AddTrackingEvent(w) ==
    /\ waybills[w].status # "NONE"
    /\ events[w]["note"] < MaxNotes
    /\ Record({w}, "note")
    /\ UNCHANGED <<parcels, waybills, links, batches>>

-----------------------------------------------------------------------------
(* Shipping batches.                                                       *)

\* _validate_batch_mutable
Mutable_Locked(b) == batches[b].status \in {"DRAFT", "LOCKED"}   \* mutant: until shipped
Mutable(b) == batches[b].status = "DRAFT"

\* _validate_waybills_can_join_batch, for a batch scoped to warehouse wh and
\* channel c. A scope that is Null is not compared with.
CanJoin(b, wh, c, ws) ==
    /\ ws # {}
    /\ \A w \in ws : /\ Shippable(w)
                     /\ waybills[w].batch \in {Null, b}
                     /\ wh # Null => waybills[w].warehouse = wh
                     /\ c # Null => waybills[w].channel = c
    /\ \A v, w \in ws : /\ waybills[v].warehouse = waybills[w].warehouse
                        /\ waybills[v].channel = waybills[w].channel

\* The waybills of ws enter b and take over its transfer number; the first ones
\* in give the batch its warehouse and channel.
Join(b, row, ws) ==
    /\ waybills' = [w \in Waybills |->
            IF w \in ws THEN [waybills[w] EXCEPT !.batch = b, !.transfer = row.transfer]
                        ELSE waybills[w]]
    /\ \E w \in ws :
        batches' = [batches EXCEPT ![b] =
            IF row.warehouse = Null
            THEN [row EXCEPT !.warehouse = waybills[w].warehouse, !.channel = waybills[w].channel]
            ELSE row]

\* create_shipping_batch, alone or with its first waybills in the same transaction.
CreateShippingBatch(b, transfer, ws) ==
    LET row == [status |-> "DRAFT", warehouse |-> Null, channel |-> Null, transfer |-> transfer]
    IN  /\ batches[b].status = "NONE"
        /\ \/ /\ ws = {}
              /\ batches' = [batches EXCEPT ![b] = row]
              /\ UNCHANGED waybills
           \/ /\ CanJoin(b, Null, Null, ws)
              /\ Join(b, row, ws)
        /\ UNCHANGED <<parcels, links, events>>

\* The new transfer number reaches only the members that have not been shipped.
Relabelled_None(b) == {}            \* mutant: the members keep the old number
Relabelled(b) == {w \in Members(b) : Shippable(w)}

UpdateShippingBatch(b, transfer) ==
    /\ batches[b].status \in {"DRAFT", "LOCKED"}
    /\ batches' = [batches EXCEPT ![b].transfer = transfer]
    /\ waybills' = [w \in Waybills |->
            IF w \in Relabelled(b)
            THEN [waybills[w] EXCEPT !.transfer = transfer] ELSE waybills[w]]
    /\ UNCHANGED <<parcels, links, events>>

AddWaybills(b, ws) ==
    /\ Mutable(b)
    /\ CanJoin(b, batches[b].warehouse, batches[b].channel, ws)
    /\ Join(b, batches[b], ws)
    /\ UNCHANGED <<parcels, links, events>>

\* A member leaves a draft whatever its own status; the last one out clears the scope.
Empties_Never(b, w) == FALSE        \* mutant: the scope outlives the members
Empties(b, w) == Members(b) = {w}

RemoveWaybill(b, w) ==
    /\ Mutable(b)
    /\ w \in Members(b)
    /\ waybills' = [waybills EXCEPT ![w] = [@ EXCEPT !.batch = Null, !.transfer = NoTransfer]]
    /\ batches' = [batches EXCEPT ![b] =
            IF Empties(b, w) THEN [@ EXCEPT !.warehouse = Null, !.channel = Null] ELSE @]
    /\ UNCHANGED <<parcels, links, events>>

\* Locking a LOCKED batch again returns it unchanged: no step.
LockShippingBatch(b) ==
    /\ batches[b].status = "DRAFT"
    /\ Members(b) # {}
    /\ \A w \in Members(b) : Shippable(w)
    /\ batches' = [batches EXCEPT ![b].status = "LOCKED"]
    /\ UNCHANGED <<parcels, waybills, links, events>>

\* Shipping a SHIPPED batch again returns it unchanged: no step.
ShipShippingBatch(b) ==
    /\ batches[b].status = "LOCKED"
    /\ Members(b) # {}
    /\ \A w \in Members(b) : Shippable(w)
    /\ waybills' = [w \in Waybills |->
            IF w \in Members(b)
            THEN [waybills[w] EXCEPT !.status = "SHIPPED", !.transfer = batches[b].transfer]
            ELSE waybills[w]]
    /\ SetParcels(Contents(Members(b)), "OUTBOUND")
    /\ Record(Members(b), "ship")
    /\ batches' = [batches EXCEPT ![b].status = "SHIPPED"]
    /\ UNCHANGED links

AddShippingBatchTrackingEvent(b) ==
    /\ batches[b].status \in {"LOCKED", "SHIPPED"}
    /\ Members(b) # {}
    /\ \A w \in Members(b) : events[w]["note"] < MaxNotes
    /\ Record(Members(b), "note")
    /\ UNCHANGED <<parcels, waybills, links, batches>>

-----------------------------------------------------------------------------
ParcelStep ==
    \/ \E u \in Users, ps \in SUBSET Parcels : \E at \in [ps -> Warehouses] :
            ForecastParcels(u, at)
    \/ \E p \in Parcels :
        \/ InboundParcel(p)
        \/ \E u \in Users, wh \in Warehouses : EnterStock(p, u, wh)

WaybillStep ==
    \E w \in Waybills :
        \/ \E u \in Users, ps \in SUBSET Parcels, c \in Channels \cup {Null} :
                CreateWaybill(w, u, ps, c)
        \/ ReviewWaybill(w)
        \/ \E fee \in Fees : SetWaybillFee(w, fee)
        \/ PayWaybill(w)
        \/ CancelWaybill(w)
        \/ ShipWaybill(w)
        \/ ConfirmReceipt(w)
        \/ AddTrackingEvent(w)

BatchStep ==
    \E b \in Batches :
        \/ \E t \in TransferNos, ws \in SUBSET Waybills : CreateShippingBatch(b, t, ws)
        \/ \E t \in TransferNos : UpdateShippingBatch(b, t)
        \/ \E ws \in SUBSET Waybills : AddWaybills(b, ws)
        \/ \E w \in Waybills : RemoveWaybill(b, w)
        \/ LockShippingBatch(b)
        \/ ShipShippingBatch(b)
        \/ AddShippingBatchTrackingEvent(b)

Next == ParcelStep \/ WaybillStep \/ BatchStep

Spec == Init /\ [][Next]_vars

-----------------------------------------------------------------------------
(* What must hold.                                                         *)

\* A parcel is on at most one waybill whose goods have not been released again:
\* create_waybill never hands one parcel to two shipments, and cancel_waybill and
\* the two ways to ship move exactly the parcels of their own waybill.
SoleCustody ==
    \A v, w \in Waybills :
        v # w /\ waybills[v].status \in Open \cup Gone /\ waybills[w].status \in Open \cup Gone
            => links[v] \cap links[w] = {}

\* Parcel status and waybill status agree: a parcel is PACKING_REQUESTED exactly
\* while it is on an open waybill and OUTBOUND exactly when it is on a shipped one.
GoodsFollowWaybill ==
    \A p \in Parcels :
        /\ parcels[p].status = "PACKING_REQUESTED" <=>
                \E w \in Waybills : p \in links[w] /\ waybills[w].status \in Open
        /\ parcels[p].status = "OUTBOUND" <=>
                \E w \in Waybills : p \in links[w] /\ waybills[w].status \in Gone

\* A waybill only ever holds goods of its own member, out of its own warehouse.
WaybillScope ==
    \A w \in Waybills : \A p \in links[w] :
        /\ parcels[p].user = waybills[w].user
        /\ parcels[p].warehouse = waybills[w].warehouse

\* However a waybill was shipped, alone or in a batch, repeated or raced, it has
\* exactly one shipping event, and a receipt event exactly when it is signed.
ShippedOnce ==
    \A w \in Waybills :
        /\ events[w]["ship"] = IF waybills[w].status \in Gone THEN 1 ELSE 0
        /\ events[w]["receipt"] = IF waybills[w].status = "SIGNED" THEN 1 ELSE 0

\* The members of a batch come from its warehouse and, if the batch has a channel,
\* from its channel; a batch without members has no scope left over from old ones.
BatchScope ==
    \A b \in Batches :
        /\ \A w \in Members(b) :
                /\ batches[b].warehouse = waybills[w].warehouse
                /\ batches[b].channel # Null => batches[b].channel = waybills[w].channel
        /\ Members(b) = {} => batches[b].warehouse = Null /\ batches[b].channel = Null

\* A member that has not been shipped carries its batch's transfer number, and a
\* waybill in no batch carries none.
TransferNoFollowsBatch ==
    \A w \in Waybills :
        IF waybills[w].batch = Null THEN waybills[w].transfer = NoTransfer
        ELSE waybills[w].status = "PENDING_SHIPMENT" =>
                waybills[w].transfer = batches[waybills[w].batch].transfer

\* Only paid waybills are batched, and a SHIPPED batch is one whose members all left.
BatchShipsWhole ==
    \A b \in Batches :
        /\ \A w \in Members(b) : waybills[w].status \in Gone \cup {"PENDING_SHIPMENT"}
        /\ batches[b].status = "SHIPPED" =>
                Members(b) # {} /\ \A w \in Members(b) : waybills[w].status \in Gone

\* Once a batch is locked its list of waybills never changes again.
LockedListFrozen ==
    [][\A b \in Batches : batches[b].status \in {"LOCKED", "SHIPPED"} => Members(b)' = Members(b)]_vars

\* A fee is frozen once it has been asked for, the contents of a waybill are frozen
\* from the start, and goods that left stay out.
FrozenOnceAsked ==
    [][/\ \A w \in Waybills : waybills[w].status # "NONE" => links'[w] = links[w]
       /\ \A w \in Waybills :
            waybills[w].status \notin {"NONE", "PENDING_REVIEW", "PENDING_PACKING"}
                => waybills'[w].fee = waybills[w].fee
       /\ \A p \in Parcels : parcels[p].status = "OUTBOUND" => parcels'[p] = parcels[p]]_vars

\* The rows keep the promise of Custody: stock is what is IN_STOCK, and a waybill
\* holds its parcels from its creation until it is cancelled or shipped.
Warehouse == INSTANCE Custody WITH
    Goods <- Parcels,
    Consignments <- Waybills,
    shelf <- {p \in Parcels : parcels[p].status = "IN_STOCK"},
    packed <- [w \in Waybills |-> IF waybills[w].status \in Open THEN links[w] ELSE {}],
    gone <- [w \in Waybills |-> IF waybills[w].status \in Gone THEN links[w] ELSE {}]

ImplementsCustody == Warehouse!Spec

-----------------------------------------------------------------------------
(* Statements of the repository that the code does not live up to.         *)

\* "one batch holds waybills of one channel only" (services.py:103, and the test
\* test_shipping_batch_rejects_mixed_warehouse_or_channel).
SameChannelInBatch ==
    \A b \in Batches : \A v, w \in Members(b) : waybills[v].channel = waybills[w].channel

\* "a batch cannot contain a waybill that is not ready for shipment" (SHIP-BATCH-001):
\* until the batch itself ships, every member can still be shipped with it.
OpenBatchShippable ==
    \A b \in Batches : batches[b].status \in {"DRAFT", "LOCKED"} =>
        \A w \in Members(b) : waybills[w].status = "PENDING_SHIPMENT"
=============================================================================
