-------------------------- MODULE Fulfilment_proofs --------------------------
(***************************************************************************)
(* Proofs about Fulfilment, for every set of parcels, waybills, batches,   *)
(* members, warehouses and channels.                                       *)
(***************************************************************************)
EXTENDS Fulfilment, TLAPS

USE DEF BeforePayment, Selectable, Returned, Shippable, Mutable, Relabelled, Empties

\* Empty tables are well typed.
LEMMA TypeInit == Init => TypeOK
  BY TransferAssumption DEF Init, TypeOK, ParcelRow, WaybillRow, BatchRow

\* The three bulk writes keep their table well typed.
LEMMA SetParcelsType ==
  ASSUME parcels \in [Parcels -> ParcelRow], NEW ps, NEW s \in ParcelStatus, SetParcels(ps, s)
  PROVE  parcels' \in [Parcels -> ParcelRow]
  BY DEF SetParcels, ParcelRow

\* A status write keeps the waybill table well typed.
LEMMA SetWaybillType ==
  ASSUME waybills \in [Waybills -> WaybillRow], NEW w \in Waybills, NEW s \in WaybillStatus,
         SetWaybill(w, s)
  PROVE  waybills' \in [Waybills -> WaybillRow]
  BY DEF SetWaybill, WaybillRow

\* Writing tracking events keeps their counters natural numbers.
LEMMA RecordType ==
  ASSUME events \in [Waybills -> [EventKinds -> Nat]], NEW ws, NEW kind \in EventKinds,
         Record(ws, kind)
  PROVE  events' \in [Waybills -> [EventKinds -> Nat]]
  BY DEF Record

\* Waybills that enter a batch leave both tables well typed.
LEMMA JoinType ==
  ASSUME waybills \in [Waybills -> WaybillRow], batches \in [Batches -> BatchRow],
         NEW b \in Batches, NEW row \in BatchRow, NEW ws \in SUBSET Waybills, Join(b, row, ws)
  PROVE  waybills' \in [Waybills -> WaybillRow] /\ batches' \in [Batches -> BatchRow]
<1>1. waybills' \in [Waybills -> WaybillRow]
  <2>1. row.transfer \in TransferNos
    BY DEF BatchRow
  <2>2. ASSUME NEW w \in Waybills
        PROVE  [waybills[w] EXCEPT !.batch = b, !.transfer = row.transfer] \in WaybillRow
    BY <2>1 DEF WaybillRow
  <2> QED
    BY <2>2 DEF Join
<1>2. batches' \in [Batches -> BatchRow]
  <2>1. PICK w \in ws : batches' = [batches EXCEPT ![b] =
            IF row.warehouse = Null
            THEN [row EXCEPT !.warehouse = waybills[w].warehouse, !.channel = waybills[w].channel]
            ELSE row]
    BY DEF Join
  <2>2. [row EXCEPT !.warehouse = waybills[w].warehouse, !.channel = waybills[w].channel] \in BatchRow
    BY DEF BatchRow, WaybillRow
  <2> QED
    BY <2>1, <2>2
<1> QED
  BY <1>1, <1>2

\* The parcel operations keep every table well typed.
LEMMA TypeParcelStep == TypeOK /\ ParcelStep => TypeOK'
<1> SUFFICES ASSUME TypeOK, ParcelStep PROVE TypeOK'
  OBVIOUS
<1>1. ASSUME NEW u \in Users, NEW ps \in SUBSET Parcels, NEW at \in [ps -> Warehouses],
             ForecastParcels(u, at)
      PROVE  TypeOK'
  BY <1>1 DEF TypeOK, ForecastParcels, ParcelRow, ParcelStatus
<1>2. ASSUME NEW p \in Parcels, InboundParcel(p) PROVE TypeOK'
  BY <1>2 DEF TypeOK, InboundParcel, ParcelRow, ParcelStatus
<1>3. ASSUME NEW p \in Parcels, NEW u \in Users, NEW wh \in Warehouses, EnterStock(p, u, wh)
      PROVE  TypeOK'
  BY <1>3 DEF TypeOK, EnterStock, ParcelRow, ParcelStatus
<1> QED
  BY <1>1, <1>2, <1>3 DEF ParcelStep

\* The waybill operations keep every table well typed.
LEMMA TypeWaybillStep == TypeOK /\ WaybillStep => TypeOK'
<1> SUFFICES ASSUME TypeOK, NEW w \in Waybills,
                    \/ \E u \in Users, ps \in SUBSET Parcels, c \in Channels \cup {Null} :
                            CreateWaybill(w, u, ps, c)
                    \/ ReviewWaybill(w)
                    \/ \E fee \in Fees : SetWaybillFee(w, fee)
                    \/ PayWaybill(w)
                    \/ CancelWaybill(w)
                    \/ ShipWaybill(w)
                    \/ ConfirmReceipt(w)
                    \/ AddTrackingEvent(w)
             PROVE  TypeOK'
  BY DEF WaybillStep
<1> USE DEF TypeOK
<1>0. \A s \in {"PENDING_REVIEW", "PENDING_PACKING", "PENDING_PAYMENT", "PENDING_SHIPMENT",
              "SHIPPED", "SIGNED", "CANCELLED"} : s \in WaybillStatus
  BY DEF WaybillStatus, Open, Cancellable, Gone
<1>1. ASSUME NEW u \in Users, NEW ps \in SUBSET Parcels, NEW c \in Channels \cup {Null},
             CreateWaybill(w, u, ps, c)
      PROVE  TypeOK'
  <2>1. parcels' \in [Parcels -> ParcelRow]
    BY <1>1, SetParcelsType DEF CreateWaybill, ParcelStatus
  <2>2. PICK wh \in {parcels[p].warehouse : p \in ps} :
          waybills' = [waybills EXCEPT ![w] =
            [@ EXCEPT !.status = "PENDING_REVIEW", !.user = u, !.warehouse = wh, !.channel = c]]
    BY <1>1 DEF CreateWaybill
  <2>3. wh \in Warehouses \cup {Null}
    BY DEF ParcelRow
  <2>4. waybills' \in [Waybills -> WaybillRow]
    <3>1. /\ waybills[w] \in WaybillRow
          /\ "PENDING_REVIEW" \in WaybillStatus \cup {"NONE"}
      BY <1>0
    <3>2. [waybills[w] EXCEPT !.status = "PENDING_REVIEW", !.user = u, !.warehouse = wh, !.channel = c]
            \in WaybillRow
      BY <2>3, <3>1 DEF WaybillRow
    <3> QED
      BY <2>2, <3>2
  <2>5. links' \in [Waybills -> SUBSET Parcels]
    BY <1>1 DEF CreateWaybill
  <2> QED
    BY <1>1, <2>1, <2>4, <2>5 DEF CreateWaybill
<1>2. CASE ReviewWaybill(w)
  BY <1>0, <1>2, SetWaybillType DEF ReviewWaybill
<1>3. ASSUME NEW fee \in Fees, SetWaybillFee(w, fee) PROVE TypeOK'
  <2>1. waybills' \in [Waybills -> WaybillRow]
    BY <1>0, <1>3 DEF SetWaybillFee, WaybillRow
  <2> QED
    BY <1>3, <2>1 DEF SetWaybillFee
<1>4. CASE PayWaybill(w)
  BY <1>0, <1>4, SetWaybillType DEF PayWaybill
<1>5. CASE CancelWaybill(w)
  BY <1>0, <1>5, SetWaybillType, SetParcelsType DEF CancelWaybill, ParcelStatus
<1>6. CASE ShipWaybill(w)
  BY <1>0, <1>6, SetWaybillType, SetParcelsType, RecordType DEF ShipWaybill, ParcelStatus, EventKinds
<1>7. CASE ConfirmReceipt(w)
  BY <1>0, <1>7, SetWaybillType, RecordType DEF ConfirmReceipt, EventKinds
<1>8. CASE AddTrackingEvent(w)
  BY <1>8, RecordType DEF AddTrackingEvent, EventKinds
<1> QED
  BY <1>1, <1>2, <1>3, <1>4, <1>5, <1>6, <1>7, <1>8

\* The batch operations keep every table well typed.
LEMMA TypeBatchStep == TypeOK /\ BatchStep => TypeOK'
<1> SUFFICES ASSUME TypeOK, NEW b \in Batches,
                    \/ \E t \in TransferNos, ws \in SUBSET Waybills : CreateShippingBatch(b, t, ws)
                    \/ \E t \in TransferNos : UpdateShippingBatch(b, t)
                    \/ \E ws \in SUBSET Waybills : AddWaybills(b, ws)
                    \/ \E w \in Waybills : RemoveWaybill(b, w)
                    \/ LockShippingBatch(b)
                    \/ ShipShippingBatch(b)
                    \/ AddShippingBatchTrackingEvent(b)
             PROVE  TypeOK'
  BY DEF BatchStep
<1> USE DEF TypeOK
<1>1. ASSUME NEW t \in TransferNos, NEW ws \in SUBSET Waybills, CreateShippingBatch(b, t, ws)
      PROVE  TypeOK'
  <2> DEFINE row == [status |-> "DRAFT", warehouse |-> Null, channel |-> Null, transfer |-> t]
  <2>1. row \in BatchRow
    BY DEF BatchRow, BatchStatus
  <2> HIDE DEF row
  <2>2. UNCHANGED <<parcels, links, events>>
    BY <1>1 DEF CreateShippingBatch
  <2>3. CASE Join(b, row, ws)
    BY JoinType, <2>1, <2>2, <2>3
  <2>4. CASE batches' = [batches EXCEPT ![b] = row] /\ UNCHANGED waybills
    BY <2>1, <2>2, <2>4
  <2> QED
    BY <1>1, <2>3, <2>4 DEF CreateShippingBatch, row
<1>2. ASSUME NEW t \in TransferNos, UpdateShippingBatch(b, t) PROVE TypeOK'
  <2>1. batches' \in [Batches -> BatchRow]
    BY <1>2 DEF UpdateShippingBatch, BatchRow
  <2>2. \A w \in Waybills : [waybills[w] EXCEPT !.transfer = t] \in WaybillRow
    BY DEF WaybillRow
  <2>3. waybills' \in [Waybills -> WaybillRow]
    BY <1>2, <2>2 DEF UpdateShippingBatch
  <2> QED
    BY <1>2, <2>1, <2>3 DEF UpdateShippingBatch
<1>3. ASSUME NEW ws \in SUBSET Waybills, AddWaybills(b, ws) PROVE TypeOK'
  <2>1. batches[b] \in BatchRow
    OBVIOUS
  <2> QED
    BY <1>3, <2>1, JoinType DEF AddWaybills
<1>4. ASSUME NEW w \in Waybills, RemoveWaybill(b, w) PROVE TypeOK'
  <2>1. waybills' \in [Waybills -> WaybillRow]
    <3>1. [waybills[w] EXCEPT !.batch = Null, !.transfer = NoTransfer] \in WaybillRow
      BY TransferAssumption DEF WaybillRow
    <3> QED
      BY <1>4, <3>1 DEF RemoveWaybill
  <2>2. batches' \in [Batches -> BatchRow]
    <3>1. [batches[b] EXCEPT !.warehouse = Null, !.channel = Null] \in BatchRow
      BY DEF BatchRow
    <3> QED
      BY <1>4, <3>1 DEF RemoveWaybill
  <2> QED
    BY <1>4, <2>1, <2>2 DEF RemoveWaybill
<1>5. CASE LockShippingBatch(b)
  <2>1. batches' \in [Batches -> BatchRow]
    BY <1>5 DEF LockShippingBatch, BatchRow, BatchStatus
  <2> QED
    BY <1>5, <2>1 DEF LockShippingBatch
<1>6. CASE ShipShippingBatch(b)
  <2>1. batches' \in [Batches -> BatchRow]
    BY <1>6 DEF ShipShippingBatch, BatchRow, BatchStatus
  <2>2. batches[b].transfer \in TransferNos
    BY DEF BatchRow
  <2>3. \A w \in Waybills :
          [waybills[w] EXCEPT !.status = "SHIPPED", !.transfer = batches[b].transfer] \in WaybillRow
    BY <2>2 DEF WaybillRow, WaybillStatus, Gone
  <2>4. waybills' \in [Waybills -> WaybillRow]
    BY <1>6, <2>3 DEF ShipShippingBatch
  <2>5. parcels' \in [Parcels -> ParcelRow]
    BY <1>6, SetParcelsType DEF ShipShippingBatch, ParcelStatus
  <2>6. events' \in [Waybills -> [EventKinds -> Nat]]
    BY <1>6, RecordType DEF ShipShippingBatch, EventKinds
  <2> QED
    BY <1>6, <2>1, <2>4, <2>5, <2>6 DEF ShipShippingBatch
<1>7. CASE AddShippingBatchTrackingEvent(b)
  BY <1>7, RecordType DEF AddShippingBatchTrackingEvent, EventKinds
<1> QED
  BY <1>1, <1>2, <1>3, <1>4, <1>5, <1>6, <1>7

\* Every operation keeps every table well typed.
LEMMA TypeStep == TypeOK /\ [Next]_vars => TypeOK'
<1>1. TypeOK /\ UNCHANGED vars => TypeOK'
  BY DEF TypeOK, vars
<1> QED
  BY <1>1, TypeParcelStep, TypeWaybillStep, TypeBatchStep DEF Next

\* Every row always has a legal status and legal references.
THEOREM TypeCorrect == Spec => []TypeOK
  BY TypeInit, TypeStep, PTL DEF Spec
-----------------------------------------------------------------------------
(* Custody. To the goods, eighteen actions are six kinds of step: nothing  *)
(* moves, parcels are announced, one arrives, goods are packed for a       *)
(* waybill, they are unpacked, some waybills leave. The kinds are what is  *)
(* proved about.                                                           *)

\* Outside ws, contents and openness of waybills stay; outside ps, parcels stay.
WaybillsKept(ws) ==
    \A w \in Waybills \ ws :
        /\ links'[w] = links[w]
        /\ waybills'[w].status \in Open <=> waybills[w].status \in Open
        /\ waybills'[w].status \in Gone <=> waybills[w].status \in Gone
ParcelsKept(ps) == \A p \in Parcels \ ps : parcels'[p].status = parcels[p].status

Quiet == WaybillsKept({}) /\ ParcelsKept({})

Announces(ps) ==
    /\ WaybillsKept({}) /\ ParcelsKept(ps)
    /\ \A p \in ps : parcels[p].status = "NONE" /\ parcels'[p].status = "PENDING_INBOUND"

Arrives(p) ==
    /\ WaybillsKept({}) /\ ParcelsKept({p})
    /\ parcels[p].status \in {"NONE", "PENDING_INBOUND"}
    /\ parcels'[p].status = "IN_STOCK"

Packs(w, ps) ==
    /\ WaybillsKept({w}) /\ ParcelsKept(ps)
    /\ ps # {}
    /\ \A p \in ps : parcels[p].status = "IN_STOCK" /\ parcels'[p].status = "PACKING_REQUESTED"
    /\ waybills[w].status \notin Open \cup Gone
    /\ waybills'[w].status \in Open /\ links'[w] = ps

Unpacks(w) ==
    /\ WaybillsKept({w}) /\ ParcelsKept(links[w])
    /\ \A p \in links[w] : parcels'[p].status = "IN_STOCK"
    /\ waybills[w].status \in Open /\ waybills'[w].status \notin Open \cup Gone
    /\ links'[w] = links[w]

Leaves(ws) ==
    /\ WaybillsKept(ws) /\ ParcelsKept(Contents(ws))
    /\ \A p \in Contents(ws) : parcels'[p].status = "OUTBOUND"
    /\ \A w \in ws : /\ waybills[w].status \in Open /\ waybills'[w].status \in Gone
                     /\ links'[w] = links[w]

NeverEmpty == \A w \in Waybills : waybills[w].status \in Open \cup Gone => links[w] # {}

CustodyInv == SoleCustody /\ GoodsFollowWaybill /\ NeverEmpty

KindOfStep ==
    \/ Quiet
    \/ \E ps \in SUBSET Parcels : Announces(ps)
    \/ \E p \in Parcels : Arrives(p)
    \/ \E w \in Waybills, ps \in SUBSET Parcels : Packs(w, ps)
    \/ \E w \in Waybills : Unpacks(w)
    \/ \E ws \in SUBSET Waybills : Leaves(ws)

\* A parcel operation announces parcels or is the arrival of one.
LEMMA ParcelStepKind == TypeOK /\ ParcelStep => KindOfStep
<1> USE DEF TypeOK, ParcelRow
<1>1. ASSUME TypeOK, NEW u \in Users, NEW ps \in SUBSET Parcels, NEW at \in [ps -> Warehouses],
             ForecastParcels(u, at)
      PROVE  Announces(ps)
  BY <1>1 DEF ForecastParcels, Announces, WaybillsKept, ParcelsKept
<1>2. ASSUME TypeOK, NEW p \in Parcels, InboundParcel(p) PROVE Arrives(p)
  BY <1>2 DEF InboundParcel, Arrives, WaybillsKept, ParcelsKept
<1>3. ASSUME TypeOK, NEW p \in Parcels, NEW u \in Users, NEW wh \in Warehouses,
             EnterStock(p, u, wh)
      PROVE  Arrives(p)
  BY <1>3 DEF EnterStock, Arrives, WaybillsKept, ParcelsKept
<1> QED
  BY <1>1, <1>2, <1>3 DEF ParcelStep, KindOfStep

\* A waybill operation moves the goods of at most one waybill, and whole.
LEMMA WaybillStepKind == TypeOK /\ GoodsFollowWaybill /\ WaybillStep => KindOfStep
<1> SUFFICES ASSUME TypeOK, GoodsFollowWaybill, NEW w \in Waybills,
                    \/ \E u \in Users, ps \in SUBSET Parcels, c \in Channels \cup {Null} :
                            CreateWaybill(w, u, ps, c)
                    \/ ReviewWaybill(w)
                    \/ \E fee \in Fees : SetWaybillFee(w, fee)
                    \/ PayWaybill(w)
                    \/ CancelWaybill(w)
                    \/ ShipWaybill(w)
                    \/ ConfirmReceipt(w)
                    \/ AddTrackingEvent(w)
             PROVE  KindOfStep
  BY DEF WaybillStep
<1> USE DEF TypeOK, WaybillsKept, ParcelsKept, Open, Gone, Cancellable
<1>1. ASSUME NEW u \in Users, NEW ps \in SUBSET Parcels, NEW c \in Channels \cup {Null},
             CreateWaybill(w, u, ps, c)
      PROVE  Packs(w, ps)
  <2>1. \A p \in Parcels : parcels'[p].status =
            IF p \in ps THEN "PACKING_REQUESTED" ELSE parcels[p].status
    BY <1>1 DEF CreateWaybill, SetParcels, ParcelRow
  <2>2. waybills'[w].status = "PENDING_REVIEW" /\ \A v \in Waybills \ {w} : waybills'[v] = waybills[v]
    <3>1. PICK wh \in {parcels[p].warehouse : p \in ps} :
            waybills' = [waybills EXCEPT ![w] =
              [@ EXCEPT !.status = "PENDING_REVIEW", !.user = u, !.warehouse = wh, !.channel = c]]
      BY <1>1 DEF CreateWaybill
    <3> QED
      BY <3>1 DEF WaybillRow
  <2> QED
    BY <1>1, <2>1, <2>2 DEF CreateWaybill, Packs
<1>2. CASE ReviewWaybill(w)
  BY <1>2 DEF ReviewWaybill, SetWaybill, WaybillRow, KindOfStep, Quiet
<1>3. ASSUME NEW fee \in Fees, SetWaybillFee(w, fee) PROVE Quiet
  BY <1>3 DEF SetWaybillFee, WaybillRow, Quiet
<1>4. CASE PayWaybill(w)
  BY <1>4 DEF PayWaybill, SetWaybill, WaybillRow, KindOfStep, Quiet
<1>5. CASE CancelWaybill(w)
  <2>1. \A p \in links[w] : parcels[p].status = "PACKING_REQUESTED"
    BY <1>5 DEF CancelWaybill, GoodsFollowWaybill
  <2>2. SetParcels(links[w], "IN_STOCK")
    <3>1. {p \in links[w] : parcels[p].status = "PACKING_REQUESTED"} = links[w]
      BY <2>1
    <3> QED
      BY <1>5, <3>1 DEF CancelWaybill
  <2>3. Unpacks(w)
    BY <1>5, <2>2 DEF CancelWaybill, Unpacks, SetParcels, SetWaybill, ParcelRow, WaybillRow
  <2> QED
    BY <2>3 DEF KindOfStep
<1>6. CASE ShipWaybill(w)
  <2>1. Contents({w}) = links[w]
    BY DEF Contents
  <2>2. Leaves({w})
    BY <1>6, <2>1 DEF ShipWaybill, Leaves, SetParcels, SetWaybill, ParcelRow, WaybillRow
  <2> QED
    BY <2>2 DEF KindOfStep
<1>7. CASE ConfirmReceipt(w)
  BY <1>7 DEF ConfirmReceipt, SetWaybill, WaybillRow, KindOfStep, Quiet
<1>8. CASE AddTrackingEvent(w)
  BY <1>8 DEF AddTrackingEvent, KindOfStep, Quiet
<1> QED
  BY <1>1, <1>2, <1>3, <1>4, <1>5, <1>6, <1>7, <1>8 DEF KindOfStep

\* A batch operation leaves the goods alone, except that shipping dispatches all members.
LEMMA BatchStepKind == TypeOK /\ BatchStep => KindOfStep
<1> SUFFICES ASSUME TypeOK, NEW b \in Batches,
                    \/ \E t \in TransferNos, ws \in SUBSET Waybills : CreateShippingBatch(b, t, ws)
                    \/ \E t \in TransferNos : UpdateShippingBatch(b, t)
                    \/ \E ws \in SUBSET Waybills : AddWaybills(b, ws)
                    \/ \E w \in Waybills : RemoveWaybill(b, w)
                    \/ LockShippingBatch(b)
                    \/ ShipShippingBatch(b)
                    \/ AddShippingBatchTrackingEvent(b)
             PROVE  KindOfStep
  BY DEF BatchStep
<1> USE DEF TypeOK, WaybillRow, WaybillsKept, ParcelsKept, Quiet
<1>1. ASSUME NEW t \in TransferNos, NEW ws \in SUBSET Waybills, CreateShippingBatch(b, t, ws)
      PROVE  Quiet
  <2>1. \A w \in Waybills : waybills'[w].status = waybills[w].status
    <3>1. CASE UNCHANGED waybills
      BY <3>1
    <3>2. CASE \E row : Join(b, row, ws)
      BY <3>2 DEF Join
    <3> QED
      BY <1>1, <3>1, <3>2 DEF CreateShippingBatch
  <2> QED
    BY <1>1, <2>1 DEF CreateShippingBatch
<1>2. ASSUME NEW t \in TransferNos, UpdateShippingBatch(b, t) PROVE Quiet
  BY <1>2 DEF UpdateShippingBatch
<1>3. ASSUME NEW ws \in SUBSET Waybills, AddWaybills(b, ws) PROVE Quiet
  BY <1>3 DEF AddWaybills, Join
<1>4. ASSUME NEW w \in Waybills, RemoveWaybill(b, w) PROVE Quiet
  BY <1>4 DEF RemoveWaybill
<1>5. CASE LockShippingBatch(b)
  BY <1>5 DEF LockShippingBatch, KindOfStep
<1>6. CASE ShipShippingBatch(b)
  <2> DEFINE ws == Members(b)
  <2>1. ws \in SUBSET Waybills
    BY DEF Members
  <2>2. \A w \in Waybills : waybills'[w].status = IF w \in ws THEN "SHIPPED" ELSE waybills[w].status
    BY <1>6 DEF ShipShippingBatch
  <2>3. Contents(ws) \subseteq Parcels
    BY <2>1 DEF Contents
  <2>4. \A p \in Parcels :
          parcels'[p].status = IF p \in Contents(ws) THEN "OUTBOUND" ELSE parcels[p].status
    BY <1>6 DEF ShipShippingBatch, SetParcels, ParcelRow
  <2>5. links' = links /\ \A w \in ws : waybills[w].status = "PENDING_SHIPMENT"
    BY <1>6 DEF ShipShippingBatch
  <2> HIDE DEF ws
  <2>6. Leaves(ws)
    BY <2>1, <2>2, <2>3, <2>4, <2>5 DEF Leaves, Open, Gone
  <2> QED
    BY <2>1, <2>6 DEF KindOfStep
<1>7. CASE AddShippingBatchTrackingEvent(b)
  BY <1>7 DEF AddShippingBatchTrackingEvent, KindOfStep
<1> QED
  BY <1>1, <1>2, <1>3, <1>4, <1>5, <1>6, <1>7 DEF KindOfStep

\* Each kind of step keeps parcel and waybill statuses in agreement.
LEMMA CustodyStep == TypeOK /\ CustodyInv /\ KindOfStep /\ TypeOK' => CustodyInv'
<1> SUFFICES ASSUME TypeOK, CustodyInv, KindOfStep, TypeOK' PROVE CustodyInv'
  OBVIOUS
<1> USE DEF CustodyInv, SoleCustody, GoodsFollowWaybill, NeverEmpty, WaybillsKept, ParcelsKept
<1>1. CASE Quiet
  BY <1>1 DEF Quiet
<1>2. ASSUME NEW p \in Parcels, Arrives(p) PROVE CustodyInv'
  BY <1>2 DEF Arrives
<1>6. ASSUME NEW ps \in SUBSET Parcels, Announces(ps) PROVE CustodyInv'
  BY <1>6 DEF Announces
<1>3. ASSUME NEW w \in Waybills, NEW ps \in SUBSET Parcels, Packs(w, ps) PROVE CustodyInv'
  BY <1>3 DEF Packs, Open, Gone, Cancellable
<1>4. ASSUME NEW w \in Waybills, Unpacks(w) PROVE CustodyInv'
  <2> USE <1>4 DEF Unpacks
  <2>1. links' \in [Waybills -> SUBSET Parcels] /\ links \in [Waybills -> SUBSET Parcels]
    BY DEF TypeOK
  <2>2. SoleCustody'
    BY <2>1
  <2>3. GoodsFollowWaybill'
    <3>1. ASSUME NEW p \in links[w], NEW v \in Waybills, v # w, p \in links[v]
          PROVE  waybills[v].status \notin Open \cup Gone
      BY <3>1
    <3>2. ASSUME NEW p \in links[w]
          PROVE  ~ \E v \in Waybills : p \in links'[v] /\ waybills'[v].status \in Open \cup Gone
      BY <3>1
    <3>3. ASSUME NEW p \in Parcels, p \notin links[w]
          PROVE  \A v \in Waybills : p \in links'[v] => /\ v # w
      BY <3>3
    <3> QED
      BY <2>1, <3>2, <3>3
  <2>4. NeverEmpty'
    OBVIOUS
  <2> QED
    BY <2>2, <2>3, <2>4
<1>5. ASSUME NEW ws \in SUBSET Waybills, Leaves(ws) PROVE CustodyInv'
  <2>1. \A w \in Waybills :
          /\ links'[w] = links[w] /\ links[w] \subseteq Parcels
          /\ w \in ws => /\ waybills[w].status \in Open /\ waybills[w].status \notin Gone
                        /\ waybills'[w].status \in Gone /\ waybills'[w].status \notin Open
    BY <1>5 DEF Leaves, Open, Gone, Cancellable, TypeOK
  <2>2. SoleCustody'
    BY <1>5, <2>1 DEF Leaves
  <2>3. GoodsFollowWaybill'
    <3>1. ASSUME NEW p \in Contents(ws)
          PROVE  /\ p \in Parcels /\ parcels'[p].status = "OUTBOUND"
                 /\ \E w \in Waybills : p \in links'[w] /\ waybills'[w].status \in Gone
                 /\ ~ \E w \in Waybills : p \in links'[w] /\ waybills'[w].status \in Open
      <4>1. PICK v \in ws : p \in links[v]
        BY <3>1 DEF Contents
      <4>2. v \in Waybills /\ p \in Parcels /\ p \in links'[v] /\ waybills'[v].status \in Gone
                /\ waybills'[v].status \notin Open
        BY <2>1, <4>1
      <4>3. ASSUME NEW w \in Waybills, p \in links'[w] PROVE waybills'[w].status \notin Open
        BY <2>2, <4>2, <4>3
      <4> QED
        BY <1>5, <3>1, <4>2, <4>3 DEF Leaves
    <3>2. ASSUME NEW p \in Parcels, p \notin Contents(ws)
          PROVE  \A w \in Waybills : p \in links[w] => w \notin ws
      BY <3>2 DEF Contents
    <3>3. ASSUME NEW p \in Parcels, p \notin Contents(ws)
          PROVE  /\ parcels'[p].status = "PACKING_REQUESTED" <=>
                        \E w \in Waybills : p \in links'[w] /\ waybills'[w].status \in Open
                 /\ parcels'[p].status = "OUTBOUND" <=>
                        \E w \in Waybills : p \in links'[w] /\ waybills'[w].status \in Gone
      BY <1>5, <2>1, <3>2, <3>3 DEF Leaves
    <3> QED
      BY <3>1, <3>3
  <2>4. NeverEmpty'
    BY <1>5, <2>1 DEF Leaves
  <2> QED
    BY <2>2, <2>3, <2>4
<1> QED
  BY <1>1, <1>2, <1>3, <1>4, <1>5, <1>6 DEF KindOfStep

\* The same of every operation.
LEMMA CustodyNext == TypeOK /\ CustodyInv /\ [Next]_vars => CustodyInv'
<1>1. TypeOK /\ CustodyInv /\ Next => KindOfStep
  BY ParcelStepKind, WaybillStepKind, BatchStepKind DEF Next, CustodyInv
<1>2. CustodyInv /\ UNCHANGED vars => CustodyInv'
  BY DEF CustodyInv, SoleCustody, GoodsFollowWaybill, NeverEmpty, vars
<1> QED
  BY <1>1, <1>2, CustodyStep, TypeStep

\* Empty tables hold nothing.
LEMMA CustodyInit == Init => CustodyInv
  BY DEF Init, CustodyInv, SoleCustody, GoodsFollowWaybill, NeverEmpty, Open, Gone, Cancellable

\* No parcel is ever on two live waybills, parcel and waybill statuses agree, and
\* no live waybill is empty.
THEOREM CustodyCorrect == Spec => []CustodyInv
  BY CustodyInit, CustodyNext, TypeCorrect, PTL DEF Spec

\* create_waybill never hands one parcel to two shipments.
COROLLARY AlwaysSoleCustody == Spec => []SoleCustody
  BY CustodyCorrect, PTL DEF CustodyInv

\* A parcel's status tells what happened to the waybill it is on.
COROLLARY AlwaysGoodsFollowWaybill == Spec => []GoodsFollowWaybill
  BY CustodyCorrect, PTL DEF CustodyInv

-----------------------------------------------------------------------------
(* Refinement: each kind of step is a step of Custody, or a stutter.       *)

Shelf == {p \in Parcels : parcels[p].status = "IN_STOCK"}
Packed == [w \in Waybills |-> IF waybills[w].status \in Open THEN links[w] ELSE {}]
Left == [w \in Waybills |-> IF waybills[w].status \in Gone THEN links[w] ELSE {}]

\* The empty tables map to the empty warehouse of Custody.
LEMMA RefineInit == Init => Warehouse!Init
  BY DEF Init, Warehouse!Init, Warehouse!Nothing, Open, Gone, Cancellable

\* Each kind of step is the step of Custody of that name, or a stutter.
LEMMA RefineStep ==
  TypeOK /\ CustodyInv /\ KindOfStep => [Warehouse!Next]_<<Shelf, Packed, Left>>
<1> SUFFICES ASSUME TypeOK, CustodyInv, KindOfStep
             PROVE  [Warehouse!Next]_<<Shelf, Packed, Left>>
  OBVIOUS
<1>0. \A s : ~ (s \in Open /\ s \in Gone)
  BY DEF Open, Gone, Cancellable
<1> USE DEF WaybillsKept, ParcelsKept, Shelf, Packed, Left
<1>1. CASE Quiet
  BY <1>1 DEF Quiet
<1>2. ASSUME NEW p \in Parcels, Arrives(p) PROVE [Warehouse!Next]_<<Shelf, Packed, Left>>
  <2>1. Packed' = Packed /\ Left' = Left
    BY <1>2 DEF Arrives
  <2>2. Shelf' = Shelf \cup {p}
    BY <1>2 DEF Arrives
  <2>3. p \notin Warehouse!Handled
    BY <1>2 DEF Arrives, Warehouse!Handled, CustodyInv, GoodsFollowWaybill
  <2>4. Warehouse!Arrive(p)
    BY <2>1, <2>2, <2>3 DEF Warehouse!Arrive
  <2> QED
    BY <2>4 DEF Warehouse!Next
<1>6. ASSUME NEW ps \in SUBSET Parcels, Announces(ps)
      PROVE  UNCHANGED <<Shelf, Packed, Left>>
  BY <1>6 DEF Announces
<1>3. ASSUME NEW w \in Waybills, NEW ps \in SUBSET Parcels, Packs(w, ps)
      PROVE  Warehouse!Pack(w, ps)
  <2>1. Shelf' = Shelf \ ps /\ ps \subseteq Shelf
    BY <1>3 DEF Packs
  <2>2. Packed' = [Packed EXCEPT ![w] = ps] /\ Left' = Left /\ Packed[w] = {} /\ Left[w] = {}
    BY <1>0, <1>3 DEF Packs
  <2> QED
    BY <1>3, <2>1, <2>2 DEF Warehouse!Pack, Packs
<1>4. ASSUME NEW w \in Waybills, Unpacks(w) PROVE Warehouse!Unpack(w)
  <2>1. Shelf' = Shelf \cup Packed[w]
    BY <1>4 DEF Unpacks, TypeOK
  <2>2. Packed' = [Packed EXCEPT ![w] = {}] /\ Left' = Left
    BY <1>0, <1>4 DEF Unpacks
  <2> QED
    BY <2>1, <2>2 DEF Warehouse!Unpack
<1>5. ASSUME NEW ws \in SUBSET Waybills, Leaves(ws) PROVE Warehouse!Dispatch(ws)
  <2>1. Shelf' = Shelf
    BY <1>5 DEF Leaves, Contents, CustodyInv, GoodsFollowWaybill, TypeOK
  <2>2. Packed' = [w \in Waybills |-> IF w \in ws THEN {} ELSE Packed[w]]
    BY <1>0, <1>5 DEF Leaves
  <2>3. Left' = [w \in Waybills |-> IF w \in ws THEN Packed[w] ELSE Left[w]]
    BY <1>0, <1>5 DEF Leaves
  <2>4. \A w \in ws : Packed[w] # {}
    BY <1>5 DEF Leaves, CustodyInv, NeverEmpty
  <2> QED
    BY <2>1, <2>2, <2>3, <2>4 DEF Warehouse!Dispatch
<1> QED
  BY <1>1, <1>2, <1>3, <1>4, <1>5, <1>6 DEF KindOfStep, Warehouse!Next

\* However waybills and batches are worked, the goods behave as Custody promises.
THEOREM FulfilmentImplementsCustody == Spec => ImplementsCustody
<1>1. TypeOK /\ CustodyInv /\ [Next]_vars => [Warehouse!Next]_(Warehouse!cvars)
  <2>1. TypeOK /\ CustodyInv /\ Next => KindOfStep
    BY ParcelStepKind, WaybillStepKind, BatchStepKind DEF Next, CustodyInv
  <2>2. UNCHANGED vars => UNCHANGED <<Shelf, Packed, Left>>
    BY DEF vars, Shelf, Packed, Left
  <2>3. TypeOK /\ CustodyInv /\ [Next]_vars => [Warehouse!Next]_<<Shelf, Packed, Left>>
    BY <2>1, <2>2, RefineStep
  <2> QED
    BY <2>3 DEF Shelf, Packed, Left, Warehouse!cvars
<1> QED
  BY <1>1, RefineInit, TypeCorrect, CustodyCorrect, PTL DEF Spec, ImplementsCustody, Warehouse!Spec

\* The proofs about Custody, over the rows of Fulfilment.
Promise == INSTANCE Custody_proofs WITH
    Goods <- Parcels, Consignments <- Waybills, shelf <- Shelf, packed <- Packed, gone <- Left

\* What the warehouse has taken in: stock, what is set aside, what has left.
Shelved == {"IN_STOCK", "PACKING_REQUESTED", "OUTBOUND"}

\* In rows, the goods Custody speaks of are those of a status after the inbound.
LEMMA HandledIsShelved ==
  ASSUME TypeOK, GoodsFollowWaybill
  PROVE  Promise!Handled = {p \in Parcels : parcels[p].status \in Shelved}
<1>1. ASSUME NEW p \in Parcels PROVE p \in Promise!Handled <=> parcels[p].status \in Shelved
  <2>1. p \in Promise!Handled <=> p \in Shelf \/ \E w \in Waybills : p \in Packed[w] \cup Left[w]
    BY DEF Promise!Handled
  <2>2. (\E w \in Waybills : p \in Packed[w]) <=> parcels[p].status = "PACKING_REQUESTED"
    BY DEF GoodsFollowWaybill, Packed
  <2>3. (\E w \in Waybills : p \in Left[w]) <=> parcels[p].status = "OUTBOUND"
    BY DEF GoodsFollowWaybill, Left
  <2> QED
    BY <2>1, <2>2, <2>3 DEF Shelved, Shelf
<1>2. Promise!Handled \subseteq Parcels
  BY DEF Promise!Handled, Shelf, Packed, Left, TypeOK
<1> QED
  BY <1>1, <1>2

\* No sequence of forecasts, waybills, cancellations and batches loses a parcel that was
\* taken in: it is stock, set aside or gone out for good.
THEOREM StockIsKept ==
  Spec => [][\A p \in Parcels : parcels[p].status \in Shelved => parcels'[p].status \in Shelved]_vars
<1> DEFINE Kept == \A p \in Parcels : parcels[p].status \in Shelved => parcels'[p].status \in Shelved
<1>1. Warehouse!Init <=> Promise!Init
  BY DEF Warehouse!Init, Promise!Init, Warehouse!Nothing, Promise!Nothing, Shelf, Packed, Left
<1>2. Warehouse!Next <=> Promise!Next
  BY DEF Warehouse!Next, Promise!Next, Warehouse!Arrive, Promise!Arrive, Warehouse!Pack, Promise!Pack,
         Warehouse!Unpack, Promise!Unpack, Warehouse!Dispatch, Promise!Dispatch, Warehouse!Handled,
         Promise!Handled, Shelf, Packed, Left
<1>3. [Warehouse!Next]_(Warehouse!cvars) => [Promise!Next]_(Promise!cvars)
  BY <1>2 DEF Warehouse!cvars, Promise!cvars, Shelf, Packed, Left
<1>4. Spec => Promise!Spec
  BY <1>1, <1>3, FulfilmentImplementsCustody, PTL DEF ImplementsCustody, Warehouse!Spec, Promise!Spec
<1>5. Spec => [][Promise!GoodsStay]_(Promise!cvars)
  BY <1>4, Promise!CustodyKeepsGoods, PTL
<1> DEFINE Same == Promise!Handled = {p \in Parcels : parcels[p].status \in Shelved}
<1>6. (TypeOK /\ GoodsFollowWaybill => Same) /\ (TypeOK /\ GoodsFollowWaybill => Same)'
  <2>1. TypeOK /\ GoodsFollowWaybill => Same
    BY HandledIsShelved
  <2> HIDE DEF Same
  <2> QED
    BY <2>1, PTL
<1>7. /\ TypeOK /\ GoodsFollowWaybill /\ (TypeOK /\ GoodsFollowWaybill)'
      /\ [Promise!GoodsStay]_(Promise!cvars)
      => [Kept]_vars
  <2> SUFFICES ASSUME TypeOK, GoodsFollowWaybill, (TypeOK /\ GoodsFollowWaybill)',
                      [Promise!GoodsStay]_(Promise!cvars)
               PROVE  Kept
    OBVIOUS
  <2>1. Promise!Handled \subseteq Promise!Handled'
    BY DEF Promise!GoodsStay, Promise!cvars, Promise!Handled
  <2>2. Same /\ Promise!Handled' = {p \in Parcels : parcels'[p].status \in Shelved}
    BY <1>6
  <2> QED
    BY <2>1, <2>2
<1> QED
  BY <1>5, <1>7, TypeCorrect, CustodyCorrect, PTL DEF CustodyInv

-----------------------------------------------------------------------------
(* Batches. Scope, transfer number and dispatch of a batch hold together   *)
(* with two facts about rows: an inserted row has its warehouse, and a row *)
(* that is not inserted is in, or has, nothing.                            *)

RowsFilled ==
    /\ \A p \in Parcels : parcels[p].status # "NONE" => parcels[p].warehouse \in Warehouses
    /\ \A w \in Waybills : waybills[w].status # "NONE" => waybills[w].warehouse \in Warehouses
    /\ \A b \in Batches : batches[b].status = "NONE" => Members(b) = {}

BatchInv == RowsFilled /\ BatchScope /\ TransferNoFollowsBatch /\ BatchShipsWhole

\* With no batches there is nothing to disagree with.
LEMMA BatchInvInit == Init => BatchInv
  BY NullAssumption
     DEF Init, BatchInv, RowsFilled, BatchScope, TransferNoFollowsBatch, BatchShipsWhole, Members

\* A step keeps BatchInv that only moves waybills forward, and no waybill in or out.
WaybillsForward ==
    \A w \in Waybills :
        /\ waybills'[w].batch = waybills[w].batch
        /\ waybills'[w].transfer = waybills[w].transfer
        /\ waybills[w].batch # Null =>
              /\ waybills'[w].warehouse = waybills[w].warehouse
              /\ waybills'[w].channel = waybills[w].channel
              /\ waybills'[w].status = waybills[w].status \/ waybills'[w].status \in Gone
              /\ waybills[w].status \in Gone => waybills'[w].status \in Gone

\* A step that only moves waybills forward, and no batch, disturbs no batch.
LEMMA ForwardKeepsBatches ==
  ASSUME TypeOK, BatchInv, RowsFilled', WaybillsForward, batches' = batches
  PROVE  BatchInv'
<1> USE NullAssumption DEF BatchInv, WaybillsForward, TypeOK, WaybillRow
<1>0. \A b \in Batches : Members(b)' = Members(b) /\ b # Null
  BY DEF Members
<1>1. BatchScope'
  BY <1>0 DEF BatchScope, Members
<1>2. TransferNoFollowsBatch'
  BY DEF TransferNoFollowsBatch, Gone
<1>3. BatchShipsWhole'
  BY <1>0 DEF BatchShipsWhole, Members, Gone
<1> QED
  BY <1>1, <1>2, <1>3

\* Parcel operations touch no batch.
LEMMA BatchInvParcelStep == TypeOK /\ BatchInv /\ ParcelStep => BatchInv'
<1> SUFFICES ASSUME TypeOK, BatchInv, ParcelStep PROVE BatchInv'
  OBVIOUS
<1>1. waybills' = waybills /\ batches' = batches
  BY DEF ParcelStep, ForecastParcels, EnterStock, InboundParcel
<1>2. \A p \in Parcels : parcels'[p].status # "NONE" => parcels'[p].warehouse \in Warehouses
  <2> USE DEF BatchInv, RowsFilled, TypeOK, ParcelRow
  <2>1. ASSUME NEW u \in Users, NEW ps \in SUBSET Parcels, NEW at \in [ps -> Warehouses],
               ForecastParcels(u, at), NEW p \in Parcels
        PROVE  parcels'[p].status # "NONE" => parcels'[p].warehouse \in Warehouses
    BY <2>1 DEF ForecastParcels
  <2>2. ASSUME NEW q \in Parcels, NEW p \in Parcels,
               \/ InboundParcel(q)
               \/ \E u \in Users, wh \in Warehouses : EnterStock(q, u, wh)
        PROVE  parcels'[p].status # "NONE" => parcels'[p].warehouse \in Warehouses
    BY <2>2 DEF InboundParcel, EnterStock
  <2> QED
    BY <2>1, <2>2 DEF ParcelStep
<1>3. RowsFilled'
  BY <1>1, <1>2 DEF BatchInv, RowsFilled, Members
<1> QED
  BY <1>1, <1>3, ForwardKeepsBatches DEF WaybillsForward

\* A waybill operation moves the members of a batch only forward.
LEMMA BatchInvWaybillStep == TypeOK /\ CustodyInv /\ BatchInv /\ WaybillStep => BatchInv'
<1> SUFFICES ASSUME TypeOK, CustodyInv, BatchInv, NEW w \in Waybills,
                    \/ \E u \in Users, ps \in SUBSET Parcels, c \in Channels \cup {Null} :
                            CreateWaybill(w, u, ps, c)
                    \/ ReviewWaybill(w)
                    \/ \E fee \in Fees : SetWaybillFee(w, fee)
                    \/ PayWaybill(w)
                    \/ CancelWaybill(w)
                    \/ ShipWaybill(w)
                    \/ ConfirmReceipt(w)
                    \/ AddTrackingEvent(w)
             PROVE  BatchInv'
  BY DEF WaybillStep
<1>0. batches' = batches
  BY DEF CreateWaybill, ReviewWaybill, SetWaybillFee, PayWaybill, CancelWaybill, ShipWaybill,
         ConfirmReceipt, AddTrackingEvent
<1>1. ASSUME NEW p \in Parcels, parcels'[p].status # "NONE"
      PROVE  parcels[p].status # "NONE" /\ parcels'[p].warehouse = parcels[p].warehouse
  <2> USE <1>1 DEF TypeOK, ParcelRow, SetParcels
  <2>1. CASE UNCHANGED parcels
    BY <2>1
  <2>2. ASSUME NEW ps, NEW s, SetParcels(ps, s),
               \A q \in ps : q \in Parcels => parcels[q].status # "NONE"
        PROVE  parcels[p].status # "NONE" /\ parcels'[p].warehouse = parcels[p].warehouse
    BY <2>2
  <2>3. CASE \E u \in Users, ps \in SUBSET Parcels, c \in Channels \cup {Null} :
                CreateWaybill(w, u, ps, c)
    <3>1. PICK u \in Users, ps \in SUBSET Parcels, c \in Channels \cup {Null} :
            CreateWaybill(w, u, ps, c)
      BY <2>3
    <3>2. SetParcels(ps, "PACKING_REQUESTED") /\ \A q \in ps : parcels[q].status # "NONE"
      BY <3>1 DEF CreateWaybill
    <3> QED
      BY <2>2, <3>2
  <2>4. CASE CancelWaybill(w)
    BY <2>2, <2>4 DEF CancelWaybill
  <2>5. CASE ShipWaybill(w)
    BY <2>2, <2>5 DEF ShipWaybill, CustodyInv, GoodsFollowWaybill, Open
  <2> QED
    BY <2>1, <2>3, <2>4, <2>5
       DEF ReviewWaybill, SetWaybillFee, PayWaybill, ConfirmReceipt, AddTrackingEvent
<1>2. waybills[w].status \notin Gone \cup {"PENDING_SHIPMENT"} => waybills[w].batch = Null
  BY DEF BatchInv, BatchShipsWhole, Members, TypeOK, WaybillRow
<1>3. \A v \in Waybills :
        waybills'[v].status # "NONE" => waybills'[v].warehouse \in Warehouses
  <2>1. ASSUME NEW u \in Users, NEW ps \in SUBSET Parcels, NEW c \in Channels \cup {Null},
               CreateWaybill(w, u, ps, c)
        PROVE  \A v \in Waybills : waybills'[v].status # "NONE" => waybills'[v].warehouse \in Warehouses
    <3>1. PICK wh \in {parcels[p].warehouse : p \in ps} :
            waybills' = [waybills EXCEPT ![w] =
              [@ EXCEPT !.status = "PENDING_REVIEW", !.user = u, !.warehouse = wh, !.channel = c]]
      BY <2>1 DEF CreateWaybill
    <3>2. wh \in Warehouses
      BY <2>1 DEF CreateWaybill, BatchInv, RowsFilled
    <3> QED
      BY <3>1, <3>2 DEF BatchInv, RowsFilled, TypeOK, WaybillRow
  <2>2. ASSUME NEW s, SetWaybill(w, s), waybills[w].status # "NONE"
        PROVE  \A v \in Waybills : waybills'[v].status # "NONE" => waybills'[v].warehouse \in Warehouses
    BY <2>2 DEF SetWaybill, BatchInv, RowsFilled, TypeOK, WaybillRow
  <2>3. ASSUME NEW fee \in Fees, SetWaybillFee(w, fee)
        PROVE  \A v \in Waybills : waybills'[v].status # "NONE" => waybills'[v].warehouse \in Warehouses
    BY <2>3 DEF SetWaybillFee, BatchInv, RowsFilled, TypeOK, WaybillRow
  <2> QED
    BY <2>1, <2>2, <2>3 DEF ReviewWaybill, PayWaybill, CancelWaybill, ShipWaybill, Cancellable,
         ConfirmReceipt, AddTrackingEvent, BatchInv, RowsFilled, TypeOK, WaybillRow
<1>4. WaybillsForward
  <2>1. ASSUME NEW u \in Users, NEW ps \in SUBSET Parcels, NEW c \in Channels \cup {Null},
               CreateWaybill(w, u, ps, c)
        PROVE  WaybillsForward
    <3>1. PICK wh \in {parcels[p].warehouse : p \in ps} :
            waybills' = [waybills EXCEPT ![w] =
              [@ EXCEPT !.status = "PENDING_REVIEW", !.user = u, !.warehouse = wh, !.channel = c]]
      BY <2>1 DEF CreateWaybill
    <3>2. waybills[w].batch = Null
      BY <1>2, <2>1 DEF CreateWaybill, Gone
    <3> QED
      BY <3>1, <3>2 DEF WaybillsForward, TypeOK, WaybillRow
  <2>2. ASSUME NEW s, SetWaybill(w, s), waybills[w].batch = Null \/ s \in Gone
        PROVE  WaybillsForward
    BY <2>2 DEF SetWaybill, WaybillsForward, TypeOK, WaybillRow
  <2>3. ASSUME NEW fee \in Fees, SetWaybillFee(w, fee) PROVE WaybillsForward
    <3>1. waybills[w].batch = Null
      BY <1>2, <2>3 DEF SetWaybillFee, Gone
    <3> QED
      BY <2>3, <3>1 DEF SetWaybillFee, WaybillsForward, TypeOK, WaybillRow
  <2>4. CASE ReviewWaybill(w)
    BY <1>2, <2>2, <2>4 DEF ReviewWaybill, Gone
  <2>5. CASE PayWaybill(w)
    BY <1>2, <2>2, <2>5 DEF PayWaybill, Gone
  <2>6. CASE CancelWaybill(w)
    BY <1>2, <2>2, <2>6 DEF CancelWaybill, Gone, Cancellable
  <2>7. CASE ShipWaybill(w)
    BY <2>2, <2>7 DEF ShipWaybill, Gone
  <2>8. CASE ConfirmReceipt(w)
    BY <2>2, <2>8 DEF ConfirmReceipt, Gone
  <2>9. CASE AddTrackingEvent(w)
    BY <2>9 DEF AddTrackingEvent, WaybillsForward
  <2> QED
    BY <2>1, <2>3, <2>4, <2>5, <2>6, <2>7, <2>8, <2>9
<1>5. RowsFilled'
  BY <1>0, <1>1, <1>3, <1>4 DEF BatchInv, RowsFilled, Members, WaybillsForward
<1> QED
  BY <1>0, <1>4, <1>5, ForwardKeepsBatches

\* Waybills of ws enter batch b: the heart of create_shipping_batch and add_waybills.
LEMMA JoinKeepsBatches ==
  ASSUME TypeOK, BatchInv, NEW b \in Batches, NEW row \in BatchRow, NEW ws \in SUBSET Waybills,
         row.status = "DRAFT", row.transfer = batches[b].transfer \/ Members(b) = {},
         row.warehouse = batches[b].warehouse, row.channel = batches[b].channel,
         batches[b].status \in {"NONE", "DRAFT"},
         CanJoin(b, row.warehouse, row.channel, ws), Join(b, row, ws), parcels' = parcels
  PROVE  BatchInv'
<1> USE NullAssumption
<1>0. \A c \in Batches : c # Null
  OBVIOUS
<1>1. \A w \in Waybills :
        /\ waybills'[w].status = waybills[w].status
        /\ waybills'[w].warehouse = waybills[w].warehouse
        /\ waybills'[w].channel = waybills[w].channel
        /\ waybills'[w].batch = IF w \in ws THEN b ELSE waybills[w].batch
        /\ waybills'[w].transfer = IF w \in ws THEN row.transfer ELSE waybills[w].transfer
  <2> SUFFICES ASSUME NEW w \in Waybills
               PROVE  /\ waybills'[w].status = waybills[w].status
                      /\ waybills'[w].warehouse = waybills[w].warehouse
                      /\ waybills'[w].channel = waybills[w].channel
                      /\ waybills'[w].batch = IF w \in ws THEN b ELSE waybills[w].batch
                      /\ waybills'[w].transfer = IF w \in ws THEN row.transfer
                                                            ELSE waybills[w].transfer
    OBVIOUS
  <2>1. waybills'[w] = IF w \in ws THEN [waybills[w] EXCEPT !.batch = b, !.transfer = row.transfer]
                                   ELSE waybills[w]
    BY DEF Join
  <2>2. waybills[w] \in WaybillRow
    BY DEF TypeOK
  <2> QED
    BY <2>1, <2>2 DEF WaybillRow
<1>2. \A w \in ws : waybills[w].status = "PENDING_SHIPMENT" /\ waybills[w].batch \in {Null, b}
  BY DEF CanJoin
<1>3. Members(b)' = Members(b) \cup ws /\ \A c \in Batches \ {b} : Members(c)' = Members(c)
  BY <1>0, <1>1, <1>2 DEF Members
<1>4. \A w \in Members(b) \cup ws : waybills[w].warehouse \in Warehouses
  <2>1. \A w \in Members(b) \cup ws :
          w \in Waybills /\ waybills[w].status \in Gone \cup {"PENDING_SHIPMENT"}
    BY <1>2 DEF BatchInv, BatchShipsWhole, Members
  <2> QED
    BY <2>1 DEF BatchInv, RowsFilled, Gone
<1>5. row.warehouse = Null => Members(b) = {}
  <2>1. \A w \in Members(b) : batches[b].warehouse = waybills[w].warehouse
    BY DEF BatchInv, BatchScope
  <2>2. Null \notin Warehouses
    OBVIOUS
  <2> QED
    BY <1>4, <2>1, <2>2
<1>6. PICK first \in ws : batches' = [batches EXCEPT ![b] =
            IF row.warehouse = Null
            THEN [row EXCEPT !.warehouse = waybills[first].warehouse,
                             !.channel = waybills[first].channel]
            ELSE row]
  BY DEF Join
<1>7. /\ batches'[b].status = "DRAFT" /\ batches'[b].transfer = row.transfer
      /\ batches'[b].warehouse = IF row.warehouse = Null THEN waybills[first].warehouse
                                                        ELSE row.warehouse
      /\ batches'[b].channel = IF row.warehouse = Null THEN waybills[first].channel
                                                      ELSE row.channel
      /\ \A c \in Batches \ {b} : batches'[c] = batches[c]
  <2>1. batches'[b] = IF row.warehouse = Null
                      THEN [row EXCEPT !.warehouse = waybills[first].warehouse,
                                       !.channel = waybills[first].channel]
                      ELSE row
    BY <1>6 DEF TypeOK
  <2>2. \A c \in Batches \ {b} : batches'[c] = batches[c]
    BY <1>6 DEF TypeOK
  <2>3. CASE row.warehouse = Null
    BY <2>1, <2>2, <2>3 DEF BatchRow
  <2>4. CASE row.warehouse # Null
    BY <2>1, <2>2, <2>4
  <2> QED
    BY <2>3, <2>4
<1>8. RowsFilled'
  BY <1>1, <1>3, <1>7 DEF BatchInv, RowsFilled
<1>9. BatchScope'
  <2>1. ASSUME NEW w \in Members(b)'
        PROVE  /\ batches'[b].warehouse = waybills'[w].warehouse
               /\ batches'[b].channel # Null => batches'[b].channel = waybills'[w].channel
    <3>0. w \in Waybills
      BY DEF Members
    <3>1. CASE w \in ws
      BY <1>1, <1>7, <3>0, <3>1 DEF CanJoin
    <3>2. CASE w \in Members(b)
      BY <1>1, <1>5, <1>7, <3>0, <3>2 DEF BatchInv, BatchScope
    <3> QED
      BY <1>3, <3>1, <3>2
  <2>2. ASSUME NEW c \in Batches \ {b}
        PROVE  /\ \A w \in Members(c)' :
                    /\ batches'[c].warehouse = waybills'[w].warehouse
                    /\ batches'[c].channel # Null => batches'[c].channel = waybills'[w].channel
               /\ Members(c)' = {} => batches'[c].warehouse = Null /\ batches'[c].channel = Null
    <3>1. \A w \in Members(c) : w \in Waybills
      BY DEF Members
    <3> QED
      BY <1>1, <1>3, <1>7, <3>1 DEF BatchInv, BatchScope
  <2> QED
    BY <1>3, <2>1, <2>2 DEF BatchScope
<1>10. TransferNoFollowsBatch'
  <2>1. ASSUME NEW w \in Waybills
        PROVE  IF waybills'[w].batch = Null THEN waybills'[w].transfer = NoTransfer
               ELSE waybills'[w].status = "PENDING_SHIPMENT" =>
                        waybills'[w].transfer = batches'[waybills'[w].batch].transfer
    <3>1. CASE w \in ws
      BY <1>0, <1>1, <1>7, <3>1
    <3>2. CASE w \notin ws /\ waybills[w].batch = b
      BY <1>0, <1>1, <1>7, <3>2 DEF BatchInv, TransferNoFollowsBatch, Members
    <3>3. CASE w \notin ws /\ waybills[w].batch # b
      BY <1>1, <1>7, <3>3 DEF BatchInv, TransferNoFollowsBatch, TypeOK, WaybillRow
    <3> QED
      BY <3>1, <3>2, <3>3
  <2> QED
    BY <2>1 DEF TransferNoFollowsBatch
<1>11. BatchShipsWhole'
  <2>1. \A c \in Batches : \A w \in Members(c)' :
          w \in Waybills /\ waybills'[w].status \in Gone \cup {"PENDING_SHIPMENT"}
    BY <1>1, <1>2, <1>3 DEF Members, BatchInv, BatchShipsWhole
  <2>2. \A c \in Batches : batches'[c].status = "SHIPPED" => c # b /\ batches[c].status = "SHIPPED"
    BY <1>7
  <2>3. \A c \in Batches \ {b} : batches[c].status = "SHIPPED" =>
            Members(c)' # {} /\ \A w \in Members(c)' : waybills'[w].status \in Gone
    BY <1>1, <1>3, <2>1 DEF BatchInv, BatchShipsWhole
  <2> QED
    BY <2>1, <2>2, <2>3 DEF BatchShipsWhole
<1> QED
  BY <1>8, <1>9, <1>10, <1>11 DEF BatchInv

\* The batch operations keep scope, transfer number and dispatch of every batch.
LEMMA BatchInvBatchStep == TypeOK /\ CustodyInv /\ BatchInv /\ BatchStep => BatchInv'
<1> SUFFICES ASSUME TypeOK, CustodyInv, BatchInv, NEW b \in Batches,
                    \/ \E t \in TransferNos, ws \in SUBSET Waybills : CreateShippingBatch(b, t, ws)
                    \/ \E t \in TransferNos : UpdateShippingBatch(b, t)
                    \/ \E ws \in SUBSET Waybills : AddWaybills(b, ws)
                    \/ \E w \in Waybills : RemoveWaybill(b, w)
                    \/ LockShippingBatch(b)
                    \/ ShipShippingBatch(b)
                    \/ AddShippingBatchTrackingEvent(b)
             PROVE  BatchInv'
  BY DEF BatchStep
<1> USE NullAssumption DEF TypeOK
<1>0. \A c \in Batches : c # Null
  OBVIOUS
<1>r. \A w \in Waybills :
        /\ waybills[w].batch \in Batches \cup {Null}
        /\ waybills[w].batch = Null => waybills[w].transfer = NoTransfer
        /\ waybills[w].batch # Null /\ waybills[w].status = "PENDING_SHIPMENT" =>
                waybills[w].transfer = batches[waybills[w].batch].transfer
  BY DEF BatchInv, TransferNoFollowsBatch, WaybillRow
<1>1. ASSUME NEW t \in TransferNos, NEW ws \in SUBSET Waybills, CreateShippingBatch(b, t, ws)
      PROVE  BatchInv'
  <2> DEFINE row == [status |-> "DRAFT", warehouse |-> Null, channel |-> Null, transfer |-> t]
  <2>1. row \in BatchRow
    BY DEF BatchRow, BatchStatus
  <2>2. Members(b) = {} /\ batches[b].warehouse = Null /\ batches[b].channel = Null
    BY <1>1 DEF CreateShippingBatch, BatchInv, RowsFilled, BatchScope
  <2>3. CASE CanJoin(b, Null, Null, ws) /\ Join(b, row, ws)
    BY <1>1, <2>1, <2>2, <2>3, JoinKeepsBatches DEF CreateShippingBatch
  <2>4. CASE batches' = [batches EXCEPT ![b] = row] /\ UNCHANGED waybills
    <3>1. parcels' = parcels /\ waybills' = waybills
      BY <1>1, <2>4 DEF CreateShippingBatch
    <3>2. batches'[b] = row /\ \A c \in Batches \ {b} : batches'[c] = batches[c]
      BY <2>4
    <3>3. \A c \in Batches : Members(c)' = Members(c)
      BY <3>1 DEF Members
    <3>4. \A w \in Waybills : waybills[w].batch # b
      BY <2>2 DEF Members
    <3>5. RowsFilled'
      BY <2>2, <3>1, <3>2, <3>3 DEF BatchInv, RowsFilled
    <3>6. BatchScope'
      BY <2>2, <3>1, <3>2, <3>3 DEF BatchInv, BatchScope
    <3>7. TransferNoFollowsBatch'
      BY <3>1, <3>2, <3>4 DEF BatchInv, TransferNoFollowsBatch, WaybillRow
    <3>8. BatchShipsWhole'
      BY <2>2, <3>1, <3>2, <3>3 DEF BatchInv, BatchShipsWhole
    <3> QED
      BY <3>5, <3>6, <3>7, <3>8 DEF BatchInv
  <2> QED
    BY <1>1, <2>3, <2>4 DEF CreateShippingBatch
<1>2. ASSUME NEW t \in TransferNos, UpdateShippingBatch(b, t) PROVE BatchInv'
  <2>1. \A w \in Waybills :
          /\ waybills'[w].status = waybills[w].status /\ waybills'[w].batch = waybills[w].batch
          /\ waybills'[w].warehouse = waybills[w].warehouse
          /\ waybills'[w].channel = waybills[w].channel
          /\ waybills'[w].transfer = IF waybills[w].batch = b /\ waybills[w].status = "PENDING_SHIPMENT"
                                     THEN t ELSE waybills[w].transfer
    BY <1>2 DEF UpdateShippingBatch, Members, WaybillRow
  <2>2. /\ batches'[b].status = batches[b].status /\ batches[b].status \in {"DRAFT", "LOCKED"}
        /\ batches'[b].warehouse = batches[b].warehouse
        /\ batches'[b].channel = batches[b].channel /\ batches'[b].transfer = t
        /\ \A c \in Batches \ {b} : batches'[c] = batches[c]
    BY <1>2 DEF UpdateShippingBatch, BatchRow
  <2>3. parcels' = parcels /\ \A c \in Batches : Members(c)' = Members(c)
    BY <1>2, <2>1 DEF UpdateShippingBatch, Members
  <2>4. \A c \in Batches : \A w \in Members(c) : w \in Waybills
    BY DEF Members
  <2>5. RowsFilled'
    BY <2>1, <2>2, <2>3 DEF BatchInv, RowsFilled
  <2>6. BatchScope'
    BY <2>1, <2>2, <2>3, <2>4 DEF BatchInv, BatchScope
  <2>7. TransferNoFollowsBatch'
    BY <1>0, <2>1, <2>2 DEF BatchInv, TransferNoFollowsBatch, WaybillRow
  <2>8. BatchShipsWhole'
    BY <2>1, <2>2, <2>3, <2>4 DEF BatchInv, BatchShipsWhole
  <2> QED
    BY <2>5, <2>6, <2>7, <2>8 DEF BatchInv
<1>3. ASSUME NEW ws \in SUBSET Waybills, AddWaybills(b, ws) PROVE BatchInv'
  <2>1. batches[b] \in BatchRow /\ batches[b].status = "DRAFT"
    BY <1>3 DEF AddWaybills
  <2> QED
    BY <1>3, <2>1, JoinKeepsBatches DEF AddWaybills
<1>4. ASSUME NEW w \in Waybills, RemoveWaybill(b, w) PROVE BatchInv'
  <2>1. /\ waybills'[w].batch = Null /\ waybills'[w].transfer = NoTransfer
        /\ waybills'[w].status = waybills[w].status
        /\ waybills'[w].warehouse = waybills[w].warehouse
        /\ \A v \in Waybills \ {w} : waybills'[v] = waybills[v]
    BY <1>4 DEF RemoveWaybill, WaybillRow
  <2>2. /\ w \in Members(b) /\ waybills[w].batch = b /\ batches[b].status = "DRAFT"
        /\ parcels' = parcels
    BY <1>4 DEF RemoveWaybill, Members
  <2>3. Members(b)' = Members(b) \ {w} /\ \A c \in Batches \ {b} : Members(c)' = Members(c)
    BY <1>0, <2>1, <2>2 DEF Members
  <2>4. /\ batches'[b].status = "DRAFT" /\ batches'[b].transfer = batches[b].transfer
        /\ IF Members(b) = {w} THEN batches'[b].warehouse = Null /\ batches'[b].channel = Null
           ELSE batches'[b] = batches[b]
        /\ \A c \in Batches \ {b} : batches'[c] = batches[c]
    BY <1>4, <2>2 DEF RemoveWaybill, BatchRow
  <2>5. \A c \in Batches : \A v \in Members(c)' :
          v \in Waybills /\ v # w /\ v \in Members(c) /\ waybills'[v] = waybills[v]
    BY <1>0, <2>1, <2>3 DEF Members
  <2>6. RowsFilled'
    BY <2>1, <2>2, <2>3, <2>4 DEF BatchInv, RowsFilled
  <2>7. BatchScope'
    <3>1. CASE Members(b) = {w}
      BY <2>3, <2>4, <2>5, <3>1 DEF BatchInv, BatchScope
    <3>2. CASE Members(b) # {w}
      BY <2>2, <2>3, <2>4, <2>5, <3>2 DEF BatchInv, BatchScope
    <3> QED
      BY <3>1, <3>2
  <2>8. TransferNoFollowsBatch'
    <3>1. ASSUME NEW v \in Waybills, v # w
          PROVE  IF waybills'[v].batch = Null THEN waybills'[v].transfer = NoTransfer
                 ELSE waybills'[v].status = "PENDING_SHIPMENT" =>
                          waybills'[v].transfer = batches'[waybills'[v].batch].transfer
      <4>1. waybills'[v] = waybills[v]
        BY <2>1, <3>1
      <4>2. \A c \in Batches : batches'[c].transfer = batches[c].transfer
        BY <2>4
      <4> QED
        BY <1>r, <4>1, <4>2
    <3> QED
      BY <2>1, <3>1 DEF TransferNoFollowsBatch
  <2>9. BatchShipsWhole'
    BY <2>2, <2>3, <2>4, <2>5 DEF BatchInv, BatchShipsWhole
  <2> QED
    BY <2>6, <2>7, <2>8, <2>9 DEF BatchInv
<1>5. CASE LockShippingBatch(b)
  <2>1. parcels' = parcels /\ waybills' = waybills /\ Members(b) # {}
    BY <1>5 DEF LockShippingBatch
  <2>2. /\ batches'[b].status = "LOCKED" /\ batches'[b].warehouse = batches[b].warehouse
        /\ batches'[b].channel = batches[b].channel /\ batches'[b].transfer = batches[b].transfer
        /\ \A c \in Batches \ {b} : batches'[c] = batches[c]
    BY <1>5 DEF LockShippingBatch, BatchRow
  <2>3. \A c \in Batches : Members(c)' = Members(c)
    BY <2>1 DEF Members
  <2>4. RowsFilled' /\ BatchScope' /\ BatchShipsWhole'
    BY <2>1, <2>2, <2>3 DEF BatchInv, RowsFilled, BatchScope, BatchShipsWhole
  <2>5. TransferNoFollowsBatch'
    <3>1. \A c \in Batches : batches'[c].transfer = batches[c].transfer
      BY <2>2
    <3> QED
      BY <1>r, <2>1, <3>1 DEF TransferNoFollowsBatch
  <2> QED
    BY <2>4, <2>5 DEF BatchInv
<1>6. CASE ShipShippingBatch(b)
  <2>1. \A w \in Waybills :
          /\ waybills'[w].status = IF waybills[w].batch = b THEN "SHIPPED" ELSE waybills[w].status
          /\ waybills'[w].batch = waybills[w].batch
          /\ waybills'[w].warehouse = waybills[w].warehouse
          /\ waybills'[w].channel = waybills[w].channel
          /\ waybills[w].batch # b => waybills'[w] = waybills[w]
    <3>1. \A w \in Waybills : waybills'[w] =
            IF waybills[w].batch = b
            THEN [waybills[w] EXCEPT !.status = "SHIPPED", !.transfer = batches[b].transfer]
            ELSE waybills[w]
      BY <1>6 DEF ShipShippingBatch, Members
    <3> QED
      BY <3>1 DEF WaybillRow
  <2>2. /\ batches'[b].status = "SHIPPED" /\ batches'[b].warehouse = batches[b].warehouse
        /\ batches'[b].channel = batches[b].channel /\ batches'[b].transfer = batches[b].transfer
        /\ \A c \in Batches \ {b} : batches'[c] = batches[c]
    BY <1>6 DEF ShipShippingBatch, BatchRow
  <2>3. Members(b) # {} /\ \A c \in Batches : Members(c)' = Members(c)
    <3>1. Members(b) # {}
      BY <1>6 DEF ShipShippingBatch
    <3>2. \A c \in Batches : Members(c)' = Members(c)
      BY <2>1 DEF Members
    <3> QED
      BY <3>1, <3>2
  <2>4. \A w \in Members(b) : waybills[w].status = "PENDING_SHIPMENT"
    BY <1>6 DEF ShipShippingBatch
  <2>5. \A c \in Batches : \A w \in Members(c) : w \in Waybills /\ waybills[w].batch = c
    BY DEF Members
  <2>6. RowsFilled'
    <3>1. \A p \in Contents(Members(b)) : p \in Parcels => parcels[p].status = "PACKING_REQUESTED"
      BY <2>4, <2>5 DEF Contents, CustodyInv, GoodsFollowWaybill, Open
    <3>2. \A p \in Parcels : parcels'[p].status # "NONE" =>
              parcels[p].status # "NONE" /\ parcels'[p].warehouse = parcels[p].warehouse
      BY <1>6, <3>1 DEF ShipShippingBatch, SetParcels, ParcelRow
    <3>3. \A w \in Waybills : waybills'[w].status # "NONE" => waybills[w].status # "NONE"
      BY <2>1, <2>4 DEF Members
    <3> QED
      BY <2>1, <2>2, <2>3, <3>2, <3>3 DEF BatchInv, RowsFilled
  <2>7. BatchScope'
    BY <2>1, <2>2, <2>3, <2>5 DEF BatchInv, BatchScope
  <2>8. TransferNoFollowsBatch'
    <3>1. ASSUME NEW w \in Waybills, waybills[w].batch = b
          PROVE  waybills'[w].batch # Null /\ waybills'[w].status # "PENDING_SHIPMENT"
      BY <1>0, <2>1, <3>1
    <3>2. ASSUME NEW w \in Waybills, waybills[w].batch # b
          PROVE  IF waybills'[w].batch = Null THEN waybills'[w].transfer = NoTransfer
                 ELSE waybills'[w].status = "PENDING_SHIPMENT" =>
                          waybills'[w].transfer = batches'[waybills'[w].batch].transfer
      BY <1>r, <2>1, <2>2, <3>2
    <3> QED
      BY <3>1, <3>2 DEF TransferNoFollowsBatch
  <2>9. BatchShipsWhole'
    BY <2>1, <2>2, <2>3, <2>5 DEF BatchInv, BatchShipsWhole, Gone
  <2> QED
    BY <2>6, <2>7, <2>8, <2>9 DEF BatchInv
<1>7. CASE AddShippingBatchTrackingEvent(b)
  BY <1>7 DEF AddShippingBatchTrackingEvent, BatchInv, RowsFilled, BatchScope,
              TransferNoFollowsBatch, BatchShipsWhole, Members
<1> QED
  BY <1>1, <1>2, <1>3, <1>4, <1>5, <1>6, <1>7

\* Scope, transfer number and dispatch of every batch agree with its waybills.
THEOREM BatchesCorrect == Spec => []BatchInv
<1>1. BatchInv /\ UNCHANGED vars => BatchInv'
  BY DEF BatchInv, RowsFilled, BatchScope, TransferNoFollowsBatch, BatchShipsWhole, Members, vars
<1>2. TypeOK /\ CustodyInv /\ BatchInv /\ [Next]_vars => BatchInv'
  BY <1>1, BatchInvParcelStep, BatchInvWaybillStep, BatchInvBatchStep DEF Next
<1> QED
  BY <1>2, BatchInvInit, TypeCorrect, CustodyCorrect, PTL DEF Spec

\* Only paid waybills are ever in a batch, and a shipped batch has shipped them all.
COROLLARY AlwaysBatchShipsWhole == Spec => []BatchShipsWhole
  BY BatchesCorrect, PTL DEF BatchInv

\* The goods of a batch come from its warehouse and from its channel, if it has one.
COROLLARY AlwaysBatchScope == Spec => []BatchScope
  BY BatchesCorrect, PTL DEF BatchInv

\* A waybill waiting in a batch shows that batch's transfer number.
COROLLARY AlwaysTransferNoFollowsBatch == Spec => []TransferNoFollowsBatch
  BY BatchesCorrect, PTL DEF BatchInv
-----------------------------------------------------------------------------
(* Scope and events. To the owners of the goods a step either packs goods  *)
(* of one member and one warehouse for a new waybill or changes no owner,  *)
(* no warehouse and no contents; to the events it ships, signs or neither. *)

\* A waybill that was not inserted holds nothing, and none holds a parcel without a row.
LinksFilled ==
    \A w \in Waybills :
        /\ waybills[w].status = "NONE" => links[w] = {}
        /\ \A p \in links[w] : parcels[p].status # "NONE"

ScopeInv == LinksFilled /\ WaybillScope

OwnersKept ==
    \A p \in Parcels : parcels[p].status # "NONE" =>
        /\ parcels'[p].status # "NONE"
        /\ parcels'[p].user = parcels[p].user
        /\ parcels'[p].warehouse = parcels[p].warehouse

ScopeKept(ws) ==
    \A w \in Waybills \ ws :
        /\ links'[w] = links[w]
        /\ waybills'[w].user = waybills[w].user
        /\ waybills'[w].warehouse = waybills[w].warehouse
        /\ waybills'[w].status = "NONE" => waybills[w].status = "NONE"

\* The whole of links[w] is picked anew, from stock of the waybill's member and warehouse.
Picks(w) ==
    /\ waybills'[w].status # "NONE"
    /\ \A p \in links'[w] :
        /\ p \in Parcels /\ parcels[p].status # "NONE"
        /\ parcels[p].user = waybills'[w].user /\ parcels[p].warehouse = waybills'[w].warehouse

\* What the kinds of step above keep.
LEMMA ScopeKindStep ==
  ASSUME TypeOK, ScopeInv, OwnersKept, ScopeKept({}) \/ \E w \in Waybills : ScopeKept({w}) /\ Picks(w)
  PROVE  ScopeInv'
<1> USE DEF TypeOK, ScopeInv, LinksFilled, WaybillScope
<1>1. ASSUME NEW w \in Waybills, ScopeKept({}) \/ \E v \in Waybills \ {w} : ScopeKept({v})
      PROVE  /\ waybills'[w].status = "NONE" => links'[w] = {}
             /\ \A p \in links'[w] : /\ parcels'[p].status # "NONE"
                                     /\ parcels'[p].user = waybills'[w].user
                                     /\ parcels'[p].warehouse = waybills'[w].warehouse
  BY <1>1 DEF ScopeKept, OwnersKept
<1>2. ASSUME NEW w \in Waybills, Picks(w)
      PROVE  /\ waybills'[w].status = "NONE" => links'[w] = {}
             /\ \A p \in links'[w] : /\ parcels'[p].status # "NONE"
                                     /\ parcels'[p].user = waybills'[w].user
                                     /\ parcels'[p].warehouse = waybills'[w].warehouse
  BY <1>2 DEF Picks, OwnersKept
<1> QED
  BY <1>1, <1>2

\* Bulk status writes change no owner.
LEMMA SetParcelsOwners ==
  ASSUME TypeOK, NEW ps, NEW s \in ParcelStatus, SetParcels(ps, s)
  PROVE  OwnersKept
  BY DEF TypeOK, ParcelRow, ParcelStatus, SetParcels, OwnersKept

\* A status write changes no owner, no warehouse and no contents.
LEMMA SetWaybillScope ==
  ASSUME TypeOK, NEW w \in Waybills, NEW s \in WaybillStatus, SetWaybill(w, s), links' = links
  PROVE  ScopeKept({})
<1>1. s # "NONE"
  BY DEF WaybillStatus, Open, Cancellable, Gone
<1> QED
  BY <1>1 DEF TypeOK, WaybillRow, SetWaybill, ScopeKept

\* Entering a batch changes neither member, warehouse, status nor fee of a waybill.
LEMMA JoinKeepsRows ==
  ASSUME TypeOK, NEW b, NEW row, NEW ws, Join(b, row, ws)
  PROVE  \A w \in Waybills :
            /\ waybills'[w].user = waybills[w].user
            /\ waybills'[w].warehouse = waybills[w].warehouse
            /\ waybills'[w].status = waybills[w].status
            /\ waybills'[w].fee = waybills[w].fee
            /\ waybills'[w].batch = IF w \in ws THEN b ELSE waybills[w].batch
<1> DEFINE transfer == row.transfer
<1>1. waybills' = [w \in Waybills |->
            IF w \in ws THEN [waybills[w] EXCEPT !.batch = b, !.transfer = transfer] ELSE waybills[w]]
  BY DEF Join
<1> HIDE DEF transfer
<1> QED
  BY <1>1 DEF TypeOK, WaybillRow

\* Every operation keeps what a waybill holds its member's own, out of its warehouse.
LEMMA ScopeStep == TypeOK /\ ScopeInv /\ Next => ScopeInv'
<1> SUFFICES ASSUME TypeOK, ScopeInv, Next PROVE ScopeInv'
  OBVIOUS
<1>1. CASE ParcelStep
  <2>1. ScopeKept({})
    BY <1>1 DEF ParcelStep, ForecastParcels, InboundParcel, EnterStock, ScopeKept
  <2>2. OwnersKept
    <3> USE DEF OwnersKept, TypeOK, ParcelRow
    <3>1. ASSUME NEW u \in Users, NEW ps \in SUBSET Parcels, NEW at \in [ps -> Warehouses],
                 ForecastParcels(u, at)
          PROVE  OwnersKept
      BY <3>1 DEF ForecastParcels
    <3>2. ASSUME NEW p \in Parcels, InboundParcel(p) PROVE OwnersKept
      BY <3>2 DEF InboundParcel
    <3>3. ASSUME NEW p \in Parcels, NEW u \in Users, NEW wh \in Warehouses, EnterStock(p, u, wh)
          PROVE  OwnersKept
      BY <3>3 DEF EnterStock
    <3> QED
      BY <1>1, <3>1, <3>2, <3>3 DEF ParcelStep
  <2> QED
    BY <2>1, <2>2, ScopeKindStep
<1>2. CASE WaybillStep
  <2>0. \A s \in {"PENDING_REVIEW", "PENDING_PACKING", "PENDING_PAYMENT", "PENDING_SHIPMENT",
                "SHIPPED", "SIGNED", "CANCELLED"} : s \in WaybillStatus
    BY DEF WaybillStatus, Open, Cancellable, Gone
  <2>1. ASSUME NEW w \in Waybills, NEW u \in Users, NEW ps \in SUBSET Parcels,
               NEW c \in Channels \cup {Null}, CreateWaybill(w, u, ps, c)
        PROVE  OwnersKept /\ ScopeKept({w}) /\ Picks(w)
    <3>1. PICK wh \in {parcels[p].warehouse : p \in ps} :
            waybills' = [waybills EXCEPT ![w] =
              [@ EXCEPT !.status = "PENDING_REVIEW", !.user = u, !.warehouse = wh, !.channel = c]]
      BY <2>1 DEF CreateWaybill
    <3>2. OwnersKept
      BY <2>1, SetParcelsOwners DEF CreateWaybill, ParcelStatus
    <3>3. ScopeKept({w})
      BY <2>1, <3>1 DEF CreateWaybill, ScopeKept, TypeOK
    <3>4. /\ waybills'[w].status = "PENDING_REVIEW" /\ waybills'[w].user = u
          /\ waybills'[w].warehouse = wh /\ links'[w] = ps
      BY <2>1, <3>1 DEF CreateWaybill, TypeOK, WaybillRow
    <3>5. \A p \in ps : /\ p \in Parcels /\ parcels[p].status # "NONE" /\ parcels[p].user = u
                        /\ parcels[p].warehouse = wh
      BY <2>1, <3>1 DEF CreateWaybill
    <3> QED
      BY <3>2, <3>3, <3>4, <3>5 DEF Picks
  <2>2. ASSUME NEW w \in Waybills, NEW fee \in Fees, SetWaybillFee(w, fee)
        PROVE  OwnersKept /\ ScopeKept({})
    BY <2>2 DEF SetWaybillFee, OwnersKept, ScopeKept, TypeOK, WaybillRow
  <2>3. ASSUME NEW w \in Waybills, ReviewWaybill(w) \/ PayWaybill(w) \/ ConfirmReceipt(w)
        PROVE  OwnersKept /\ ScopeKept({})
    BY <2>0, <2>3, SetWaybillScope DEF ReviewWaybill, PayWaybill, ConfirmReceipt, OwnersKept
  <2>4. ASSUME NEW w \in Waybills, CancelWaybill(w) \/ ShipWaybill(w)
        PROVE  OwnersKept /\ ScopeKept({})
    BY <2>0, <2>4, SetWaybillScope, SetParcelsOwners DEF CancelWaybill, ShipWaybill, ParcelStatus
  <2>5. ASSUME NEW w \in Waybills, AddTrackingEvent(w) PROVE OwnersKept /\ ScopeKept({})
    BY <2>5 DEF AddTrackingEvent, OwnersKept, ScopeKept
  <2> QED
    BY <1>2, <2>1, <2>2, <2>3, <2>4, <2>5, ScopeKindStep DEF WaybillStep
<1>3. CASE BatchStep
  <2>1. links' = links /\ OwnersKept
    <3>1. ASSUME NEW b \in Batches, ShipShippingBatch(b) PROVE links' = links /\ OwnersKept
      BY <3>1, SetParcelsOwners DEF ShipShippingBatch, ParcelStatus
    <3>2. CASE UNCHANGED <<parcels, links>>
      BY <3>2 DEF OwnersKept
    <3> QED
      BY <1>3, <3>1, <3>2 DEF BatchStep, CreateShippingBatch, UpdateShippingBatch, AddWaybills,
                              RemoveWaybill, LockShippingBatch, AddShippingBatchTrackingEvent
  <2>2. \A w \in Waybills :
          /\ waybills'[w].user = waybills[w].user
          /\ waybills'[w].warehouse = waybills[w].warehouse
          /\ waybills'[w].status = "NONE" => waybills[w].status = "NONE"
    <3> DEFINE Kept ==
            \A w \in Waybills :
                /\ waybills'[w].user = waybills[w].user
                /\ waybills'[w].warehouse = waybills[w].warehouse
                /\ waybills'[w].status = "NONE" => waybills[w].status = "NONE"
    <3> USE DEF TypeOK, WaybillRow
    <3>0. ASSUME waybills' = waybills PROVE Kept
      BY <3>0
    <3>1. ASSUME NEW b, NEW row, NEW ws, Join(b, row, ws) PROVE Kept
      BY <3>1, JoinKeepsRows
    <3>2. ASSUME NEW b \in Batches, NEW t \in TransferNos, UpdateShippingBatch(b, t) PROVE Kept
      BY <3>2 DEF UpdateShippingBatch
    <3>3. ASSUME NEW b \in Batches, NEW w \in Waybills, RemoveWaybill(b, w) PROVE Kept
      BY <3>3 DEF RemoveWaybill
    <3>4. ASSUME NEW b \in Batches, ShipShippingBatch(b) PROVE Kept
      BY <3>4 DEF ShipShippingBatch
    <3>5. ASSUME NEW b \in Batches,
                 \/ LockShippingBatch(b) \/ AddShippingBatchTrackingEvent(b)
                 \/ \E ws \in SUBSET Waybills : AddWaybills(b, ws)
                 \/ \E t \in TransferNos, ws \in SUBSET Waybills : CreateShippingBatch(b, t, ws)
          PROVE  Kept
      <4> HIDE DEF Kept
      <4> QED
        BY <3>0, <3>1, <3>5 DEF LockShippingBatch, AddShippingBatchTrackingEvent, AddWaybills,
                                CreateShippingBatch
    <3> HIDE DEF Kept
    <3>6. Kept
      BY <1>3, <3>2, <3>3, <3>4, <3>5 DEF BatchStep
    <3> QED
      BY <3>6 DEF Kept
  <2> QED
    BY <2>1, <2>2, ScopeKindStep DEF ScopeKept
<1> QED
  BY <1>1, <1>2, <1>3 DEF Next

\* Empty waybills hold nobody's goods.
LEMMA ScopeInit == Init => ScopeInv
  BY DEF Init, ScopeInv, LinksFilled, WaybillScope

\* However parcels and waybills are worked on, a waybill holds its own member's goods.
THEOREM AlwaysWaybillScope == Spec => []WaybillScope
<1>1. ScopeInv /\ UNCHANGED vars => ScopeInv'
  BY DEF ScopeInv, LinksFilled, WaybillScope, vars
<1>2. TypeOK /\ ScopeInv /\ [Next]_vars => ScopeInv'
  BY <1>1, ScopeStep
<1>3. Spec => []ScopeInv
  BY <1>2, ScopeInit, TypeCorrect, PTL DEF Spec
<1> QED
  BY <1>3, PTL DEF ScopeInv

\* Counting one event of a kind on the waybills of ws counts nothing else.
LEMMA RecordCounts ==
  ASSUME TypeOK, NEW ws, NEW kind \in EventKinds, Record(ws, kind)
  PROVE  \A w \in Waybills, k \in EventKinds :
            events'[w][k] = IF w \in ws /\ k = kind THEN events[w][k] + 1 ELSE events[w][k]
  BY DEF TypeOK, Record

\* A waybill is shipped by one of the two ways to ship, from a state in which it has no
\* shipping event, and signed once after that.
LEMMA ShippedOnceStep == TypeOK /\ ShippedOnce /\ Next => ShippedOnce'
<1> SUFFICES ASSUME TypeOK, ShippedOnce, Next PROVE ShippedOnce'
  OBVIOUS
<1> USE DEF EventKinds, Gone
<1>0. ASSUME events' = events \/ \E ws \in SUBSET Waybills : Record(ws, "note"),
             \A w \in Waybills : \/ waybills'[w].status = waybills[w].status
                                 \/ /\ waybills[w].status \notin Gone
                                    /\ waybills'[w].status \notin Gone
      PROVE  ShippedOnce'
  <2>1. \A w \in Waybills : \A k \in {"ship", "receipt"} : events'[w][k] = events[w][k]
    BY <1>0, RecordCounts
  <2> QED
    BY <1>0, <2>1 DEF ShippedOnce
<1>1. ASSUME NEW ws \in SUBSET Waybills, Record(ws, "ship"),
             \A w \in ws : waybills[w].status = "PENDING_SHIPMENT" /\ waybills'[w].status = "SHIPPED",
             \A w \in Waybills \ ws : waybills'[w].status = waybills[w].status
      PROVE  ShippedOnce'
  <2>1. \A w \in Waybills :
          /\ events'[w]["ship"] = IF w \in ws THEN events[w]["ship"] + 1 ELSE events[w]["ship"]
          /\ events'[w]["receipt"] = events[w]["receipt"]
    BY <1>1, RecordCounts
  <2> QED
    BY <1>1, <2>1 DEF ShippedOnce
<1>2. CASE ParcelStep
  BY <1>0, <1>2 DEF ParcelStep, ForecastParcels, InboundParcel, EnterStock
<1>3. CASE WaybillStep
  <2> USE DEF TypeOK, WaybillRow, SetWaybill
  <2>1. ASSUME NEW w \in Waybills, NEW u \in Users, NEW ps \in SUBSET Parcels,
               NEW c \in Channels \cup {Null}, CreateWaybill(w, u, ps, c)
        PROVE  ShippedOnce'
    <3>1. events' = events
      BY <2>1 DEF CreateWaybill
    <3>2. \A v \in Waybills : \/ waybills'[v].status = waybills[v].status
                              \/ /\ waybills[v].status \notin Gone
                                 /\ waybills'[v].status \notin Gone
      BY <2>1 DEF CreateWaybill
    <3> QED
      BY <1>0, <3>1, <3>2
  <2>2. ASSUME NEW w \in Waybills,
               \/ ReviewWaybill(w) \/ PayWaybill(w) \/ CancelWaybill(w)
               \/ \E fee \in Fees : SetWaybillFee(w, fee)
        PROVE  ShippedOnce'
    <3>1. events' = events
      BY <2>2 DEF ReviewWaybill, PayWaybill, CancelWaybill, SetWaybillFee
    <3>2. \A v \in Waybills : \/ waybills'[v].status = waybills[v].status
                              \/ /\ waybills[v].status \notin Gone
                                 /\ waybills'[v].status \notin Gone
      BY <2>2 DEF ReviewWaybill, PayWaybill, CancelWaybill, SetWaybillFee, Cancellable
    <3> QED
      BY <1>0, <3>1, <3>2
  <2>3. ASSUME NEW w \in Waybills, ShipWaybill(w) PROVE ShippedOnce'
    <3>1. /\ Record({w}, "ship") /\ waybills[w].status = "PENDING_SHIPMENT"
          /\ waybills'[w].status = "SHIPPED"
          /\ \A v \in Waybills \ {w} : waybills'[v].status = waybills[v].status
      BY <2>3 DEF ShipWaybill
    <3> QED
      BY <1>1, <3>1
  <2>4. ASSUME NEW w \in Waybills, ConfirmReceipt(w) PROVE ShippedOnce'
    <3>1. /\ Record({w}, "receipt") /\ waybills[w].status = "SHIPPED"
          /\ waybills'[w].status = "SIGNED"
          /\ \A v \in Waybills \ {w} : waybills'[v].status = waybills[v].status
      BY <2>4 DEF ConfirmReceipt
    <3>2. \A v \in Waybills :
            /\ events'[v]["receipt"] = IF v = w THEN events[v]["receipt"] + 1 ELSE events[v]["receipt"]
            /\ events'[v]["ship"] = events[v]["ship"]
      BY <3>1, RecordCounts
    <3> QED
      BY <3>1, <3>2 DEF ShippedOnce
  <2>5. ASSUME NEW w \in Waybills, AddTrackingEvent(w) PROVE ShippedOnce'
    BY <1>0, <2>5 DEF AddTrackingEvent
  <2> QED
    BY <1>3, <2>1, <2>2, <2>3, <2>4, <2>5 DEF WaybillStep
<1>4. CASE BatchStep
  <2>1. ASSUME NEW b \in Batches, ShipShippingBatch(b) PROVE ShippedOnce'
    <3>1. /\ Members(b) \in SUBSET Waybills /\ Record(Members(b), "ship")
          /\ \A w \in Members(b) :
                waybills[w].status = "PENDING_SHIPMENT" /\ waybills'[w].status = "SHIPPED"
          /\ \A w \in Waybills \ Members(b) : waybills'[w].status = waybills[w].status
      BY <2>1 DEF ShipShippingBatch, Members, TypeOK, WaybillRow
    <3> QED
      BY <1>1, <3>1
  <2>2. ASSUME NEW b \in Batches, AddShippingBatchTrackingEvent(b) PROVE ShippedOnce'
    BY <1>0, <2>2 DEF AddShippingBatchTrackingEvent, Members
  <2>3. ASSUME NEW b \in Batches,
               \/ \E t \in TransferNos, ws \in SUBSET Waybills : CreateShippingBatch(b, t, ws)
               \/ \E t \in TransferNos : UpdateShippingBatch(b, t)
               \/ \E ws \in SUBSET Waybills : AddWaybills(b, ws)
               \/ \E w \in Waybills : RemoveWaybill(b, w)
               \/ LockShippingBatch(b)
        PROVE  ShippedOnce'
    <3>1. events' = events
      BY <2>3 DEF CreateShippingBatch, UpdateShippingBatch, AddWaybills, RemoveWaybill, LockShippingBatch
    <3>2. \A w \in Waybills : waybills'[w].status = waybills[w].status
      <4> DEFINE Kept == \A w \in Waybills : waybills'[w].status = waybills[w].status
      <4> USE DEF TypeOK, WaybillRow
      <4>1. ASSUME NEW c, NEW row, NEW ws, Join(c, row, ws) PROVE Kept
        BY <4>1, JoinKeepsRows
      <4>2. ASSUME NEW t \in TransferNos, UpdateShippingBatch(b, t) PROVE Kept
        BY <4>2 DEF UpdateShippingBatch
      <4>3. ASSUME NEW w \in Waybills, RemoveWaybill(b, w) PROVE Kept
        BY <4>3 DEF RemoveWaybill
      <4>4. ASSUME waybills' = waybills PROVE Kept
        BY <4>4
      <4> HIDE DEF Kept
      <4>5. Kept
        BY <2>3, <4>1, <4>2, <4>3, <4>4 DEF CreateShippingBatch, AddWaybills, LockShippingBatch
      <4> QED
        BY <4>5 DEF Kept
    <3> QED
      BY <1>0, <3>1, <3>2
  <2> QED
    BY <1>4, <2>1, <2>2, <2>3 DEF BatchStep
<1> QED
  BY <1>2, <1>3, <1>4 DEF Next

\* A waybill has exactly one shipping event once it was shipped, alone or in a batch,
\* and exactly one receipt event once it was signed.
THEOREM AlwaysShippedOnce == Spec => []ShippedOnce
<1>1. Init => ShippedOnce
  BY DEF Init, ShippedOnce, EventKinds, Gone
<1>2. ShippedOnce /\ UNCHANGED vars => ShippedOnce'
  BY DEF ShippedOnce, vars
<1>3. TypeOK /\ ShippedOnce /\ [Next]_vars => ShippedOnce'
  BY <1>2, ShippedOnceStep
<1> QED
  BY <1>1, <1>3, TypeCorrect, PTL DEF Spec
-----------------------------------------------------------------------------
(* What a step may never do.                                               *)

\* The actions under the boxes of LockedListFrozen and FrozenOnceAsked.
ListsStay ==
    \A b \in Batches : batches[b].status \in {"LOCKED", "SHIPPED"} => Members(b)' = Members(b)

LinksStay == \A w \in Waybills : waybills[w].status # "NONE" => links'[w] = links[w]
FeesStay ==
    \A w \in Waybills :
        waybills[w].status \notin {"NONE", "PENDING_REVIEW", "PENDING_PACKING"}
            => waybills'[w].fee = waybills[w].fee
OutboundStays == \A p \in Parcels : parcels[p].status = "OUTBOUND" => parcels'[p] = parcels[p]
Freezes ==
    /\ LinksStay
    /\ FeesStay
    /\ OutboundStays

\* Nobody changes batch, or: waybills of no batch or of b enter or leave b, which is open.
BatchesStay == \A w \in Waybills : waybills'[w].batch = waybills[w].batch
OnlyMoves(b) ==
    /\ batches[b].status \notin {"LOCKED", "SHIPPED"}
    /\ \A w \in Waybills :
        waybills'[w].batch # waybills[w].batch =>
            waybills[w].batch \in {Null, b} /\ waybills'[w].batch \in {Null, b}

\* So the list of a locked batch stays.
LEMMA MovesFreeze ==
  ASSUME TypeOK, BatchesStay \/ \E b \in Batches : OnlyMoves(b)
  PROVE  ListsStay
<1> SUFFICES ASSUME NEW locked \in Batches, batches[locked].status \in {"LOCKED", "SHIPPED"}
             PROVE  Members(locked)' = Members(locked)
  BY DEF ListsStay
<1>1. locked # Null
  BY NullAssumption
<1>2. \A w \in Waybills : waybills'[w].batch = locked <=> waybills[w].batch = locked
  BY <1>1 DEF BatchesStay, OnlyMoves
<1> QED
  BY <1>2 DEF Members

\* Status writes keep everything else of a waybill.
LEMMA SetWaybillFreezes ==
  ASSUME TypeOK, NEW w \in Waybills, NEW s, SetWaybill(w, s)
  PROVE  BatchesStay /\ FeesStay
  BY DEF TypeOK, WaybillRow, SetWaybill, BatchesStay, FeesStay

\* Goods that are sent out again are where they were.
LEMMA SetParcelsFreezes ==
  ASSUME TypeOK, NEW ps, NEW s, SetParcels(ps, s),
         s = "OUTBOUND" \/ \A p \in ps \cap Parcels : parcels[p].status # "OUTBOUND"
  PROVE  OutboundStays
<1> SUFFICES ASSUME NEW p \in Parcels, parcels[p].status = "OUTBOUND" PROVE parcels'[p] = parcels[p]
  BY DEF OutboundStays
<1>1. CASE p \notin ps
  BY <1>1 DEF SetParcels
<1>2. CASE p \in ps
  <2>1. parcels'[p] = [parcels[p] EXCEPT !.status = "OUTBOUND"]
    BY <1>2 DEF SetParcels
  <2> QED
    BY <2>1 DEF TypeOK, ParcelRow
<1> QED
  BY <1>1, <1>2

\* A waybill operation freezes what was asked for and moves nobody between batches.
LEMMA WaybillFreezes ==
  ASSUME TypeOK, WaybillStep PROVE BatchesStay /\ LinksStay /\ FeesStay /\ OutboundStays
<1>0. SUFFICES ASSUME NEW w \in Waybills,
                    \/ \E u \in Users, ps \in SUBSET Parcels, c \in Channels \cup {Null} :
                            CreateWaybill(w, u, ps, c)
                    \/ \E fee \in Fees : SetWaybillFee(w, fee)
                    \/ ReviewWaybill(w) \/ PayWaybill(w) \/ ConfirmReceipt(w)
                    \/ CancelWaybill(w) \/ ShipWaybill(w) \/ AddTrackingEvent(w)
             PROVE  BatchesStay /\ LinksStay /\ FeesStay /\ OutboundStays
  BY DEF WaybillStep
<1>1. ASSUME NEW u \in Users, NEW ps \in SUBSET Parcels, NEW c \in Channels \cup {Null},
             CreateWaybill(w, u, ps, c)
      PROVE  BatchesStay /\ LinksStay /\ FeesStay /\ OutboundStays
  <2>1. PICK wh \in {parcels[p].warehouse : p \in ps} :
          waybills' = [waybills EXCEPT ![w] =
            [@ EXCEPT !.status = "PENDING_REVIEW", !.user = u, !.warehouse = wh, !.channel = c]]
    BY <1>1 DEF CreateWaybill
  <2>2. BatchesStay /\ FeesStay
    BY <2>1 DEF TypeOK, WaybillRow, BatchesStay, FeesStay
  <2>3. LinksStay
    BY <1>1 DEF CreateWaybill, TypeOK, LinksStay
  <2>4. OutboundStays
    BY <1>1, SetParcelsFreezes DEF CreateWaybill, Selectable
  <2> QED
    BY <2>2, <2>3, <2>4
<1>2. ASSUME NEW fee \in Fees, SetWaybillFee(w, fee)
      PROVE  BatchesStay /\ LinksStay /\ FeesStay /\ OutboundStays
  BY <1>2 DEF SetWaybillFee, TypeOK, WaybillRow, BatchesStay, LinksStay, FeesStay, OutboundStays
<1>3. CASE ReviewWaybill(w) \/ PayWaybill(w) \/ ConfirmReceipt(w)
  BY <1>3, SetWaybillFreezes DEF ReviewWaybill, PayWaybill, ConfirmReceipt, LinksStay, OutboundStays
<1>4. CASE CancelWaybill(w)
  BY <1>4, SetWaybillFreezes, SetParcelsFreezes DEF CancelWaybill, Returned, LinksStay
<1>5. CASE ShipWaybill(w)
  BY <1>5, SetWaybillFreezes, SetParcelsFreezes DEF ShipWaybill, LinksStay
<1>6. CASE AddTrackingEvent(w)
  BY <1>6 DEF AddTrackingEvent, BatchesStay, LinksStay, FeesStay, OutboundStays
<1> QED
  BY <1>0, <1>1, <1>2, <1>3, <1>4, <1>5, <1>6

\* Entering b moves waybills of no batch, or of b, into b.
LEMMA JoinMoves ==
  ASSUME TypeOK, NEW b \in Batches, NEW row, NEW ws \in SUBSET Waybills, NEW wh, NEW c,
         CanJoin(b, wh, c, ws), Join(b, row, ws), batches[b].status \in {"NONE", "DRAFT"}
  PROVE  OnlyMoves(b) /\ FeesStay
<1>1. \A w \in Waybills : /\ waybills'[w].fee = waybills[w].fee
                          /\ waybills'[w].batch = IF w \in ws THEN b ELSE waybills[w].batch
  BY JoinKeepsRows
<1>2. \A w \in ws : waybills[w].batch \in {Null, b}
  BY DEF CanJoin
<1> QED
  BY <1>1, <1>2 DEF OnlyMoves, FeesStay

\* A batch operation moves waybills in and out of an open batch only.
LEMMA BatchFreezes ==
  ASSUME TypeOK, BatchStep
  PROVE  /\ BatchesStay \/ \E b \in Batches : OnlyMoves(b)
         /\ LinksStay /\ FeesStay /\ OutboundStays
<1> DEFINE Moves == BatchesStay \/ \E b \in Batches : OnlyMoves(b)
<1> USE DEF TypeOK, WaybillRow
<1>1. LinksStay /\ OutboundStays
  <2>1. ASSUME NEW b \in Batches, ShipShippingBatch(b) PROVE LinksStay /\ OutboundStays
    BY <2>1, SetParcelsFreezes DEF ShipShippingBatch, LinksStay
  <2>2. CASE UNCHANGED <<parcels, links>>
    BY <2>2 DEF LinksStay, OutboundStays
  <2> QED
    BY <2>1, <2>2 DEF BatchStep, CreateShippingBatch, UpdateShippingBatch, AddWaybills,
                      RemoveWaybill, LockShippingBatch, AddShippingBatchTrackingEvent
<1>2. CASE waybills' = waybills
  BY <1>1, <1>2 DEF BatchesStay, FeesStay
<1>3. ASSUME NEW b \in Batches, NEW t \in TransferNos, UpdateShippingBatch(b, t)
      PROVE  Moves /\ FeesStay
  BY <1>3 DEF UpdateShippingBatch, BatchesStay, FeesStay
<1>4. ASSUME NEW b \in Batches, NEW w \in Waybills, RemoveWaybill(b, w) PROVE Moves /\ FeesStay
  <2>1. OnlyMoves(b) /\ FeesStay
    BY <1>4 DEF RemoveWaybill, Mutable, Members, OnlyMoves, FeesStay
  <2> QED
    BY <2>1
<1>5. ASSUME NEW b \in Batches, ShipShippingBatch(b) PROVE Moves /\ FeesStay
  BY <1>5 DEF ShipShippingBatch, BatchesStay, FeesStay
<1>6. ASSUME NEW b \in Batches, NEW t \in TransferNos, NEW ws \in SUBSET Waybills,
             CreateShippingBatch(b, t, ws), waybills' # waybills
      PROVE  Moves /\ FeesStay
  <2> DEFINE row == [status |-> "DRAFT", warehouse |-> Null, channel |-> Null, transfer |-> t]
  <2>1. CanJoin(b, Null, Null, ws) /\ Join(b, row, ws) /\ batches[b].status = "NONE"
    BY <1>6 DEF CreateShippingBatch
  <2> HIDE DEF row
  <2>2. OnlyMoves(b) /\ FeesStay
    BY <2>1, JoinMoves
  <2> QED
    BY <2>2
<1>7. ASSUME NEW b \in Batches, NEW ws \in SUBSET Waybills, AddWaybills(b, ws) PROVE Moves /\ FeesStay
  <2>1. OnlyMoves(b) /\ FeesStay
    BY <1>7, JoinMoves DEF AddWaybills, Mutable
  <2> QED
    BY <2>1
<1> HIDE DEF Moves
<1>8. Moves /\ FeesStay
  BY <1>2, <1>3, <1>4, <1>5, <1>6, <1>7 DEF BatchStep, Moves, LockShippingBatch,
     AddShippingBatchTrackingEvent
<1> QED
  BY <1>1, <1>8 DEF Moves

\* A parcel operation touches neither waybills nor what went out.
LEMMA ParcelFreezes ==
  ASSUME TypeOK, ParcelStep PROVE BatchesStay /\ LinksStay /\ FeesStay /\ OutboundStays
<1>1. UNCHANGED <<waybills, links>>
  BY DEF ParcelStep, ForecastParcels, InboundParcel, EnterStock
<1>2. OutboundStays
  BY DEF ParcelStep, ForecastParcels, InboundParcel, EnterStock, OutboundStays, TypeOK
<1> QED
  BY <1>1, <1>2 DEF BatchesStay, LinksStay, FeesStay

\* Once a batch is locked its list of waybills never changes again.
THEOREM LockedListCorrect == Spec => LockedListFrozen
<1>1. TypeOK /\ [Next]_vars => [ListsStay]_vars
  BY ParcelFreezes, WaybillFreezes, BatchFreezes, MovesFreeze DEF Next
<1>2. Spec => [][ListsStay]_vars
  BY <1>1, TypeCorrect, PTL DEF Spec
<1> QED
  BY <1>2 DEF LockedListFrozen, ListsStay

\* The fee is frozen once it was asked for, the contents from the start, the goods once out.
THEOREM FrozenCorrect == Spec => FrozenOnceAsked
<1>1. TypeOK /\ [Next]_vars => [Freezes]_vars
  BY ParcelFreezes, WaybillFreezes, BatchFreezes DEF Next, Freezes
<1>2. Spec => [][Freezes]_vars
  BY <1>1, TypeCorrect, PTL DEF Spec
<1> QED
  BY <1>2 DEF FrozenOnceAsked, Freezes, LinksStay, FeesStay, OutboundStays
=============================================================================
