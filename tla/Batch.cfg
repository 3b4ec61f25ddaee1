CONSTANTS
    Parcels = {p1, p2}
    Waybills = {w1, w2}
    Batches = {b1, b2}
    Users = {u1, u2}
    Warehouses = {h1, h2}
    Channels = {c1}
    Null = Null
    TransferNos = {t0, t1}
    NoTransfer = t0
    Fees = {0, 1}
    MaxNotes = 1
SPECIFICATION Spec
SYMMETRY Symmetry
CHECK_DEADLOCK FALSE
INVARIANTS TypeOK SoleCustody GoodsFollowWaybill ShippedOnce BatchScope TransferNoFollowsBatch BatchShipsWhole WaybillScope
PROPERTIES LockedListFrozen FrozenOnceAsked ImplementsCustody
