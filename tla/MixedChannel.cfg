CONSTANTS
    Parcels = {p1, p2}
    Waybills = {w1, w2}
    Batches = {b1}
    Users = {u1}
    Warehouses = {h1}
    Channels = {c1}
    Null = Null
    TransferNos = {t0, t1}
    NoTransfer = t0
    Fees = {0, 1}
    MaxNotes = 0
SPECIFICATION Spec
SYMMETRY Symmetry
CHECK_DEADLOCK FALSE
INVARIANT SameChannelInBatch
