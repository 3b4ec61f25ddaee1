CONSTANTS
    Parcels = {p1, p2}
    Waybills = {w1}
    Batches = {b1}
    Users = {u1, u2}
    Warehouses = {h1}
    Channels = {}
    Null = Null
    TransferNos = {t0}
    NoTransfer = t0
    Fees = {0, 1}
    MaxNotes = 0
    Orders = {o1}
    Currencies = {cny}
    Home = cny
    Requests = {r1}
    Keys = {k1, k2}
    Amounts = {2}
    MaxBalance = 2
    MaxRows = 2
SPECIFICATION ERPSpec
SYMMETRY Symmetry
CHECK_DEADLOCK FALSE
INVARIANT GoodsArePaid
PROPERTIES ImplementsParts
