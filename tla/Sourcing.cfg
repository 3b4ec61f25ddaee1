CONSTANTS
    Numbers = {n1, n2}
    Users = {u1, u2}
    Warehouses = {h1, h2}
    Null = Null
    Orders = {o1, o2}
SPECIFICATION Spec
SYMMETRY Symmetry
CHECK_DEADLOCK FALSE
INVARIANTS TypeOK InboundOnce ClaimBecameParcel TaskFollowsOrder WorkIsPaid ConvertedOnce
PROPERTIES OwnershipKept ImplementsArrivals
