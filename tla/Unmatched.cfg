CONSTANTS
    Numbers = {n1}
    Users = {u1}
    Warehouses = {h1}
    Null = Null
    Orders = {}
SPECIFICATION Spec
SYMMETRY Symmetry
CHECK_DEADLOCK FALSE
INVARIANT UnclaimedIsUnmatched
