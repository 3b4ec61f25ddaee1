CONSTANTS
    Users = {u1, u2}
    Currencies = {cny, usd}
    Home = cny
    Waybills = {w1}
    Purchases = {o1}
    Requests = {r1, r2}
    Keys = {k1, k2}
    Null = Null
    Amounts = {1, 2}
    MaxBalance = 3
    MaxRows = 3
SPECIFICATION Spec
SYMMETRY Symmetry
CHECK_DEADLOCK FALSE
INVARIANTS TypeOK LedgerExplainsBalance ChargedOnce PaidMeansSettled CreditedOnce
