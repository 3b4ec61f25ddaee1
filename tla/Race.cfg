CONSTANTS
    u1 = u1
    w1 = w1
    o1 = o1
    r1 = r1
    k1 = k1
    Users = {u1}
    Currencies = {cny}
    Home = cny
    Waybills = {w1}
    Purchases = {o1}
    Requests = {r1, r2}
    Keys = {k1}
    Null = Null
    Amounts = {1}
    MaxBalance = 2
    MaxRows = 2
    Clients = {c1, c2, c3}
    Jobs <- SomeJobs
SPECIFICATION RaceSpec
CHECK_DEADLOCK FALSE
INVARIANTS RaceTypeOK NothingStale OnlyReviewsDeadlock
PROPERTIES ImplementsWallet
SYMMETRY Symmetry
