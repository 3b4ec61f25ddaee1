CONSTANTS
    Tabs = {t1, t2}
    Users = {alice, bob}
    MaxTokens = 2
    Nobody = Nobody
    MaxReloads = 1
    MaxSaves = 1
SPECIFICATION FairSpec
CHECK_DEADLOCK FALSE
INVARIANTS TypeOK CleanAfterSignOut
PROPERTIES DeadSessionLeaves NameHeals
