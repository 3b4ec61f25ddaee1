CONSTANTS
    Tabs = {t1}
    Users = {alice, bob}
    MaxTokens = 2
    Nobody = Nobody
    MaxReloads = 0
    MaxSaves = 0
SPECIFICATION Spec
CHECK_DEADLOCK FALSE
INVARIANTS OwnDataOnly
