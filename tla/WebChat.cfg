SPECIFICATION FairSpec
CONSTANTS
    c1 = c1
    c2 = c2
    c3 = c3
    ann = ann
    bob = bob
    Chats = {c1, c2, c3}
    People = {ann, bob}
    PersonOf <- MCPersonOf
    Stops = {s1}
    Nobody = Nobody
    Orphan = Orphan
    MaxFaults = 1
    MaxCrashes = 1
INVARIANTS
    ChatInv
    RowHasHolder
    LockHasHolder
    OneProcess
PROPERTY
    RequestEnds
CHECK_DEADLOCK FALSE
