SPECIFICATION FairSpec
CONSTANTS
    t1 = t1
    t2 = t2
    t3 = t3
    Nobody = Nobody
    Tasks = {t1, t2, t3}
    Settings <- MCSettings
INVARIANTS
    RoutedToOwner
    NoResponseLost
    LockHandedOn
PROPERTIES
    EveryCallEnds
CHECK_DEADLOCK FALSE
