SPECIFICATION Spec
CONSTANTS
    u1 = u1
    u2 = u2
    Uris = {u1, u2}
    EventCap = 2
    Settings <- CancelSettings
INVARIANT
    CancelInHandSkips
CHECK_DEADLOCK FALSE
