SPECIFICATION FairSpec
CONSTANTS
    u1 = u1
    u2 = u2
    Uris = {u1, u2}
    EventCap = 2
    Settings <- MCSettings
INVARIANTS
    AnswersInOrder
    NothingHeldBack
    SilentUntilAccepted
    PushesFollowSubscription
PROPERTIES
    EveryBatchEnds
    ShutdownEnds
CHECK_DEADLOCK FALSE
