SPECIFICATION Spec
CONSTANTS
    t1 = t1
    t2 = t2
    t3 = t3
    Cap = 4
    Tasks = {t1, t2}
    LargeTasks = {t1}
    Droppable = {t1, t2}
    Lens <- MCLens
    MaxRequests = 4
INVARIANTS
    UplinkSound
    RequestIntact
    DrainedWhenIdle
CHECK_DEADLOCK FALSE
