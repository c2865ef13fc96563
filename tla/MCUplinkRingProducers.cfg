SPECIFICATION Spec
CONSTANTS
    t1 = t1
    t2 = t2
    t3 = t3
    Cap = 4
    Tasks = {t1, t2}
    LargeTasks = {t1, t2}
    Droppable = {}
    Lens <- MCLens
    MaxRequests = 2
INVARIANTS
    SingleProducer
CHECK_DEADLOCK FALSE
