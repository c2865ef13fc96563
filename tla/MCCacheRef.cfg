SPECIFICATION Spec
CONSTANTS
    c1 = c1
    c2 = c2
    t1 = t1
    t2 = t2
    k1 = k1
    k2 = k2
    Nothing = Nothing
    Conns = {c1, c2}
    Tasks = {t1, t2}
    Keys = {k1, k2}
    Settings <- MCSettings
    TTL = 1
    MaxTime = 3
INVARIANTS
    AnswersWhatWasAsked
    LoneRefsResolve
PROPERTIES
    AgeBounded
CHECK_DEADLOCK FALSE
