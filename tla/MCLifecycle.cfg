SPECIFICATION FairSpec
CONSTANTS
  Daemons = {d1, d2}
  Conns = {c1, c2, c3}
  d1 = d1
  d2 = d2
  c1 = c1
  c2 = c2
  c3 = c3
  NoFile = NoFile
  Settings <- MCSettings
INVARIANTS PermitsAccounted RestartTakesOver
PROPERTIES ToldSessionsEnd ShutdownCompletes SlotComesBack
CHECK_DEADLOCK FALSE
