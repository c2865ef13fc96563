SPECIFICATION FairSpec
CONSTANTS
  t1 = t1
  t2 = t2
  Tasks = {t1, t2}
  Nobody = Nobody
  SocketCap = 3
  MaxLen = 5
  Settings <- MCSettings
INVARIANTS StreamStaysSound
PROPERTIES ImplementsFrameChannel EveryCallEnds
CHECK_DEADLOCK FALSE
