SPECIFICATION FairSpec
CONSTANTS
  Uris = {u1, u2}
  Writers = {w1, w2}
  Sessions = {s1, s2}
  u1 = u1
  u2 = u2
  w1 = w1
  w2 = w2
  s1 = s1
  s2 = s2
  NoUri = NoUri
  EventCap = 2
  Settings <- MCSettings
INVARIANTS OutdatedAreTold AnnouncedIsReadable NewIsListed
PROPERTIES AllEndUpFresh
CHECK_DEADLOCK FALSE
