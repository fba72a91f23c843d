SPECIFICATION FairSpec
CONSTANTS
  Task = {t1, t2, t3}
  Client = {c1, c2, c3}
  None = None
  OPEN_MAX_ATTEMPTS = 2
  HasHook = TRUE
  Calls = {"send", "send_actuation", "hold"}
INVARIANTS
  TypeOK
  KeyMatchesSession
  NoOrphan
  OneOpenAtATime
PROPERTIES
  IsSession
  AbandonedHoldCloses
