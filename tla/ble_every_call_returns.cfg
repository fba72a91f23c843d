SPECIFICATION FairSpec
CONSTANTS
  Task = {t1, t2}
  Client = {c1, c2}
  None = None
  OPEN_MAX_ATTEMPTS = 2
  HasHook = TRUE
  Calls = {"send", "send_actuation", "heal", "ensure_connected", "cancel", "disconnect"}
PROPERTIES
  CallsReturn
