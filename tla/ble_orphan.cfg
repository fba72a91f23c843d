SPECIFICATION Spec
CONSTANTS
  Task = {t1, t2, t3}
  Client = {c1, c2, c3}
  None = None
  OPEN_MAX_ATTEMPTS = 2
  HasHook = TRUE
  Calls = {"send", "heal"}
SYMMETRY Symmetry
INVARIANTS
  NoOrphan
