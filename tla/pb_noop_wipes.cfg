SPECIFICATION Spec
CONSTANTS
  None = None
  Environments <- QuietLink
  Grace = 1
  Guard = 1
  HasFlow = FALSE
PROPERTIES
  NoopNeverWipes
