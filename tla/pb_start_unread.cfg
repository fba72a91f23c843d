SPECIFICATION Spec
CONSTANTS
  None = None
  Environments <- LossyLink
  Grace = 1
  Guard = 1
  HasFlow = FALSE
PROPERTIES
  StartIsRead
