SPECIFICATION Spec
CONSTANTS
  BlockLen = 2
  Lengths = {2, 3}
  MaxText = 6
  MaxFaults = 2
INVARIANTS TypeOK HealIsMeant InStep
PROPERTIES IsDelivery WholeReply
