SPECIFICATION LocksSpec
CONSTANTS
  NoPrice = NoPrice
  NoAlert = NoAlert
  NoItem = NoItem
INVARIANTS
  OneProcess
CHECK_DEADLOCK FALSE
