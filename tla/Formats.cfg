SPECIFICATION FormatsSpec
CONSTANTS
  NoPrice = NoPrice
  NoAlert = NoAlert
  NoItem = NoItem
INVARIANTS
  LookupsRight ReadsBack DamageContained MemoryOwned
PROPERTIES
  Cursors ErrorsSurface
CHECK_DEADLOCK FALSE
