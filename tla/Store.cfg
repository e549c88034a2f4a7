SPECIFICATION StoreSpec
CONSTANTS
  NoPrice = NoPrice
  NoAlert = NoAlert
  NoItem = NoItem
INVARIANTS
  WritesAnswered NothingLost ReadsRight HeldIsAlive KeptApart ScreensRight
PROPERTIES
  StepsStable EventsKept
CHECK_DEADLOCK FALSE
