SPECIFICATION ProgressSpec
CONSTANTS
  NoPrice = NoPrice
  NoAlert = NoAlert
  NoItem = NoItem
PROPERTIES
  CallsReturn LetGo WorkDone
CHECK_DEADLOCK FALSE
