SPECIFICATION StoreSpec
CONSTANTS
  LastSlot = 3
  Ids = {100, 110, 111, 125}
  MaxMade = 6
  Keys = {a, b}
  Bodies = {x, y}
  Rows = 2
  Made = 3
  None = None
INVARIANTS StoreInv PlanIsFree
PROPERTIES SavesTheClicked DeletedIsGone
