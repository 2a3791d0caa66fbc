SPECIFICATION AppsSpec
CONSTANTS
  x = x
  y = y
  Defs = {x, y}
  Release <- MCRelease
  First = x
  Ops = 2
  Bounds <- MCBounds
  Nothing = Nothing
INVARIANTS AppsInv ReleasesAreRecorded
PROPERTY DialogUnlocks
CHECK_DEADLOCK FALSE
