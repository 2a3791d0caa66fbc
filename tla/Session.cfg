SPECIFICATION SessionSpec
CONSTANTS
  t1 = t1
  t2 = t2
  Tabs = {t1, t2}
  Bounds <- MCBounds
  None = None
INVARIANT SessionInv
PROPERTIES StaysIn LostSessionIsNoticed
CHECK_DEADLOCK FALSE
