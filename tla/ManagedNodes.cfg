SPECIFICATION Spec
CONSTANTS
  a = a
  b = b
  m = m
  w = w
  Clusters = {a, b}
  NodeNames = {m, w}
  Masters = {m}
  Initial <- MCInitial
  Bounds <- MCBounds
  None = None
INVARIANTS NodesInv QuietMeansCurrent
PROPERTIES EditsGoToPage LocksGoAway
CHECK_DEADLOCK FALSE
