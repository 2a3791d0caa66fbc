SPECIFICATION Spec
CONSTANTS
  Manifests = {x, y}
  First = x
  Visits = 2
  Ops = 3
  Fails = 1
  None = None
INVARIANTS WorkloadsInv OneCommand
PROPERTY InstallsWhatIsShown
CHECK_DEADLOCK FALSE
