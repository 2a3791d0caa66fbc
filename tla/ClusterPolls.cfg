SPECIFICATION PollsSpec
CONSTANTS
  Clusters <- MCClusters
  Mounts = 2
  Fails = 1
  None = None
INVARIANT PollsInv
PROPERTY BecomesFresh
CHECK_DEADLOCK FALSE
