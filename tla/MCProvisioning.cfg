SPECIFICATION Spec
CONSTANTS
  m1 = m1
  m2 = m2
  w1 = w1
  Nodes = {m1, m2, w1}
  Foreign = Foreign
  Masters = {m1, m2}
  Initials <- OneOrTwoMasters
  Matched <- OwnLines
  Calls = 3
  Crashes = 1
INVARIANTS ProvisioningInv ErasedMeansGone NoGhostMember ForeignIsSafe MembersResolve
CHECK_DEADLOCK FALSE
CONSTRAINT Few
