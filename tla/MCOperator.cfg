SPECIFICATION ChannelSpec
CONSTANTS
  Requests = {r1, r2, r3, r4}
  Capacity = 2
  Idle = Idle
INVARIANT OperatorInv
PROPERTIES RefinesQueue AcceptedIsTaken CallsReturn
CHECK_DEADLOCK FALSE
