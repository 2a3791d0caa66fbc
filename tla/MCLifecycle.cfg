SPECIFICATION Spec
CONSTANTS
  c1 = c1
  m1 = m1
  w1 = w1
  w2 = w2
  h1 = h1
  h2 = h2
  Names = {c1}
  NodeNames = {m1, w1, w2}
  Masters = {m1}
  Initial <- TwoNodes
  Handlers = {h1, h2}
  Worker = Worker
  Capacity = 1
  Unreadable = Unreadable
  Scenarios <- AllScenarios
INVARIANT LifecycleInv
PROPERTIES RefinesStore OnlyTheLastSurvives GetsSettled
CHECK_DEADLOCK FALSE
