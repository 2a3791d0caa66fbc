SPECIFICATION HSpec
CONSTANTS
  Names = {c1}
  Bodies = {b1, b2}
  Entries = {e1}
  Threads = {t1, t2}
  NoThread = NoThread
  Missing = Missing
  Unreadable = Unreadable
INVARIANTS RepoInv KeepsEveryUpdate
PROPERTIES OnlyStartsErase RefinesStore MutexReleased
CHECK_DEADLOCK FALSE
