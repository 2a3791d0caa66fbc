SPECIFICATION Spec
CONSTANTS
  Names = {a}
  Creators = 2
  Visits = 2
  MaxNodes = 2
  None = None
INVARIANTS StepsInv SentIsComplete OneRequest
CHECK_DEADLOCK FALSE
