\* The token saved last, while nothing else says it is invalid.
SPECIFICATION SessionSpec
CONSTANTS
  Token = {a, b}
  None = None
  Revalidation = {1, 2}
  MaxChanges = 2
  MaxSaves = 1
CHECK_DEADLOCK FALSE
INVARIANT SavedIsAdmitted
