SPECIFICATION FairSpec
CONSTANTS
  Pages = {page}
  MaxEdits = 1
  MaxRebases = 2
  MaxOverrides = 0
  MaxResets = 1
  MaxLate = 0
PROPERTIES RetryIsAnswered
CHECK_DEADLOCK FALSE
