SPECIFICATION FairSpec
CONSTANTS
  Pages = {page}
  MaxEdits = 2
  MaxRebases = 2
  MaxOverrides = 1
  MaxResets = 1
  MaxLate = 1
INVARIANTS AppliedOnce
PROPERTIES AcknowledgedWasApplied OrderKept Drains
CHECK_DEADLOCK FALSE
