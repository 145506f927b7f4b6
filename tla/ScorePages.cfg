SPECIFICATION QueueSpec
CONSTANTS
  Pages = {p1, p2}
  MaxEdits = 2
  MaxRebases = 2
  MaxOverrides = 1
  MaxResets = 0
  MaxLate = 1
SYMMETRY Interchangeable
INVARIANTS AppliedOnce
PROPERTIES AcknowledgedWasApplied OrderKept
CHECK_DEADLOCK FALSE
