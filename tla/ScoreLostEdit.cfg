SPECIFICATION QueueSpec
CONSTANTS
  Pages = {page}
  MaxEdits = 2
  MaxRebases = 2
  MaxOverrides = 0
  MaxResets = 0
  MaxLate = 0
INVARIANTS LastEditKept
CHECK_DEADLOCK FALSE
