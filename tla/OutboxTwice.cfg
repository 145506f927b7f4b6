SPECIFICATION OutboxSpec
CONSTANTS
  Events = {e1}
  Nothing = Nothing
  Batch = 1
  MaxAttempts = 2
  MaxCrashes = 1
INVARIANTS NotSentTwice
CHECK_DEADLOCK FALSE
