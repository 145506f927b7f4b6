SPECIFICATION FairSpec
CONSTANTS
  Events = {e1, e2}
  Nothing = Nothing
  Batch = 1
  MaxAttempts = 3
  MaxCrashes = 2
INVARIANTS SentWasDelivered
PROPERTIES EveryEventSettles
CHECK_DEADLOCK FALSE
