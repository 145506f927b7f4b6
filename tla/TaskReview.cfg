SPECIFICATION Spec
CONSTANTS
  Tasks = {t1}
  Participants = {p1}
  Requests = {r1, r2}
  Keys = {k1, k2}
  None = None
  MaxAttempt = 2
  MaxClock = 1
SYMMETRY Interchangeable
INVARIANTS RewardedOnce AttemptsAgree CoverStored
PROPERTIES AttemptAdmitted
CHECK_DEADLOCK FALSE
