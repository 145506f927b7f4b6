SPECIFICATION Spec
CONSTANTS
  Contestants = {c1, c2}
  Requests = {r1, r2}
  Watchers = {w1}
  None = None
  Schemes = {"CRITERIA"}
  Commands = {"start", "pause", "finish", "restart", "contestant", "phase", "timer", "complete", "applause", "durations", "question", "draw", "reset"}
  OldPages = TRUE
  Buffer = 1
  MaxRevision = 4
  Jury = {j1}
  Answers = {yes, no}
  Operator = j1
  Starting = 1
  MaxQuestion = 2
  MaxEvents = 2
SYMMETRY Interchangeable
PROPERTIES OldPageChangesNothing
CHECK_DEADLOCK FALSE
