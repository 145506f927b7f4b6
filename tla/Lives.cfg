SPECIFICATION Spec
CONSTANTS
  Contestants = {c1}
  Requests = {r1, r2}
  Watchers = {}
  None = None
  Schemes = {"LIVES"}
  Commands = {"question", "reset"}
  OldPages = FALSE
  Buffer = 1
  MaxRevision = 2
  Jury = {j1}
  Answers = {yes, no}
  Operator = j1
  Starting = 1
  MaxQuestion = 2
  MaxEvents = 3
SYMMETRY Interchangeable
INVARIANTS BoardMatchesChecks SyncSettles
CHECK_DEADLOCK FALSE
