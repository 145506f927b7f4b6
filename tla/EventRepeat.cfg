SPECIFICATION EventSpec
CONSTANTS
  Requests = {r1, r2}
  None = None
  MaxChanges = 3
  Tests = {c1, c2}
  Fields = {f1, f2}
  ValidFieldTypes = {text}
  Contestants = {u1}
  Uploads = {k1}
  MaxVersion = 3
  MaxClock = 1
  MaxBriefingFiles = 1
  OverrideInputs <- SomeOverrides
  People = {p1, p2}
  Names = {n1}
  Cards = {d1}
  Accounts = {a1}
  Directions = {g1}
  Tokens = {t1}
SYMMETRY Interchangeable
INVARIANTS AllLinkedFilesStored
CHECK_DEADLOCK FALSE
