SPECIFICATION Spec
CONSTANTS
  Requests = {r1}
  Answers = {first}
  Blank = Blank
  Files = {f1}
  NoFile = NoFile
  MaxRevision = 1
INVARIANTS AllShownFilesStored
