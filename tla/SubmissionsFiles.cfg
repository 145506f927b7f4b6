SPECIFICATION Spec
CONSTANTS
  Requests = {r1}
  Answers = {first}
  Blank = Blank
  Files = {f1, f2}
  NoFile = NoFile
  MaxRevision = 2
INVARIANTS RevisionFilesKept
