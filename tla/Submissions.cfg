SPECIFICATION Spec
CONSTANTS
  Requests = {r1, r2, r3}
  Answers = {first, second}
  Blank = Blank
  Files = {f1}
  NoFile = NoFile
  MaxRevision = 2
SYMMETRY Interchangeable
INVARIANTS RevisionsComplete ShownFilesStored
PROPERTIES RevisionsImmutable
