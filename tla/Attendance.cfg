SPECIFICATION Spec
CONSTANTS
  Lectures = {l1, l2}
  Participants = {ann, bob}
  Codes = {c1, c2, c3}
  Scanners = {s1, s2}
  Points = {1, 2}
  NoLecture = NoLecture
  NoCode = NoCode
  Nobody = Nobody
SYMMETRY Interchangeable
INVARIANTS CreditedOnce CodesShowAttendance
PROPERTIES AttendedWhileOpen
CHECK_DEADLOCK FALSE
