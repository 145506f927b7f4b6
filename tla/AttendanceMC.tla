---------------------------- MODULE AttendanceMC ----------------------------
(* Attendance for TLC: lectures, participants, codes and scanners are interchangeable. *)
EXTENDS Attendance, TLC

Interchangeable == Permutations(Lectures) \cup Permutations(Participants)
                   \cup Permutations(Codes) \cup Permutations(Scanners)
=============================================================================
