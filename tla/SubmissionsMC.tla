--------------------------- MODULE SubmissionsMC ---------------------------
(* Submissions for TLC: a pair of tabs or three, and interchangeable files. *)
EXTENDS Submissions, TLC

Interchangeable == Permutations(Requests) \cup Permutations(Answers) \cup Permutations(Files)
=============================================================================
