------------------------------ MODULE LivesMC ------------------------------
(* The instance TLC checks: requests, contestants and the two answers are interchangeable. *)
EXTENDS Lives

Interchangeable == Permutations(Requests) \cup Permutations(Contestants) \cup Permutations(Answers)
=============================================================================
