---------------------------- MODULE TaskReviewMC ----------------------------
(* The instance TLC checks: requests, participants and keys are interchangeable. *)
EXTENDS TaskReview, TLC

Interchangeable == Permutations(Requests) \cup Permutations(Participants) \cup Permutations(Keys)
=============================================================================
