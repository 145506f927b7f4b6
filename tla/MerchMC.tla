------------------------------ MODULE MerchMC ------------------------------
(* The instance of Merch that TLC checks. *)
EXTENDS Merch, TLC

\* a cfg file has no negative numbers
SmallAmounts == {3, -2}

\* no handler tells participants or keys apart
Interchangeable == Permutations(Participants) \cup Permutations(Keys) \cup Permutations(AdjustKeys)
=============================================================================
