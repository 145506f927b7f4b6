----------------------------- MODULE MerchTxMC -----------------------------
(* The instance of MerchTx that TLC checks. *)
EXTENDS MerchTx, TLC

SmallAmounts == {2, -1}
Interchangeable == Permutations(Sessions) \cup Permutations(Keys) \cup Permutations(AdjustKeys)
=============================================================================
