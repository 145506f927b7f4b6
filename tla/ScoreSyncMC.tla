----------------------------- MODULE ScoreSyncMC -----------------------------
(* ScoreSync for TLC with several pages, which no step tells apart. *)
EXTENDS ScoreSync, TLC

Interchangeable == Permutations(Pages)
=============================================================================
