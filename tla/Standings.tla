------------------------------ MODULE Standings ------------------------------
(***************************************************************************)
(* The tables computed from the results: a challenge's scoreboard with its *)
(* places, the places of a knock-out round and the combined ranking of a   *)
(* main challenge and its remote stage (backend/internal/modules/          *)
(* evaluation: service_scores.go, service_numeric.go, service_stage.go,    *)
(* lives.go).  Pure functions of what the other modules keep: a table is a *)
(* function of the contestants.                                            *)
(*                                                                         *)
(* Scores are integers; the code's are floats, told apart when they differ *)
(* by more than 1e-9.                                                      *)
(***************************************************************************)
EXTENDS Integers, FiniteSetsExt

CONSTANT None  \* no score, no place

ASSUME NoneIsNoNumber == None \notin Int

Modes == {"RANK_SUM", "SCORE_SUM"}

(***************************************************************************)
(* Places                                                                  *)
(***************************************************************************)
Better(a, b) == a # None /\ b # None /\ a > b

\* Equal scores share a place and the places after it are skipped.
competitionRanks(score) ==
  [c \in DOMAIN score |->
     IF score[c] = None THEN None
     ELSE 1 + Cardinality({o \in DOMAIN score : Better(score[o], score[c])})]

negated(score) == [c \in DOMAIN score |-> IF score[c] = None THEN None ELSE -score[c]]

competitionRanksLower(score) == competitionRanks(negated(score))

\* The eliminated take the places from the end, question by question, and those eliminated at one
\* question share the last free place; the others stand by their lives.
Out(state, c) == state[c].out # None
OutBefore(state, c) == {o \in DOMAIN state : Out(state, o) /\ state[o].out < state[c].out}
MoreLives(state, c) == {o \in DOMAIN state : ~Out(state, o) /\ state[o].lives > state[c].lives}

AtLeast(low, n) == IF n < low THEN low ELSE n

eliminationRanks(state) ==
  [c \in DOMAIN state |->
     IF Out(state, c) THEN AtLeast(1, Cardinality(DOMAIN state) - Cardinality(OutBefore(state, c)))
     ELSE 1 + Cardinality(MoreLives(state, c))]

(***************************************************************************)
(* Scoreboards                                                             *)
(***************************************************************************)
\* a contestant's lives after a sequence of life events, none ever below 0
AfterEvent(state, event) ==
  LET left == AtLeast(0, state.lives + event.delta)
  IN  [lives |-> left, out |-> IF left = 0 THEN event.question ELSE None]

\* a sheet is a function of the criteria; one with no score in it has no total
SheetTotal(sheet, weight) ==
  LET filled == {k \in DOMAIN sheet : sheet[k] # None}
  IN  IF filled = {} THEN None ELSE MapThenSumSet(LAMBDA k : sheet[k] * weight[k], filled)

sumFloats(totals) ==
  LET given == {j \in DOMAIN totals : totals[j] # None}
  IN  IF given = {} THEN None ELSE MapThenSumSet(LAMBDA j : totals[j], given)

Row(score, rank) == [score |-> score, rank |-> rank]
Board(score, rank) == [c \in DOMAIN score |-> Row(score[c], rank[c])]

\* CRITERIA_SCORING and REMOTE_CRITERIA: value is by contestant, jury member and criterion
criteriaScoreboard(value, weight) ==
  LET sum == [c \in DOMAIN value |-> sumFloats([j \in DOMAIN value[c] |-> SheetTotal(value[c][j], weight)])]
  IN  Board(sum, competitionRanks(sum))

\* NUMERIC_RESULT: the result the administrator entered is the score
numericScoreboard(result) == Board(result, competitionRanks(result))

\* ELIMINATION_LIVES: the operator's lives are the score
livesScoreboard(state) == Board([c \in DOMAIN state |-> state[c].lives], eliminationRanks(state))

(***************************************************************************)
(* The combined ranking                                                    *)
(***************************************************************************)
\* a contestant the remote board does not list has nothing there
standingsFromBoard(board, c) == IF c \in DOMAIN board THEN board[c] ELSE Row(None, None)

Weighted(main, mainWeight, remote, remoteWeight) ==
  IF main = None \/ remote = None THEN None ELSE main * mainWeight + remote * remoteWeight

Combined(mode, mainWeight, remoteWeight, main, remote) ==
  [c \in DOMAIN main |->
     LET other == standingsFromBoard(remote, c)
     IN  IF mode = "RANK_SUM" THEN Weighted(main[c].rank, mainWeight, other.rank, remoteWeight)
         ELSE Weighted(main[c].score, mainWeight, other.score, remoteWeight)]

combineStandings(mode, mainWeight, remoteWeight, main, remote) ==
  LET combined == Combined(mode, mainWeight, remoteWeight, main, remote)
  IN  Board(combined, IF mode = "RANK_SUM" THEN competitionRanksLower(combined) ELSE competitionRanks(combined))
=============================================================================
