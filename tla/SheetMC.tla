------------------------------ MODULE SheetMC ------------------------------
(* Values for model checking Sheet, and the tables of Standings on small   *)
(* inputs.                                                                 *)
EXTENDS Sheet, TLC

Interchangeable == Permutations(Requests) \cup Permutations(Criteria) \cup Permutations(Mutations)

Places == 1 .. 4
Tables == [Places -> {-1, 0, 2, None}]
Knockouts == [Places -> [lives: {1, 3}, out: {None}] \cup [lives: {0}, out: 1 .. 3]]

\* Contestants lined up, best first: each takes the number of the first in line who is level with him.
LinedUp(line, ahead(_, _), place) ==
  /\ \A i, j \in Places : ahead(line[i], line[j]) => i < j
  /\ \A i \in Places :
       place[line[i]] = Min({j \in Places : ~ahead(line[j], line[i]) /\ ~ahead(line[i], line[j])})

\* competitionRanks is the numbering of a line by score (1, 2, 2, 4), and the lower ranking that of
\* the line turned round.
ASSUME OlympicPlaces ==
  \A score \in [Places -> {-1, 0, 2}] :
    /\ \E line \in Permutations(Places) :
         LinedUp(line, LAMBDA a, b : score[a] > score[b], competitionRanks(score))
    /\ \E line \in Permutations(Places) :
         LinedUp(line, LAMBDA a, b : score[a] < score[b], competitionRanksLower(score))

\* A contestant without a score has no place, and the others' are as if he were not there.
ASSUME UnscoredLeftOut ==
  \A score \in Tables :
    LET placed == {c \in Places : score[c] # None}
        among == competitionRanks([c \in placed |-> score[c]])
    IN  \A c \in Places : competitionRanks(score)[c] = IF c \in placed THEN among[c] ELSE None

\* A knock-out is numbered from its end: question by question, those who go out take as many of the
\* free places as they are and all get the last of them (lives.go:45-47).
ASSUME FromTheEnd ==
  \A state \in Knockouts : \A q \in 1 .. 3 :
    LET gone == {c \in Places : state[c].out = q}
        free == Cardinality({c \in Places : state[c].out = None \/ state[c].out >= q})
    IN  \A c \in gone : eliminationRanks(state)[c] = free

\* Main and remote stage are weighed on what their boards say, and whoever lacks one of the two has
\* no place.
ASSUME BothStagesCount ==
  \A main, remote \in [1 .. 3 -> {0, 1, 3, None}], mode \in Modes :
    LET combined == combineStandings(mode, 1, 2, numericScoreboard(main), numericScoreboard(remote))
    IN  \A c \in 1 .. 3 : (combined[c].rank = None) <=> (main[c] = None \/ remote[c] = None)

\* Two scores of one sheet, one of another, and a sheet without any.
ASSUME SheetsAddUp ==
  LET board == criteriaScoreboard(
        ("a" :> ("j" :> <<2, 1>> @@ "k" :> <<None, 3>>)) @@ ("b" :> ("j" :> <<None, None>> @@ "k" :> <<None, None>>)),
        <<1, 2>>)
  IN  board = "a" :> Row(10, 1) @@ "b" :> Row(None, None)

\* Lives lost beyond the last are not owed, and a life given back ends the elimination.
ASSUME LivesEnd ==
  LET lost(q) == [delta |-> -1, question |-> q]
      one == AfterEvent([lives |-> 1, out |-> None], lost(2))
      again == AfterEvent(one, lost(3))
  IN  /\ one = [lives |-> 0, out |-> 2] /\ again = [lives |-> 0, out |-> 3]
      /\ AfterEvent(again, [delta |-> 1, question |-> 3]) = [lives |-> 1, out |-> None]
      /\ livesScoreboard(1 :> one @@ 2 :> AfterEvent(one, [delta |-> 1, question |-> 2]))
           = 1 :> Row(0, 2) @@ 2 :> Row(1, 1)
=============================================================================
