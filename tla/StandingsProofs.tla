--------------------------- MODULE StandingsProofs ---------------------------
(***************************************************************************)
(* What the places of a table say, for any number of contestants and any   *)
(* scores, and that a sheet's total and scores are what Sheet promises,    *)
(* for any number of requests, criteria and mutations: proofs about        *)
(* Standings and Sheet, checked by TLAPS.                                  *)
(*                                                                         *)
(* Every place is a number of contestants, so the proofs about Standings   *)
(* compare sets: whoever is ahead of a is ahead of all those a is ahead    *)
(* of, and is not ahead of itself.                                         *)
(***************************************************************************)
EXTENDS Sheet, SumTheorems

Table(C, score) == IsFiniteSet(C) /\ score \in [C -> Int \cup {None}]
Ahead(score, c) == {o \in DOMAIN score : Better(score[o], score[c])}

-----------------------------------------------------------------------------
(* Counting. *)

\* A part that lacks an element is smaller.
LEMMA StrictlyFewer ==
  ASSUME NEW S, IsFiniteSet(S), NEW T \in SUBSET S, NEW x \in S, x \notin T
  PROVE  IsFiniteSet(T) /\ Cardinality(T) \in Nat /\ Cardinality(S) \in Nat /\ Cardinality(T) < Cardinality(S)
<1>1. /\ IsFiniteSet(T)
      /\ Cardinality(T) <= Cardinality(S)
      /\ Cardinality(T) = Cardinality(S) => S = T
  BY FS_Subset
<1>2. Cardinality(T) \in Nat /\ Cardinality(S) \in Nat
  BY <1>1, FS_CardinalityType
<1> QED
  BY <1>1, <1>2

\* A part is not larger.
LEMMA NotMore ==
  ASSUME NEW S, IsFiniteSet(S), NEW T \in SUBSET S
  PROVE  IsFiniteSet(T) /\ Cardinality(T) \in Nat /\ Cardinality(S) \in Nat /\ Cardinality(T) <= Cardinality(S)
  BY FS_Subset, FS_CardinalityType

\* Those ahead of a contestant are finitely many, and not all.
LEMMA AheadFinite ==
  ASSUME NEW C, NEW score, Table(C, score), NEW c \in C
  PROVE  /\ Ahead(score, c) \in SUBSET (C \ {c})
         /\ IsFiniteSet(Ahead(score, c))
         /\ Cardinality(Ahead(score, c)) \in Nat
         /\ Cardinality(Ahead(score, c)) < Cardinality(C)
<1>1. Ahead(score, c) \in SUBSET (C \ {c})
  BY NoneIsNoNumber DEF Table, Ahead, Better
<1> QED
  BY <1>1, StrictlyFewer DEF Table

\* A place is one more than the number of those ahead.
LEMMA PlaceOf ==
  ASSUME NEW C, NEW score, Table(C, score), NEW c \in C
  PROVE  competitionRanks(score)[c] = IF score[c] = None THEN None ELSE 1 + Cardinality(Ahead(score, c))
  BY DEF Table, competitionRanks, Ahead

-----------------------------------------------------------------------------
(* The places of a scoreboard. *)

\* Every contestant with a score has a place from 1 to the number of contestants, and nobody else
\* has one (service_scores.go competitionRanks).
THEOREM PlacesInRange ==
  ASSUME NEW C, NEW score, Table(C, score), NEW c \in C
  PROVE  IF score[c] = None THEN competitionRanks(score)[c] = None
         ELSE competitionRanks(score)[c] \in 1 .. Cardinality(C)
<1>1. Cardinality(C) \in Nat
  BY FS_CardinalityType DEF Table
<1> QED
  BY <1>1, AheadFinite, PlaceOf

\* Who has more has the smaller place.
LEMMA BetterIsAhead ==
  ASSUME NEW C, NEW score, Table(C, score), NEW a \in C, NEW b \in C, Better(score[a], score[b])
  PROVE  competitionRanks(score)[a] < competitionRanks(score)[b]
<1>1. Ahead(score, a) \in SUBSET Ahead(score, b) /\ a \in Ahead(score, b) /\ a \notin Ahead(score, a)
  BY NoneIsNoNumber DEF Table, Ahead, Better
<1>2. Cardinality(Ahead(score, a)) < Cardinality(Ahead(score, b))
  BY <1>1, AheadFinite, StrictlyFewer
<1> QED
  BY <1>2, PlaceOf, AheadFinite DEF Better

\* A better score is a better place and an equal score the same place: places and scores order the
\* contestants alike (service_scores.go competitionRanks; scores_test.go).
THEOREM PlacesFollowScores ==
  ASSUME NEW C, NEW score, Table(C, score), NEW a \in C, NEW b \in C,
         score[a] # None, score[b] # None
  PROVE  /\ score[a] > score[b] <=> competitionRanks(score)[a] < competitionRanks(score)[b]
         /\ score[a] = score[b] <=> competitionRanks(score)[a] = competitionRanks(score)[b]
<1> DEFINE place == competitionRanks(score)
<1>1. score[a] \in Int /\ score[b] \in Int
  BY DEF Table
<1>2. place[a] \in Nat /\ place[b] \in Nat
  BY PlaceOf, AheadFinite
<1>3. score[a] > score[b] => place[a] < place[b]
  BY BetterIsAhead DEF Better
<1>4. score[b] > score[a] => place[b] < place[a]
  BY BetterIsAhead DEF Better
<1>5. score[a] = score[b] => place[a] = place[b]
  <2>1. score[a] = score[b] => Ahead(score, a) = Ahead(score, b)
    BY DEF Ahead
  <2> QED
    BY <2>1, PlaceOf
<1> QED
  BY <1>1, <1>2, <1>3, <1>4, <1>5

\* The numbering is olympic: a place is one more than the number of contestants with a better place,
\* so places shared leave the next ones empty (service_scores.go:443, 1, 2, 2, 4).
THEOREM SharedPlacesSkip ==
  ASSUME NEW C, NEW score, Table(C, score), NEW c \in C, score[c] # None
  PROVE  competitionRanks(score)[c]
           = 1 + Cardinality({o \in C : /\ score[o] # None
                                        /\ competitionRanks(score)[o] < competitionRanks(score)[c]})
<1>1. \A o \in C : Better(score[o], score[c]) <=>
        score[o] # None /\ competitionRanks(score)[o] < competitionRanks(score)[c]
  BY PlacesFollowScores DEF Better
<1>2. Ahead(score, c) = {o \in C : score[o] # None /\ competitionRanks(score)[o] < competitionRanks(score)[c]}
  BY <1>1 DEF Ahead, Table
<1> QED
  BY <1>2, PlaceOf

\* Points given to one contestant and to nobody else never cost him a place
\* (service_scores.go buildScoreboard after JurySetScore or a correction).
THEOREM MorePointsNoWorsePlace ==
  ASSUME NEW C, NEW score, Table(C, score), NEW c \in C, score[c] # None,
         NEW more \in Int, more >= score[c]
  PROVE  competitionRanks([score EXCEPT ![c] = more])[c] <= competitionRanks(score)[c]
<1> DEFINE raised == [score EXCEPT ![c] = more]
<1>1. Table(C, raised) /\ raised[c] = more /\ more # None /\ score[c] \in Int
  BY NoneIsNoNumber DEF Table
<1>2. Ahead(raised, c) \in SUBSET Ahead(score, c)
  BY <1>1, NoneIsNoNumber DEF Table, Ahead, Better
<1>3. Cardinality(Ahead(raised, c)) <= Cardinality(Ahead(score, c))
  BY <1>2, AheadFinite, NotMore
<1>4. Cardinality(Ahead(raised, c)) \in Nat /\ Cardinality(Ahead(score, c)) \in Nat
  BY <1>1, AheadFinite
<1>5. competitionRanks(raised)[c] = 1 + Cardinality(Ahead(raised, c))
  BY <1>1, PlaceOf
<1> QED
  BY <1>3, <1>4, <1>5, PlaceOf

-----------------------------------------------------------------------------
(* The places of a knock-out. *)

Knockout(C, state) ==
  IsFiniteSet(C) /\ state \in [C -> [lives: Int, out: Int \cup {None}]]

\* The places still free when c goes out.
PlacesLeft(C, state, c) == C \ OutBefore(state, c)

\* Who is out gets the last place that was free.
LEMMA FreePlaces ==
  ASSUME NEW C, NEW state, Knockout(C, state), NEW c \in C, Out(state, c)
  PROVE  /\ IsFiniteSet(PlacesLeft(C, state, c)) /\ c \in PlacesLeft(C, state, c)
         /\ Cardinality(PlacesLeft(C, state, c)) \in Nat \ {0}
         /\ eliminationRanks(state)[c] = Cardinality(PlacesLeft(C, state, c))
<1>1. DOMAIN state = C /\ IsFiniteSet(C)
  BY DEF Knockout
<1>2. OutBefore(state, c) \in SUBSET C /\ c \notin OutBefore(state, c)
  BY <1>1, NoneIsNoNumber DEF Knockout, Out, OutBefore
<1>3. IsFiniteSet(OutBefore(state, c)) /\ Cardinality(OutBefore(state, c)) \in Nat
      /\ Cardinality(C) \in Nat /\ Cardinality(OutBefore(state, c)) < Cardinality(C)
  BY <1>1, <1>2, StrictlyFewer
<1>4. /\ IsFiniteSet(PlacesLeft(C, state, c))
      /\ Cardinality(PlacesLeft(C, state, c)) = Cardinality(C) - Cardinality(C \cap OutBefore(state, c))
  BY <1>1, FS_Difference DEF PlacesLeft
<1>5. C \cap OutBefore(state, c) = OutBefore(state, c)
  BY <1>2
<1>6. Cardinality(C) - Cardinality(OutBefore(state, c)) \in Nat \ {0}
  BY <1>3
<1> QED
  BY <1>1, <1>2, <1>4, <1>5, <1>6 DEF eliminationRanks, AtLeast, PlacesLeft

\* Who stands is placed by those with more lives.
LEMMA StandingPlace ==
  ASSUME NEW C, NEW state, Knockout(C, state), NEW c \in C, ~Out(state, c)
  PROVE  /\ MoreLives(state, c) \in SUBSET (C \ {c})
         /\ IsFiniteSet(MoreLives(state, c)) /\ Cardinality(MoreLives(state, c)) \in Nat
         /\ eliminationRanks(state)[c] = 1 + Cardinality(MoreLives(state, c))
<1>1. DOMAIN state = C /\ IsFiniteSet(C)
  BY DEF Knockout
<1>2. MoreLives(state, c) \in SUBSET (C \ {c})
  BY <1>1 DEF Knockout, MoreLives
<1>3. IsFiniteSet(MoreLives(state, c)) /\ Cardinality(MoreLives(state, c)) \in Nat
  BY <1>1, <1>2, NotMore
<1> QED
  BY <1>1, <1>2, <1>3 DEF eliminationRanks

\* Whoever is still in stands ahead of everyone who is out, however many went out together
\* (lives.go:45-47 eliminationRanks).
THEOREM StandingAheadOfOut ==
  ASSUME NEW C, NEW state, Knockout(C, state), NEW a \in C, NEW b \in C, ~Out(state, a), Out(state, b)
  PROVE  eliminationRanks(state)[a] < eliminationRanks(state)[b]
<1> DEFINE others == PlacesLeft(C, state, b) \ {b}
<1>1. IsFiniteSet(PlacesLeft(C, state, b)) /\ b \in PlacesLeft(C, state, b)
      /\ eliminationRanks(state)[b] = Cardinality(PlacesLeft(C, state, b))
      /\ Cardinality(PlacesLeft(C, state, b)) \in Nat
  BY FreePlaces
<1>2. IsFiniteSet(others) /\ Cardinality(others) = Cardinality(PlacesLeft(C, state, b)) - 1
  BY <1>1, FS_RemoveElement
<1>3. MoreLives(state, a) \in SUBSET others /\ a \in others /\ a \notin MoreLives(state, a)
  BY StandingPlace DEF Knockout, MoreLives, PlacesLeft, OutBefore
<1>4. Cardinality(MoreLives(state, a)) < Cardinality(others) /\ Cardinality(MoreLives(state, a)) \in Nat
  BY <1>2, <1>3, StrictlyFewer
<1>5. eliminationRanks(state)[a] = 1 + Cardinality(MoreLives(state, a))
  BY StandingPlace
<1> QED
  BY <1>1, <1>2, <1>4, <1>5

\* Of two who are out, the one who lasted longer stands ahead, and those who went out at one question
\* share their place (lives.go:45-47 eliminationRanks; lives_test.go TestEliminationRanksWaves).
THEOREM LastedLongerStandsAhead ==
  ASSUME NEW C, NEW state, Knockout(C, state), NEW a \in C, NEW b \in C, Out(state, a), Out(state, b)
  PROVE  /\ state[a].out > state[b].out => eliminationRanks(state)[a] < eliminationRanks(state)[b]
         /\ state[a].out = state[b].out => eliminationRanks(state)[a] = eliminationRanks(state)[b]
<1>1. ASSUME state[a].out > state[b].out
      PROVE  eliminationRanks(state)[a] < eliminationRanks(state)[b]
  <2>1. /\ PlacesLeft(C, state, a) \in SUBSET PlacesLeft(C, state, b)
        /\ b \in PlacesLeft(C, state, b) /\ b \notin PlacesLeft(C, state, a)
    BY <1>1, NoneIsNoNumber, FreePlaces DEF Knockout, PlacesLeft, OutBefore, Out
  <2>2. Cardinality(PlacesLeft(C, state, a)) < Cardinality(PlacesLeft(C, state, b))
    BY <2>1, FreePlaces, StrictlyFewer
  <2> QED
    BY <2>2, FreePlaces
<1>2. ASSUME state[a].out = state[b].out
      PROVE  eliminationRanks(state)[a] = eliminationRanks(state)[b]
  <2>1. PlacesLeft(C, state, a) = PlacesLeft(C, state, b)
    BY <1>2 DEF PlacesLeft, OutBefore
  <2> QED
    BY <2>1, FreePlaces
<1> QED
  BY <1>1, <1>2

\* Of two who are still in, more lives stand ahead and equal lives share the place
\* (lives.go:77-95 eliminationRanks).
THEOREM MoreLivesStandAhead ==
  ASSUME NEW C, NEW state, Knockout(C, state), NEW a \in C, NEW b \in C, ~Out(state, a), ~Out(state, b)
  PROVE  /\ state[a].lives > state[b].lives => eliminationRanks(state)[a] < eliminationRanks(state)[b]
         /\ state[a].lives = state[b].lives => eliminationRanks(state)[a] = eliminationRanks(state)[b]
<1>1. ASSUME state[a].lives > state[b].lives
      PROVE  eliminationRanks(state)[a] < eliminationRanks(state)[b]
  <2>1. /\ MoreLives(state, a) \in SUBSET MoreLives(state, b)
        /\ a \in MoreLives(state, b) /\ a \notin MoreLives(state, a)
    BY <1>1, StandingPlace DEF Knockout, MoreLives
  <2>2. Cardinality(MoreLives(state, a)) < Cardinality(MoreLives(state, b))
    BY <2>1, StandingPlace, StrictlyFewer
  <2> QED
    BY <2>2, StandingPlace
<1>2. ASSUME state[a].lives = state[b].lives
      PROVE  eliminationRanks(state)[a] = eliminationRanks(state)[b]
  <2>1. MoreLives(state, a) = MoreLives(state, b)
    BY <1>2 DEF MoreLives
  <2> QED
    BY <2>1, StandingPlace
<1> QED
  BY <1>1, <1>2

-----------------------------------------------------------------------------
(* The combined ranking. *)

Rows == [score: Int \cup {None}, rank: Int \cup {None}]

Stages(C, main, remote, mainWeight, remoteWeight) ==
  /\ IsFiniteSet(C) /\ main \in [C -> Rows] /\ remote \in [C -> Rows]
  /\ mainWeight \in Nat \ {0} /\ remoteWeight \in Nat \ {0}

\* A positive weight keeps an order of scores.
LEMMA WeightKeepsOrder ==
  ASSUME NEW w \in Nat \ {0}, NEW x \in Int, NEW y \in Int
  PROVE  /\ x * w \in Int /\ y * w \in Int
         /\ x < y => x * w < y * w
         /\ x <= y => x * w <= y * w
  BY SMTT(30)

\* More in one stage and no less in the other is a larger weighted sum.
LEMMA WeightedOrder ==
  ASSUME NEW v \in Nat \ {0}, NEW w \in Nat \ {0},
         NEW x \in Int, NEW y \in Int, NEW p \in Int, NEW q \in Int,
         \/ x <= y /\ p < q
         \/ x < y /\ p <= q
  PROVE  Weighted(x, v, p, w) < Weighted(y, v, q, w)
<1>1. x * v \in Int /\ y * v \in Int /\ p * w \in Int /\ q * w \in Int
  BY WeightKeepsOrder
<1>2. (x < y => x * v < y * v) /\ (x <= y => x * v <= y * v)
  BY WeightKeepsOrder
<1>3. (p < q => p * w < q * w) /\ (p <= q => p * w <= q * w)
  BY WeightKeepsOrder
<1>4. x * v + p * w < y * v + q * w
  BY <1>1, <1>2, <1>3
<1> QED
  BY <1>4, NoneIsNoNumber DEF Weighted

\* The combined scores are a table again, and so are the negated ones.
LEMMA CombinedTable ==
  ASSUME NEW C, NEW main, NEW remote, NEW v, NEW w, Stages(C, main, remote, v, w), NEW mode \in Modes
  PROVE  /\ Table(C, Combined(mode, v, w, main, remote))
         /\ Table(C, negated(Combined(mode, v, w, main, remote)))
<1> DEFINE combined == Combined(mode, v, w, main, remote)
<1>1. ASSUME NEW x \in Int \cup {None}, NEW y \in Int \cup {None}
      PROVE  Weighted(x, v, y, w) \in Int \cup {None}
  <2>1. x # None /\ y # None => x * v \in Int /\ y * w \in Int
    BY WeightKeepsOrder DEF Stages
  <2> QED
    BY <2>1 DEF Weighted
<1>2. combined \in [C -> Int \cup {None}]
  BY <1>1 DEF Combined, Stages, Rows, standingsFromBoard
<1>3. negated(combined) \in [C -> Int \cup {None}]
  BY <1>2 DEF negated
<1> QED
  BY <1>2, <1>3 DEF Table, Stages

\* Ranking by scores: who scored at least as much in both stages, and more in one, is ahead, whatever
\* the weights (service_stage.go combineStandings, SCORE_SUM).
THEOREM MoreInBothStagesIsAhead ==
  ASSUME NEW C, NEW main, NEW remote, NEW v, NEW w, Stages(C, main, remote, v, w),
         NEW a \in C, NEW b \in C,
         main[a].score # None, main[b].score # None, remote[a].score # None, remote[b].score # None,
         \/ main[a].score >= main[b].score /\ remote[a].score > remote[b].score
         \/ main[a].score > main[b].score /\ remote[a].score >= remote[b].score
  PROVE  LET combined == combineStandings("SCORE_SUM", v, w, main, remote)
         IN  combined[a].rank < combined[b].rank
<1> DEFINE total == Combined("SCORE_SUM", v, w, main, remote)
<1>1. main[a].score \in Int /\ main[b].score \in Int /\ remote[a].score \in Int /\ remote[b].score \in Int
  BY DEF Stages, Rows
<1>2. /\ total[a] = Weighted(main[a].score, v, remote[a].score, w)
      /\ total[b] = Weighted(main[b].score, v, remote[b].score, w)
  BY DEF Combined, Stages, standingsFromBoard
<1>3. v \in Nat \ {0} /\ w \in Nat \ {0}
  BY DEF Stages
<1>4. total[b] < total[a]
  BY <1>1, <1>2, <1>3, WeightedOrder
<1>5. total[a] # None /\ total[b] # None
  <2>1. /\ main[a].score * v \in Int /\ main[b].score * v \in Int
        /\ remote[a].score * w \in Int /\ remote[b].score * w \in Int
    BY <1>1, <1>3, WeightKeepsOrder
  <2> QED
    BY <1>1, <1>2, <2>1, NoneIsNoNumber DEF Weighted
<1>6. Table(C, total)
  BY CombinedTable DEF Modes
<1>7. total[a] > total[b]
  BY <1>4, <1>5, <1>6 DEF Table
<1>8. competitionRanks(total)[a] < competitionRanks(total)[b]
  BY <1>5, <1>6, <1>7, PlacesFollowScores
<1> HIDE DEF total
<1>9. combineStandings("SCORE_SUM", v, w, main, remote) = Board(total, competitionRanks(total))
  BY DEF combineStandings, total
<1>10. DOMAIN total = C
  BY <1>6 DEF Table
<1> QED
  BY <1>8, <1>9, <1>10 DEF Board, Row

\* Ranking by places: who was placed at least as high in both stages, and higher in one, is ahead,
\* whatever the weights (service_stage.go combineStandings, RANK_SUM).
THEOREM HigherInBothStagesIsAhead ==
  ASSUME NEW C, NEW main, NEW remote, NEW v, NEW w, Stages(C, main, remote, v, w),
         NEW a \in C, NEW b \in C,
         main[a].rank # None, main[b].rank # None, remote[a].rank # None, remote[b].rank # None,
         \/ main[a].rank <= main[b].rank /\ remote[a].rank < remote[b].rank
         \/ main[a].rank < main[b].rank /\ remote[a].rank <= remote[b].rank
  PROVE  LET combined == combineStandings("RANK_SUM", v, w, main, remote)
         IN  combined[a].rank < combined[b].rank
<1> DEFINE total == Combined("RANK_SUM", v, w, main, remote)
<1>1. main[a].rank \in Int /\ main[b].rank \in Int /\ remote[a].rank \in Int /\ remote[b].rank \in Int
  BY DEF Stages, Rows
<1>2. /\ total[a] = Weighted(main[a].rank, v, remote[a].rank, w)
      /\ total[b] = Weighted(main[b].rank, v, remote[b].rank, w)
  BY DEF Combined, Stages, standingsFromBoard
<1>3. v \in Nat \ {0} /\ w \in Nat \ {0}
  BY DEF Stages
<1>4. total[a] < total[b]
  BY <1>1, <1>2, <1>3, WeightedOrder
<1>5. total[a] # None /\ total[b] # None
  <2>1. /\ main[a].rank * v \in Int /\ main[b].rank * v \in Int
        /\ remote[a].rank * w \in Int /\ remote[b].rank * w \in Int
    BY <1>1, <1>3, WeightKeepsOrder
  <2> QED
    BY <1>1, <1>2, <2>1, NoneIsNoNumber DEF Weighted
<1>6. Table(C, total) /\ Table(C, negated(total))
  BY CombinedTable DEF Modes
<1>7. total[a] \in Int /\ total[b] \in Int
  BY <1>5, <1>6 DEF Table
<1> HIDE DEF total
<1>8. negated(total)[a] = -total[a] /\ negated(total)[b] = -total[b]
  BY <1>5, <1>6 DEF negated, Table
<1>9. negated(total)[a] \in Int /\ negated(total)[b] \in Int /\ negated(total)[a] > negated(total)[b]
  BY <1>4, <1>7, <1>8
<1>10. competitionRanks(negated(total))[a] < competitionRanks(negated(total))[b]
  BY <1>6, <1>9, PlacesFollowScores, NoneIsNoNumber
<1>11. combineStandings("RANK_SUM", v, w, main, remote) = Board(total, competitionRanks(negated(total)))
  BY DEF combineStandings, competitionRanksLower, total
<1>12. DOMAIN total = C
  BY <1>6 DEF Table
<1> QED
  BY <1>10, <1>11, <1>12 DEF Board, Row

-----------------------------------------------------------------------------
(* The sheet.  A jury member's transaction holds the sheet until it        *)
(* commits, so that what it compared and summed still stands; a correction *)
(* holds nothing, and is counted out once its sum is crossed.              *)

Correcting(r) == request[r].by = "mega" /\ request[r].at \in {"sum", "total"}

\* Who asks for what.
Fits(r) ==
  LET q == request[r] IN
  /\ q.at \in {"apply", "replace", "sum", "total"} =>
       q.by \in {"jury", "mega"} /\ q.criterion \in Criteria /\ q.sheet \in 0 .. resets
  /\ q.at = "apply" => q.by = "jury"
  /\ q.at = "replace" => q.by = "mega"
  /\ q.at \in {"apply", "sum", "total"} /\ q.by = "jury" =>
       /\ q.score \in Scores /\ q.id \in Mutations
       /\ sent[q.id] \in Mutation /\ sent[q.id].criterion = q.criterion

OneWriter == \A q, r \in Requests : Uncommitted(q) /\ Uncommitted(r) => q = r

\* A sum that nothing has crossed is the sum of the scores its request is about to leave.
Stands(r) ==
  request[r].at = "total" /\ ~request[r].crossed /\ (request[r].by = "mega" => SheetStands(r))
    => request[r].sum = TotalOf(With(r))
SumsStand == \A r \in Requests : Stands(r)

TotalStands ==
  \/ adrift
  \/ \E r \in Requests : Correcting(r) /\ SheetStands(r)
  \/ sheet.total = TotalOf(value)

\* A view is older than the score, or is the score, unless a deletion has begun the revisions anew.
Fresh(view, current) ==
  view.lapsed \/ view.score.revision < current.revision \/ view.score = current

ViewsFresh ==
  /\ \A k \in Criteria : Fresh(page[k], value[k])
  /\ \A m \in Mutations : sent[m] # None => Fresh(sent[m].seen, value[sent[m].criterion])
  /\ \A m \in Mutations : receipt[m] # None =>
       sent[m] # None /\ Fresh(receipt[m].view, value[sent[m].criterion])

\* What a writer compared when it wrote still compares when it commits.
BaseHolds(r) ==
  Uncommitted(r) =>
    \/ sent[request[r].id].seen.lapsed
    \/ BaseMatches(request[r].id, value[request[r].criterion])

\* Requests that may still raise a revision.
Raising(r) == request[r].at \in {"apply", "replace"} \/ Uncommitted(r)
Pending == {r \in Requests : Raising(r)}
RevisionsPaid == \A k \in Criteria : value[k].revision + Cardinality(Pending) <= started

SheetInv ==
  /\ TypeOK
  /\ \A r \in Requests : Fits(r)
  /\ OneWriter
  /\ SumsStand
  /\ TotalStands
  /\ ViewsFresh
  /\ \A r \in Requests : BaseHolds(r)
  /\ RevisionsPaid

-----------------------------------------------------------------------------
(* What a sheet adds up to. *)

\* Scores and revisions are numbers.
LEMMA ScoresAreNat ==
  ASSUME NEW s \in ScoreValue
  PROVE  s.score \in Nat /\ s.revision \in Nat
<1>1. CASE s = NoScore
  <2>1. s = [score |-> 0, revision |-> 0]
    BY <1>1 DEF NoScore
  <2>2. s.score = 0 /\ s.revision = 0
    BY <2>1
  <2> QED
    BY <2>2
<1>2. CASE s \in [score: Scores, revision: Revisions \ {0}]
  <2>1. s.score \in Scores /\ s.revision \in Revisions
    BY <1>2
  <2>2. s.score \in Nat
    BY <2>1, ScoresNat
  <2>3. s.revision \in Nat
    BY <2>1, BoundsNat DEF Revisions
  <2> QED
    BY <2>2, <2>3
<1> QED
  BY <1>1, <1>2 DEF ScoreValue

Terms(scores, w) == [k \in Criteria |-> scores[k].score * w[k].weight]

\* A total is a sum over the criteria.
LEMMA TotalIsSum ==
  ASSUME NEW scores
  PROVE  TotalOf(scores) = SumFunctionOnSet(Terms(scores, criterion), Criteria)
<1>1. DOMAIN Terms(scores, criterion) = Criteria
  BY DEF Terms
<1>2. TotalOf(scores) = SumFunction(Terms(scores, criterion))
  BY DEF TotalOf, Terms
<1> QED
  BY <1>1, <1>2 DEF SumFunction

Weighing(w) == \A k \in Criteria : w[k].weight \in Nat

\* It is a number.
LEMMA TotalIsNat ==
  ASSUME NEW scores \in [Criteria -> ScoreValue], NEW w, Weighing(w)
  PROVE  SumFunctionOnSet(Terms(scores, w), Criteria) \in Nat
<1>1. \A k \in Criteria : scores[k].score \in Nat
  BY ScoresAreNat
<1>2. \A k \in Criteria : Terms(scores, w)[k] = scores[k].score * w[k].weight
  BY DEF Terms
<1>3. \A a, b \in Nat : a * b \in Nat
  OBVIOUS
<1>4. \A k \in Criteria : Terms(scores, w)[k] \in Nat
  BY <1>1, <1>2, <1>3 DEF Weighing
<1> QED
  BY <1>4, SumNat, FinitelyMany

\* Criteria without a score weigh nothing.
LEMMA SameTotal ==
  ASSUME NEW scores \in [Criteria -> ScoreValue], NEW w, Weighing(w), NEW x, Weighing(x),
         \A k \in Criteria : scores[k] # NoScore => w[k].weight = x[k].weight
  PROVE  SumFunctionOnSet(Terms(scores, w), Criteria) = SumFunctionOnSet(Terms(scores, x), Criteria)
<1>1. ASSUME NEW k \in Criteria PROVE Terms(scores, w)[k] = Terms(scores, x)[k]
  <2>1. Terms(scores, w)[k] = scores[k].score * w[k].weight /\ Terms(scores, x)[k] = scores[k].score * x[k].weight
    BY DEF Terms
  <2>2. CASE scores[k] = NoScore
    <3>1. scores[k].score = 0
      BY <2>2 DEF NoScore
    <3>2. \A n \in Nat : 0 * n = 0
      OBVIOUS
    <3> QED
      BY <2>1, <3>1, <3>2 DEF Weighing
  <2>3. CASE scores[k] # NoScore
    BY <2>1, <2>3
  <2> QED
    BY <2>2, <2>3
<1> QED
  BY <1>1, SumSame, FinitelyMany

\* Without scores it is zero.
LEMMA EmptyTotal ==
  ASSUME NEW scores, \A k \in Criteria : scores[k] = NoScore, NEW w, Weighing(w)
  PROVE  SumFunctionOnSet(Terms(scores, w), Criteria) = 0
<1>1. ASSUME NEW k \in Criteria PROVE Terms(scores, w)[k] = 0
  <2>1. Terms(scores, w)[k] = scores[k].score * w[k].weight /\ scores[k].score = 0
    BY DEF Terms, NoScore
  <2>2. \A n \in Nat : 0 * n = 0
    OBVIOUS
  <2> QED
    BY <2>1, <2>2 DEF Weighing
<1> QED
  BY <1>1, SumZero, FinitelyMany

\* Weights are numbers.
LEMMA WeightsAreNat == TypeOK => Weighing(criterion)
  BY ScoresNat DEF TypeOK, Weighing
\* The same after a step.
LEMMA WeightsAreNatNext == TypeOK' => Weighing(criterion')
<1>1. (TypeOK => Weighing(criterion))'
  BY WeightsAreNat, PTL
<1> QED
  BY <1>1 DEF Weighing

\* A total after a step is the sum of the scores after it.
LEMMA TotalIsSumNext ==
  TotalOf(value)' = SumFunctionOnSet(Terms(value', criterion'), Criteria)
<1>1. DOMAIN Terms(value', criterion') = Criteria
  BY DEF Terms
<1>2. TotalOf(value)' = SumFunction(Terms(value', criterion'))
  BY DEF TotalOf, Terms
<1> QED
  BY <1>1, <1>2 DEF SumFunction

\* A criterion's total is not moved by what moves no score and no weight of a score.
LEMMA TotalKept ==
  ASSUME TypeOK, TypeOK', value' = value,
         \A k \in Criteria : value[k] # NoScore => criterion'[k].weight = criterion[k].weight
  PROVE  TotalOf(value)' = TotalOf(value)
<1> DEFINE v == value
           w == criterion
           x == criterion'
<1>1. Weighing(w) /\ Weighing(x)
  BY WeightsAreNat, WeightsAreNatNext
<1>2. v \in [Criteria -> ScoreValue]
  BY DEF TypeOK
<1>3. TotalOf(value)' = SumFunctionOnSet(Terms(v, x), Criteria)
  BY TotalIsSumNext
<1>4. TotalOf(value) = SumFunctionOnSet(Terms(v, w), Criteria)
  BY TotalIsSum
<1>5. \A k \in Criteria : v[k] # NoScore => w[k].weight = x[k].weight
  OBVIOUS
<1> HIDE DEF v, w, x
<1>6. SumFunctionOnSet(Terms(v, w), Criteria) = SumFunctionOnSet(Terms(v, x), Criteria)
  BY <1>1, <1>2, <1>5, SameTotal
<1> QED
  BY <1>3, <1>4, <1>6

-----------------------------------------------------------------------------
(* What a request leaves of the others. *)

\* Another step has at most crossed the sum of r.
Same(r) ==
  /\ request'[r].at = request[r].at /\ request'[r].by = request[r].by
  /\ request'[r].id = request[r].id /\ request'[r].criterion = request[r].criterion
  /\ request'[r].score = request[r].score /\ request'[r].sheet = request[r].sheet
  /\ request'[r].sum = request[r].sum
  /\ ~request'[r].crossed => request'[r] = request[r]

Others(r) == \A q \in Requests \ {r} : Same(q)

\* An idle request is well typed.
LEMMA DoneTyped == Idle \in Doing
  BY DEF Idle, Doing

\* One request goes on.
LEMMA OneTouched ==
  ASSUME TypeOK, NEW r \in Requests, NEW doing, request' = [request EXCEPT ![r] = doing]
  PROVE  request'[r] = doing /\ Others(r) /\ DOMAIN request' = Requests
  BY DEF TypeOK, Others, Same

\* What marking the sums under way as crossed does to a request.
LEMMA Crossed ==
  ASSUME TypeOK, NEW crossed, NEW q \in Requests
  PROVE  /\ CrossSums(crossed)[q] = IF request[q].at = "total" /\ q \in crossed
                                    THEN [request[q] EXCEPT !.crossed = TRUE] ELSE request[q]
         /\ CrossSums(crossed)[q] \in Doing
  BY DEF TypeOK, CrossSums, Doing

\* One request goes on and crosses the sums under way.
LEMMA OneTouchedCrossing ==
  ASSUME TypeOK, NEW r \in Requests, NEW doing, NEW crossed,
         request' = [CrossSums(crossed) EXCEPT ![r] = doing]
  PROVE  /\ request'[r] = doing /\ Others(r) /\ DOMAIN request' = Requests
         /\ \A q \in Requests \ {r} :
              /\ request'[q] \in Doing
              /\ request[q].at = "total" /\ q \in crossed => request'[q].crossed
<1>1. DOMAIN CrossSums(crossed) = Requests
  BY DEF CrossSums
<1>2. request'[r] = doing /\ DOMAIN request' = Requests
  BY <1>1
<1>3. ASSUME NEW q \in Requests \ {r}
      PROVE  /\ Same(q) /\ request'[q] \in Doing
             /\ request[q].at = "total" /\ q \in crossed => request'[q].crossed
  <2>1. request'[q] = CrossSums(crossed)[q]
    BY <1>1
  <2>2. request[q] \in Doing
    BY DEF TypeOK
  <2>3. CASE request[q].at = "total" /\ q \in crossed
    <3>1. request'[q] = [request[q] EXCEPT !.crossed = TRUE]
      BY <2>1, <2>3, Crossed
    <3>2. request'[q].crossed /\ request'[q] \in Doing
      BY <2>1, <2>2, <3>1, Crossed DEF Doing
    <3>3. Same(q)
      BY <2>2, <3>1 DEF Same, Doing
    <3> QED
      BY <3>2, <3>3
  <2>4. CASE ~(request[q].at = "total" /\ q \in crossed)
    <3>1. request'[q] = request[q]
      BY <2>1, <2>4, Crossed
    <3> QED
      BY <2>2, <2>4, <3>1 DEF Same
  <2> QED
    BY <2>3, <2>4
<1> QED
  BY <1>2, <1>3 DEF Others

\* No request goes on.
LEMMA NobodyTouched == ASSUME UNCHANGED request PROVE \A q \in Requests : Same(q)
  BY DEF Same

-----------------------------------------------------------------------------
(* What a step that leaves a part of the state alone keeps. *)

SentKept ==
  \A m \in Mutations : sent[m] \in Mutation =>
    sent'[m] \in Mutation /\ sent'[m].criterion = sent[m].criterion

\* A request that stays where it is still fits the sheet it began with.
LEMMA FitsKept ==
  ASSUME TypeOK, TypeOK', resets <= resets', SentKept, NEW q \in Requests, Fits(q), Same(q)
  PROVE  Fits(q)'
<1>1. resets \in Nat /\ resets' \in Nat
  BY BoundsNat DEF TypeOK
<1>2. 0 .. resets \subseteq 0 .. resets'
  BY <1>1
<1> QED
  BY <1>2 DEF Fits, Same, SentKept

\* At most one request has an uncommitted score, as only the one with the lock may write.
LEMMA WritersKept ==
  ASSUME OneWriter, NEW r, Others(r), Uncommitted(r)' => Uncommitted(r)
  PROVE  OneWriter'
<1>1. ASSUME NEW q \in Requests, Uncommitted(q)' PROVE Uncommitted(q)
  BY <1>1 DEF Uncommitted, Others, Same
<1> QED
  BY <1>1 DEF OneWriter

\* Equal weights, equal sums.
LEMMA SameWeights ==
  ASSUME NEW scores, NEW w, NEW x, \A k \in Criteria : w[k].weight = x[k].weight
  PROVE  SumFunctionOnSet(Terms(scores, w), Criteria) = SumFunctionOnSet(Terms(scores, x), Criteria)
<1>1. Terms(scores, w) = Terms(scores, x)
  BY DEF Terms
<1> QED
  BY <1>1

\* The sum a writer will see, after a step.
LEMMA WithNext ==
  ASSUME NEW q
  PROVE  TotalOf(With(q))' = SumFunctionOnSet(Terms(With(q)', criterion'), Criteria)
<1>1. DOMAIN Terms(With(q)', criterion') = Criteria
  BY DEF Terms
<1>2. TotalOf(With(q))' = SumFunction(Terms(With(q)', criterion'))
  BY DEF TotalOf, Terms
<1> QED
  BY <1>1, <1>2 DEF SumFunction

\* The sum a writer will see.
LEMMA WithNow ==
  ASSUME NEW q
  PROVE  TotalOf(With(q)) = SumFunctionOnSet(Terms(With(q), criterion), Criteria)
<1>1. DOMAIN Terms(With(q), criterion) = Criteria
  BY DEF Terms
<1>2. TotalOf(With(q)) = SumFunction(Terms(With(q), criterion))
  BY DEF TotalOf, Terms
<1> QED
  BY <1>1, <1>2 DEF SumFunction

\* What a request will leave changes only with the scores and the weights.
LEMMA LeavesSame ==
  ASSUME NEW q \in Requests, Same(q), value' = value,
         \A k \in Criteria : criterion'[k].weight = criterion[k].weight
  PROVE  TotalOf(With(q))' = TotalOf(With(q))
<1> DEFINE v == With(q)
           w == criterion
           x == criterion'
<1>1. With(q)' = v
  BY DEF With, Same
<1>2. TotalOf(With(q))' = SumFunctionOnSet(Terms(v, x), Criteria)
  BY <1>1, WithNext
<1>3. TotalOf(With(q)) = SumFunctionOnSet(Terms(v, w), Criteria)
  BY WithNow
<1>4. \A k \in Criteria : w[k].weight = x[k].weight
  OBVIOUS
<1> HIDE DEF v, w, x
<1>5. SumFunctionOnSet(Terms(v, w), Criteria) = SumFunctionOnSet(Terms(v, x), Criteria)
  BY <1>4, SameWeights
<1> QED
  BY <1>2, <1>3, <1>5

\* A sum that was read stays true while no score and no weight changes.
LEMMA SumsKept ==
  ASSUME NEW q \in Requests, Stands(q), Same(q), value' = value, resets' = resets,
         \A k \in Criteria : criterion'[k].weight = criterion[k].weight
  PROVE  Stands(q)'
<1>1. TotalOf(With(q))' = TotalOf(With(q))
  BY LeavesSame
<1> QED
  BY <1>1 DEF Stands, SheetStands, Same

\* The cached total stays true when neither the scores' sum nor the cache changes.
LEMMA TotalStandsKept ==
  ASSUME TotalStands, NEW r, Others(r),
         Correcting(r) /\ SheetStands(r) => adrift' \/ (Correcting(r)' /\ SheetStands(r)'),
         TotalOf(value)' = TotalOf(value), sheet'.total = sheet.total, resets' = resets,
         adrift => adrift'
  PROVE  TotalStands'
<1>1. CASE \E q \in Requests : Correcting(q) /\ SheetStands(q)
  <2>1. PICK q \in Requests : Correcting(q) /\ SheetStands(q)
    BY <1>1
  <2>2. adrift' \/ (Correcting(q)' /\ SheetStands(q)')
    BY <2>1 DEF Correcting, SheetStands, Others, Same
  <2> QED
    BY <2>2 DEF TotalStands
<1>2. CASE adrift
  BY <1>2 DEF TotalStands
<1>3. CASE sheet.total = TotalOf(value)
  BY <1>3 DEF TotalStands
<1> QED
  BY <1>1, <1>2, <1>3 DEF TotalStands

\* A mutation's base stays what its page saw.
LEMMA BaseKept ==
  ASSUME NEW q \in Requests, BaseHolds(q), Same(q),
         Uncommitted(q) => /\ value'[request[q].criterion] = value[request[q].criterion]
                           /\ \/ sent'[request[q].id].seen = sent[request[q].id].seen
                              \/ sent'[request[q].id].seen.lapsed
  PROVE  BaseHolds(q)'
  BY DEF BaseHolds, BaseMatches, Uncommitted, Same

-----------------------------------------------------------------------------
(* Counting the requests that may still raise a revision. *)

\* The requests about to raise a revision are finitely many.
LEMMA PendingFinite == IsFiniteSet(Pending) /\ Cardinality(Pending) \in Nat
<1>1. Pending \subseteq Requests
  BY DEF Pending
<1> QED
  BY <1>1, FinitelyMany, FS_Subset, FS_CardinalityType

\* They do not become more when none begins to.
LEMMA PendingKept ==
  ASSUME NEW r, Others(r), Raising(r)' => Raising(r)
  PROVE  Cardinality(Pending') \in Nat /\ Cardinality(Pending') <= Cardinality(Pending)
<1>1. Pending' \subseteq Pending
  BY DEF Pending, Raising, Uncommitted, Others, Same
<1> DEFINE now == Pending
           next == Pending'
<1>2. IsFiniteSet(now) /\ next \subseteq now
  BY <1>1, PendingFinite
<1> HIDE DEF now, next
<1>3. Cardinality(next) <= Cardinality(now) /\ IsFiniteSet(next)
  BY <1>2, FS_Subset
<1>4. Cardinality(next) \in Nat
  BY <1>3, FS_CardinalityType
<1> QED
  BY <1>3, <1>4 DEF now, next

\* They become one more.
LEMMA PendingMore ==
  ASSUME NEW r \in Requests, Others(r), ~Raising(r), Raising(r)'
  PROVE  Cardinality(Pending') = Cardinality(Pending) + 1
<1>1. Pending' = Pending \cup {r} /\ r \notin Pending
  BY DEF Pending, Raising, Uncommitted, Others, Same
<1> DEFINE now == Pending
<1>2. IsFiniteSet(now) /\ r \notin now
  BY <1>1, PendingFinite
<1> HIDE DEF now
<1>3. Cardinality(now \cup {r}) = Cardinality(now) + 1
  BY <1>2, FS_AddElement
<1> QED
  BY <1>1, <1>3 DEF now

\* They become one fewer.
LEMMA PendingFewer ==
  ASSUME NEW r \in Requests, Others(r), Raising(r), ~Raising(r)'
  PROVE  Cardinality(Pending') = Cardinality(Pending) - 1
<1>1. Pending' = Pending \ {r} /\ r \in Pending
  BY DEF Pending, Raising, Uncommitted, Others, Same
<1> DEFINE now == Pending
<1>2. IsFiniteSet(now) /\ r \in now
  BY <1>1, PendingFinite
<1> HIDE DEF now
<1>3. Cardinality(now \ {r}) = Cardinality(now) - 1
  BY <1>2, FS_RemoveElement
<1> QED
  BY <1>1, <1>3 DEF now

\* No revision grows, and nobody new may raise one.
LEMMA RevisionsKept ==
  ASSUME TypeOK, TypeOK', RevisionsPaid, NEW r, Others(r), Raising(r)' => Raising(r),
         \A k \in Criteria : value'[k].revision <= value[k].revision, started <= started'
  PROVE  RevisionsPaid'
<1>1. Cardinality(Pending') \in Nat /\ Cardinality(Pending') <= Cardinality(Pending) /\ Cardinality(Pending) \in Nat
  BY PendingKept, PendingFinite
<1>2. \A k \in Criteria : value[k].revision \in Nat /\ value'[k].revision \in Nat
  BY ScoresAreNat DEF TypeOK
<1>3. started \in Nat /\ started' \in Nat
  BY BoundsNat DEF TypeOK
<1> QED
  BY <1>1, <1>2, <1>3 DEF RevisionsPaid

\* A request that ends, or has only begun, wants nothing of the sheet.
LEMMA IdleIsFree ==
  ASSUME NEW r, request'[r] = Idle
  PROVE  Fits(r)' /\ Stands(r)' /\ BaseHolds(r)' /\ ~Uncommitted(r)' /\ ~Raising(r)' /\ ~Correcting(r)'
  BY DEF Idle, Fits, Stands, BaseHolds, Uncommitted, Raising, Correcting

\* A step that changes no score, no weight and nothing that was sent disturbs only its own request.
LEMMA QuietStep ==
  ASSUME SheetInv, TypeOK', NEW r, Others(r), r \in Requests => Fits(r)' /\ Stands(r)' /\ BaseHolds(r)',
         value' = value, resets' = resets,
         \A k \in Criteria : criterion'[k].weight = criterion[k].weight,
         \A m \in Mutations : sent[m] \in Mutation => sent'[m] = sent[m]
  PROVE  /\ \A q \in Requests : Fits(q)'
         /\ SumsStand'
         /\ \A q \in Requests : BaseHolds(q)'
<1>1. SentKept
  BY DEF SentKept
<1>2. resets <= resets'
  BY BoundsNat DEF SheetInv, TypeOK
<1>3. ASSUME NEW q \in Requests PROVE Fits(q)'
  <2>1. CASE q = r
    BY <2>1
  <2>2. CASE q # r
    BY <1>1, <1>2, <2>2, FitsKept DEF SheetInv, Others
  <2> QED
    BY <2>1, <2>2
<1>4. ASSUME NEW q \in Requests PROVE Stands(q)'
  <2>1. CASE q = r
    BY <2>1
  <2>2. CASE q # r
    BY <2>2, SumsKept DEF SheetInv, SumsStand, Others
  <2> QED
    BY <2>1, <2>2
<1>5. ASSUME NEW q \in Requests PROVE BaseHolds(q)'
  <2>1. CASE q = r
    BY <2>1
  <2>2. CASE q # r
    <3>1. Same(q) /\ BaseHolds(q) /\ Fits(q)
      BY <2>2 DEF Others, SheetInv
    <3>2. Uncommitted(q) => sent'[request[q].id] = sent[request[q].id]
      BY <3>1 DEF Uncommitted, Fits
    <3> QED
      BY <3>1, <3>2, BaseKept
  <2> QED
    BY <2>1, <2>2
<1> QED
  BY <1>3, <1>4, <1>5 DEF SumsStand

\* A step that changes neither scores nor what has seen them.
LEMMA ViewsKept ==
  ASSUME ViewsFresh, UNCHANGED <<value, page, sent, receipt>>
  PROVE  ViewsFresh'
  BY DEF ViewsFresh, Fresh

-----------------------------------------------------------------------------
(* The steps. *)

\* A request that a step does not touch is where it was.
LEMMA Untouched == ASSUME NEW r, UNCHANGED request
  PROVE /\ Others(r) /\ Same(r) /\ (Correcting(r)' <=> Correcting(r))
        /\ (resets' = resets => (SheetStands(r)' <=> SheetStands(r)))
        /\ (Raising(r)' <=> Raising(r)) /\ (Uncommitted(r)' <=> Uncommitted(r))
  BY DEF Others, Same, Correcting, Raising, Uncommitted, SheetStands

\* Steps of nobody: the scheme's jury, the scorecard, the session, and no step at all.
LEMMA OutsideKeeps ==
  ASSUME SheetInv, TypeOK', UNCHANGED <<criterion, value, sheet, receipt, resets, adrift, sent, request, started>>,
         \A k \in Criteria : page'[k] = page[k] \/ page'[k] = Seen(value[k])
  PROVE  SheetInv'
<1>1. PICK r : r \notin Requests
  BY NoSetContainsEverything
<1>2. /\ Others(r) /\ Same(r) /\ (Correcting(r)' <=> Correcting(r)) /\ (SheetStands(r)' <=> SheetStands(r))
      /\ (Raising(r)' <=> Raising(r)) /\ (Uncommitted(r)' <=> Uncommitted(r))
  BY Untouched
<1>3. /\ \A q \in Requests : Fits(q)'
      /\ SumsStand'
      /\ \A q \in Requests : BaseHolds(q)'
  BY <1>1, <1>2, QuietStep
<1>4. OneWriter'
  BY <1>2, WritersKept DEF SheetInv
<1>5. TotalStands'
  <2>1. TotalOf(value)' = TotalOf(value)
    BY TotalKept DEF SheetInv
  <2> QED
    BY <1>2, <2>1, TotalStandsKept DEF SheetInv
<1>6. ViewsFresh'
  <2>1. ASSUME NEW k \in Criteria PROVE Fresh(page'[k], value'[k])
    <3>1. Fresh(page[k], value[k])
      BY DEF SheetInv, ViewsFresh
    <3>2. Fresh(Seen(value[k]), value[k])
      BY DEF Fresh, Seen
    <3> QED
      BY <3>1, <3>2
  <2>2. /\ \A m \in Mutations : sent[m] # None => Fresh(sent[m].seen, value[sent[m].criterion])
        /\ \A m \in Mutations : receipt[m] # None =>
             sent[m] # None /\ Fresh(receipt[m].view, value[sent[m].criterion])
    BY DEF SheetInv, ViewsFresh
  <2> QED
    BY <2>1, <2>2 DEF ViewsFresh, Fresh
<1>7. RevisionsPaid'
  <2>1. started <= started' /\ \A k \in Criteria : value'[k].revision <= value[k].revision
    BY BoundsNat, ScoresAreNat DEF SheetInv, TypeOK
  <2> QED
    BY <1>2, <2>1, RevisionsKept DEF SheetInv
<1> QED
  BY <1>3, <1>4, <1>5, <1>6, <1>7 DEF SheetInv

\* The page fetches the scorecard.
LEMMA JuryScorecardKeeps == ASSUME SheetInv, JuryScorecard PROVE SheetInv'
<1>1. TypeOK'
  BY DEF SheetInv, TypeOK, JuryScorecard, setup, scored, Views, Seen
<1>2. \A k \in Criteria : page'[k] = Seen(value[k])
  BY DEF JuryScorecard
<1> QED
  BY <1>1, <1>2, OutsideKeeps DEF JuryScorecard, setup, scored

\* Jurors of the contest become remote jury.
LEMMA SetRemoteJuryKeeps == ASSUME SheetInv, SetRemoteJury PROVE SheetInv'
<1>1. TypeOK'
  BY DEF SheetInv, TypeOK, SetRemoteJury, scored, client, Assignments
<1> QED
  BY <1>1, OutsideKeeps DEF SetRemoteJury, client, scored

\* The live session opens or closes the scoring.
LEMMA SaveSessionKeeps == ASSUME SheetInv, SaveSession PROVE SheetInv'
<1>1. TypeOK'
  BY DEF SheetInv, TypeOK, SaveSession, scored, client, States
<1> QED
  BY <1>1, OutsideKeeps DEF SaveSession, client, scored

\* Nothing happens.
LEMMA StutterKeeps == ASSUME SheetInv, UNCHANGED vars PROVE SheetInv'
<1>1. TypeOK'
  BY DEF SheetInv, TypeOK, vars
<1> QED
  BY <1>1, OutsideKeeps DEF vars

\* A request's own step, which changes no score and no weight.
LEMMA OwnStep ==
  ASSUME SheetInv, TypeOK', NEW r \in Requests, Others(r), Fits(r)', Stands(r)', BaseHolds(r)',
         OneWriter', ViewsFresh', RevisionsPaid',
         value' = value, criterion' = criterion, resets' = resets, sheet'.total = sheet.total,
         adrift => adrift',
         Correcting(r) /\ SheetStands(r) => adrift' \/ (Correcting(r)' /\ SheetStands(r)'),
         \A m \in Mutations : sent[m] \in Mutation => sent'[m] = sent[m]
  PROVE  SheetInv'
<1>1. /\ \A q \in Requests : Fits(q)'
      /\ SumsStand'
      /\ \A q \in Requests : BaseHolds(q)'
  BY QuietStep
<1>2. TotalStands'
  <2>1. TotalOf(value)' = TotalOf(value)
    BY TotalKept DEF SheetInv
  <2> QED
    BY <2>1, TotalStandsKept DEF SheetInv
<1> QED
  BY <1>1, <1>2 DEF SheetInv

\* The request is over, and nothing came of it but an answer.
LEMMA EndStep ==
  ASSUME SheetInv, TypeOK', NEW r \in Requests, Done(r), ~Correcting(r) \/ ~SheetStands(r) \/ adrift',
         ViewsFresh', UNCHANGED <<value, criterion, resets, sheet, sent, started>>, adrift => adrift'
  PROVE  SheetInv'
<1>1. request'[r] = Idle /\ Others(r)
  BY OneTouched DEF SheetInv, Done, Becomes
<1>2. Fits(r)' /\ Stands(r)' /\ BaseHolds(r)' /\ ~Uncommitted(r)' /\ ~Raising(r)'
  BY <1>1, IdleIsFree
<1>3. OneWriter'
  BY <1>1, <1>2, WritersKept DEF SheetInv
<1>4. RevisionsPaid'
  <2>1. started <= started' /\ \A k \in Criteria : value'[k].revision <= value[k].revision
    BY BoundsNat, ScoresAreNat DEF SheetInv, TypeOK
  <2> QED
    BY <1>1, <1>2, <2>1, RevisionsKept DEF SheetInv
<1> QED
  BY <1>1, <1>2, <1>3, <1>4, OwnStep DEF SheetInv

\* A finished request is well typed.
LEMMA DoneTypes == ASSUME TypeOK, NEW r \in Requests, Done(r) PROVE request' \in [Requests -> Doing]
  BY DoneTyped DEF Done, Becomes, TypeOK

\* An edit of the scheme begins.
LEMMA BeginSchemeEditKeeps ==
  ASSUME SheetInv, NEW r \in Requests, NEW at \in {"scheme", "criterion"}, BeginSchemeEdit(r, at)
  PROVE  SheetInv'
<1> DEFINE doing == [Idle EXCEPT !.by = "editor", !.at = at]
<1>1. request' = [request EXCEPT ![r] = doing] /\ doing \in Doing /\ doing.at = at /\ doing.by = "editor"
  BY DEF BeginSchemeEdit, Becomes, Idle, Doing
<1> HIDE DEF doing
<1>2. TypeOK'
  <2>1. request' \in [Requests -> Doing]
    BY <1>1 DEF SheetInv, TypeOK
  <2>2. started' \in 0 .. MaxStarted
    BY BoundsNat DEF SheetInv, TypeOK, BeginSchemeEdit, Started
  <2> QED
    BY <2>1, <2>2 DEF SheetInv, TypeOK, BeginSchemeEdit, setup, scored, client
<1>3. request'[r] = doing /\ Others(r)
  BY <1>1, OneTouched DEF SheetInv
<1>4. /\ Fits(r)' /\ Stands(r)' /\ BaseHolds(r)' /\ ~Uncommitted(r)' /\ ~Raising(r)'
  BY <1>1, <1>3 DEF Fits, Stands, BaseHolds, Uncommitted, Raising
<1>5. OneWriter'
  BY <1>3, <1>4, WritersKept DEF SheetInv
<1>6. RevisionsPaid'
  <2>1. started <= started' /\ \A k \in Criteria : value'[k].revision <= value[k].revision
    BY BoundsNat, ScoresAreNat DEF SheetInv, TypeOK, BeginSchemeEdit, Started, scored
  <2> QED
    BY <1>2, <1>3, <1>4, <2>1, RevisionsKept DEF SheetInv
<1>7. ViewsFresh'
  BY ViewsKept DEF SheetInv, BeginSchemeEdit, scored, client
<1>8. ~Correcting(r)
  BY DEF BeginSchemeEdit, Free, Correcting
<1>9. UNCHANGED <<value, criterion, resets, sheet, sent, adrift>>
  BY DEF BeginSchemeEdit, scored, client, setup
<1> QED
  BY <1>2, <1>3, <1>4, <1>5, <1>6, <1>7, <1>8, <1>9, OwnStep

\* A mutation is sent.
LEMMA PutKeeps == ASSUME SheetInv, NEW r \in Requests, Put(r) PROVE SheetInv'
<1>1. TypeOK'
  <2>1. request' \in [Requests -> Doing]
    BY DoneTypes DEF SheetInv, Put
  <2> QED
    BY <2>1 DEF SheetInv, TypeOK, Put, UpsertScheme, normalizeScheme, scored, client
<1>2. ViewsFresh'
  BY ViewsKept DEF SheetInv, Put, scored, client
<1> QED
  BY <1>1, <1>2, EndStep DEF Put, At, Correcting, scored, client

\* A page shows a view that is fresh.
LEMMA AnswerFresh ==
  ASSUME SheetInv, NEW k \in Criteria, NEW view, Fresh(view, value[k]), Answer(k, view),
         UNCHANGED <<value, sent, receipt>>
  PROVE  ViewsFresh'
<1>1. ASSUME NEW j \in Criteria PROVE Fresh(page'[j], value[j])
  <2>1. page'[j] = page[j] \/ (j = k /\ page'[j] = view)
    BY DEF Answer, SheetInv, TypeOK
  <2>2. Fresh(page[j], value[j])
    BY DEF SheetInv, ViewsFresh
  <2> QED
    BY <2>1, <2>2
<1>2. /\ \A m \in Mutations : sent[m] # None => Fresh(sent[m].seen, value[sent[m].criterion])
      /\ \A m \in Mutations : receipt[m] # None =>
           sent[m] # None /\ Fresh(receipt[m].view, value[sent[m].criterion])
  BY DEF SheetInv, ViewsFresh
<1> QED
  BY <1>1, <1>2 DEF ViewsFresh, Fresh

\* An answer tells the page a revision.
LEMMA AnswerTypes ==
  ASSUME TypeOK, NEW k \in Criteria, NEW view \in Views, Answer(k, view)
  PROVE  page' \in [Criteria -> Views]
  BY DEF TypeOK, Answer

\* A mutation with a receipt is answered from it.
LEMMA ExistingScoreReceiptKeeps ==
  ASSUME SheetInv, NEW r \in Requests, ExistingScoreReceipt(r)
  PROVE  SheetInv'
<1> DEFINE k == request[r].criterion
           known == receipt[request[r].id]
<1>1. /\ k \in Criteria /\ request[r].id \in Mutations /\ sent[request[r].id].criterion = k
      /\ request[r].at = "apply" /\ known # None
  BY DEF SheetInv, Fits, ExistingScoreReceipt, At
<1>2. known \in Receipts /\ Fresh(known.view, value[k])
  BY <1>1 DEF SheetInv, TypeOK, ViewsFresh
<1>3. known.view \in Views
  BY <1>2 DEF Receipts
<1>4. Answer(k, known.view) \/ UNCHANGED page
  BY DEF ExistingScoreReceipt
<1>5. UNCHANGED <<setup, scored, sent, started>> /\ Done(r)
  BY DEF ExistingScoreReceipt
<1> HIDE DEF k, known
<1>6. page' \in [Criteria -> Views]
  BY <1>1, <1>3, <1>4, AnswerTypes DEF SheetInv, TypeOK
<1>7. TypeOK'
  <2>1. request' \in [Requests -> Doing]
    BY <1>5, DoneTypes DEF SheetInv
  <2> QED
    BY <1>5, <1>6, <2>1 DEF SheetInv, TypeOK, setup, scored
<1>8. ViewsFresh'
  BY <1>1, <1>2, <1>4, <1>5, AnswerFresh, ViewsKept DEF SheetInv, scored
<1> QED
  BY <1>1, <1>5, <1>7, <1>8, EndStep DEF Correcting, setup, scored

\* A mutation on another revision is refused.
LEMMA RevisionConflictKeeps ==
  ASSUME SheetInv, NEW r \in Requests, RevisionConflict(r)
  PROVE  SheetInv'
<1> DEFINE k == request[r].criterion
<1>1. k \in Criteria /\ request[r].at = "apply"
  BY DEF SheetInv, Fits, RevisionConflict, At
<1>2. Seen(value[k]) \in Views /\ Fresh(Seen(value[k]), value[k])
  BY <1>1 DEF SheetInv, TypeOK, Seen, Views, Fresh
<1>3. Answer(k, Seen(value[k])) /\ Done(r) /\ UNCHANGED <<setup, scored, sent, started>>
  BY DEF RevisionConflict
<1> HIDE DEF k
<1>4. TypeOK'
  <2>1. request' \in [Requests -> Doing] /\ page' \in [Criteria -> Views]
    BY <1>1, <1>2, <1>3, DoneTypes, AnswerTypes DEF SheetInv
  <2> QED
    BY <1>3, <2>1 DEF SheetInv, TypeOK, setup, scored
<1>5. ViewsFresh'
  BY <1>1, <1>2, <1>3, AnswerFresh DEF scored
<1> QED
  BY <1>1, <1>3, <1>4, <1>5, EndStep DEF Correcting, setup, scored

\* A request stops; its transaction is rolled back.
LEMMA StopKeeps == ASSUME SheetInv, NEW r \in Requests, Stop(r) PROVE SheetInv'
<1>1. TypeOK'
  <2>1. request' \in [Requests -> Doing]
    BY DoneTypes DEF SheetInv, Stop
  <2>2. adrift' \in BOOLEAN
    BY DEF Stop
  <2> QED
    BY <2>1, <2>2 DEF SheetInv, TypeOK, Stop, setup, client
<1>2. ViewsFresh'
  BY ViewsKept DEF SheetInv, Stop, client
<1>3. ~Correcting(r) \/ ~SheetStands(r) \/ adrift'
  BY DEF Stop, Correcting
<1>4. adrift => adrift'
  BY DEF Stop
<1> QED
  BY <1>1, <1>2, <1>3, <1>4, EndStep DEF Stop, setup, client

\* A score is written under the sheet's lock, not yet committed.
LEMMA WriteScoreKeeps == ASSUME SheetInv, NEW r \in Requests, WriteScore(r) PROVE SheetInv'
<1> DEFINE doing == [request[r] EXCEPT !.at = "sum"]
<1>1. /\ request[r] \in Doing /\ request[r].at = "apply" /\ request[r].by = "jury" /\ Fits(r)
      /\ request' = [request EXCEPT ![r] = doing]
      /\ UNCHANGED <<setup, scored, client, started>>
      /\ SheetFree(r) /\ BaseMatches(request[r].id, value[request[r].criterion])
  BY DEF SheetInv, TypeOK, WriteScore, At, Becomes
<1>2. /\ doing \in Doing /\ doing.at = "sum" /\ doing.by = "jury" /\ doing.id = request[r].id
      /\ doing.criterion = request[r].criterion /\ doing.sheet = request[r].sheet
      /\ doing.score = request[r].score
  BY <1>1 DEF Doing
<1> HIDE DEF doing
<1>3. request'[r] = doing /\ Others(r) /\ request' \in [Requests -> Doing]
  BY <1>1, <1>2, OneTouched DEF SheetInv, TypeOK
<1>4. TypeOK'
  BY <1>1, <1>3 DEF SheetInv, TypeOK, setup, scored, client
<1>5. Fits(r)'
  BY <1>1, <1>2, <1>3 DEF Fits, scored, client
<1>6. Stands(r)' /\ BaseHolds(r)'
  BY <1>1, <1>2, <1>3 DEF Stands, BaseHolds, BaseMatches, scored, client
<1>7. OneWriter'
  <2>1. ASSUME NEW q \in Requests, q # r PROVE ~Uncommitted(q)'
    BY <1>1, <1>3, <2>1 DEF SheetFree, Uncommitted, Others, Same
  <2> QED
    BY <2>1 DEF OneWriter
<1>8. RevisionsPaid'
  <2>1. started <= started' /\ \A k \in Criteria : value'[k].revision <= value[k].revision
    BY <1>1, BoundsNat, ScoresAreNat DEF SheetInv, TypeOK, scored
  <2>2. Raising(r)
    BY <1>1 DEF Raising
  <2> QED
    BY <1>3, <1>4, <2>1, <2>2, RevisionsKept DEF SheetInv
<1>9. ViewsFresh'
  BY <1>1, ViewsKept DEF SheetInv, scored, client
<1>10. ~Correcting(r)
  BY <1>1 DEF Correcting
<1> QED
  BY <1>1, <1>3, <1>4, <1>5, <1>6, <1>7, <1>8, <1>9, <1>10, OwnStep DEF setup, scored, client

\* What a request leaves is a score of its criterion.
LEMMA LeavesScores ==
  ASSUME SheetInv, NEW r \in Requests, request[r].at \in {"sum", "total"}
  PROVE  With(r) \in [Criteria -> ScoreValue]
<1> DEFINE k == request[r].criterion
           new == [score |-> request[r].score, revision |-> value[k].revision + 1]
<1>1. value \in [Criteria -> ScoreValue] /\ Fits(r)
  BY DEF SheetInv, TypeOK
<1>2. CASE request[r].by = "jury"
  <2>1. k \in Criteria /\ request[r].score \in Scores
    BY <1>1, <1>2 DEF Fits
  <2>2. r \in Pending /\ value[k].revision + Cardinality(Pending) <= started /\ started <= MaxStarted
    BY <1>2, <2>1, BoundsNat DEF Pending, Raising, Uncommitted, SheetInv, RevisionsPaid, TypeOK
  <2>3. Cardinality(Pending) # 0 /\ Cardinality(Pending) \in Nat
    BY <2>2, PendingFinite, FS_EmptySet
  <2>4. value[k].revision \in Nat /\ started \in Nat /\ MaxStarted \in Nat
    BY <1>1, <2>1, ScoresAreNat, BoundsNat DEF SheetInv, TypeOK
  <2>5. value[k].revision + 1 \in Revisions \ {0}
    BY <2>2, <2>3, <2>4 DEF Revisions
  <2>6. new \in ScoreValue
    BY <2>1, <2>5 DEF ScoreValue
  <2>7. With(r) = [value EXCEPT ![k] = new]
    BY <1>2, <1>1, <2>1 DEF With
  <2> HIDE DEF new
  <2> QED
    BY <1>1, <2>6, <2>7
<1>3. CASE request[r].by # "jury"
  BY <1>1, <1>3 DEF With
<1> QED
  BY <1>2, <1>3

\* The scores are summed.
LEMMA SumTotalKeeps == ASSUME SheetInv, NEW r \in Requests, SumTotal(r) PROVE SheetInv'
<1> DEFINE sum == TotalOf(With(r))
           doing == [request[r] EXCEPT !.at = "total", !.sum = sum]
<1>1. /\ request[r] \in Doing /\ request[r].at = "sum" /\ Fits(r)
      /\ request' = [request EXCEPT ![r] = doing]
      /\ UNCHANGED <<setup, scored, client, started>>
  BY DEF SheetInv, TypeOK, SumTotal, Becomes
<1>2. sum \in Nat
  <2>1. With(r) \in [Criteria -> ScoreValue] /\ Weighing(criterion)
    BY <1>1, LeavesScores, WeightsAreNat DEF SheetInv
  <2> QED
    BY <2>1, WithNow, TotalIsNat
<1> HIDE DEF sum
<1>3. /\ doing \in Doing /\ doing.at = "total" /\ doing.by = request[r].by /\ doing.id = request[r].id
      /\ doing.criterion = request[r].criterion /\ doing.sheet = request[r].sheet
      /\ doing.score = request[r].score /\ doing.sum = sum
  BY <1>1, <1>2 DEF Doing
<1> HIDE DEF doing
<1>4. request'[r] = doing /\ Others(r) /\ request' \in [Requests -> Doing]
  BY <1>1, <1>3, OneTouched DEF SheetInv, TypeOK
<1>5. TypeOK'
  BY <1>1, <1>4 DEF SheetInv, TypeOK, setup, scored, client
<1>6. Fits(r)'
  BY <1>1, <1>3, <1>4 DEF Fits, scored, client
<1>7. Stands(r)'
  <2>1. With(r)' = With(r)
    BY <1>1, <1>3, <1>4 DEF With, scored
  <2>2. TotalOf(With(r))' = TotalOf(With(r))
    BY <1>1, <2>1, WithNext, WithNow DEF setup
  <2> QED
    BY <1>3, <1>4, <2>2 DEF Stands, sum
<1>8. BaseHolds(r)' /\ (Uncommitted(r)' <=> Uncommitted(r)) /\ (Correcting(r)' <=> Correcting(r))
      /\ (SheetStands(r)' <=> SheetStands(r))
  BY <1>1, <1>3, <1>4 DEF SheetInv, BaseHolds, BaseMatches, Uncommitted, Correcting, SheetStands, scored, client
<1>9. OneWriter'
  BY <1>4, <1>8, WritersKept DEF SheetInv
<1>10. RevisionsPaid'
  <2>1. started <= started' /\ \A k \in Criteria : value'[k].revision <= value[k].revision
    BY <1>1, BoundsNat, ScoresAreNat DEF SheetInv, TypeOK, scored
  <2>2. Raising(r)' => Raising(r)
    BY <1>1, <1>3, <1>4, <1>8 DEF Raising
  <2> QED
    BY <1>4, <1>5, <2>1, <2>2, RevisionsKept DEF SheetInv
<1>11. ViewsFresh'
  BY <1>1, ViewsKept DEF SheetInv, scored, client
<1> QED
  BY <1>1, <1>4, <1>5, <1>6, <1>7, <1>8, <1>9, <1>10, <1>11, OwnStep DEF setup, scored, client

\* A request that begins pays for the revision it may write.
LEMMA RevisionsPrepaid ==
  ASSUME TypeOK, TypeOK', RevisionsPaid, NEW r \in Requests, Others(r), ~Raising(r), Raising(r)',
         value' = value, started' = started + 1
  PROVE  RevisionsPaid'
<1>1. Cardinality(Pending') = Cardinality(Pending) + 1 /\ Cardinality(Pending) \in Nat
  BY PendingMore, PendingFinite
<1>2. \A k \in Criteria : value[k].revision \in Nat
  BY ScoresAreNat DEF TypeOK
<1>3. started \in Nat
  BY BoundsNat DEF TypeOK
<1> QED
  BY <1>1, <1>2, <1>3 DEF RevisionsPaid

\* A correction begins.
LEMMA OverrideCriterionKeeps ==
  ASSUME SheetInv, NEW r \in Requests, OverrideCriterion(r)
  PROVE  SheetInv'
<1>1. PICK k \in Criteria, s \in Scores \cup {0} :
        Becomes(r, [Idle EXCEPT !.by = "mega", !.at = "replace", !.criterion = k, !.score = s,
                                !.sheet = resets])
  BY DEF OverrideCriterion
<1> DEFINE doing == [Idle EXCEPT !.by = "mega", !.at = "replace", !.criterion = k, !.score = s,
                                 !.sheet = resets]
<1>2. resets \in 0 .. MaxResets /\ resets \in 0 .. resets
  BY BoundsNat DEF SheetInv, TypeOK
<1>3. /\ doing \in Doing /\ doing.at = "replace" /\ doing.by = "mega" /\ doing.criterion = k
      /\ doing.sheet = resets /\ request' = [request EXCEPT ![r] = doing]
  BY <1>1, <1>2 DEF Idle, Doing, Becomes
<1>4. /\ request[r].at = "idle" /\ started < MaxStarted /\ started' = started + 1
      /\ sheet' = [sheet EXCEPT !.exists = TRUE]
      /\ UNCHANGED <<setup, value, receipt, resets, adrift, client>>
  BY DEF OverrideCriterion, Free, Started, EnsureScoreSheet
<1> HIDE DEF doing
<1>5. request'[r] = doing /\ Others(r) /\ request' \in [Requests -> Doing]
  BY <1>3, OneTouched DEF SheetInv, TypeOK
<1>6. sheet' \in [exists: BOOLEAN, total: Nat] /\ sheet'.total = sheet.total
  BY <1>4 DEF SheetInv, TypeOK
<1>7. TypeOK'
  <2>1. started' \in 0 .. MaxStarted
    BY <1>4, BoundsNat DEF SheetInv, TypeOK
  <2> QED
    BY <1>4, <1>5, <1>6, <2>1 DEF SheetInv, TypeOK, setup, client
<1>8. Fits(r)' /\ Stands(r)' /\ BaseHolds(r)' /\ ~Uncommitted(r)' /\ Raising(r)'
  BY <1>2, <1>3, <1>4, <1>5 DEF Fits, Stands, BaseHolds, Uncommitted, Raising
<1>9. ~Raising(r) /\ ~Correcting(r)
  BY <1>4 DEF Raising, Uncommitted, Correcting
<1>10. OneWriter'
  BY <1>5, <1>8, WritersKept DEF SheetInv
<1>11. RevisionsPaid'
  BY <1>4, <1>5, <1>7, <1>8, <1>9, RevisionsPrepaid DEF SheetInv
<1>12. ViewsFresh'
  BY <1>4, ViewsKept DEF SheetInv, client
<1> QED
  BY <1>4, <1>5, <1>6, <1>7, <1>8, <1>9, <1>10, <1>11, <1>12, OwnStep DEF setup, client

\* A mutation passes the handler's checks.
LEMMA JurySetScoreKeeps == ASSUME SheetInv, NEW r \in Requests, JurySetScore(r) PROVE SheetInv'
<1>1. PICK id \in Mutations, k \in Criteria, s \in Scores :
        /\ IF sent[id] = None
           THEN sent' = [sent EXCEPT ![id] = [criterion |-> k, score |-> s, seen |-> page[k]]]
           ELSE sent[id].criterion = k /\ sent[id].score = s /\ UNCHANGED sent
        /\ EnsureScoreSheet
        /\ Becomes(r, [Idle EXCEPT !.by = "jury", !.at = "apply", !.id = id, !.criterion = k,
                                   !.score = s, !.sheet = resets])
  BY DEF JurySetScore
<1> DEFINE doing == [Idle EXCEPT !.by = "jury", !.at = "apply", !.id = id, !.criterion = k,
                                 !.score = s, !.sheet = resets]
           new == [criterion |-> k, score |-> s, seen |-> page[k]]
<1>2. resets \in 0 .. MaxResets /\ resets \in 0 .. resets
  BY BoundsNat DEF SheetInv, TypeOK
<1>3. /\ doing \in Doing /\ doing.at = "apply" /\ doing.by = "jury" /\ doing.criterion = k
      /\ doing.sheet = resets /\ doing.id = id /\ doing.score = s
      /\ request' = [request EXCEPT ![r] = doing]
  BY <1>1, <1>2 DEF Idle, Doing, Becomes
<1>4. /\ request[r].at = "idle" /\ started < MaxStarted /\ started' = started + 1
      /\ sheet' = [sheet EXCEPT !.exists = TRUE]
      /\ UNCHANGED <<setup, value, receipt, resets, adrift, page>>
  BY <1>1 DEF JurySetScore, Free, Started, EnsureScoreSheet
<1>5. new \in Mutation /\ new.criterion = k /\ new.seen = page[k]
  BY DEF SheetInv, TypeOK, Mutation
<1> HIDE DEF doing, new
<1>6. request'[r] = doing /\ Others(r) /\ request' \in [Requests -> Doing]
  BY <1>3, OneTouched DEF SheetInv, TypeOK
<1>7. sheet' \in [exists: BOOLEAN, total: Nat] /\ sheet'.total = sheet.total
  BY <1>4 DEF SheetInv, TypeOK
<1>8. /\ sent' \in [Mutations -> Mutation \cup {None}]
      /\ sent'[id] \in Mutation /\ sent'[id].criterion = k
      /\ \A m \in Mutations : sent[m] # None => sent'[m] = sent[m]
      /\ \A m \in Mutations : sent'[m] = sent[m] \/ (m = id /\ sent'[m] = new)
  <2>1. sent \in [Mutations -> Mutation \cup {None}]
    BY DEF SheetInv, TypeOK
  <2>2. CASE sent[id] = None
    <3>1. sent' = [sent EXCEPT ![id] = new]
      BY <1>1, <2>2 DEF new
    <3> QED
      BY <1>5, <2>1, <2>2, <3>1
  <2>3. CASE sent[id] # None
    <3>1. UNCHANGED sent /\ sent[id].criterion = k
      BY <1>1, <2>3
    <3> QED
      BY <2>1, <2>3, <3>1
  <2> QED
    BY <2>2, <2>3
<1>9. \A m \in Mutations : sent[m] \in Mutation => sent'[m] = sent[m]
  BY <1>8, NoneIsNoRecord
<1>10. TypeOK'
  <2>1. started' \in 0 .. MaxStarted
    BY <1>4, BoundsNat DEF SheetInv, TypeOK
  <2> QED
    BY <1>4, <1>6, <1>7, <1>8, <2>1 DEF SheetInv, TypeOK, setup
<1>11. Fits(r)' /\ Stands(r)' /\ BaseHolds(r)' /\ ~Uncommitted(r)' /\ Raising(r)'
  BY <1>2, <1>3, <1>4, <1>6, <1>8 DEF Fits, Stands, BaseHolds, Uncommitted, Raising
<1>12. ~Raising(r) /\ ~Correcting(r)
  BY <1>4 DEF Raising, Uncommitted, Correcting
<1>13. OneWriter'
  BY <1>6, <1>11, WritersKept DEF SheetInv
<1>14. RevisionsPaid'
  BY <1>4, <1>6, <1>10, <1>11, <1>12, RevisionsPrepaid DEF SheetInv
<1>15. ViewsFresh'
  <2>1. Fresh(new.seen, value[new.criterion])
    BY <1>5 DEF SheetInv, ViewsFresh
  <2>2. ASSUME NEW m \in Mutations, sent'[m] # None
        PROVE  Fresh(sent'[m].seen, value[sent'[m].criterion])
    <3>1. CASE sent'[m] = sent[m]
      BY <2>2, <3>1 DEF SheetInv, ViewsFresh
    <3>2. CASE sent'[m] = new
      BY <2>1, <3>2
    <3> QED
      BY <1>8, <3>1, <3>2
  <2>3. ASSUME NEW m \in Mutations, receipt[m] # None
        PROVE  sent'[m] # None /\ Fresh(receipt[m].view, value[sent'[m].criterion])
    <3>1. sent[m] # None /\ Fresh(receipt[m].view, value[sent[m].criterion])
      BY <2>3 DEF SheetInv, ViewsFresh
    <3> QED
      BY <1>8, <3>1
  <2>4. \A j \in Criteria : Fresh(page[j], value[j])
    BY DEF SheetInv, ViewsFresh
  <2> QED
    BY <1>4, <2>2, <2>3, <2>4 DEF ViewsFresh, Fresh
<1> QED
  BY <1>4, <1>6, <1>7, <1>9, <1>10, <1>11, <1>12, <1>13, <1>14, <1>15, OwnStep DEF setup

\* Edited criteria are criteria.
LEMMA CriteriaEdited ==
  ASSUME TypeOK, NEW new \in InsertCriterion \cup UpdateCriterion \cup SoftDeleteCriterion
  PROVE  new \in [Criteria -> [exists: BOOLEAN, active: BOOLEAN, weight: Weights, max: Scores]]
<1> DEFINE Rec == [exists: BOOLEAN, active: BOOLEAN, weight: Weights, max: Scores]
<1>1. criterion \in [Criteria -> Rec]
  BY DEF TypeOK
<1>2. \A c \in normalizeCriterion : c \in Rec
  BY DEF normalizeCriterion
<1> SUFFICES new \in [Criteria -> Rec]
  OBVIOUS
<1>3. CASE new \in SoftDeleteCriterion
  <2>1. PICK k \in Criteria : new = [criterion EXCEPT ![k].active = FALSE]
    BY <1>3 DEF SoftDeleteCriterion
  <2>2. [criterion[k] EXCEPT !.active = FALSE] \in Rec
    BY <1>1
  <2> HIDE DEF Rec
  <2>3. new = [criterion EXCEPT ![k] = [criterion[k] EXCEPT !.active = FALSE]]
    BY <2>1
  <2> QED
    BY <1>1, <2>2, <2>3
<1>4. CASE new \in InsertCriterion \cup UpdateCriterion
  <2>1. PICK k \in Criteria, c \in normalizeCriterion : new = [criterion EXCEPT ![k] = c]
    BY <1>4 DEF InsertCriterion, UpdateCriterion
  <2>2. c \in Rec
    BY <1>2, <2>1
  <2> HIDE DEF Rec
  <2> QED
    BY <1>1, <2>1, <2>2
<1> QED
  BY <1>3, <1>4

\* Criteria are edited under the sheets; totals may be adrift then.
LEMMA EditCriterionKeeps == ASSUME SheetInv, NEW r \in Requests, EditCriterion(r) PROVE SheetInv'
<1>1. PICK new \in InsertCriterion \cup UpdateCriterion \cup SoftDeleteCriterion :
        /\ criterion' = new
        /\ adrift' = (adrift \/ Reweighs(new))
        /\ request' = [CrossSums({q \in Requests : \E k \in Criteria : new[k].weight # criterion[k].weight})
                         EXCEPT ![r] = Idle]
  BY DEF EditCriterion
<1> DEFINE crossed == {q \in Requests : \E k \in Criteria : new[k].weight # criterion[k].weight}
<1>2. /\ request[r].at = "criterion"
      /\ UNCHANGED <<scheme, session, jury, value, sheet, receipt, resets, client, started>>
  BY DEF EditCriterion, At
<1>3. request' = [CrossSums(crossed) EXCEPT ![r] = Idle]
  BY <1>1
<1>4. crossed = {} \/ crossed = Requests
  OBVIOUS
<1>5. crossed = {} => \A k \in Criteria : new[k].weight = criterion[k].weight
  OBVIOUS
<1> HIDE DEF crossed
<1>6. /\ request'[r] = Idle /\ Others(r) /\ DOMAIN request' = Requests
      /\ \A q \in Requests \ {r} :
           /\ request'[q] \in Doing
           /\ request[q].at = "total" /\ q \in crossed => request'[q].crossed
  BY <1>3, OneTouchedCrossing DEF SheetInv
<1>7. request' \in [Requests -> Doing]
  <2>1. \A q \in Requests : request'[q] \in Doing
    BY <1>6, DoneTyped
  <2>2. request' = [q \in Requests |-> request'[q]]
    BY <1>3, <1>6
  <2> QED
    BY <2>1, <2>2
<1>8. TypeOK'
  BY <1>1, <1>2, <1>7, CriteriaEdited DEF SheetInv, TypeOK, client
<1>9. Fits(r)' /\ Stands(r)' /\ BaseHolds(r)' /\ ~Uncommitted(r)' /\ ~Raising(r)'
  BY <1>6, IdleIsFree
<1>10. \A q \in Requests : Fits(q)'
  <2>1. SentKept /\ resets <= resets'
    BY <1>2, BoundsNat DEF SheetInv, TypeOK, SentKept, client
  <2> QED
    BY <1>6, <1>8, <1>9, <2>1, FitsKept DEF SheetInv, Others
<1>11. SumsStand'
  <2>1. ASSUME NEW q \in Requests, q # r PROVE Stands(q)'
    <3>1. Same(q) /\ Stands(q)
      BY <1>6, <2>1 DEF Others, SheetInv, SumsStand
    <3>2. CASE crossed = {}
      BY <1>1, <1>2, <1>5, <3>1, <3>2, SumsKept
    <3>3. CASE crossed = Requests
      BY <1>6, <2>1, <3>1, <3>3 DEF Stands, Same
    <3> QED
      BY <1>4, <3>2, <3>3
  <2> QED
    BY <1>9, <2>1 DEF SumsStand
<1>12. TotalStands'
  <2>1. CASE Reweighs(new)
    BY <1>1, <2>1 DEF TotalStands
  <2>2. CASE ~Reweighs(new)
    <3>1. \A k \in Criteria : value[k] # NoScore => criterion'[k].weight = criterion[k].weight
      BY <1>1, <2>2 DEF Reweighs
    <3>2. TotalOf(value)' = TotalOf(value)
      BY <1>2, <1>8, <3>1, TotalKept DEF SheetInv
    <3>3. ~Correcting(r)
      BY <1>2 DEF Correcting
    <3> QED
      BY <1>1, <1>2, <1>6, <3>2, <3>3, TotalStandsKept DEF SheetInv
  <2> QED
    BY <2>1, <2>2
<1>13. \A q \in Requests : BaseHolds(q)'
  <2>1. ASSUME NEW q \in Requests, q # r PROVE BaseHolds(q)'
    BY <1>2, <1>6, <2>1, BaseKept DEF Others, SheetInv, client
  <2> QED
    BY <1>9, <2>1
<1>14. OneWriter'
  BY <1>6, <1>9, WritersKept DEF SheetInv
<1>15. RevisionsPaid'
  <2>1. started <= started' /\ \A k \in Criteria : value'[k].revision <= value[k].revision
    BY <1>2, BoundsNat, ScoresAreNat DEF SheetInv, TypeOK
  <2> QED
    BY <1>6, <1>8, <1>9, <2>1, RevisionsKept DEF SheetInv
<1>16. ViewsFresh'
  BY <1>2, ViewsKept DEF SheetInv, client
<1> QED
  BY <1>8, <1>10, <1>11, <1>12, <1>13, <1>14, <1>15, <1>16 DEF SheetInv

\* A correction writes the total it has summed.
LEMMA RefreshSheetTotalKeeps ==
  ASSUME SheetInv, NEW r \in Requests, RefreshSheetTotal(r)
  PROVE  SheetInv'
<1>1. /\ request[r].at = "total" /\ request[r].by = "mega" /\ SheetStands(r)
      /\ sheet' = [sheet EXCEPT !.total = request[r].sum]
      /\ adrift' = request[r].crossed /\ Done(r)
      /\ UNCHANGED <<setup, value, receipt, resets, client, started>>
  BY DEF RefreshSheetTotal, At
<1>2. /\ request'[r] = Idle /\ Others(r) /\ request' \in [Requests -> Doing]
  BY <1>1, OneTouched, DoneTypes DEF SheetInv, Done, Becomes
<1>3. request[r].sum \in Nat /\ request[r].crossed \in BOOLEAN
  BY DEF SheetInv, TypeOK, Doing
<1>4. sheet' \in [exists: BOOLEAN, total: Nat] /\ sheet'.total = request[r].sum
  BY <1>1, <1>3 DEF SheetInv, TypeOK
<1>5. TypeOK'
  BY <1>1, <1>2, <1>3, <1>4 DEF SheetInv, TypeOK, setup, client
<1>6. Fits(r)' /\ Stands(r)' /\ BaseHolds(r)' /\ ~Uncommitted(r)' /\ ~Raising(r)'
  BY <1>2, IdleIsFree
<1>7. /\ \A q \in Requests : Fits(q)'
      /\ SumsStand'
      /\ \A q \in Requests : BaseHolds(q)'
  BY <1>1, <1>2, <1>5, <1>6, QuietStep DEF setup, client
<1>8. TotalStands'
  <2>1. TotalOf(value)' = TotalOf(value)
    BY <1>1, <1>5, TotalKept DEF SheetInv, setup
  <2>2. With(r) = value
    BY <1>1 DEF With
  <2>3. ~request[r].crossed => request[r].sum = TotalOf(value)
    BY <1>1, <2>2 DEF SheetInv, SumsStand, Stands
  <2> QED
    BY <1>1, <1>4, <2>1, <2>3 DEF TotalStands
<1>9. OneWriter'
  BY <1>2, <1>6, WritersKept DEF SheetInv
<1>10. RevisionsPaid'
  <2>1. started <= started' /\ \A k \in Criteria : value'[k].revision <= value[k].revision
    BY <1>1, BoundsNat, ScoresAreNat DEF SheetInv, TypeOK
  <2> QED
    BY <1>2, <1>5, <1>6, <2>1, RevisionsKept DEF SheetInv
<1>11. ViewsFresh'
  BY <1>1, ViewsKept DEF SheetInv, client
<1> QED
  BY <1>5, <1>7, <1>8, <1>9, <1>10, <1>11 DEF SheetInv

-----------------------------------------------------------------------------
(* Scores deleted, replaced and applied. *)

\* What a deletion leaves of the views: those of the deleted scores are lapsed.
LEMMA Lapsed ==
  ASSUME SheetInv, NEW gone, Lapse(gone)
  PROVE  /\ page' \in [Criteria -> Views]
         /\ sent' \in [Mutations -> Mutation \cup {None}]
         /\ receipt' \in [Mutations -> Receipts \cup {None}]
         /\ SentKept
         /\ \A k \in Criteria : (page'[k] = page[k] /\ k \notin gone) \/ (page'[k].lapsed /\ k \in gone)
         /\ \A m \in Mutations : sent'[m] # None =>
              /\ sent[m] # None /\ sent'[m].criterion = sent[m].criterion
              /\ \/ sent[m].criterion \notin gone /\ sent'[m] = sent[m]
                 \/ sent[m].criterion \in gone /\ sent'[m].seen.lapsed
         /\ \A m \in Mutations : receipt'[m] # None =>
              /\ receipt[m] # None
              /\ \/ sent[m].criterion \notin gone /\ receipt'[m] = receipt[m]
                 \/ sent[m].criterion \in gone /\ receipt'[m].view.lapsed
<1>1. /\ page \in [Criteria -> Views]
      /\ sent \in [Mutations -> Mutation \cup {None}]
      /\ receipt \in [Mutations -> Receipts \cup {None}]
  BY DEF SheetInv, TypeOK
<1>2. ASSUME NEW v \in Views
      PROVE  [v EXCEPT !.lapsed = TRUE] \in Views /\ [v EXCEPT !.lapsed = TRUE].lapsed
  BY DEF Views
<1>3. ASSUME NEW m \in Mutation
      PROVE  /\ [m EXCEPT !.seen.lapsed = TRUE] \in Mutation
             /\ [m EXCEPT !.seen.lapsed = TRUE].criterion = m.criterion
             /\ [m EXCEPT !.seen.lapsed = TRUE].seen.lapsed
  <2>1. [m EXCEPT !.seen.lapsed = TRUE] = [m EXCEPT !.seen = [m.seen EXCEPT !.lapsed = TRUE]]
    OBVIOUS
  <2>2. m.seen \in Views
    BY DEF Mutation
  <2> DEFINE v == [m.seen EXCEPT !.lapsed = TRUE]
  <2>3. v \in Views /\ v.lapsed
    BY <1>2, <2>2
  <2> HIDE DEF v
  <2>4. /\ [m EXCEPT !.seen = v] \in Mutation
        /\ [m EXCEPT !.seen = v].criterion = m.criterion
        /\ [m EXCEPT !.seen = v].seen = v
    BY <2>3 DEF Mutation
  <2> QED
    BY <2>1, <2>3, <2>4 DEF v
<1>4. ASSUME NEW m \in Receipts
      PROVE  /\ [m EXCEPT !.view.lapsed = TRUE] \in Receipts
             /\ [m EXCEPT !.view.lapsed = TRUE].view.lapsed
  <2>1. [m EXCEPT !.view.lapsed = TRUE] = [m EXCEPT !.view = [m.view EXCEPT !.lapsed = TRUE]]
    OBVIOUS
  <2>2. m.view \in Views
    BY DEF Receipts
  <2> DEFINE v == [m.view EXCEPT !.lapsed = TRUE]
  <2>3. v \in Views /\ v.lapsed
    BY <1>2, <2>2
  <2> HIDE DEF v
  <2>4. [m EXCEPT !.view = v] \in Receipts /\ [m EXCEPT !.view = v].view = v
    BY <2>3 DEF Receipts
  <2> QED
    BY <2>1, <2>3, <2>4 DEF v
<1>5. ASSUME NEW k \in Criteria
      PROVE  page'[k] \in Views /\ ((page'[k] = page[k] /\ k \notin gone) \/ (page'[k].lapsed /\ k \in gone))
  <2>1. page'[k] = IF k \in gone THEN [page[k] EXCEPT !.lapsed = TRUE] ELSE page[k]
    BY DEF Lapse
  <2>2. page[k] \in Views
    BY <1>1
  <2>3. CASE k \in gone
    BY <1>2, <2>1, <2>2, <2>3
  <2>4. CASE k \notin gone
    BY <2>1, <2>2, <2>4
  <2> QED
    BY <2>3, <2>4
<1>6. ASSUME NEW m \in Mutations
      PROVE  \/ sent[m] = None /\ sent'[m] = None
             \/ sent[m] \in Mutation /\ sent'[m] = sent[m] /\ sent[m].criterion \notin gone
             \/ /\ sent[m] \in Mutation /\ sent'[m] \in Mutation /\ sent[m].criterion \in gone
                /\ sent'[m].criterion = sent[m].criterion /\ sent'[m].seen.lapsed
  <2>1. sent'[m] = IF sent[m] # None /\ sent[m].criterion \in gone
                   THEN [sent[m] EXCEPT !.seen.lapsed = TRUE] ELSE sent[m]
    BY DEF Lapse
  <2> QED
    BY <1>1, <1>3, <2>1
<1>7. ASSUME NEW m \in Mutations
      PROVE  \/ receipt[m] = None /\ receipt'[m] = None
             \/ receipt[m] \in Receipts /\ receipt'[m] = receipt[m] /\ sent[m].criterion \notin gone
             \/ /\ receipt[m] \in Receipts /\ receipt'[m] \in Receipts /\ sent[m].criterion \in gone
                /\ receipt'[m].view.lapsed
  <2>1. receipt'[m] = IF receipt[m] # None /\ sent[m].criterion \in gone
                   THEN [receipt[m] EXCEPT !.view.lapsed = TRUE] ELSE receipt[m]
    BY DEF Lapse
  <2> QED
    BY <1>1, <1>4, <2>1
<1>8. page' \in [Criteria -> Views]
  <2>1. page' = [k \in Criteria |-> page'[k]]
    BY DEF Lapse
  <2> QED
    BY <1>5, <2>1
<1>9. sent' \in [Mutations -> Mutation \cup {None}]
  <2>1. sent' = [m \in Mutations |-> sent'[m]]
    BY DEF Lapse
  <2>2. \A m \in Mutations : sent'[m] \in Mutation \cup {None}
    BY <1>6
  <2> QED
    BY <2>1, <2>2
<1>10. receipt' \in [Mutations -> Receipts \cup {None}]
  <2>1. receipt' = [m \in Mutations |-> receipt'[m]]
    BY DEF Lapse
  <2>2. \A m \in Mutations : receipt'[m] \in Receipts \cup {None}
    BY <1>7
  <2> QED
    BY <2>1, <2>2
<1>11. SentKept
  BY <1>6, NoneIsNoRecord DEF SentKept
<1>12. \A m \in Mutations : sent'[m] # None =>
              /\ sent[m] # None /\ sent'[m].criterion = sent[m].criterion
              /\ \/ sent[m].criterion \notin gone /\ sent'[m] = sent[m]
                 \/ sent[m].criterion \in gone /\ sent'[m].seen.lapsed
  BY <1>6, NoneIsNoRecord
<1>13. \A m \in Mutations : receipt'[m] # None =>
              /\ receipt[m] # None
              /\ \/ sent[m].criterion \notin gone /\ receipt'[m] = receipt[m]
                 \/ sent[m].criterion \in gone /\ receipt'[m].view.lapsed
  BY <1>7, NoneIsNoRecord
<1> QED
  BY <1>5, <1>8, <1>9, <1>10, <1>11, <1>12, <1>13

\* Views of the scores that stay are as fresh as they were.
LEMMA LapsedViewsFresh ==
  ASSUME SheetInv, NEW gone, Lapse(gone), \A k \in Criteria \ gone : value'[k] = value[k]
  PROVE  ViewsFresh'
<1>1. ASSUME NEW k \in Criteria PROVE Fresh(page'[k], value'[k])
  BY Lapsed DEF SheetInv, ViewsFresh, Fresh
<1>2. ASSUME NEW m \in Mutations, sent'[m] # None
      PROVE  Fresh(sent'[m].seen, value'[sent'[m].criterion])
  <2>1. sent[m] # None /\ sent[m] \in Mutation \cup {None}
    BY <1>2, Lapsed DEF SheetInv, TypeOK
  <2>2. sent[m].criterion \in Criteria
    BY <2>1 DEF Mutation
  <2>3. Fresh(sent[m].seen, value[sent[m].criterion])
    BY <2>1 DEF SheetInv, ViewsFresh
  <2> QED
    BY <1>2, <2>2, <2>3, Lapsed DEF Fresh
<1>3. ASSUME NEW m \in Mutations, receipt'[m] # None
      PROVE  sent'[m] # None /\ Fresh(receipt'[m].view, value'[sent'[m].criterion])
  <2>1. receipt[m] # None /\ sent[m] # None /\ sent[m] \in Mutation \cup {None}
    BY <1>3, Lapsed DEF SheetInv, TypeOK, ViewsFresh
  <2>2. sent[m].criterion \in Criteria
    BY <2>1 DEF Mutation
  <2>3. Fresh(receipt[m].view, value[sent[m].criterion])
    BY <2>1 DEF SheetInv, ViewsFresh
  <2>4. sent'[m] \in Mutation /\ sent'[m].criterion = sent[m].criterion
    BY <2>1, Lapsed DEF SentKept
  <2> QED
    BY <1>3, <2>2, <2>3, <2>4, Lapsed, NoneIsNoRecord DEF Fresh
<1> QED
  BY <1>1, <1>2, <1>3 DEF ViewsFresh, Fresh

\* A request that may raise a revision has room to.
LEMMA MayRaise ==
  ASSUME SheetInv, NEW r \in Requests, Raising(r), NEW k \in Criteria
  PROVE  value[k].revision \in Nat /\ value[k].revision + 1 \in Revisions \ {0}
<1>1. r \in Pending /\ value[k].revision + Cardinality(Pending) <= started /\ started <= MaxStarted
  BY BoundsNat DEF Pending, SheetInv, RevisionsPaid, TypeOK
<1>2. Cardinality(Pending) # 0 /\ Cardinality(Pending) \in Nat
  BY <1>1, PendingFinite, FS_EmptySet
<1>3. value[k].revision \in Nat /\ started \in Nat /\ MaxStarted \in Nat
  BY ScoresAreNat, BoundsNat DEF SheetInv, TypeOK
<1> QED
  BY <1>1, <1>2, <1>3 DEF Revisions

\* The revision is written and the request will raise no other.
LEMMA RevisionsSpent ==
  ASSUME SheetInv, TypeOK', NEW r \in Requests, Others(r), Raising(r), ~Raising(r)',
         \A k \in Criteria : value'[k].revision <= value[k].revision + 1, started' = started
  PROVE  RevisionsPaid'
<1>1. Cardinality(Pending') = Cardinality(Pending) - 1 /\ Cardinality(Pending) \in Nat
  BY PendingFewer, PendingFinite
<1>2. \A k \in Criteria : value[k].revision \in Nat /\ value'[k].revision \in Nat
  BY ScoresAreNat DEF SheetInv, TypeOK
<1>3. started \in Nat
  BY BoundsNat DEF SheetInv, TypeOK
<1> QED
  BY <1>1, <1>2, <1>3 DEF SheetInv, RevisionsPaid

\* A score is replaced by one with the next revision, and nothing else changes.
Raises(k) ==
  /\ \A j \in Criteria : j # k => value'[j] = value[j]
  /\ value'[k].revision = value[k].revision + 1

\* A view is not made too new by a score that moves on.
LEMMA RaisedViewsFresh ==
  ASSUME SheetInv, NEW k \in Criteria, Raises(k), NEW j \in Criteria, NEW view \in Views, Fresh(view, value[j])
  PROVE  Fresh(view, value'[j])
<1>1. view.score \in ScoreValue
  BY DEF Views
<1>2. view.score.revision \in Nat /\ value[k].revision \in Nat
  BY <1>1, ScoresAreNat DEF SheetInv, TypeOK
<1> QED
  BY <1>2 DEF Fresh, Raises

\* A correction writes its score, committed alone.
LEMMA ReplaceScoreKeeps == ASSUME SheetInv, NEW r \in Requests, ReplaceScore(r) PROVE SheetInv'
<1> DEFINE k == request[r].criterion
           s == request[r].score
           new == IF s = 0 THEN NoScore ELSE [score |-> s, revision |-> value[k].revision + 1]
           doing == [request[r] EXCEPT !.at = "sum"]
<1>1. /\ request[r] \in Doing /\ request[r].at = "replace" /\ request[r].by = "mega" /\ Fits(r)
      /\ k \in Criteria /\ s \in Scores \cup {0}
  BY DEF SheetInv, TypeOK, Fits, ReplaceScore, At, Doing
<1>2. /\ SheetStands(r) /\ RowFree(k) /\ value' = [value EXCEPT ![k] = new]
      /\ IF s = 0 THEN Lapse({k}) ELSE UNCHANGED <<client, receipt>>
      /\ request' = [CrossSums(Requests) EXCEPT ![r] = doing]
      /\ UNCHANGED <<setup, sheet, resets, adrift, started>>
  BY DEF ReplaceScore
<1>3. /\ doing \in Doing /\ doing.at = "sum" /\ doing.by = "mega" /\ doing.criterion = k
      /\ doing.sheet = request[r].sheet
  BY <1>1 DEF Doing
<1>4. Raising(r)
  BY <1>1 DEF Raising
<1>5. value[k].revision \in Nat /\ value[k].revision + 1 \in Revisions \ {0}
  BY <1>1, <1>4, MayRaise
<1>6. new \in ScoreValue /\ new.revision <= value[k].revision + 1
      /\ (s # 0 => new.revision = value[k].revision + 1)
  <2>1. CASE s = 0
    <3>1. new = [score |-> 0, revision |-> 0]
      BY <2>1 DEF NoScore
    <3>2. new.revision = 0 /\ new = NoScore
      BY <3>1 DEF NoScore
    <3> HIDE DEF new
    <3> QED
      BY <1>5, <2>1, <3>2 DEF ScoreValue
  <2>2. CASE s # 0
    <3>1. s \in Scores
      BY <1>1, <2>2
    <3>2. new = [score |-> s, revision |-> value[k].revision + 1]
      BY <2>2
    <3> HIDE DEF new, s, k
    <3>3. new \in ScoreValue /\ new.revision = value[k].revision + 1
      BY <1>5, <3>1, <3>2 DEF ScoreValue
    <3> QED
      BY <1>5, <3>3
  <2> QED
    BY <2>1, <2>2
<1> HIDE DEF new, doing
<1>7. /\ value' \in [Criteria -> ScoreValue] /\ value'[k] = new
      /\ \A j \in Criteria : j # k => value'[j] = value[j]
  BY <1>1, <1>2, <1>6 DEF SheetInv, TypeOK
<1>8. /\ request'[r] = doing /\ Others(r) /\ DOMAIN request' = Requests
      /\ \A q \in Requests \ {r} :
           /\ request'[q] \in Doing
           /\ request[q].at = "total" /\ q \in Requests => request'[q].crossed
  BY <1>2, OneTouchedCrossing DEF SheetInv
<1>9. request' \in [Requests -> Doing]
  <2>1. \A q \in Requests : request'[q] \in Doing
    BY <1>3, <1>8
  <2>2. request' = [q \in Requests |-> request'[q]]
    BY <1>2, <1>8
  <2> QED
    BY <2>1, <2>2
<1>10. /\ page' \in [Criteria -> Views]
       /\ sent' \in [Mutations -> Mutation \cup {None}]
       /\ receipt' \in [Mutations -> Receipts \cup {None}]
       /\ SentKept
       /\ \A m \in Mutations : sent[m] \in Mutation => sent'[m] = sent[m] \/ sent'[m].seen.lapsed
  <2>1. CASE s = 0
    <3>1. Lapse({k})
      BY <1>2, <2>1
    <3>2. /\ page' \in [Criteria -> Views]
          /\ sent' \in [Mutations -> Mutation \cup {None}]
          /\ receipt' \in [Mutations -> Receipts \cup {None}]
          /\ SentKept
      BY <3>1, Lapsed
    <3>3. \A m \in Mutations : sent[m] \in Mutation => sent'[m] # None
      BY <3>2, NoneIsNoRecord DEF SentKept
    <3>4. \A m \in Mutations : sent'[m] # None => sent'[m] = sent[m] \/ sent'[m].seen.lapsed
      BY <3>1, Lapsed
    <3> QED
      BY <3>2, <3>3, <3>4
  <2>2. CASE s # 0
    <3>1. UNCHANGED <<page, sent, receipt>>
      BY <1>2, <2>2 DEF client
    <3> QED
      BY <3>1 DEF SheetInv, TypeOK, SentKept
  <2> QED
    BY <2>1, <2>2
<1>11. TypeOK'
  BY <1>2, <1>7, <1>9, <1>10 DEF SheetInv, TypeOK, setup
<1>12. Fits(r)' /\ Stands(r)' /\ BaseHolds(r)' /\ ~Uncommitted(r)' /\ ~Raising(r)'
       /\ Correcting(r)' /\ SheetStands(r)'
  BY <1>1, <1>2, <1>3, <1>8
     DEF Fits, Stands, BaseHolds, Uncommitted, Raising, Correcting, SheetStands
<1>13. \A q \in Requests : Fits(q)'
  <2>1. resets <= resets'
    BY <1>2, BoundsNat DEF SheetInv, TypeOK
  <2> QED
    BY <1>8, <1>10, <1>11, <1>12, <2>1, FitsKept DEF SheetInv, Others
<1>14. OneWriter'
  BY <1>8, <1>12, WritersKept DEF SheetInv
<1>15. SumsStand'
  <2>1. ASSUME NEW q \in Requests, q # r PROVE Stands(q)'
    BY <1>8, <2>1 DEF Stands, Others, Same
  <2> QED
    BY <1>12, <2>1 DEF SumsStand
<1>16. TotalStands'
  BY <1>12 DEF TotalStands
<1>17. ViewsFresh'
  <2>1. CASE s = 0
    BY <1>2, <1>7, <2>1, LapsedViewsFresh
  <2>2. CASE s # 0
    <3>1. UNCHANGED <<page, sent, receipt>> /\ Raises(k)
      BY <1>2, <1>6, <1>7, <2>2 DEF client, Raises
    <3>2. ASSUME NEW j \in Criteria PROVE Fresh(page[j], value'[j])
      BY <1>1, <3>1, RaisedViewsFresh DEF SheetInv, TypeOK, ViewsFresh
    <3>3. ASSUME NEW m \in Mutations, sent[m] # None
          PROVE  Fresh(sent[m].seen, value'[sent[m].criterion])
      <4>1. sent[m].criterion \in Criteria /\ sent[m].seen \in Views
        BY <3>3 DEF SheetInv, TypeOK, Mutation
      <4>2. Fresh(sent[m].seen, value[sent[m].criterion])
        BY <3>3 DEF SheetInv, ViewsFresh
      <4> QED
        BY <1>1, <3>1, <4>1, <4>2, RaisedViewsFresh
    <3>4. ASSUME NEW m \in Mutations, receipt[m] # None
          PROVE  sent[m] # None /\ Fresh(receipt[m].view, value'[sent[m].criterion])
      <4>1. sent[m] # None /\ Fresh(receipt[m].view, value[sent[m].criterion])
        BY <3>4 DEF SheetInv, ViewsFresh
      <4>2. sent[m].criterion \in Criteria
        BY <4>1 DEF SheetInv, TypeOK, Mutation
      <4>3. receipt[m].view \in Views
        BY <3>4 DEF SheetInv, TypeOK, Receipts
      <4> QED
        BY <1>1, <3>1, <4>1, <4>2, <4>3, RaisedViewsFresh
    <3> QED
      BY <3>1, <3>2, <3>3, <3>4 DEF ViewsFresh, Fresh
  <2> QED
    BY <2>1, <2>2
<1>18. \A q \in Requests : BaseHolds(q)'
  <2>1. ASSUME NEW q \in Requests, q # r PROVE BaseHolds(q)'
    <3>1. Same(q) /\ BaseHolds(q) /\ Fits(q)
      BY <1>8, <2>1 DEF Others, SheetInv
    <3>2. Uncommitted(q) => /\ request[q].criterion \in Criteria /\ request[q].criterion # k
                            /\ request[q].id \in Mutations /\ sent[request[q].id] \in Mutation
      BY <1>2, <3>1 DEF RowFree, Uncommitted, Fits
    <3>3. Uncommitted(q) => value'[request[q].criterion] = value[request[q].criterion]
      BY <1>7, <3>2
    <3>4. Uncommitted(q) => \/ sent'[request[q].id].seen = sent[request[q].id].seen
                            \/ sent'[request[q].id].seen.lapsed
      BY <1>10, <3>2
    <3> QED
      BY <3>1, <3>3, <3>4, BaseKept
  <2> QED
    BY <1>12, <2>1
<1>19. RevisionsPaid'
  <2>1. \A j \in Criteria : value'[j].revision <= value[j].revision + 1
    BY <1>6, <1>7, ScoresAreNat DEF SheetInv, TypeOK
  <2> QED
    BY <1>2, <1>4, <1>8, <1>11, <1>12, <2>1, RevisionsSpent
<1> QED
  BY <1>11, <1>13, <1>14, <1>15, <1>16, <1>17, <1>18, <1>19 DEF SheetInv

\* A mutation writes the total and commits.
LEMMA ApplyScoreMutationKeeps ==
  ASSUME SheetInv, NEW r \in Requests, ApplyScoreMutation(r)
  PROVE  SheetInv'
<1> DEFINE k == request[r].criterion
           id == request[r].id
           saved == With(r)[k]
           given == [view |-> Seen(saved), sheet |-> resets]
           crossed == {q \in Requests : request[q].by = "mega"}
<1>1. /\ request[r] \in Doing /\ request[r].at = "total" /\ request[r].by = "jury" /\ Fits(r)
      /\ k \in Criteria /\ id \in Mutations /\ sent[id] \in Mutation /\ sent[id].criterion = k
  BY DEF SheetInv, TypeOK, Fits, ApplyScoreMutation, At
<1>2. /\ value' = With(r)
      /\ sheet' = [sheet EXCEPT !.total = request[r].sum]
      /\ receipt' = [receipt EXCEPT ![id] = given]
      /\ adrift' = request[r].crossed
      /\ Answer(k, Seen(saved))
      /\ request' = [CrossSums(crossed) EXCEPT ![r] = Idle]
      /\ UNCHANGED <<setup, resets, sent, started>>
  BY DEF ApplyScoreMutation
<1>3. Uncommitted(r) /\ Raising(r)
  BY <1>1 DEF Uncommitted, Raising
<1>4. \A q \in Requests : q # r => ~Uncommitted(q)
  BY <1>3 DEF SheetInv, OneWriter
<1>5. With(r) \in [Criteria -> ScoreValue]
  BY <1>1, LeavesScores
<1>6. saved \in ScoreValue /\ value'[k] = saved /\ Raises(k)
  BY <1>1, <1>2, <1>5 DEF With, Raises, SheetInv, TypeOK
<1> HIDE DEF saved
<1>7. Seen(saved) \in Views /\ Fresh(Seen(saved), saved)
  BY <1>6 DEF Seen, Views, Fresh
<1>8. given \in Receipts /\ given.view = Seen(saved)
  BY <1>7 DEF SheetInv, TypeOK, Receipts
<1> HIDE DEF given, crossed, id, k
<1>9. /\ request'[r] = Idle /\ Others(r) /\ DOMAIN request' = Requests
      /\ \A q \in Requests \ {r} :
           /\ request'[q] \in Doing
           /\ request[q].at = "total" /\ q \in crossed => request'[q].crossed
  BY <1>2, OneTouchedCrossing DEF SheetInv
<1>10. request' \in [Requests -> Doing]
  <2>1. \A q \in Requests : request'[q] \in Doing
    BY <1>9, DoneTyped
  <2>2. request' = [q \in Requests |-> request'[q]]
    BY <1>2, <1>9
  <2> QED
    BY <2>1, <2>2
<1>11. request[r].sum \in Nat /\ request[r].crossed \in BOOLEAN
  BY <1>1 DEF Doing
<1>12. sheet' \in [exists: BOOLEAN, total: Nat] /\ sheet'.total = request[r].sum
  BY <1>2, <1>11 DEF SheetInv, TypeOK
<1>13. /\ page' \in [Criteria -> Views]
       /\ receipt' \in [Mutations -> Receipts \cup {None}] /\ receipt'[id] = given
       /\ \A m \in Mutations : m # id => receipt'[m] = receipt[m]
  BY <1>1, <1>2, <1>7, <1>8, AnswerTypes DEF SheetInv, TypeOK, id, k
<1>14. TypeOK'
  BY <1>2, <1>5, <1>10, <1>11, <1>12, <1>13 DEF SheetInv, TypeOK, setup
<1>15. Fits(r)' /\ Stands(r)' /\ BaseHolds(r)' /\ ~Uncommitted(r)' /\ ~Raising(r)'
  BY <1>9, IdleIsFree
<1>16. \A q \in Requests : Fits(q)'
  <2>1. SentKept /\ resets <= resets'
    BY <1>2, BoundsNat DEF SheetInv, TypeOK, SentKept
  <2> QED
    BY <1>9, <1>14, <1>15, <2>1, FitsKept DEF SheetInv, Others
<1>17. OneWriter'
  BY <1>9, <1>15, WritersKept DEF SheetInv
<1>18. SumsStand'
  <2>1. ASSUME NEW q \in Requests, q # r PROVE Stands(q)'
    <3>1. request[q].at = "total" => request[q].by = "mega"
      BY <1>4, <2>1 DEF SheetInv, Fits, Uncommitted
    <3> QED
      BY <1>9, <2>1, <3>1 DEF Stands, Others, Same, crossed
  <2> QED
    BY <1>15, <2>1 DEF SumsStand
<1>19. TotalStands'
  <2>1. TotalOf(value)' = SumFunctionOnSet(Terms(With(r), criterion), Criteria)
    BY <1>2, TotalIsSumNext DEF setup
  <2>2. TotalOf(value)' = TotalOf(With(r))
    BY <2>1, WithNow
  <2>3. ~request[r].crossed => request[r].sum = TotalOf(With(r))
    BY <1>1 DEF SheetInv, SumsStand, Stands
  <2> QED
    BY <1>2, <1>12, <2>2, <2>3 DEF TotalStands
<1>20. ViewsFresh'
  <2>1. ASSUME NEW j \in Criteria PROVE Fresh(page'[j], value'[j])
    <3>1. page'[j] = page[j] \/ (j = k /\ page'[j] = Seen(saved))
      BY <1>2 DEF Answer, SheetInv, TypeOK
    <3>2. page[j] \in Views /\ Fresh(page[j], value[j])
      BY DEF SheetInv, TypeOK, ViewsFresh
    <3>3. k \in Criteria
      BY <1>1 DEF k
    <3> QED
      BY <1>6, <1>7, <3>1, <3>2, <3>3, RaisedViewsFresh DEF k
  <2>2. ASSUME NEW m \in Mutations, sent[m] # None
        PROVE  Fresh(sent[m].seen, value'[sent[m].criterion])
    <3>1. sent[m].criterion \in Criteria /\ sent[m].seen \in Views
      BY <2>2 DEF SheetInv, TypeOK, Mutation
    <3>2. Fresh(sent[m].seen, value[sent[m].criterion])
      BY <2>2 DEF SheetInv, ViewsFresh
    <3> QED
      BY <1>1, <1>6, <3>1, <3>2, RaisedViewsFresh DEF k
  <2>3. ASSUME NEW m \in Mutations, receipt'[m] # None
        PROVE  sent[m] # None /\ Fresh(receipt'[m].view, value'[sent[m].criterion])
    <3>1. CASE m = id
      <4>1. sent[m] # None /\ sent[m].criterion = k
        BY <1>1, <3>1, NoneIsNoRecord DEF id, k
      <4>2. receipt'[m].view = Seen(saved) /\ value'[k] = saved
        BY <1>6, <1>8, <1>13, <3>1 DEF k
      <4> QED
        BY <1>7, <4>1, <4>2
    <3>2. CASE m # id
      <4>1. receipt'[m] = receipt[m] /\ receipt[m] # None
        BY <1>13, <2>3, <3>2
      <4>2. sent[m] # None /\ Fresh(receipt[m].view, value[sent[m].criterion])
        BY <4>1 DEF SheetInv, ViewsFresh
      <4>3. sent[m].criterion \in Criteria
        BY <4>2 DEF SheetInv, TypeOK, Mutation
      <4>4. receipt[m].view \in Views
        BY <4>1 DEF SheetInv, TypeOK, Receipts
      <4> QED
        BY <1>1, <1>6, <4>1, <4>2, <4>3, <4>4, RaisedViewsFresh DEF k
    <3> QED
      BY <3>1, <3>2
  <2> QED
    BY <1>2, <2>1, <2>2, <2>3 DEF ViewsFresh, Fresh
<1>21. \A q \in Requests : BaseHolds(q)'
  <2>1. ASSUME NEW q \in Requests, q # r PROVE BaseHolds(q)'
    BY <1>4, <1>9, <2>1 DEF BaseHolds, Uncommitted, Others, Same
  <2> QED
    BY <1>15, <2>1
<1>22. RevisionsPaid'
  <2>1. \A j \in Criteria : value'[j].revision <= value[j].revision + 1
    BY <1>1, <1>6, ScoresAreNat DEF SheetInv, TypeOK, Raises, k
  <2> QED
    BY <1>2, <1>3, <1>9, <1>14, <1>15, <2>1, RevisionsSpent
<1> QED
  BY <1>14, <1>16, <1>17, <1>18, <1>19, <1>20, <1>21, <1>22 DEF SheetInv

\* A reset deletes the sheet and keeps the receipts.
LEMMA ResetChallengeRuntimeKeeps == ASSUME SheetInv, ResetChallengeRuntime PROVE SheetInv'
<1>1. /\ resets < MaxResets /\ resets' = resets + 1 /\ \A q \in Requests : ~Uncommitted(q)
      /\ value' = [k \in Criteria |-> NoScore] /\ sheet' = NoSheet /\ adrift' = FALSE
      /\ Lapse(Criteria) /\ session' = "NOT_STARTED" /\ jury' \in Assignments
      /\ UNCHANGED <<scheme, criterion, request, started>>
  BY DEF ResetChallengeRuntime, SheetInv, TypeOK
<1>2. resets \in Nat /\ resets' \in 0 .. MaxResets /\ resets' \notin 0 .. resets
  BY <1>1, BoundsNat DEF SheetInv, TypeOK
<1>3. /\ page' \in [Criteria -> Views]
      /\ sent' \in [Mutations -> Mutation \cup {None}]
      /\ receipt' \in [Mutations -> Receipts \cup {None}]
      /\ SentKept
  BY <1>1, Lapsed
<1>4. value' \in [Criteria -> ScoreValue] /\ \A k \in Criteria : value'[k] = NoScore
  BY <1>1 DEF ScoreValue
<1>5. TypeOK'
  BY <1>1, <1>2, <1>3, <1>4 DEF SheetInv, TypeOK, NoSheet, States
<1>6. \A q \in Requests : Same(q)
  BY <1>1, NobodyTouched
<1>7. \A q \in Requests : Fits(q)'
  BY <1>1, <1>2, <1>3, <1>5, <1>6, FitsKept DEF SheetInv
<1>8. \A q \in Requests : ~Uncommitted(q)'
  BY <1>1 DEF Uncommitted
<1>9. OneWriter' /\ \A q \in Requests : BaseHolds(q)'
  BY <1>8 DEF OneWriter, BaseHolds
<1>10. SumsStand'
  <2>1. ASSUME NEW q \in Requests PROVE Stands(q)'
    <3>1. Fits(q) /\ ~Uncommitted(q)
      BY <1>1 DEF SheetInv
    <3>2. request[q].at = "total" => request[q].by = "mega" /\ request[q].sheet # resets'
      BY <1>2, <3>1 DEF Fits, Uncommitted
    <3> QED
      BY <1>1, <3>2 DEF Stands, SheetStands
  <2> QED
    BY <2>1 DEF SumsStand
<1>11. TotalStands'
  <2>1. Weighing(criterion')
    BY <1>5, WeightsAreNatNext
  <2> DEFINE v == value'
             w == criterion'
  <2>2. TotalOf(value)' = SumFunctionOnSet(Terms(v, w), Criteria)
    BY TotalIsSumNext
  <2>3. Weighing(w) /\ \A k \in Criteria : v[k] = NoScore
    BY <1>4, <2>1
  <2> HIDE DEF v, w
  <2>4. SumFunctionOnSet(Terms(v, w), Criteria) = 0
    BY <2>3, EmptyTotal
  <2> QED
    BY <1>1, <2>2, <2>4 DEF TotalStands, NoSheet
<1>12. ViewsFresh'
  BY <1>1, LapsedViewsFresh
<1>13. RevisionsPaid'
  <2>1. PICK r : r \notin Requests
    BY NoSetContainsEverything
  <2>2. Others(r) /\ (Raising(r)' => Raising(r))
    BY <1>1, Untouched
  <2>3. \A k \in Criteria : value'[k].revision <= value[k].revision
    BY <1>4, ScoresAreNat DEF SheetInv, TypeOK, NoScore
  <2>4. started <= started'
    BY <1>1, BoundsNat DEF SheetInv, TypeOK
  <2> QED
    BY <1>5, <2>2, <2>3, <2>4, RevisionsKept DEF SheetInv
<1> QED
  BY <1>5, <1>7, <1>9, <1>10, <1>11, <1>12, <1>13 DEF SheetInv

\* There is no sheet.
LEMMA SheetInit == Init => SheetInv
<1> SUFFICES ASSUME Init PROVE SheetInv
  OBVIOUS
<1>1. /\ value = [k \in Criteria |-> NoScore] /\ sheet = NoSheet /\ adrift = FALSE /\ started = 0 /\ resets = 0
      /\ page = [k \in Criteria |-> Seen(NoScore)] /\ sent = [m \in Mutations |-> None]
      /\ receipt = [m \in Mutations |-> None] /\ request = [r \in Requests |-> Idle]
      /\ session = "NOT_STARTED" /\ jury = "contest"
      /\ scheme = [type |-> "CRITERIA_SCORING", policy |-> "WHILE_TRIAL_ACTIVE"]
  BY DEF Init
<1>2. PICK w \in Weights, m \in Scores :
        criterion \in [Criteria -> [exists: BOOLEAN, active: {TRUE}, weight: {w}, max: {m}]]
  BY DEF Init
<1>3. criterion \in [Criteria -> [exists: BOOLEAN, active: BOOLEAN, weight: Weights, max: Scores]]
  <2>1. \A k \in Criteria : criterion[k] \in [exists: BOOLEAN, active: BOOLEAN, weight: Weights, max: Scores]
    BY <1>2
  <2> QED
    BY <1>2, <2>1
<1>4. NoScore \in ScoreValue /\ Seen(NoScore) \in Views
  BY DEF ScoreValue, Seen, Views
<1>5. \A r \in Requests : request[r] = Idle /\ request[r].at = "idle"
  BY <1>1 DEF Idle
<1>6. TypeOK
  <2>1. started \in 0 .. MaxStarted /\ resets \in 0 .. MaxResets
    BY <1>1, BoundsNat
  <2>2. request \in [Requests -> Doing]
    BY <1>1, DoneTyped
  <2>3. scheme \in [type: SchemeTypes, policy: EditPolicies] /\ sheet \in [exists: BOOLEAN, total: Nat]
    BY <1>1 DEF SchemeTypes, UsesCriteria, EditPolicies, NoSheet
  <2>4. session \in States /\ jury \in Assignments /\ adrift \in BOOLEAN
    BY <1>1 DEF States, Assignments
  <2>5. /\ value \in [Criteria -> ScoreValue] /\ page \in [Criteria -> Views]
        /\ sent \in [Mutations -> Mutation \cup {None}] /\ receipt \in [Mutations -> Receipts \cup {None}]
    BY <1>1, <1>4
  <2> QED
    BY <1>3, <2>1, <2>2, <2>3, <2>4, <2>5 DEF TypeOK
<1>7. \A r \in Requests : Fits(r) /\ Stands(r) /\ BaseHolds(r) /\ ~Uncommitted(r) /\ ~Raising(r)
  BY <1>5 DEF Fits, Stands, BaseHolds, Uncommitted, Raising
<1>8. OneWriter /\ SumsStand
  BY <1>7 DEF OneWriter, SumsStand
<1>9. TotalStands
  <2>1. TotalOf(value) = 0
    BY <1>1, <1>6, WeightsAreNat, EmptyTotal, TotalIsSum
  <2> QED
    BY <1>1, <2>1 DEF TotalStands, NoSheet
<1>10. ViewsFresh
  BY <1>1 DEF ViewsFresh, Fresh, Seen
<1>11. RevisionsPaid
  <2>1. Pending = {}
    BY <1>7 DEF Pending
  <2>2. Cardinality(Pending) = 0
    BY <2>1, FS_EmptySet
  <2>3. \A k \in Criteria : value[k].revision = 0
    BY <1>1 DEF NoScore
  <2> QED
    BY <1>1, <2>2, <2>3 DEF RevisionsPaid
<1> QED
  BY <1>6, <1>7, <1>8, <1>9, <1>10, <1>11 DEF SheetInv

\* Every step keeps the invariant of the sheet.
LEMMA SheetStep == SheetInv /\ [Next]_vars => SheetInv'
<1> SUFFICES ASSUME SheetInv, [Next]_vars PROVE SheetInv'
  OBVIOUS
<1>1. ASSUME NEW r \in Requests, NEW at \in {"scheme", "criterion"}, BeginSchemeEdit(r, at) PROVE SheetInv'
  BY <1>1, BeginSchemeEditKeeps
<1>2. ASSUME NEW r \in Requests, Put(r) \/ EditCriterion(r) PROVE SheetInv'
  BY <1>2, PutKeeps, EditCriterionKeeps
<1>3. ASSUME NEW r \in Requests, JurySetScore(r) \/ ExistingScoreReceipt(r) \/ RevisionConflict(r) PROVE SheetInv'
  BY <1>3, JurySetScoreKeeps, ExistingScoreReceiptKeeps, RevisionConflictKeeps
<1>4. ASSUME NEW r \in Requests, WriteScore(r) \/ SumTotal(r) \/ ApplyScoreMutation(r) PROVE SheetInv'
  BY <1>4, WriteScoreKeeps, SumTotalKeeps, ApplyScoreMutationKeeps
<1>5. ASSUME NEW r \in Requests, OverrideCriterion(r) \/ ReplaceScore(r) \/ RefreshSheetTotal(r) \/ Stop(r)
      PROVE  SheetInv'
  BY <1>5, OverrideCriterionKeeps, ReplaceScoreKeeps, RefreshSheetTotalKeeps, StopKeeps
<1>6. CASE JuryScorecard \/ SetRemoteJury \/ SaveSession \/ ResetChallengeRuntime
  BY <1>6, JuryScorecardKeeps, SetRemoteJuryKeeps, SaveSessionKeeps, ResetChallengeRuntimeKeeps
<1>7. CASE UNCHANGED vars
  BY <1>7, StutterKeeps
<1> QED
  BY <1>1, <1>2, <1>3, <1>4, <1>5, <1>6, <1>7 DEF Next

\* The invariant of the sheet holds in every behaviour.
THEOREM SheetCorrect == Spec => []SheetInv
BY SheetInit, SheetStep, PTL DEF Spec

\* Every variable of the sheet has its type: no revision outgrows the requests that were started, and
\* no score is given that cannot be given.
THEOREM SheetTypeCorrect == Spec => []TypeOK
BY SheetCorrect, PTL DEF SheetInv

\* The cached total is what the scores add up to, unless it is adrift or a correction is under way
\* (repo_scores.go:43, the lock of the whole sheet; repo_scores.go:112, the refresh).
THEOREM TotalsStandFirm == Spec => []TotalsAgree
<1>1. SheetInv => TotalsAgree
  BY DEF SheetInv, TotalStands, TotalsAgree, Correcting
<1> QED
  BY <1>1, SheetCorrect, PTL

ReplacesSeen ==
  \A r \in Requests :
    At(r, "jury", "total") /\ value' # value /\ request'[r] = Idle
      => \/ sent[request[r].id].seen.lapsed
         \/ value[request[r].criterion] = sent[request[r].id].seen.score

\* Every step replaces only what the page saw.
LEMMA ReplacesStep ==
  SheetInv /\ [Next]_vars => [ReplacesSeen]_vars
<1> SUFFICES ASSUME SheetInv, Next, NEW r \in Requests, At(r, "jury", "total"), value' # value, request'[r] = Idle
             PROVE  sent[request[r].id].seen.lapsed \/ value[request[r].criterion] = sent[request[r].id].seen.score
  BY DEF ReplacesSeen
<1>1. Uncommitted(r) /\ request'[r].at = "idle"
  BY DEF Uncommitted, At, Idle
<1>2. PICK q \in Requests : ApplyScoreMutation(q)
  <2>1. ~ResetChallengeRuntime
    BY <1>1 DEF ResetChallengeRuntime
  <2>2. ASSUME NEW q \in Requests, ReplaceScore(q) PROVE FALSE
    <3>1. q # r /\ Others(q)
      BY <2>2, OneTouchedCrossing DEF SheetInv, ReplaceScore, At
    <3> QED
      BY <1>1, <3>1 DEF Others, Same, At
  <2>3. \A q \in Requests : ~ReplaceScore(q)
    BY <2>2
  <2> QED
    BY <2>1, <2>3 DEF Next, BeginSchemeEdit, Put, EditCriterion, JurySetScore, ExistingScoreReceipt,
       RevisionConflict, WriteScore, SumTotal, OverrideCriterion, RefreshSheetTotal, Stop,
       JuryScorecard, SetRemoteJury, SaveSession, scored
<1>3. q = r
  BY <1>1, <1>2 DEF SheetInv, OneWriter, ApplyScoreMutation, At, Uncommitted
<1>4. /\ request[r].criterion \in Criteria /\ request[r].id \in Mutations
      /\ sent[request[r].id] \in Mutation /\ sent[request[r].id].criterion = request[r].criterion
  BY DEF SheetInv, Fits, At
<1>5. Fresh(sent[request[r].id].seen, value[request[r].criterion])
  BY <1>4, NoneIsNoRecord DEF SheetInv, ViewsFresh
<1>6. \/ sent[request[r].id].seen.lapsed
      \/ value[request[r].criterion].revision = sent[request[r].id].seen.score.revision
  BY <1>1 DEF SheetInv, BaseHolds, BaseMatches
<1>7. value[request[r].criterion].revision \in Nat
  BY <1>4, ScoresAreNat DEF SheetInv, TypeOK
<1> QED
  BY <1>5, <1>6, <1>7 DEF Fresh

\* No mutation replaces a score its page had not seen, in whatever order requests, corrections and
\* answers arrive, unless the score was deleted in between (repo_scores.go:52-66).
THEOREM NothingUnseenReplaced == Spec => ReplacesWhatItSaw
<1>1. [ReplacesSeen]_vars <=>
      [\A r \in Requests :
         LET k == request[r].criterion
             seen == sent[request[r].id].seen
         IN At(r, "jury", "total") /\ value' # value /\ request'[r] = Idle
              => seen.lapsed \/ value[k] = seen.score]_vars
  BY DEF ReplacesSeen
<1> QED
  BY <1>1, ReplacesStep, SheetCorrect, PTL DEF Spec, ReplacesWhatItSaw
=============================================================================
