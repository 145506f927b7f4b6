-------------------------------- MODULE Sheet --------------------------------
(***************************************************************************)
(* One score sheet, of one jury member for one performance, as the         *)
(* database sees it: the scores with their revisions, the cached total,    *)
(* the jury's mutations, each one transaction, the mega-administrator's    *)
(* corrections, each a row of statements of their own, and the scheme and  *)
(* criteria the scores are given under (backend/internal/modules/          *)
(* evaluation: service.go, service_scores.go, service_override.go,         *)
(* repo_scores.go).                                                        *)
(*                                                                         *)
(* PostgreSQL runs at READ COMMITTED: a statement reads what was committed *)
(* when it began, and an UPDATE that had to wait for a row writes the sum  *)
(* it read before it waited.  The total is therefore summed in one step    *)
(* and written in another.  ScoreSync follows one mutation from the screen *)
(* to this table; here the screen is what it last saw of each score.       *)
(***************************************************************************)
EXTENDS Standings, Functions

CONSTANTS
  Requests,    \* requests that can be in progress at the same time
  Criteria,
  Scores,      \* scores that can be given
  Weights,     \* weights a criterion can have
  Mutations,   \* ids the jury's pages give their mutations
  MaxStarted,  \* bound on the requests that are started
  MaxResets    \* bound on the resets of the challenge's results

ASSUME ScoresNat == Scores \subseteq Nat \ {0} /\ Weights \subseteq Nat \ {0}
ASSUME BoundsNat == MaxStarted \in Nat /\ MaxResets \in Nat
ASSUME FinitelyMany == IsFiniteSet(Criteria) /\ IsFiniteSet(Requests)

VARIABLES
  scheme,     \* evaluation_schemes: type and edit_policy
  criterion,  \* evaluation_criteria: whether the row exists and is active, weight, max_score
  session,    \* evaluation_sessions.state
  jury,       \* evaluation_staff_assignments: nobody is named for the challenge and the contest's
              \* jury judges it, or this jury member is named, or only others are
  value,      \* score_values of the sheet: score and revision by criterion
  sheet,      \* score_sheets: whether the row exists, and total_score_cache
  receipt,    \* evaluation_score_mutations: what each applied mutation wrote, and in which sheet
  sent,       \* what each mutation id was first sent with
  page,       \* what the jury member's page last saw of each score
  request,    \* what each request is doing and what it has read
  started,    \* requests started so far
  resets,     \* resets so far; a sheet made after n of them is the n-th
  adrift      \* the cached total was written by requests that do not wait for each other

vars == <<scheme, criterion, session, jury, value, sheet, receipt, sent, page, request, started, resets, adrift>>
setup == <<scheme, criterion, session, jury>>
client == <<sent, page>>
scored == <<value, sheet, receipt, resets, adrift>>

UsesCriteria == {"CRITERIA_SCORING", "REMOTE_CRITERIA"}
SchemeTypes == UsesCriteria \cup {"NUMERIC_RESULT"}
EditPolicies == {"WHILE_TRIAL_ACTIVE", "ALWAYS"}
Assignments == {"contest", "named", "others"}
States == {"NOT_STARTED", "LIVE", "FINISHED"}

Revisions == 0 .. MaxStarted
NoScore == [score |-> 0, revision |-> 0]
ScoreValue == [score: Scores, revision: Revisions \ {0}] \cup {NoScore}
NoSheet == [exists |-> FALSE, total |-> 0]

\* a score as a page saw it; lapsed once the row is deleted, for its revisions begin again
Seen(score) == [score |-> score, lapsed |-> FALSE]
Views == [score: ScoreValue, lapsed: BOOLEAN]
Mutation == [criterion: Criteria, score: Scores, seen: Views]
Receipts == [view: Views, sheet: 0 .. MaxResets]

ASSUME NoneIsNoRecord == None \notin Mutation /\ None \notin Receipts

Doing ==
  [at: {"idle", "apply", "sum", "total", "replace", "scheme", "criterion"},
   by: {None, "jury", "mega", "editor"}, id: Mutations \cup {None},
   criterion: Criteria \cup {None}, score: Scores \cup {0}, sheet: 0 .. MaxResets \cup {None},
   sum: Nat, crossed: BOOLEAN]
Idle == [at |-> "idle", by |-> None, id |-> None, criterion |-> None, score |-> 0, sheet |-> None,
         sum |-> 0, crossed |-> FALSE]

TypeOK ==
  /\ scheme \in [type: SchemeTypes, policy: EditPolicies]
  /\ criterion \in [Criteria -> [exists: BOOLEAN, active: BOOLEAN, weight: Weights, max: Scores]]
  /\ session \in States
  /\ jury \in Assignments
  /\ value \in [Criteria -> ScoreValue]
  /\ sheet \in [exists: BOOLEAN, total: Nat]
  /\ receipt \in [Mutations -> Receipts \cup {None}]
  /\ sent \in [Mutations -> Mutation \cup {None}]
  /\ page \in [Criteria -> Views]
  /\ request \in [Requests -> Doing]
  /\ started \in 0 .. MaxStarted
  /\ resets \in 0 .. MaxResets
  /\ adrift \in BOOLEAN

Init ==
  /\ scheme = [type |-> "CRITERIA_SCORING", policy |-> "WHILE_TRIAL_ACTIVE"]
  /\ \E w \in Weights, m \in Scores :
       criterion \in [Criteria -> [exists: BOOLEAN, active: {TRUE}, weight: {w}, max: {m}]]
  /\ session = "NOT_STARTED"
  /\ jury = "contest"
  /\ value = [k \in Criteria |-> NoScore]
  /\ sheet = NoSheet
  /\ receipt = [m \in Mutations |-> None]
  /\ sent = [m \in Mutations |-> None]
  /\ page = [k \in Criteria |-> Seen(NoScore)]
  /\ request = [r \in Requests |-> Idle]
  /\ started = 0
  /\ resets = 0
  /\ adrift = FALSE

Free(r) == request[r].at = "idle"
At(r, by, at) == request[r].by = by /\ request[r].at = at
Becomes(r, doing) == request' = [request EXCEPT ![r] = doing]
Done(r) == Becomes(r, Idle)
Started == started < MaxStarted /\ started' = started + 1

Active(k) == criterion[k].exists /\ criterion[k].active

\* what the scores of the sheet add up to; deleted criteria count as long as their scores stay
TotalOf(scores) == SumFunction([k \in Criteria |-> scores[k].score * criterion[k].weight])

\* a jury member's transaction that has written a score and not committed it holds the row
Uncommitted(r) == request[r].by = "jury" /\ request[r].at \in {"sum", "total"}
RowFree(k) == \A r \in Requests : Uncommitted(r) => request[r].criterion # k

----------------------------------------------------------------------------
(* The scheme and its criteria                                              *)

sessionLocked == session # "NOT_STARTED"

\* the session's state is read, and the change is made later whatever the state has become
BeginSchemeEdit(r, at) ==
  /\ Free(r) /\ Started
  /\ ~sessionLocked
  /\ Becomes(r, [Idle EXCEPT !.by = "editor", !.at = at])
  /\ UNCHANGED <<setup, scored, client>>

\* what the checks let through of the scheme that was sent
normalizeScheme == [type: SchemeTypes, policy: EditPolicies]
UpsertScheme == scheme' \in normalizeScheme

Put(r) ==
  /\ At(r, "editor", "scheme")
  /\ UpsertScheme
  /\ Done(r)
  /\ UNCHANGED <<criterion, session, jury, scored, client, started>>

normalizeCriterion == [exists: {TRUE}, active: {TRUE}, weight: Weights, max: Scores]

InsertCriterion ==
  {[criterion EXCEPT ![k] = c] : k \in {l \in Criteria : ~criterion[l].exists}, c \in normalizeCriterion}
UpdateCriterion ==
  {[criterion EXCEPT ![k] = c] : k \in {l \in Criteria : Active(l)}, c \in normalizeCriterion}
SoftDeleteCriterion ==
  {[criterion EXCEPT ![k].active = FALSE] : k \in {l \in Criteria : Active(l)}}

\* a score already given under another weight: no criterion's edit refreshes a total
Reweighs(new) == \E k \in Criteria : value[k] # NoScore /\ new[k].weight # criterion[k].weight

\* every sum that has been read and not written yet
CrossSums(crossed) ==
  [r \in Requests |-> IF request[r].at = "total" /\ r \in crossed
                      THEN [request[r] EXCEPT !.crossed = TRUE] ELSE request[r]]

EditCriterion(r) ==
  /\ At(r, "editor", "criterion")
  /\ \E new \in InsertCriterion \cup UpdateCriterion \cup SoftDeleteCriterion :
       /\ criterion' = new
       /\ adrift' = (adrift \/ Reweighs(new))
       /\ request' = [CrossSums({q \in Requests : \E k \in Criteria : new[k].weight # criterion[k].weight})
                        EXCEPT ![r] = Idle]
  /\ UNCHANGED <<scheme, session, jury, value, sheet, receipt, resets, client, started>>

----------------------------------------------------------------------------
(* The jury's mutations                                                     *)

\* the jury member is of the contest's jury, which a remote stage has no use for: only the
\* members named for it judge it
ExclusiveChallengeJury == scheme.type = "REMOTE_CRITERIA"
juryChallenge == jury = "named" \/ (jury = "contest" /\ ~ExclusiveChallengeJury)

\* those named for a remote stage are of the remote jury
SetRemoteJury ==
  /\ ExclusiveChallengeJury
  /\ jury' \in {"contest", "others"}
  /\ UNCHANGED <<scheme, criterion, session, scored, client, request, started>>

\* the scorecard is opened: the page sees the scores as they are
JuryScorecard ==
  /\ juryChallenge /\ scheme.type \in UsesCriteria
  /\ page' = [k \in Criteria |-> Seen(value[k])]
  /\ UNCHANGED <<setup, scored, sent, request, started>>

scoringEditable == scheme.policy = "ALWAYS" \/ session # "FINISHED"

scoreInRange(k, s) == s <= criterion[k].max

EnsureScoreSheet == sheet' = [sheet EXCEPT !.exists = TRUE]

\* a mutation is sent, or sent again with the id and the body it had; everything is checked
\* before the transaction begins
JurySetScore(r) ==
  /\ Free(r) /\ Started
  /\ juryChallenge /\ scheme.type \in UsesCriteria /\ scoringEditable
  /\ \E id \in Mutations, k \in Criteria, s \in Scores :
       /\ Active(k) /\ scoreInRange(k, s)
       /\ IF sent[id] = None
          THEN sent' = [sent EXCEPT ![id] = [criterion |-> k, score |-> s, seen |-> page[k]]]
          ELSE sent[id].criterion = k /\ sent[id].score = s /\ UNCHANGED sent
       /\ EnsureScoreSheet
       /\ Becomes(r, [Idle EXCEPT !.by = "jury", !.at = "apply", !.id = id, !.criterion = k,
                                  !.score = s, !.sheet = resets])
  /\ UNCHANGED <<setup, value, receipt, resets, adrift, page>>

\* the row the request found is still there
SheetStands(r) == request[r].sheet = resets

\* a mutant: only writes to the same score wait for each other
SheetFreeOfScore(r) == RowFree(request[r].criterion)

\* no other transaction holds the advisory lock of the sheet
SheetFree(r) == \A q \in Requests \ {r} : ~Uncommitted(q)

\* the answer arrives, or is lost
Answer(k, view) == page' = [page EXCEPT ![k] = view] \/ UNCHANGED page

\* the id has been applied: its receipt answers, unless the sheet it names is gone
ExistingScoreReceipt(r) ==
  LET known == receipt[request[r].id]
  IN /\ At(r, "jury", "apply") /\ known # None
     /\ IF known.sheet = resets THEN Answer(request[r].criterion, known.view) ELSE UNCHANGED page
     /\ Done(r)
     /\ UNCHANGED <<setup, scored, sent, started>>

\* a mutant: only a page that saw no score at all is refused
BaseMatchesAny(id, current) == current.revision = 0 \/ sent[id].seen.score.revision # 0

BaseMatches(id, current) == current.revision = sent[id].seen.score.revision

\* the sheet is locked and the score read; a page that saw another revision is told
RevisionConflict(r) ==
  LET k == request[r].criterion
  IN /\ At(r, "jury", "apply") /\ receipt[request[r].id] = None /\ SheetFree(r)
     /\ ~BaseMatches(request[r].id, value[k])
     /\ Answer(k, Seen(value[k]))
     /\ Done(r)
     /\ UNCHANGED <<setup, scored, sent, started>>

\* the score is written, and not committed
WriteScore(r) ==
  /\ At(r, "jury", "apply") /\ receipt[request[r].id] = None /\ SheetFree(r)
  /\ SheetStands(r)
  /\ BaseMatches(request[r].id, value[request[r].criterion])
  /\ Becomes(r, [request[r] EXCEPT !.at = "sum"])
  /\ UNCHANGED <<setup, scored, client, started>>

\* the scores as the transaction sees them: what is committed, and its own
With(r) ==
  LET k == request[r].criterion
  IN IF request[r].by = "jury"
     THEN [value EXCEPT ![k] = [score |-> request[r].score, revision |-> @.revision + 1]]
     ELSE value

\* the UPDATE of the total begins: it reads the scores
SumTotal(r) ==
  /\ request[r].at = "sum"
  /\ Becomes(r, [request[r] EXCEPT !.at = "total", !.sum = TotalOf(With(r))])
  /\ UNCHANGED <<setup, scored, client, started>>

\* the UPDATE has the row, and the transaction commits: score, total and receipt
ApplyScoreMutation(r) ==
  LET k == request[r].criterion
      saved == With(r)[k]
  IN /\ At(r, "jury", "total")
     /\ value' = With(r)
     /\ sheet' = [sheet EXCEPT !.total = request[r].sum]
     /\ receipt' = [receipt EXCEPT ![request[r].id] = [view |-> Seen(saved), sheet |-> resets]]
     /\ adrift' = request[r].crossed
     /\ Answer(k, Seen(saved))
     /\ request' = [CrossSums({q \in Requests : request[q].by = "mega"}) EXCEPT ![r] = Idle]
     /\ UNCHANGED <<setup, resets, sent, started>>

----------------------------------------------------------------------------
(* The mega-administrator's corrections                                     *)

\* the score is deleted: whoever has seen it will meet revisions that begin again
Lapse(gone) ==
  /\ page' = [k \in Criteria |-> IF k \in gone THEN [page[k] EXCEPT !.lapsed = TRUE] ELSE page[k]]
  /\ sent' = [m \in Mutations |->
       IF sent[m] # None /\ sent[m].criterion \in gone
       THEN [sent[m] EXCEPT !.seen.lapsed = TRUE] ELSE sent[m]]
  /\ receipt' = [m \in Mutations |->
       IF receipt[m] # None /\ sent[m].criterion \in gone
       THEN [receipt[m] EXCEPT !.view.lapsed = TRUE] ELSE receipt[m]]

\* the scheme, the criterion and the score as it is are read; a score of 0 asks to delete it
OverrideCriterion(r) ==
  /\ Free(r) /\ Started
  /\ juryChallenge /\ scheme.type \in UsesCriteria
  /\ \E k \in Criteria, s \in Scores \cup {0} :
       /\ Active(k) /\ scoreInRange(k, s)
       /\ s # value[k].score
       /\ Becomes(r, [Idle EXCEPT !.by = "mega", !.at = "replace", !.criterion = k, !.score = s,
                                  !.sheet = resets])
  /\ EnsureScoreSheet
  /\ UNCHANGED <<setup, value, receipt, resets, adrift, client>>

\* the score is written or deleted at once, whatever it has become since it was read
ReplaceScore(r) ==
  LET k == request[r].criterion
      s == request[r].score
  IN /\ At(r, "mega", "replace") /\ SheetStands(r) /\ RowFree(k)
     /\ value' = [value EXCEPT ![k] =
          IF s = 0 THEN NoScore ELSE [score |-> s, revision |-> @.revision + 1]]
     /\ IF s = 0 THEN Lapse({k}) ELSE UNCHANGED <<client, receipt>>
     /\ request' = [CrossSums(Requests) EXCEPT ![r] = [request[r] EXCEPT !.at = "sum"]]
     /\ UNCHANGED <<setup, sheet, resets, adrift, started>>

\* the statement that refreshes the total has the row
RefreshSheetTotal(r) ==
  /\ At(r, "mega", "total") /\ SheetStands(r)
  /\ sheet' = [sheet EXCEPT !.total = request[r].sum]
  /\ adrift' = request[r].crossed
  /\ Done(r)
  /\ UNCHANGED <<setup, value, receipt, resets, client, started>>

\* a request ends with an error, its client gone, its sheet deleted, or the process stopped:
\* a transaction is rolled back, a correction stays where it is
Stop(r) ==
  /\ ~Free(r)
  /\ adrift' = (adrift \/ (request[r].by = "mega" /\ request[r].at \in {"sum", "total"} /\ SheetStands(r)))
  /\ Done(r)
  /\ UNCHANGED <<setup, value, sheet, receipt, resets, client, started>>

----------------------------------------------------------------------------

\* the session's commands: LiveSession has them
SaveSession ==
  /\ \/ session = "NOT_STARTED" /\ session' = "LIVE"
     \/ session = "LIVE" /\ session' = "FINISHED"
  /\ UNCHANGED <<scheme, criterion, jury, scored, client, request, started>>

\* the results are deleted in one transaction, which waits for those that hold the rows; the
\* jury of a challenge that is not a remote stage may be replaced with them
ResetChallengeRuntime ==
  /\ resets < MaxResets
  /\ \A r \in Requests : ~Uncommitted(r)
  /\ resets' = resets + 1
  /\ value' = [k \in Criteria |-> NoScore]
  /\ sheet' = NoSheet
  /\ adrift' = FALSE
  /\ Lapse(Criteria)
  /\ session' = "NOT_STARTED"
  /\ IF ExclusiveChallengeJury THEN UNCHANGED jury ELSE jury' \in Assignments
  /\ UNCHANGED <<scheme, criterion, request, started>>

Next ==
  \/ \E r \in Requests :
       \/ \E at \in {"scheme", "criterion"} : BeginSchemeEdit(r, at)
       \/ Put(r) \/ EditCriterion(r)
       \/ JurySetScore(r) \/ ExistingScoreReceipt(r) \/ RevisionConflict(r)
       \/ WriteScore(r) \/ SumTotal(r) \/ ApplyScoreMutation(r)
       \/ OverrideCriterion(r) \/ ReplaceScore(r) \/ RefreshSheetTotal(r)
       \/ Stop(r)
  \/ JuryScorecard \/ SetRemoteJury
  \/ SaveSession
  \/ ResetChallengeRuntime

Spec == Init /\ [][Next]_vars

----------------------------------------------------------------------------

\* The cached total the jury member is answered with is what the scores of the sheet add up to,
\* whenever no correction is half done.  Mutations of different criteria reach the sheet at the
\* same time and each rewrites the total from what it can see: the advisory lock of the whole
\* sheet is what keeps one from missing the other (repo_scores.go:43).  adrift is the exception:
\* corrections do not take that lock, and a new weight refreshes no total.
TotalsAgree ==
  \/ adrift
  \/ \E r \in Requests : request[r].by = "mega" /\ request[r].at \in {"sum", "total"}
  \/ sheet.total = TotalOf(value)

\* A mutation replaces the score its page saw, with that revision, or none if it saw none: not
\* one that somebody else has written since, whatever arrives in between, is repeated or is
\* answered late.  Only a score deleted in the meantime is beyond the revisions' reach
\* (repo_scores.go:52-66, the base revision checked under the lock).
ReplacesWhatItSaw ==
  [][\A r \in Requests :
       LET k == request[r].criterion
           seen == sent[request[r].id].seen
       IN At(r, "jury", "total") /\ value' # value /\ request'[r] = Idle
            => seen.lapsed \/ value[k] = seen.score]_vars
=============================================================================
