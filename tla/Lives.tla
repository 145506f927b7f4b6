------------------------------- MODULE Lives -------------------------------
(***************************************************************************)
(* The lives scheme: questions with a key, the jury's marks and life       *)
(* events (backend/internal/modules/evaluation: service_lives.go,          *)
(* repo_lives.go, lives.go), together with the live session they are about.*)
(*                                                                         *)
(* Every author has lives of their own for each contestant; those of the   *)
(* operator are the official ones.  A mark of the operator that differs    *)
(* from the key of its question takes a life, and one that agrees gives    *)
(* back the life the question took.  Each of these is several statements   *)
(* without a transaction: what is read may be stale when it is used.  The  *)
(* reads of one check are one step here, and every step of another request *)
(* may come between them and the insert they lead to.                      *)
(***************************************************************************)
EXTENDS LiveSession

CONSTANTS
  Jury,
  Answers,       \* YES and NO
  Operator,      \* the jury member whose lives are official, or None
  Starting,      \* the lives a contestant starts with
  MaxEvents      \* bound on the life events ever inserted

ASSUME OperatorOfJury == Operator \in Jury \cup {None} /\ None \notin Jury
ASSUME StartingPositive == Starting \in Nat \ {0}
ASSUME AnswersGiven == "NONE" \notin Answers
ASSUME MaxEventsNat == MaxEvents \in Nat

VARIABLES
  key,           \* evaluation_question_keys: the answer to each question, or NONE
  rows,          \* life events inserted so far: the id of the newest
  crossed,       \* history: <<author, contestant>> whose events changed under a request's feet
  stirred        \* history: the contestants another request touched while one brings them in step

histories == <<crossed, stirred>>
lifeVarsAll == <<mark, event, key, rows>>
vars == <<scheme, session, performance, order, mark, event, watcher, request, key, rows, crossed, stirred>>

Questions == 1 .. MaxQuestion

LifeInit ==
  /\ Init
  /\ key = [q \in Questions |-> "NONE"] /\ rows = 0
  /\ crossed = {} /\ stirred = [r \in Requests |-> {}]

-----------------------------------------------------------------------------
(* Lives and open events.                                                  *)

\* the events of one author about one contestant
EventsOf(author, c) == {e \in Range(event) : e.author = author /\ e.contestant = c}

Reversed(id) == \E e \in Range(event) : e.reverses = id

\* the misses of a question that nothing has reversed
OpenWrong(author, c, q) == {e \in EventsOf(author, c) : e.delta = "minus" /\ e.question = q /\ ~Reversed(e.id)}

\* the newest of them
OpenWrongEvent(author, c, q) == CHOOSE e \in OpenWrong(author, c, q) : \A f \in OpenWrong(author, c, q) : f.id <= e.id

Count(author, c, delta) == Cardinality({e \in EventsOf(author, c) : e.delta = delta})

\* the lives the checks see: the sum, and never less than 0
ViewerLives(author, c) ==
  LET gained == Starting + Count(author, c, "plus")
      lost == Count(author, c, "minus") IN
  IF lost > gained THEN 0 ELSE gained - lost

\* what an event changes on an author's board of a contestant: never less than no life
BoardStep(author, c, s, e) ==
  IF e.author # author \/ e.contestant # c THEN s
  ELSE LET lives == IF e.delta = "plus" THEN s.lives + 1
                    ELSE IF s.lives = 0 THEN 0 ELSE s.lives - 1 IN
       [lives |-> lives, out |-> IF lives = 0 THEN e.question ELSE 0]

FullLives == [lives |-> Starting, out |-> 0]

\* the lives the board shows, one event after another, and the question at which the last life went
ApplyLifeEvents(author, c) == FoldLeft(LAMBDA s, e : BoardStep(author, c, s, e), FullLives, event)

\* a mutant: only misses are brought up to date
LifeSyncActionNoRestore(answer, correct, hasOpen, lives) ==
  IF answer # correct /\ ~hasOpen /\ lives > 0 THEN "miss" ELSE "nothing"

LifeSyncAction(answer, correct, hasOpen, lives) ==
  CASE answer # correct /\ ~hasOpen /\ lives > 0 -> "miss"
    [] answer = correct /\ hasOpen -> "restore"
    [] OTHER -> "nothing"

-----------------------------------------------------------------------------
(* Requests of the jury.                                                   *)

\* the session is read: the question that is being played
Ask(r, q) ==
  /\ request[r] = Idle /\ scheme = "LIVES" /\ session.state # "FINISHED"
  /\ request' = [request EXCEPT ![r] = q]
  /\ UNCHANGED <<scheme, sessionVars, lifeVarsAll, watcher>>

JuryWrongAnswer(r) ==
  \E j \in Jury, c \in Contestants :
    Ask(r, [op |-> "wrong", at |-> "look", by |-> j, contestant |-> c, question |-> session.question])

\* the life is given back by the operator, if there is one, whoever asks
JuryRestoreLife(r) ==
  \E j \in Jury, c \in Contestants, q \in Questions :
    Ask(r, [op |-> "restore", at |-> "look", by |-> IF Operator = None THEN j ELSE Operator,
            contestant |-> c, question |-> q])

JurySetAnswer(r) ==
  \E j \in Jury, c \in Contestants, answer \in Answers :
    Ask(r, [op |-> "answer", at |-> "mark", by |-> j, contestant |-> c,
            question |-> session.question, answer |-> answer])

AdminSetCorrectAnswer(r) ==
  \E answer \in Answers :
    Ask(r, [op |-> "key", at |-> "key", question |-> session.question, answer |-> answer])

AdminSetQuestionPlan(r) ==
  \E count \in Questions : \E keys \in [1 .. count -> Answers] :
    Ask(r, [op |-> "plan", at |-> "keys", keys |-> keys, count |-> count])

\* a request that is to bring the questions up to `last` in step, from question q on
Syncing(op, stage, by, todo, q, last) ==
  [op |-> op, at |-> stage, by |-> by, todo |-> todo, question |-> q, last |-> last]

\* a request that is to insert one event
Inserting(r, c, delta, reverses) ==
  LET q == request[r]
      first == q.at = "look" IN
  [op |-> q.op, at |-> "insert", by |-> q.by, question |-> q.question,
   todo |-> IF first THEN {} ELSE {x \in q.todo : x[1] # c},
   last |-> IF first THEN q.question ELSE q.last,
   new |-> [author |-> q.by, contestant |-> c, question |-> q.question, delta |-> delta, reverses |-> reverses]]

\* a mutant: whether a life is left is not looked at
LookWrongOnly(r) ==
  /\ request[r].op = "wrong" /\ request[r].at = "look"
  /\ IF OpenWrong(request[r].by, request[r].contestant, request[r].question) # {} THEN Done(r)
     ELSE request' = [request EXCEPT ![r] = Inserting(r, request[r].contestant, "minus", 0)]
  /\ UNCHANGED <<scheme, sessionVars, lifeVarsAll, watcher>>

LookWrong(r) ==
  /\ request[r].op = "wrong" /\ request[r].at = "look"
  /\ LET c == request[r].contestant
         by == request[r].by IN
     IF OpenWrong(by, c, request[r].question) # {} \/ ViewerLives(by, c) = 0 THEN Done(r)
     ELSE request' = [request EXCEPT ![r] = Inserting(r, c, "minus", 0)]
  /\ UNCHANGED <<scheme, sessionVars, lifeVarsAll, watcher>>

LookRestore(r) ==
  /\ request[r].op = "restore" /\ request[r].at = "look"
  /\ LET c == request[r].contestant
         by == request[r].by
         q == request[r].question IN
     IF OpenWrong(by, c, q) = {} THEN Done(r)
     ELSE request' = [request EXCEPT ![r] = Inserting(r, c, "plus", OpenWrongEvent(by, c, q).id)]
  /\ UNCHANGED <<scheme, sessionVars, lifeVarsAll, watcher>>

\* only the operator's marks take lives
UpsertAnswerMark(r) ==
  /\ request[r].at = "mark"
  /\ LET q == request[r] IN
     /\ mark' = {m \in mark : <<m[1], m[2], m[3]>> # <<q.by, q.contestant, q.question>>}
                \cup {<<q.by, q.contestant, q.question, q.answer>>}
     /\ request' = [request EXCEPT ![r] =
          Syncing("answer", "sync", q.by,
                  IF q.by = Operator THEN {<<q.contestant, q.answer>>} ELSE {}, q.question, q.question)]
  /\ UNCHANGED <<scheme, sessionVars, event, key, rows, watcher>>

-----------------------------------------------------------------------------
(* Keys, and bringing the operator's life events in step with them.        *)

UpsertQuestionKey(r) ==
  /\ request[r].at = "key"
  /\ LET q == request[r].question IN
     /\ key' = [key EXCEPT ![q] = request[r].answer]
     /\ request' = [request EXCEPT ![r] = Syncing("key", "list", Operator, {}, q, q)]
  /\ UNCHANGED <<scheme, sessionVars, lifeVars, rows, watcher>>

ReplaceQuestionKeys(r) ==
  /\ request[r].at = "keys"
  /\ key' = [q \in Questions |-> IF q <= request[r].count THEN request[r].keys[q] ELSE "NONE"]
  /\ Goto(r, "count")
  /\ UNCHANGED <<scheme, sessionVars, lifeVars, rows, watcher>>

\* the count, and the current question with it, change without a new revision
SetQuestionCount(r) ==
  /\ request[r].at = "count"
  /\ LET count == request[r].count IN
     /\ session' = [session EXCEPT !.count = count, !.question = IF @ > count THEN count ELSE @]
     /\ request' = [request EXCEPT ![r] = Syncing("plan", "list", Operator, {}, 1, count)]
  /\ UNCHANGED <<scheme, performance, order, lifeVarsAll, watcher>>

\* the operator's marks of the question
ListAnswerMarks(r) ==
  /\ request[r].at = "list"
  /\ LET q == request[r].question
         marks == {m \in mark : m[1] = Operator /\ m[3] = q} IN
     request' = [request EXCEPT ![r] = Syncing(request[r].op, "sync", Operator,
                   {<<m[2], m[4]>> : m \in marks}, q, request[r].last)]
  /\ UNCHANGED <<scheme, sessionVars, lifeVarsAll, watcher>>

SyncLifeForMark(r) ==
  /\ request[r].at = "sync"
  /\ \E m \in request[r].todo :
       LET q == request[r].question
           by == request[r].by
           action == IF key[q] = "NONE" THEN "nothing"
                     ELSE LifeSyncAction(m[2], key[q], OpenWrong(by, m[1], q) # {}, ViewerLives(by, m[1])) IN
       request' = [request EXCEPT ![r] =
         CASE action = "miss" -> Inserting(r, m[1], "minus", 0)
           [] action = "restore" -> Inserting(r, m[1], "plus", OpenWrongEvent(by, m[1], q).id)
           [] OTHER -> [request[r] EXCEPT !.todo = @ \ {m}]]
  /\ UNCHANGED <<scheme, sessionVars, lifeVarsAll, watcher>>

\* an event with the id of its row
Row(e, id) == [id |-> id, author |-> e.author, contestant |-> e.contestant, question |-> e.question,
               delta |-> e.delta, reverses |-> e.reverses]

\* an event that reverses another one refers to its row, which a restart or a reset may have deleted
InsertLifeEvent(r) ==
  /\ request[r].at = "insert"
  /\ LET e == request[r].new IN
     IF e.reverses = 0 \/ e.reverses \in {f.id : f \in Range(event)}
     THEN /\ rows < MaxEvents
          /\ rows' = rows + 1
          /\ event' = Append(event, Row(e, rows + 1))
          /\ request' = [request EXCEPT ![r] =
               Syncing(@.op, "sync", @.by, @.todo, @.question, @.last)]
     ELSE Done(r) /\ UNCHANGED <<event, rows>>
  /\ UNCHANGED <<scheme, sessionVars, mark, key, watcher>>

Synced(r) == request[r].at = "sync" /\ request[r].todo = {}

\* the next question of a plan, or the end: the event of the hub has the revision there was
SyncNext(r) ==
  /\ Synced(r)
  /\ IF request[r].question < request[r].last
     THEN /\ request' = [request EXCEPT ![r] = Syncing(@.op, "list", Operator, {}, @.question + 1, @.last)]
          /\ UNCHANGED watcher
     ELSE /\ Done(r)
          /\ watcher' = [w \in Watchers |-> IF watcher[w].joined /\ watcher[w].queue < Buffer
                           THEN [watcher[w] EXCEPT !.queue = @ + 1] ELSE watcher[w]]
  /\ UNCHANGED <<scheme, sessionVars, lifeVarsAll>>

LifeOps == {"wrong", "restore", "answer", "key", "plan"}

JuryRequest(r) ==
  \/ JuryWrongAnswer(r) \/ JuryRestoreLife(r) \/ JurySetAnswer(r)
  \/ AdminSetCorrectAnswer(r) \/ AdminSetQuestionPlan(r)

-----------------------------------------------------------------------------
(* What the histories remember of a step.                                  *)

\* the request is about to insert an event of the author about the contestant
Due(r, author, c) == request[r].at = "insert" /\ request[r].new.author = author /\ request[r].new.contestant = c

\* the step changes the author's events about the contestant while another request has decided on
\* them and is about to insert, or cuts links between them (deleting them all forgets everything)
Crosses(author, c) ==
  \/ ~(EventsOf(author, c) \subseteq EventsOf(author, c)')
  \/ /\ EventsOf(author, c)' # EventsOf(author, c)
     /\ \E r \in Requests : Due(r, author, c) /\ request'[r] = request[r]

MarksOf(author, c) == {m \in mark : m[1] = author /\ m[2] = c}

\* the step changes a key, or the operator's marks or events about the contestant
Touches(c) ==
  key' # key \/ MarksOf(Operator, c)' # MarksOf(Operator, c) \/ EventsOf(Operator, c)' # EventsOf(Operator, c)

\* bringing a question in step, from the list of its marks on
InStep(q) == q.op \in {"key", "plan"} /\ q.at \in {"sync", "insert"}

Remember ==
  /\ crossed' = IF event' = <<>> THEN {}
                ELSE crossed \cup {p \in Jury \X Contestants : Crosses(p[1], p[2])}
  /\ stirred' = [r \in Requests |->
       IF ~(InStep(request[r]) /\ InStep(request'[r])) THEN {}
       ELSE IF request'[r] # request[r] THEN stirred[r]
       ELSE stirred[r] \cup {c \in Contestants : Touches(c)}]

Next ==
  \/ LiveNext /\ UNCHANGED <<key, rows>> /\ Remember
  \/ \E r \in Requests :
       \/ rows < MaxEvents /\ JuryRequest(r) /\ Remember
       \/ LookWrong(r) /\ Remember
       \/ LookRestore(r) /\ Remember
       \/ UpsertAnswerMark(r) /\ Remember
       \/ UpsertQuestionKey(r) /\ Remember
       \/ ReplaceQuestionKeys(r) /\ Remember
       \/ SetQuestionCount(r) /\ Remember
       \/ ListAnswerMarks(r) /\ Remember
       \/ SyncLifeForMark(r) /\ Remember
       \/ InsertLifeEvent(r) /\ Remember
       \/ SyncNext(r) /\ Remember

Spec == LifeInit /\ [][Next]_vars

-----------------------------------------------------------------------------
(* Properties.                                                             *)

TypeOK ==
  /\ scheme \in Schemes
  /\ session \in [state: States, phase: Phases \cup {None}, running: BOOLEAN, paused: BOOLEAN,
                  contestant: Contestants \cup {None}, performance: Contestants \cup {None},
                  question: Questions, count: 0 .. MaxQuestion,
                  revision: 1 .. MaxRevision + Cardinality(Requests)]
  /\ performance \in [Contestants -> {"NONE", "READY", "LIVE", "FINISHED"}]
  /\ order \in Orders
  /\ mark \subseteq Jury \X Contestants \X Questions \X Answers
  /\ rows <= MaxEvents /\ Len(event) <= rows
  /\ key \in [Questions -> Answers \cup {"NONE"}]
  /\ watcher \in [Watchers -> [joined: BOOLEAN, hello: BOOLEAN, queue: 0 .. Buffer,
                               shown: 0 .. MaxRevision + Cardinality(Requests)]]
  /\ crossed \subseteq Jury \X Contestants
  /\ stirred \in [Requests -> SUBSET Contestants]

\* A command is saved only over the session it decided on: no command, draw or reset saved in
\* between has changed the state, the phase, the timer or the performance it read
\* (SaveSession compares the base revision, which every one of them advances).
CommandsSerialise ==
  [][\A r \in Requests :
       request[r].at = "save" /\ request'[r].at = "publish" =>
         LET s == request[r].copy IN
         /\ <<s.state, s.phase, s.running, s.paused, s.performance>>
              = <<session.state, session.phase, session.running, session.paused, session.performance>>
         /\ session'.revision = s.revision + 1]_vars

\* The timer and the state tell one story after any sequence of commands: the timer is paused only in
\* PAUSED, it does not run on in PAUSED, and outside PAUSED a phase runs in the state it maps to
\* (applyPhase, clearPhaseTimer, restorePhaseOrLive and holdBetweenContestants).
TimerMatchesState ==
  /\ session.paused => session.state = "PAUSED"
  /\ session.state = "PAUSED" /\ session.running => session.paused
  /\ session.phase # None => session.running
  /\ session.phase # None /\ session.state # "PAUSED" => session.state = MapsToState(session.phase)

\* A watcher who has not fetched the newest revision will be told: an event waits in its channel, the
\* hello is not yet read, or the request that made the revision is about to publish (the hub drops
\* events of a full channel; stream subscribes before it writes the hello).
WatcherWillSee ==
  \A w \in Watchers :
    watcher[w].joined /\ watcher[w].shown < session.revision =>
      \/ watcher[w].hello \/ watcher[w].queue > 0
      \/ \E r \in Requests : request[r].at = "publish"

\* The lives the jury's checks count are the lives the board shows, and no contestant has more than at
\* the start (viewerLives sums the events and cuts off below 0 at the end, applyLifeEvents cuts off
\* after every event): except of an author and a contestant whose events have crossed.  Two inserts
\* that were decided on the same events go through both, and a restart that stops after its first
\* statement, or comes a second time, leaves events whose links are cut.
BoardMatchesChecks ==
  \A j \in Jury, c \in Contestants : <<j, c>> \notin crossed =>
    /\ ViewerLives(j, c) = ApplyLifeEvents(j, c).lives
    /\ ViewerLives(j, c) <= Starting

\* The same without the exception.
AllBoardsMatchChecks ==
  \A j \in Jury, c \in Contestants :
    /\ ViewerLives(j, c) = ApplyLifeEvents(j, c).lives
    /\ ViewerLives(j, c) <= Starting

\* no mark of the operator for the contestant and the question that agrees with the key still costs a
\* life, and one that differs does or found no life left
Settled(c, q) ==
  \A m \in MarksOf(Operator, c) :
    LET open == OpenWrong(Operator, c, q) # {} IN
    m[3] = q /\ key[q] # "NONE" => IF m[4] = key[q] THEN ~open ELSE open \/ ViewerLives(Operator, c) = 0

\* A new key or plan that has been through a question has settled it for every contestant
\* (syncOperatorQuestion): except for one that another request touched since the marks were listed (a
\* mark, a life taken or given back, a deletion, another key), and one whose events have crossed.
SyncSettles ==
  \A r \in Requests : InStep(request[r]) /\ Synced(r) =>
    \A c \in Contestants :
      c \notin stirred[r] /\ <<Operator, c>> \notin crossed => Settled(c, request[r].question)

\* A command from a page that shows an older revision changes nothing: no performance, no life event
\* (the base revision is compared only when the session is saved, after the command's statements).
OldPageChangesNothing ==
  [][\A r \in Requests :
       request[r] # Idle /\ request'[r] # request[r] /\ request[r].op \notin {"draw", "reset"} \cup LifeOps =>
         (request[r].base # request[r].copy.revision => performance' = performance /\ event' = event)]_vars
=============================================================================
