---------------------------- MODULE LiveSession ----------------------------
(***************************************************************************)
(* The live session of one challenge and the administrators' commands      *)
(* (backend/internal/modules/evaluation: service_live.go, repo_live.go,    *)
(* service_reset.go, hub.go).                                              *)
(*                                                                         *)
(* A command copies the session, decides on the copy, runs statements of   *)
(* its own outside any transaction, and saves the copy if the client's     *)
(* base revision is still the current one; then it publishes an event in   *)
(* the hub, which lives in the memory of the process.  Time is abstracted: *)
(* a timer runs or not and is paused or not.  The marks and life events of *)
(* the lives scheme are declared here because a restart and a reset delete *)
(* them; module Lives adds the requests that make them.                    *)
(***************************************************************************)
EXTENDS Naturals, Sequences, SequencesExt, FiniteSets

CONSTANTS
  Contestants,
  Requests,      \* requests that can be in progress at the same time
  Watchers,      \* clients of the event stream
  None,          \* no contestant, no phase
  Schemes,       \* the types of scheme a run looks at
  Commands,      \* the commands of the administrators a run looks at
  OldPages,      \* whether a command may come from a page that shows an older revision
  Buffer,        \* events a watcher's channel holds: 8 in the code
  MaxQuestion,   \* bound on the questions
  MaxRevision    \* bound on the revisions of the session

ASSUME ContestantsFinite == IsFiniteSet(Contestants) /\ Contestants # {} /\ None \notin Contestants
ASSUME SchemesKnown == Schemes \subseteq {"CRITERIA", "LIVES"}
ASSUME CommandsKnown == Commands \subseteq {"start", "pause", "finish", "restart", "contestant", "phase",
           "timer", "complete", "applause", "durations", "question", "draw", "reset"}
ASSUME OldPagesBoolean == OldPages \in BOOLEAN
ASSUME BufferPositive == Buffer \in Nat \ {0}
ASSUME BoundsNat == MaxRevision \in Nat /\ MaxQuestion \in Nat \ {0}

VARIABLES
  scheme,        \* the type of the challenge's scheme: it may not change once the session has begun
  session,       \* evaluation_sessions
  performance,   \* the status of each contestant's performance; the length of a speech is not modelled
  order,         \* the contestants as listed: by draw number once drawn
  mark,          \* life_answer_marks: <<author, contestant, question, answer>>
  event,         \* life_events, oldest first
  watcher,       \* the hub's channels and what the client of each has fetched
  request        \* what each request is doing

sessionVars == <<session, performance, order>>
lifeVars == <<mark, event>>

\* the phases a scheme is seeded with, and the state each maps to
Phases == {"speech", "questions"}
MapsToState(p) == IF p = "speech" THEN "LIVE" ELSE "QUESTIONS"
States == {"NOT_STARTED", "LIVE", "QUESTIONS", "PAUSED", "APPLAUSE", "FINISHED"}
DrawLocked(state) == state # "NOT_STARTED"

\* running: phase_started_at is set; paused: paused_at is set
NewSession == [state |-> "NOT_STARTED", phase |-> None, running |-> FALSE, paused |-> FALSE,
               contestant |-> None, performance |-> None, question |-> 1, count |-> 0, revision |-> 1]
Idle == [op |-> "none", at |-> "idle"]
Away == [joined |-> FALSE, hello |-> FALSE, queue |-> 0, shown |-> 0]

Orders == {o \in [1 .. Cardinality(Contestants) -> Contestants] : Contestants = {o[n] : n \in DOMAIN o}}

Init ==
  /\ scheme \in Schemes
  /\ session = NewSession
  /\ performance = [c \in Contestants |-> "NONE"]
  /\ order \in Orders
  /\ mark = {} /\ event = <<>>
  /\ watcher = [w \in Watchers |-> Away]
  /\ request = [r \in Requests |-> Idle]

Goto(r, stage) == request' = [request EXCEPT ![r].at = stage]
Done(r) == request' = [request EXCEPT ![r] = Idle]

-----------------------------------------------------------------------------
(* What the commands write: functions of the copy of the session.          *)

ApplyPhase(s, p) ==
  [s EXCEPT !.phase = p, !.state = MapsToState(p), !.running = TRUE, !.paused = FALSE]

ClearPhaseTimer(s) == [s EXCEPT !.phase = None, !.running = FALSE, !.paused = FALSE]

\* a mutant: the timer goes on between two contestants
HoldWithTimer(s) == [s EXCEPT !.state = "PAUSED"]

HoldBetweenContestants(s) == [ClearPhaseTimer(s) EXCEPT !.state = "PAUSED"]

RestorePhaseOrLive(s) ==
  [s EXCEPT !.paused = FALSE, !.state = IF s.phase = None THEN "LIVE" ELSE MapsToState(s.phase)]

\* the default templates hold a phase that maps to LIVE
FirstSpeechPhase == "speech"

ResetSessionIdle(s) == [NewSession EXCEPT !.count = s.count, !.revision = s.revision]

SpeechPhaseActive(s) == s.state = "LIVE" \/ s.phase = "speech"

With(s, c) == IF c = None THEN s ELSE [s EXCEPT !.contestant = c, !.performance = c]

StartScored(s, c) ==
  With(IF s.state = "PAUSED" THEN RestorePhaseOrLive(s)
       ELSE IF s.phase = None THEN ApplyPhase(s, FirstSpeechPhase)
       ELSE [s EXCEPT !.state = "LIVE", !.running = TRUE], c)

Start(s, c) == IF scheme = "LIVES" THEN [ClearPhaseTimer(s) EXCEPT !.state = "LIVE"] ELSE StartScored(s, c)
Pause(s) == [s EXCEPT !.state = "PAUSED", !.paused = TRUE]
Finish(s) == [ClearPhaseTimer(s) EXCEPT !.state = "FINISHED"]
SetContestant(s, c) ==
  IF DrawLocked(s.state) /\ s.state # "PAUSED" THEN HoldBetweenContestants(With(s, c)) ELSE With(s, c)
RestartTimer(s) == ApplyPhase(s, IF s.phase = None THEN FirstSpeechPhase ELSE s.phase)
CompleteContestant(s, next) == HoldBetweenContestants(With(s, next))
EndSpeech(s) == [ClearPhaseTimer(s) EXCEPT !.state = "APPLAUSE"]
StepQuestion(s, delta) ==
  [s EXCEPT !.question = IF delta = "next" THEN @ + 1 ELSE IF @ = 1 THEN 1 ELSE @ - 1]

\* the session a command saves: arg is the contestant, the phase or the direction it works with
Written(q) ==
  CASE q.op = "start" -> Start(q.copy, q.arg)
    [] q.op = "pause" -> Pause(q.copy)
    [] q.op = "finish" -> Finish(q.copy)
    [] q.op = "restart" -> ResetSessionIdle(q.copy)
    [] q.op = "contestant" -> SetContestant(q.copy, q.arg)
    [] q.op = "phase" -> ApplyPhase(q.copy, q.arg)
    [] q.op = "timer" -> RestartTimer(q.copy)
    [] q.op = "complete" -> CompleteContestant(q.copy, q.arg)
    [] q.op = "applause" -> EndSpeech(q.copy)
    [] q.op = "question" -> StepQuestion(q.copy, q.arg)
    [] q.op = "durations" -> q.copy

-----------------------------------------------------------------------------
(* A command: the copy and its check; its statements, one after another; the save; the event. *)

\* the speech has a time to record: recordSpeechIfActive
SpeechTimed(s) == s.contestant # None /\ SpeechPhaseActive(s) /\ s.running

\* the first statement of a command that decided on session s
FirstStatement(op, arg, s) ==
  CASE op = "start" /\ scheme = "CRITERIA" -> IF s.contestant = None THEN "contestants" ELSE "live"
    [] op = "finish" -> "open"
    [] op = "restart" -> "performances"
    [] op = "contestant" -> "ensure"
    [] op = "phase" /\ MapsToState(arg) # "LIVE" /\ SpeechTimed(s) -> "speech"
    [] op = "applause" /\ SpeechTimed(s) -> "speech"
    [] op = "complete" -> IF SpeechTimed(s) THEN "speech" ELSE "finished"
    [] OTHER -> "save"

\* a command of a client whose page shows revision base
Command(r, op, arg, base) ==
  /\ request[r] = Idle /\ op \in Commands
  /\ request' = [request EXCEPT ![r] = [op |-> op, at |-> FirstStatement(op, arg, session),
                                        arg |-> arg, base |-> base, copy |-> session]]
  /\ UNCHANGED <<scheme, sessionVars, lifeVars, watcher>>

AdminStart(r, base) ==
  /\ session.state \in {"NOT_STARTED", "PAUSED"}
  /\ Command(r, "start", session.contestant, base)

AdminPause(r, base) == session.state \in {"LIVE", "QUESTIONS"} /\ Command(r, "pause", None, base)

AdminFinish(r, base) == session.state # "FINISHED" /\ Command(r, "finish", None, base)

AdminRestart(r, base) == session.state = "FINISHED" /\ Command(r, "restart", None, base)

AdminSetContestant(r, base) ==
  session.state # "FINISHED" /\ \E c \in Contestants : Command(r, "contestant", c, base)

AdminSetPhase(r, base) ==
  /\ session.state \notin {"FINISHED", "NOT_STARTED"}
  /\ \E p \in Phases : Command(r, "phase", p, base)

AdminRestartTimer(r, base) == session.state = "PAUSED" /\ Command(r, "timer", None, base)

AdminCompleteContestant(r, base) ==
  /\ session.state \notin {"NOT_STARTED", "FINISHED"} /\ session.contestant # None
  /\ Command(r, "complete", None, base)

AdminEndSpeech(r, base) ==
  /\ session.state \notin {"NOT_STARTED", "FINISHED", "APPLAUSE"} /\ session.contestant # None
  /\ SpeechPhaseActive(session)
  /\ Command(r, "applause", None, base)

\* durations are not modelled; the command saves the session as it read it
AdminSetDurations(r, base) == Command(r, "durations", None, base)

AdminStepQuestion(r, base) ==
  /\ scheme = "LIVES" /\ session.state # "FINISHED"
  /\ \/ Command(r, "question", "previous", base)
     \/ /\ session.question < (IF session.count > 0 THEN session.count ELSE MaxQuestion)
        /\ Command(r, "question", "next", base)

\* the statements before the save: none is in a transaction with it, so a command that stops
\* in between leaves those it has run
WritePerformance(r, stage, written, next) ==
  /\ request[r].at = stage
  /\ performance' = written
  /\ Goto(r, next)
  /\ UNCHANGED <<scheme, session, order, lifeVars, watcher>>

UpsertPerformance(c, status) == [performance EXCEPT ![c] = status]
EnsurePerformance(c) == [performance EXCEPT ![c] = IF @ = "NONE" THEN "READY" ELSE @]

RecordSpeech(r) ==
  WritePerformance(r, "speech", EnsurePerformance(request[r].copy.contestant),
                   IF request[r].op = "complete" THEN "finished" ELSE "save")

FinishOpenPerformances(r) ==
  LET s == request[r].copy IN
  WritePerformance(r, "open",
    [c \in Contestants |-> IF c = s.performance \/ performance[c] = "NONE" THEN performance[c] ELSE "FINISHED"],
    IF s.contestant = None THEN "save" ELSE "finished")

UpsertFinished(r) ==
  WritePerformance(r, "finished", UpsertPerformance(request[r].copy.contestant, "FINISHED"),
                   IF request[r].op = "complete" THEN "contestants" ELSE "save")

NextContestant(c) ==
  LET n == CHOOSE i \in DOMAIN order : order[i] = c IN
  IF n = Len(order) THEN None ELSE order[n + 1]

\* a start takes the first contestant, a completion the one after the current one
ListLiveContestants(r) ==
  /\ request[r].at = "contestants"
  /\ LET c == IF request[r].op = "start" THEN order[1] ELSE NextContestant(request[r].copy.contestant)
         next == IF request[r].op = "start" THEN "live" ELSE IF c = None THEN "save" ELSE "ensure" IN
     request' = [request EXCEPT ![r] = [@ EXCEPT !.arg = c, !.at = next]]
  /\ UNCHANGED <<scheme, sessionVars, lifeVars, watcher>>

UpsertLive(r) == WritePerformance(r, "live", UpsertPerformance(request[r].arg, "LIVE"), "save")
EnsureReady(r) == WritePerformance(r, "ensure", EnsurePerformance(request[r].arg), "save")

ResetPerformances == [c \in Contestants |-> IF performance[c] = "NONE" THEN "NONE" ELSE "READY"]
RestartPerformances(r) == WritePerformance(r, "performances", ResetPerformances, "cut")

\* the life events are deleted in two statements: the first cuts the links between them
CutLifeEvents(r) ==
  /\ request[r].at = "cut"
  /\ event' = [n \in DOMAIN event |-> [event[n] EXCEPT !.reverses = 0]]
  /\ Goto(r, "events")
  /\ UNCHANGED <<scheme, sessionVars, mark, watcher>>

DeleteLifeEvents(r) ==
  /\ request[r].at = "events"
  /\ event' = <<>>
  /\ Goto(r, "marks")
  /\ UNCHANGED <<scheme, sessionVars, mark, watcher>>

DeleteAnswerMarks(r) ==
  /\ request[r].at = "marks"
  /\ mark' = {}
  /\ Goto(r, "save")
  /\ UNCHANGED <<scheme, sessionVars, event, watcher>>

\* a mutant: the base revision is not compared
SaveUnchecked(r) ==
  /\ request[r].at = "save"
  /\ session' = [Written(request[r]) EXCEPT !.revision = session.revision + 1]
  /\ Goto(r, "publish")
  /\ UNCHANGED <<scheme, performance, order, lifeVars, watcher>>

SaveSession(r) ==
  /\ request[r].at = "save"
  /\ IF session.revision = request[r].base
     THEN /\ session' = [Written(request[r]) EXCEPT !.revision = session.revision + 1]
          /\ Goto(r, "publish")
     ELSE Done(r) /\ UNCHANGED session
  /\ UNCHANGED <<scheme, performance, order, lifeVars, watcher>>

-----------------------------------------------------------------------------
(* The draw, the snapshot and the reset.                                   *)

ReplaceDraw(r) ==
  /\ request[r] = Idle /\ "draw" \in Commands /\ ~DrawLocked(session.state)
  /\ request' = [request EXCEPT ![r] = [op |-> "draw", at |-> "draw"]]
  /\ UNCHANGED <<scheme, sessionVars, lifeVars, watcher>>

StoreDraw(r) ==
  /\ request[r].at = "draw"
  /\ order' \in Orders
  /\ request' = [request EXCEPT ![r] = [op |-> "draw", at |-> "first", first |-> order'[1]]]
  /\ UNCHANGED <<scheme, session, performance, lifeVars, watcher>>

SetCurrentContestant(r) ==
  /\ request[r].at = "first"
  /\ session' = [session EXCEPT !.contestant = request[r].first]
  /\ Goto(r, "bump")
  /\ UNCHANGED <<scheme, performance, order, lifeVars, watcher>>

BumpSessionRevision(r) ==
  /\ request[r].at = "bump"
  /\ session' = [session EXCEPT !.revision = @ + 1]
  /\ Goto(r, "publish")
  /\ UNCHANGED <<scheme, performance, order, lifeVars, watcher>>

\* any page that shows the session before it has begun
FillCurrentIfEmpty ==
  /\ session.contestant = None /\ ~DrawLocked(session.state)
  /\ session' = [session EXCEPT !.contestant = order[1]]
  /\ UNCHANGED <<scheme, performance, order, lifeVars, watcher, request>>

\* the administrator's password is checked first; a new jury goes with the same reset
ResetRuntime(r) ==
  /\ request[r] = Idle /\ "reset" \in Commands
  /\ request' = [request EXCEPT ![r] = [op |-> "reset", at |-> "reset", copy |-> session]]
  /\ UNCHANGED <<scheme, sessionVars, lifeVars, watcher>>

\* one transaction, which also deletes the scores and may replace the jury
ResetChallengeRuntime(r) ==
  /\ request[r].at = "reset"
  /\ IF session.revision = request[r].copy.revision
     THEN /\ session' = [ResetSessionIdle(request[r].copy) EXCEPT !.revision = @ + 1]
          /\ performance' = ResetPerformances
          /\ mark' = {} /\ event' = <<>>
          /\ Goto(r, "publish")
     ELSE Done(r) /\ UNCHANGED <<session, performance, mark, event>>
  /\ UNCHANGED <<scheme, order, watcher>>

-----------------------------------------------------------------------------
(* The hub and its watchers.  A watcher's client is outside src/: it       *)
(* fetches the session again at every event it receives.                   *)

Publish(r) ==
  /\ request[r].at = "publish"
  /\ watcher' = [w \in Watchers |-> IF watcher[w].joined /\ watcher[w].queue < Buffer
                   THEN [watcher[w] EXCEPT !.queue = @ + 1] ELSE watcher[w]]
  /\ Done(r)
  /\ UNCHANGED <<scheme, sessionVars, lifeVars>>

\* a mutant: the hello is written before the subscription
SubscribeLate(w) ==
  /\ ~watcher[w].joined
  /\ watcher' = [watcher EXCEPT ![w] =
       IF @.hello THEN [@ EXCEPT !.joined = TRUE, !.hello = FALSE]
       ELSE [@ EXCEPT !.hello = TRUE, !.shown = session.revision]]
  /\ UNCHANGED <<scheme, sessionVars, lifeVars, request>>

\* the channel is registered, then the hello is written
Subscribe(w) ==
  /\ ~watcher[w].joined
  /\ watcher' = [watcher EXCEPT ![w] = [joined |-> TRUE, hello |-> TRUE, queue |-> 0, shown |-> 0]]
  /\ UNCHANGED <<scheme, sessionVars, lifeVars, request>>

Receive(w) ==
  /\ watcher[w].hello \/ watcher[w].queue > 0
  /\ watcher' = [watcher EXCEPT ![w] =
       [watcher[w] EXCEPT !.hello = FALSE, !.queue = IF watcher[w].hello THEN @ ELSE @ - 1,
                          !.shown = session.revision]]
  /\ UNCHANGED <<scheme, sessionVars, lifeVars, request>>

Unsubscribe(w) ==
  /\ watcher[w].joined
  /\ watcher' = [watcher EXCEPT ![w] = Away]
  /\ UNCHANGED <<scheme, sessionVars, lifeVars, request>>

\* a request whose client has gone: its statements fail, but an event that is due is published
Stop(r) ==
  /\ request[r] # Idle /\ request[r].at # "publish"
  /\ Done(r)
  /\ UNCHANGED <<scheme, sessionVars, lifeVars, watcher>>

\* the process stops: its requests and its hub are gone
Crash ==
  /\ request' = [r \in Requests |-> Idle]
  /\ watcher' = [w \in Watchers |-> Away]
  /\ UNCHANGED <<scheme, sessionVars, lifeVars>>

\* the revision a client's page shows: 0 stands for all the older ones, which are refused alike
Bases == IF OldPages THEN {0, session.revision} ELSE {session.revision}

AdminCommand(r, base) ==
  \/ AdminStart(r, base) \/ AdminPause(r, base) \/ AdminFinish(r, base) \/ AdminRestart(r, base)
  \/ AdminSetContestant(r, base) \/ AdminSetPhase(r, base) \/ AdminRestartTimer(r, base)
  \/ AdminCompleteContestant(r, base) \/ AdminEndSpeech(r, base) \/ AdminSetDurations(r, base)
  \/ AdminStepQuestion(r, base)

LiveNext ==
  \/ \E r \in Requests :
       \/ session.revision < MaxRevision /\
            \/ \E base \in Bases : AdminCommand(r, base)
            \/ ReplaceDraw(r) \/ ResetRuntime(r)
       \/ RecordSpeech(r) \/ FinishOpenPerformances(r) \/ UpsertFinished(r)
       \/ ListLiveContestants(r) \/ UpsertLive(r) \/ EnsureReady(r) \/ RestartPerformances(r)
       \/ CutLifeEvents(r) \/ DeleteLifeEvents(r) \/ DeleteAnswerMarks(r)
       \/ SaveSession(r)
       \/ StoreDraw(r) \/ SetCurrentContestant(r) \/ BumpSessionRevision(r)
       \/ ResetChallengeRuntime(r) \/ Publish(r) \/ Stop(r)
  \/ \E w \in Watchers : Subscribe(w) \/ Receive(w) \/ Unsubscribe(w)
  \/ FillCurrentIfEmpty \/ Crash

=============================================================================
