----------------------------- MODULE LiveProofs -----------------------------
(***************************************************************************)
(* The evaluation of a challenge: proofs about Lives and ScoreSync,        *)
(* checked by TLAPS, for any contestants, requests, watchers, pages and    *)
(* bounds.                                                                 *)
(*                                                                         *)
(* The live session: what a command saves was decided on a copy.  LiveInv  *)
(* says of each copy that waits to be saved that it tells one story        *)
(* itself, that its command was allowed in its state, and that it is still *)
(* the session as long as the revision is the one it has.                  *)
(*                                                                         *)
(* The lives: requests about them overlap as they like.  LivesInv says of  *)
(* each author and contestant whose events have not crossed that every     *)
(* life given back was taken before, that no more are taken than there     *)
(* are, and that an event some request has decided on still does what it   *)
(* was decided on for.  SyncInv says of a request that brings a question   *)
(* in step that each mark it has listed is settled, still to do, or that   *)
(* the event it needs is due, except where another request touched it.     *)
(*                                                                         *)
(* The score queue: requests may arrive at any later time.  QueueInv says  *)
(* that a receipt tells of one application, and that a request with an     *)
(* older edit than the one that counts has a base the table has left.      *)
(***************************************************************************)
EXTENDS Lives, ScoreSync, SumTheorems, TLAPS

\* the fields of a session that its commands decide on
SessionFields == [state: States, phase: Phases \cup {None}, running: BOOLEAN, paused: BOOLEAN]

IsSession(s) ==
  /\ s = [state |-> s.state, phase |-> s.phase, running |-> s.running, paused |-> s.paused,
          contestant |-> s.contestant, performance |-> s.performance, question |-> s.question,
          count |-> s.count, revision |-> s.revision]
  /\ s.state \in States /\ s.phase \in Phases \cup {None}
  /\ s.running \in BOOLEAN /\ s.paused \in BOOLEAN /\ s.revision \in Nat \ {0}

OneStory(s) ==
  /\ s.paused => s.state = "PAUSED"
  /\ s.state = "PAUSED" /\ s.running => s.paused
  /\ s.phase # None => s.running
  /\ s.phase # None /\ s.state # "PAUSED" => s.state = MapsToState(s.phase)

Decided(s) == <<s.state, s.phase, s.running, s.paused, s.performance>>

Operations == {"start", "pause", "finish", "restart", "contestant", "phase", "timer", "complete",
               "applause", "question", "durations"}

\* the command was allowed by the session it copied
Allowed(q) ==
  /\ {"op", "at", "arg", "base", "copy"} \subseteq DOMAIN q
  /\ q.op \in Operations
  /\ q.at = "contestants" => q.op \in {"start", "complete"}
  /\ q.op = "pause" => q.copy.state \in {"LIVE", "QUESTIONS"}
  /\ q.op = "start" => q.copy.state \in {"NOT_STARTED", "PAUSED"}
  /\ q.op = "phase" => q.arg \in Phases

\* as long as the revision is the one it read, the copy is the session
Current(s) ==
  /\ s.revision <= session.revision
  /\ s.revision = session.revision => Decided(s) = Decided(session)

RequestsKept ==
  /\ DOMAIN request = Requests
  /\ \A r \in Requests : "at" \in DOMAIN request[r]

\* a command on its way to the save
Statements == {"contestants", "live", "open", "finished", "speech", "ensure", "performances", "cut",
               "events", "marks"}
CommandStages == Statements \cup {"save"}

CopiesKept == \A r \in Requests : request[r].at \in CommandStages =>
  /\ IsSession(request[r].copy) /\ OneStory(request[r].copy)
  /\ Allowed(request[r]) /\ Current(request[r].copy)
  /\ request[r].base \in Nat /\ request[r].base <= request[r].copy.revision

WatchersKept == watcher \in [Watchers -> [joined: BOOLEAN, hello: BOOLEAN, queue: Nat, shown: Nat]]

LiveInv ==
  /\ RequestsKept /\ IsSession(session) /\ CopiesKept /\ WatchersKept
  /\ TimerMatchesState /\ WatcherWillSee

\* what CommandsSerialise says of a step
SavesSerially ==
  \A r \in Requests :
    request[r].at = "save" /\ request'[r].at = "publish" =>
      LET s == request[r].copy IN
      /\ <<s.state, s.phase, s.running, s.paused, s.performance>>
           = <<session.state, session.phase, session.running, session.paused, session.performance>>
      /\ session'.revision = s.revision + 1

-----------------------------------------------------------------------------
(* Steps that decide nothing. *)

\* A session nobody has opened, no request and no watcher.
LEMMA LiveInit == LifeInit => LiveInv
  BY DEF LifeInit, Init, LiveInv, RequestsKept, IsSession, CopiesKept, WatchersKept, TimerMatchesState,
         WatcherWillSee, NewSession, Idle, Away, States, Phases, CommandStages, Statements

\* A request goes on to a statement that saves no command, and the session changes in nothing a
\* command decides on.
LEMMA RequestMove ==
  ASSUME LiveInv, NEW r \in Requests, NEW doing,
         request' = [request EXCEPT ![r] = doing], "at" \in DOMAIN doing,
         doing.at \notin CommandStages \cup {"publish"}, request[r].at # "publish",
         IsSession(session'), Decided(session') = Decided(session),
         session'.revision = session.revision, UNCHANGED watcher
  PROVE  LiveInv' /\ SavesSerially
<1>1. /\ DOMAIN request' = Requests
      /\ request'[r] = doing
      /\ \A q \in Requests : q # r => request'[q] = request[q]
  BY DEF LiveInv, RequestsKept
<1>2. RequestsKept'
  BY <1>1 DEF LiveInv, RequestsKept
<1>3. CopiesKept'
  BY <1>1 DEF LiveInv, CopiesKept, Current
<1>4. /\ session'.state = session.state /\ session'.phase = session.phase
      /\ session'.running = session.running /\ session'.paused = session.paused
  BY DEF Decided
<1>5. TimerMatchesState'
  BY <1>4 DEF LiveInv, TimerMatchesState
<1>6. WatcherWillSee'
  BY <1>1 DEF LiveInv, WatcherWillSee
<1>7. SavesSerially
  BY <1>1 DEF SavesSerially
<1> QED
  BY <1>2, <1>3, <1>5, <1>6, <1>7 DEF LiveInv, WatchersKept

\* A command copies the session, which is what the revision it reads stands for.
LEMMA CommandStep ==
  ASSUME LiveInv, NEW r \in Requests, NEW op \in Operations, NEW arg, NEW base \in Bases,
         Command(r, op, arg, base),
         op = "pause" => session.state \in {"LIVE", "QUESTIONS"},
         op = "start" => session.state \in {"NOT_STARTED", "PAUSED"},
         op = "phase" => arg \in Phases
  PROVE  LiveInv' /\ SavesSerially
<1> DEFINE stage == FirstStatement(op, arg, session)
           q == [op |-> op, at |-> stage, arg |-> arg, base |-> base, copy |-> session]
<1>0. /\ stage \in CommandStages
      /\ stage = "contestants" => op = "start"
  BY DEF FirstStatement, CommandStages, Statements
<1> HIDE DEF stage
<1>1. /\ request' = [request EXCEPT ![r] = q]
      /\ UNCHANGED <<session, watcher>>
      /\ request[r] = Idle
  BY DEF Command, sessionVars, stage
<1>2. /\ DOMAIN request' = Requests
      /\ request'[r] = q /\ q.at = stage /\ q.copy = session /\ q.base = base /\ q.op = op /\ q.arg = arg
      /\ \A x \in Requests : x # r => request'[x] = request[x]
  BY <1>1 DEF LiveInv, RequestsKept
<1>3. RequestsKept'
  BY <1>2 DEF LiveInv, RequestsKept
<1>4. base \in Nat /\ base <= session.revision
  BY DEF Bases, LiveInv, IsSession
<1>5. OneStory(session)
  BY DEF LiveInv, OneStory, TimerMatchesState
<1>6. Current(session)'
  BY <1>1 DEF LiveInv, IsSession, Current
<1>7. CopiesKept'
  <2> SUFFICES ASSUME NEW x \in Requests, request'[x].at \in CommandStages
               PROVE  /\ IsSession(request'[x].copy) /\ OneStory(request'[x].copy)
                      /\ Allowed(request'[x]) /\ Current(request[x].copy)'
                      /\ request'[x].base \in Nat /\ request'[x].base <= request'[x].copy.revision
    BY DEF CopiesKept
  <2>1. CASE x = r
    <3>1. Allowed(q)
      BY <1>0, <1>2 DEF Allowed
    <3>2. Current(request[x].copy)'
      BY <1>1, <1>2, <1>6, <2>1 DEF Current
    <3> QED
      BY <1>2, <1>4, <1>5, <2>1, <3>1, <3>2 DEF LiveInv
  <2>2. CASE x # r
    BY <1>1, <1>2, <2>2 DEF LiveInv, CopiesKept, Current
  <2> QED
    BY <2>1, <2>2
<1>8. IsSession(session') /\ TimerMatchesState' /\ WatchersKept'
  BY <1>1 DEF LiveInv, TimerMatchesState, WatchersKept
<1>9. WatcherWillSee'
  BY <1>1, <1>2 DEF LiveInv, WatcherWillSee, Idle
<1>10. SavesSerially
  BY <1>0, <1>1, <1>2 DEF SavesSerially, CommandStages, Statements, Idle
<1> QED
  BY <1>3, <1>7, <1>8, <1>9, <1>10 DEF LiveInv

\* A statement before the save leaves the copy as it is.
LEMMA StatementStep ==
  ASSUME LiveInv, NEW r \in Requests, request[r].at \in Statements, NEW doing,
         request' = [request EXCEPT ![r] = doing], UNCHANGED <<session, watcher>>,
         {"op", "at", "arg", "base", "copy"} \subseteq DOMAIN doing, doing.at \in CommandStages,
         doing.op = request[r].op, doing.base = request[r].base, doing.copy = request[r].copy,
         doing.arg = request[r].arg \/ request[r].op # "phase",
         doing.at = "contestants" => doing.op \in {"start", "complete"}
  PROVE  LiveInv' /\ SavesSerially
<1>1. /\ DOMAIN request' = Requests
      /\ request'[r] = doing
      /\ \A q \in Requests : q # r => request'[q] = request[q]
  BY DEF LiveInv, RequestsKept
<1>2. RequestsKept'
  BY <1>1 DEF LiveInv, RequestsKept
<1>3. CopiesKept'
  <2> SUFFICES ASSUME NEW x \in Requests, request'[x].at \in CommandStages
               PROVE  /\ IsSession(request'[x].copy) /\ OneStory(request'[x].copy)
                      /\ Allowed(request'[x]) /\ Current(request[x].copy)'
                      /\ request'[x].base \in Nat /\ request'[x].base <= request'[x].copy.revision
    BY DEF CopiesKept
  <2>1. CASE x = r
    <3>1. request[r].at \in CommandStages
      BY DEF CommandStages
    <3>2. Allowed(request'[x])
      BY <1>1, <2>1, <3>1 DEF LiveInv, CopiesKept, Allowed, CommandStages, Statements
    <3> QED
      BY <1>1, <2>1, <3>1, <3>2 DEF LiveInv, CopiesKept, Current
  <2>2. CASE x # r
    BY <1>1, <2>2 DEF LiveInv, CopiesKept, Current
  <2> QED
    BY <2>1, <2>2
<1>4. IsSession(session') /\ TimerMatchesState' /\ WatchersKept'
  BY DEF LiveInv, TimerMatchesState, WatchersKept
<1>5. WatcherWillSee'
  BY <1>1 DEF LiveInv, WatcherWillSee, Statements
<1>6. SavesSerially
  BY <1>1 DEF SavesSerially, Statements
<1> QED
  BY <1>2, <1>3, <1>4, <1>5, <1>6 DEF LiveInv

\* The statements of the commands: each goes on to the next one or to the save.
LEMMA StatementsStep ==
  ASSUME LiveInv, NEW r \in Requests,
         \/ RecordSpeech(r) \/ FinishOpenPerformances(r) \/ UpsertFinished(r)
         \/ ListLiveContestants(r) \/ UpsertLive(r) \/ EnsureReady(r) \/ RestartPerformances(r)
         \/ CutLifeEvents(r) \/ DeleteLifeEvents(r) \/ DeleteAnswerMarks(r)
  PROVE  LiveInv' /\ SavesSerially
<1>1. /\ request[r].at \in Statements /\ UNCHANGED <<session, watcher>>
      /\ request[r].at = "contestants" <=> ListLiveContestants(r)
  BY DEF RecordSpeech, FinishOpenPerformances, UpsertFinished, ListLiveContestants, UpsertLive, EnsureReady,
         RestartPerformances, CutLifeEvents, DeleteLifeEvents, DeleteAnswerMarks, WritePerformance, Statements,
         sessionVars
<1>2. /\ {"op", "at", "arg", "base", "copy"} \subseteq DOMAIN request[r]
      /\ request[r].at = "contestants" => request[r].op \in {"start", "complete"}
  BY <1>1 DEF LiveInv, CopiesKept, Allowed, CommandStages
<1>3. ASSUME NEW next \in CommandStages, Goto(r, next), next = "contestants" => request[r].op = "complete"
      PROVE  LiveInv' /\ SavesSerially
  <2>1. PICK doing : doing = [request[r] EXCEPT !.at = next]
    OBVIOUS
  <2>2. request' = [request EXCEPT ![r] = doing]
    BY <1>3, <2>1 DEF Goto
  <2>3. /\ {"op", "at", "arg", "base", "copy"} \subseteq DOMAIN doing
        /\ doing.at = next /\ doing.op = request[r].op
        /\ doing.base = request[r].base /\ doing.copy = request[r].copy /\ doing.arg = request[r].arg
    BY <1>2, <2>1
  <2> QED
    BY <1>1, <1>3, <2>2, <2>3, StatementStep
<1>4. CASE ListLiveContestants(r)
  <2>1. PICK c, next : next \in {"live", "save", "ensure"} /\
          request' = [request EXCEPT ![r] = [@ EXCEPT !.arg = c, !.at = next]]
    BY <1>4 DEF ListLiveContestants
  <2>2. PICK doing : doing = [request[r] EXCEPT !.arg = c, !.at = next]
    OBVIOUS
  <2>3. request' = [request EXCEPT ![r] = doing]
    BY <2>1, <2>2 DEF LiveInv, RequestsKept
  <2>4. /\ {"op", "at", "arg", "base", "copy"} \subseteq DOMAIN doing
        /\ doing.at = next /\ doing.op = request[r].op
        /\ doing.base = request[r].base /\ doing.copy = request[r].copy
    BY <1>2, <2>2
  <2>5. request[r].op # "phase" /\ next \in CommandStages /\ next # "contestants"
    BY <1>1, <1>2, <1>4, <2>1 DEF CommandStages, Statements
  <2> QED
    BY <1>1, <2>3, <2>4, <2>5, StatementStep
<1>5. ListLiveContestants(r) \/ \E next \in CommandStages :
        Goto(r, next) /\ (next = "contestants" => request[r].op = "complete")
  BY DEF RecordSpeech, FinishOpenPerformances, UpsertFinished, UpsertLive, EnsureReady, RestartPerformances,
         CutLifeEvents, DeleteLifeEvents, DeleteAnswerMarks, WritePerformance, Statements, CommandStages
<1> QED
  BY <1>3, <1>4, <1>5

\* A command copies the session and decides on the copy; what it must still save fits.
LEMMA CommandsStep ==
  ASSUME LiveInv, NEW r \in Requests, NEW base \in Bases, AdminCommand(r, base)
  PROVE  LiveInv' /\ SavesSerially
<1>1. CASE AdminStart(r, base)
  BY <1>1, CommandStep DEF AdminStart, Operations
<1>2. CASE AdminPause(r, base)
  BY <1>2, CommandStep DEF AdminPause, Operations
<1>3. CASE AdminFinish(r, base)
  BY <1>3, CommandStep DEF AdminFinish, Operations
<1>4. CASE AdminRestart(r, base)
  BY <1>4, CommandStep DEF AdminRestart, Operations
<1>5. CASE AdminSetContestant(r, base)
  BY <1>5, CommandStep DEF AdminSetContestant, Operations
<1>6. CASE AdminSetPhase(r, base)
  BY <1>6, CommandStep DEF AdminSetPhase, Operations
<1>7. CASE AdminRestartTimer(r, base)
  BY <1>7, CommandStep DEF AdminRestartTimer, Operations
<1>8. CASE AdminCompleteContestant(r, base)
  BY <1>8, CommandStep DEF AdminCompleteContestant, Operations
<1>9. CASE AdminEndSpeech(r, base)
  BY <1>9, CommandStep DEF AdminEndSpeech, Operations
<1>10. CASE AdminSetDurations(r, base)
  BY <1>10, CommandStep DEF AdminSetDurations, Operations
<1>11. CASE AdminStepQuestion(r, base)
  BY <1>11, CommandStep DEF AdminStepQuestion, Operations
<1> QED
  BY <1>1, <1>2, <1>3, <1>4, <1>5, <1>6, <1>7, <1>8, <1>9, <1>10, <1>11 DEF AdminCommand

-----------------------------------------------------------------------------
(* Steps that write the session. *)

\* What a command writes tells one story, if what it copied did.
LEMMA WrittenWell ==
  ASSUME NEW q, IsSession(q.copy), OneStory(q.copy), Allowed(q)
  PROVE  IsSession(Written(q)) /\ OneStory(Written(q)) /\ Written(q).revision = q.copy.revision
<1> DEFINE s == q.copy
<1> USE DEF IsSession, OneStory, States, Phases, MapsToState
<1>1. CASE q.op = "start"
  <2>1. s.state = "NOT_STARTED" \/ s.state = "PAUSED"
    BY <1>1 DEF Allowed
  <2>2. Written(q) = Start(s, q.arg)
    BY <1>1 DEF Written
  <2>3. CASE scheme = "LIVES"
    BY <2>2, <2>3 DEF Start, ClearPhaseTimer
  <2> DEFINE started == IF s.state = "PAUSED" THEN RestorePhaseOrLive(s)
                        ELSE IF s.phase = None THEN ApplyPhase(s, FirstSpeechPhase)
                        ELSE [s EXCEPT !.state = "LIVE", !.running = TRUE]
  <2>4. IsSession(started) /\ OneStory(started) /\ started.revision = s.revision
    <3>1. CASE s.state = "PAUSED"
      BY <3>1 DEF RestorePhaseOrLive
    <3>2. CASE s.state = "NOT_STARTED" /\ s.phase = None
      BY <3>2 DEF ApplyPhase, FirstSpeechPhase
    <3>3. CASE s.state = "NOT_STARTED" /\ s.phase # None
      BY <3>3
    <3> QED
      BY <2>1, <3>1, <3>2, <3>3
  <2>5. CASE scheme # "LIVES"
    <3>1. Written(q) = With(started, q.arg)
      BY <2>2, <2>5 DEF Start, StartScored
    <3> HIDE DEF started
    <3> QED
      BY <2>4, <3>1 DEF With
  <2> QED
    BY <2>3, <2>5
<1>2. CASE q.op = "pause"
  BY <1>2 DEF Written, Pause, Allowed
<1>3. CASE q.op = "finish"
  BY <1>3 DEF Written, Finish, ClearPhaseTimer
<1>4. CASE q.op = "restart"
  BY <1>4 DEF Written, ResetSessionIdle, NewSession
<1>5. CASE q.op = "contestant"
  BY <1>5 DEF Written, SetContestant, HoldBetweenContestants, ClearPhaseTimer, With
<1>6. CASE q.op = "phase"
  BY <1>6 DEF Written, ApplyPhase, Allowed
<1>7. CASE q.op = "timer"
  BY <1>7 DEF Written, RestartTimer, ApplyPhase, FirstSpeechPhase
<1>8. CASE q.op = "complete"
  BY <1>8 DEF Written, CompleteContestant, HoldBetweenContestants, ClearPhaseTimer, With
<1>9. CASE q.op = "applause"
  BY <1>9 DEF Written, EndSpeech, ClearPhaseTimer
<1>10. CASE q.op = "question"
  BY <1>10 DEF Written, StepQuestion
<1>11. CASE q.op = "durations"
  BY <1>11 DEF Written
<1> QED
  BY <1>1, <1>2, <1>3, <1>4, <1>5, <1>6, <1>7, <1>8, <1>9, <1>10, <1>11 DEF Allowed, Operations

\* A new revision is published next, and no other copy is as new.
LEMMA NewRevision ==
  ASSUME LiveInv, NEW r \in Requests, UNCHANGED watcher,
         request' = [request EXCEPT ![r].at = "publish"], request[r].at # "publish",
         IsSession(session'), OneStory(session'), session'.revision = session.revision + 1
  PROVE  RequestsKept' /\ LiveInv' /\ \A q \in Requests : q # r => request'[q] = request[q]
<1>1. /\ DOMAIN request' = Requests
      /\ request'[r].at = "publish" /\ "at" \in DOMAIN request'[r]
      /\ \A q \in Requests : q # r => request'[q] = request[q]
  BY DEF LiveInv, RequestsKept
<1>2. RequestsKept'
  BY <1>1 DEF LiveInv, RequestsKept
<1>3. CopiesKept'
  BY <1>1 DEF LiveInv, CopiesKept, Current, IsSession, CommandStages, Statements
<1>4. TimerMatchesState'
  BY DEF TimerMatchesState, OneStory
<1>5. WatcherWillSee'
  BY <1>1 DEF WatcherWillSee
<1> QED
  BY <1>1, <1>2, <1>3, <1>4, <1>5 DEF LiveInv, WatchersKept

\* A command that ends: nothing of it remains.
LEMMA RequestEnds ==
  ASSUME LiveInv, NEW r \in Requests, Done(r), request[r].at # "publish", UNCHANGED <<session, watcher>>
  PROVE  LiveInv' /\ SavesSerially
<1>1. "at" \in DOMAIN Idle /\ Idle.at = "idle"
  BY DEF Idle
<1>2. request' = [request EXCEPT ![r] = Idle]
  BY DEF Done
<1>3. IsSession(session') /\ Decided(session') = Decided(session) /\ session'.revision = session.revision
  BY DEF LiveInv, IsSession, Decided
<1> QED
  BY <1>1, <1>2, <1>3, RequestMove DEF CommandStages, Statements

\* A copy is saved when the revision is still the one it was read with, so it is the session.
LEMMA SaveStep ==
  ASSUME LiveInv, NEW r \in Requests, SaveSession(r)
  PROVE  LiveInv' /\ SavesSerially
<1> DEFINE s == request[r].copy
<1>1. /\ IsSession(s) /\ OneStory(s) /\ Allowed(request[r]) /\ Current(s)
      /\ request[r].base \in Nat /\ request[r].base <= s.revision
      /\ request[r].at = "save" /\ UNCHANGED watcher
  BY DEF SaveSession, LiveInv, CopiesKept, CommandStages, Statements
<1>2. CASE session.revision # request[r].base
  BY <1>1, <1>2, RequestEnds DEF SaveSession
<1>3. CASE session.revision = request[r].base
  <2>1. s.revision = session.revision /\ Decided(s) = Decided(session)
    BY <1>1, <1>3 DEF Current, LiveInv, IsSession
  <2>2. session' = [Written(request[r]) EXCEPT !.revision = session.revision + 1]
    BY <1>3 DEF SaveSession
  <2>3. IsSession(Written(request[r])) /\ OneStory(Written(request[r]))
    BY <1>1, WrittenWell
  <2>4. IsSession(session') /\ OneStory(session') /\ session'.revision = session.revision + 1
    BY <2>2, <2>3 DEF IsSession, OneStory, LiveInv
  <2>5. request' = [request EXCEPT ![r].at = "publish"]
    BY <1>3 DEF SaveSession, Goto
  <2>6. LiveInv' /\ \A q \in Requests : q # r => request'[q] = request[q]
    BY <1>1, <2>4, <2>5, NewRevision
  <2>7. SavesSerially
    BY <2>1, <2>4, <2>6 DEF SavesSerially, Decided
  <2> QED
    BY <2>6, <2>7
<1> QED
  BY <1>2, <1>3

\* The draw and the reset raise the revision, so copies read before are not saved any more.
LEMMA OtherRevisions ==
  ASSUME LiveInv, NEW r \in Requests, BumpSessionRevision(r) \/ ResetChallengeRuntime(r)
  PROVE  LiveInv' /\ SavesSerially
<1>1. CASE BumpSessionRevision(r)
  <2>1. session' = [session EXCEPT !.revision = @ + 1]
    BY <1>1 DEF BumpSessionRevision
  <2>2. IsSession(session') /\ OneStory(session') /\ session'.revision = session.revision + 1
    BY <2>1 DEF IsSession, OneStory, LiveInv, TimerMatchesState
  <2>3. LiveInv' /\ \A q \in Requests : q # r => request'[q] = request[q]
    BY <1>1, <2>2, NewRevision DEF BumpSessionRevision, Goto
  <2> QED
    BY <1>1, <2>3 DEF SavesSerially, BumpSessionRevision
<1>2. CASE ResetChallengeRuntime(r) /\ session.revision # request[r].copy.revision
  BY <1>2, RequestEnds DEF ResetChallengeRuntime
<1>3. CASE ResetChallengeRuntime(r) /\ session.revision = request[r].copy.revision
  <2>1. session' = [ResetSessionIdle(request[r].copy) EXCEPT !.revision = @ + 1]
    BY <1>3 DEF ResetChallengeRuntime
  <2>2. session' = [state |-> "NOT_STARTED", phase |-> None, running |-> FALSE, paused |-> FALSE,
                    contestant |-> None, performance |-> None, question |-> 1,
                    count |-> request[r].copy.count, revision |-> session.revision + 1]
    BY <1>3, <2>1 DEF ResetSessionIdle, NewSession
  <2> HIDE <2>1
  <2>3. session.revision + 1 \in Nat \ {0}
    BY DEF LiveInv, IsSession
  <2>4. IsSession(session') /\ OneStory(session') /\ session'.revision = session.revision + 1
    BY <2>2, <2>3 DEF IsSession, OneStory, States, Phases
  <2>5. LiveInv' /\ \A q \in Requests : q # r => request'[q] = request[q]
    BY <1>3, <2>4, NewRevision DEF ResetChallengeRuntime, Goto
  <2> QED
    BY <1>3, <2>5 DEF SavesSerially, ResetChallengeRuntime
<1> QED
  BY <1>1, <1>2, <1>3

-----------------------------------------------------------------------------
(* The draw and the questions: they do not touch what a command decides on. *)

\* the session changes in fields that decide nothing
Beside == IsSession(session') /\ Decided(session') = Decided(session) /\ session'.revision = session.revision

\* The statements of a draw and of a reset that leave the session's row alone, and a request that stops.
LEMMA DrawStep ==
  ASSUME LiveInv, NEW r \in Requests,
         ReplaceDraw(r) \/ ResetRuntime(r) \/ StoreDraw(r) \/ SetCurrentContestant(r) \/ Stop(r)
  PROVE  LiveInv' /\ SavesSerially
<1>1. CASE ReplaceDraw(r) \/ ResetRuntime(r) \/ StoreDraw(r) \/ Stop(r)
  <2>1. Beside /\ UNCHANGED watcher
    BY <1>1 DEF Beside, ReplaceDraw, ResetRuntime, StoreDraw, Stop, sessionVars, LiveInv, IsSession, Decided
  <2>2. request[r].at # "publish"
    BY <1>1 DEF ReplaceDraw, ResetRuntime, StoreDraw, Stop, Idle
  <2>3. \E doing : /\ request' = [request EXCEPT ![r] = doing]
                   /\ "at" \in DOMAIN doing /\ doing.at \notin CommandStages \cup {"publish"}
    BY <1>1 DEF ReplaceDraw, ResetRuntime, StoreDraw, Stop, Done, Idle, CommandStages, Statements
  <2> QED
    BY <2>1, <2>2, <2>3, RequestMove DEF Beside
<1>2. CASE SetCurrentContestant(r)
  <2>1. session' = [session EXCEPT !.contestant = request[r].first]
    BY <1>2 DEF SetCurrentContestant
  <2>2. Beside
    BY <2>1 DEF Beside, LiveInv, IsSession, Decided
  <2> DEFINE doing == [request[r] EXCEPT !.at = "bump"]
  <2>3. request' = [request EXCEPT ![r] = doing] /\ UNCHANGED watcher /\ request[r].at = "first"
    BY <1>2 DEF SetCurrentContestant, Goto
  <2>4. "at" \in DOMAIN doing /\ doing.at = "bump"
    BY DEF LiveInv, RequestsKept
  <2> QED
    BY <2>2, <2>3, <2>4, RequestMove DEF Beside, CommandStages, Statements
<1> QED
  BY <1>1, <1>2

\* An empty stage is given a contestant without a command.
LEMMA FillStep ==
  ASSUME LiveInv, FillCurrentIfEmpty
  PROVE  LiveInv' /\ SavesSerially
<1>1. session' = [session EXCEPT !.contestant = order[1]] /\ UNCHANGED <<request, watcher>>
  BY DEF FillCurrentIfEmpty
<1>2. Beside
  BY <1>1 DEF Beside, LiveInv, IsSession, Decided
<1>3. /\ session'.state = session.state /\ session'.phase = session.phase
      /\ session'.running = session.running /\ session'.paused = session.paused
  BY <1>2 DEF Beside, Decided
<1>4. RequestsKept' /\ WatchersKept' /\ WatcherWillSee' /\ SavesSerially
  BY <1>1, <1>2 DEF LiveInv, RequestsKept, WatchersKept, WatcherWillSee, SavesSerially, Beside
<1>5. CopiesKept'
  BY <1>1, <1>2 DEF LiveInv, CopiesKept, Current, Beside
<1>6. TimerMatchesState'
  BY <1>3 DEF LiveInv, TimerMatchesState
<1> QED
  BY <1>2, <1>4, <1>5, <1>6 DEF LiveInv, Beside

\* A request with a life event decided on is at its insert.
LEMMA InsertingIsInsert ==
  ASSUME NEW r, NEW c, NEW delta, NEW reverses
  PROVE  LET doing == Inserting(r, c, delta, reverses) IN "at" \in DOMAIN doing /\ doing.at = "insert"
  BY DEF Inserting

\* A request that brings a question in step is at the stage it was sent to.
LEMMA SyncingAt ==
  ASSUME NEW op, NEW stage, NEW by, NEW todo, NEW q, NEW last
  PROVE  LET doing == Syncing(op, stage, by, todo, q, last) IN "at" \in DOMAIN doing /\ doing.at = stage
  BY DEF Syncing

\* a request about lives begins
LEMMA AskMove ==
  ASSUME NEW r \in Requests, NEW first, Ask(r, first), "at" \in DOMAIN first,
         first.at \notin CommandStages \cup {"publish"}
  PROVE  \E doing : /\ request' = [request EXCEPT ![r] = doing]
                    /\ "at" \in DOMAIN doing /\ doing.at \notin CommandStages \cup {"publish"}
  BY DEF Ask

\* what a request about lives goes on to, whichever it is
LEMMA LifeStep ==
  ASSUME LiveInv, NEW r \in Requests,
         \/ JuryRequest(r) \/ LookWrong(r) \/ LookRestore(r) \/ UpsertAnswerMark(r)
         \/ UpsertQuestionKey(r) \/ ListAnswerMarks(r) \/ InsertLifeEvent(r)
  PROVE  LiveInv' /\ SavesSerially
<1>1. Beside /\ UNCHANGED watcher
  BY DEF Beside, JuryRequest, JuryWrongAnswer, JuryRestoreLife, JurySetAnswer, AdminSetCorrectAnswer,
         AdminSetQuestionPlan, Ask, LookWrong, LookRestore, UpsertAnswerMark, UpsertQuestionKey,
         ListAnswerMarks, InsertLifeEvent, sessionVars, LiveInv, IsSession, Decided
<1>2. request[r].at # "publish"
  BY DEF JuryRequest, JuryWrongAnswer, JuryRestoreLife, JurySetAnswer, AdminSetCorrectAnswer,
         AdminSetQuestionPlan, Ask, Idle, LookWrong, LookRestore, UpsertAnswerMark, UpsertQuestionKey,
         ListAnswerMarks, InsertLifeEvent
<1>3. \E doing : /\ request' = [request EXCEPT ![r] = doing]
                 /\ "at" \in DOMAIN doing /\ doing.at \notin CommandStages \cup {"publish"}
  <2>1. CASE JuryRequest(r)
    <3>1. CASE JuryWrongAnswer(r)
      <4>1. PICK j \in Jury, c \in Contestants :
              Ask(r, [op |-> "wrong", at |-> "look", by |-> j, contestant |-> c, question |-> session.question])
        BY <3>1 DEF JuryWrongAnswer
      <4> QED
        BY <4>1, AskMove DEF CommandStages, Statements
    <3>2. CASE JuryRestoreLife(r)
      <4>1. PICK j \in Jury, c \in Contestants, q \in Questions :
              Ask(r, [op |-> "restore", at |-> "look", by |-> IF Operator = None THEN j ELSE Operator,
                      contestant |-> c, question |-> q])
        BY <3>2 DEF JuryRestoreLife
      <4> QED
        BY <4>1, AskMove DEF CommandStages, Statements
    <3>3. CASE JurySetAnswer(r)
      <4>1. PICK j \in Jury, c \in Contestants, answer \in Answers :
              Ask(r, [op |-> "answer", at |-> "mark", by |-> j, contestant |-> c,
                      question |-> session.question, answer |-> answer])
        BY <3>3 DEF JurySetAnswer
      <4> QED
        BY <4>1, AskMove DEF CommandStages, Statements
    <3>4. CASE AdminSetCorrectAnswer(r)
      <4>1. PICK answer \in Answers :
              Ask(r, [op |-> "key", at |-> "key", question |-> session.question, answer |-> answer])
        BY <3>4 DEF AdminSetCorrectAnswer
      <4> QED
        BY <4>1, AskMove DEF CommandStages, Statements
    <3>5. CASE AdminSetQuestionPlan(r)
      <4>1. PICK count \in Questions : \E keys \in [1 .. count -> Answers] :
              Ask(r, [op |-> "plan", at |-> "keys", keys |-> keys, count |-> count])
        BY <3>5 DEF AdminSetQuestionPlan
      <4>2. PICK keys \in [1 .. count -> Answers] :
              Ask(r, [op |-> "plan", at |-> "keys", keys |-> keys, count |-> count])
        BY <4>1
      <4> QED
        BY <4>2, AskMove DEF CommandStages, Statements
    <3> QED
      BY <2>1, <3>1, <3>2, <3>3, <3>4, <3>5 DEF JuryRequest
  <2>0. \A stage \in {"idle", "sync", "list"} : stage \notin CommandStages \cup {"publish"}
    BY DEF CommandStages, Statements
  <2>2. CASE LookWrong(r) \/ LookRestore(r)
    BY <2>2, InsertingIsInsert DEF LookWrong, LookRestore, Done, Idle, CommandStages, Statements
  <2>3. CASE UpsertAnswerMark(r) \/ UpsertQuestionKey(r) \/ ListAnswerMarks(r)
    <3>1. PICK stage \in {"sync", "list"} : \E op, by, todo, q, last :
            request' = [request EXCEPT ![r] = Syncing(op, stage, by, todo, q, last)]
      BY <2>3 DEF UpsertAnswerMark, UpsertQuestionKey, ListAnswerMarks
    <3>2. PICK op, by, todo, q, last : request' = [request EXCEPT ![r] = Syncing(op, stage, by, todo, q, last)]
      BY <3>1
    <3> DEFINE doing == Syncing(op, stage, by, todo, q, last)
    <3>3. "at" \in DOMAIN doing /\ doing.at = stage
      BY SyncingAt
    <3> HIDE DEF doing
    <3>4. request' = [request EXCEPT ![r] = doing]
      BY <3>2 DEF doing
    <3>5. doing.at \notin CommandStages \cup {"publish"}
      BY <2>0, <3>3
    <3> QED
      BY <3>3, <3>4, <3>5
  <2>4. CASE InsertLifeEvent(r)
    <3>1. \/ request' = [request EXCEPT ![r] = Idle]
          \/ \E op, by, todo, q, last : request' = [request EXCEPT ![r] = Syncing(op, "sync", by, todo, q, last)]
      BY <2>4 DEF InsertLifeEvent, Done
    <3>2. "at" \in DOMAIN Idle /\ Idle.at = "idle"
      BY DEF Idle
    <3> QED
      BY <2>0, <3>1, <3>2, SyncingAt
  <2> QED
    BY <2>1, <2>2, <2>3, <2>4
<1> QED
  BY <1>1, <1>2, <1>3, RequestMove DEF Beside

\* Keys, the number of questions and the look at a mark save no copy.
LEMMA PlanStep ==
  ASSUME LiveInv, NEW r \in Requests, ReplaceQuestionKeys(r) \/ SetQuestionCount(r) \/ SyncLifeForMark(r)
  PROVE  LiveInv' /\ SavesSerially
<1>1. CASE ReplaceQuestionKeys(r)
  <2> DEFINE doing == [request[r] EXCEPT !.at = "count"]
  <2>1. "at" \in DOMAIN doing /\ doing.at = "count"
    BY DEF LiveInv, RequestsKept
  <2>2. request' = [request EXCEPT ![r] = doing] /\ UNCHANGED watcher /\ request[r].at = "keys"
    BY <1>1 DEF ReplaceQuestionKeys, Goto
  <2>3. Beside
    BY <1>1 DEF ReplaceQuestionKeys, sessionVars, Beside, LiveInv, IsSession, Decided
  <2> QED
    BY <2>1, <2>2, <2>3, RequestMove DEF Beside, CommandStages, Statements
<1>2. CASE SetQuestionCount(r)
  <2> DEFINE doing == Syncing("plan", "list", Operator, {}, 1, request[r].count)
  <2>1. "at" \in DOMAIN doing /\ doing.at = "list"
    BY DEF Syncing
  <2>2. request' = [request EXCEPT ![r] = doing] /\ UNCHANGED watcher /\ request[r].at = "count"
    BY <1>2 DEF SetQuestionCount
  <2>3. Beside
    BY <1>2 DEF SetQuestionCount, Beside, LiveInv, IsSession, Decided
  <2> QED
    BY <2>1, <2>2, <2>3, RequestMove DEF Beside, CommandStages, Statements
<1>3. CASE SyncLifeForMark(r)
  <2>1. PICK m \in request[r].todo :
          LET q == request[r].question
              by == request[r].by
              action == IF key[q] = "NONE" THEN "nothing"
                        ELSE LifeSyncAction(m[2], key[q], OpenWrong(by, m[1], q) # {}, ViewerLives(by, m[1])) IN
          request' = [request EXCEPT ![r] =
            CASE action = "miss" -> Inserting(r, m[1], "minus", 0)
              [] action = "restore" -> Inserting(r, m[1], "plus", OpenWrongEvent(by, m[1], q).id)
              [] OTHER -> [request[r] EXCEPT !.todo = @ \ {m}]]
    BY <1>3 DEF SyncLifeForMark
  <2> DEFINE rest == [request[r] EXCEPT !.todo = @ \ {m}]
  <2>2. request[r].at = "sync" /\ UNCHANGED watcher
    BY <1>3 DEF SyncLifeForMark
  <2>3. "at" \in DOMAIN rest /\ rest.at = "sync"
    BY <2>2 DEF LiveInv, RequestsKept
  <2> DEFINE q == request[r].question
             by == request[r].by
             action == IF key[q] = "NONE" THEN "nothing"
                       ELSE LifeSyncAction(m[2], key[q], OpenWrong(by, m[1], q) # {}, ViewerLives(by, m[1]))
  <2> HIDE DEF action
  <2>4. \/ request' = [request EXCEPT ![r] = Inserting(r, m[1], "minus", 0)]
        \/ request' = [request EXCEPT ![r] = Inserting(r, m[1], "plus", OpenWrongEvent(by, m[1], q).id)]
        \/ request' = [request EXCEPT ![r] = rest]
    <3>1. CASE action = "miss"
      BY <2>1, <3>1 DEF action
    <3>2. CASE action = "restore"
      BY <2>1, <3>2 DEF action
    <3>3. CASE action # "miss" /\ action # "restore"
      BY <2>1, <3>3 DEF action
    <3> QED
      BY <3>1, <3>2, <3>3
  <2>5. \E doing : /\ request' = [request EXCEPT ![r] = doing]
                   /\ "at" \in DOMAIN doing /\ doing.at \notin CommandStages \cup {"publish"}
    BY <2>3, <2>4, InsertingIsInsert DEF CommandStages, Statements
  <2>6. Beside
    BY <1>3 DEF SyncLifeForMark, sessionVars, Beside, LiveInv, IsSession, Decided
  <2> QED
    BY <2>2, <2>5, <2>6, RequestMove DEF Beside
<1> QED
  BY <1>1, <1>2, <1>3

-----------------------------------------------------------------------------
(* The hub. *)

\* every joined watcher's channel has got an event, or was full of them
Told == watcher' = [w \in Watchers |-> IF watcher[w].joined /\ watcher[w].queue < Buffer
                      THEN [watcher[w] EXCEPT !.queue = @ + 1] ELSE watcher[w]]

\* An event to the hub leaves every subscriber something to read.
LEMMA ToldAll ==
  ASSUME LiveInv, Told
  PROVE  /\ WatchersKept'
         /\ \A w \in Watchers : watcher'[w].joined => watcher'[w].queue > 0
  BY BufferPositive DEF LiveInv, Told, WatchersKept

\* A revision is published, or the next mark is taken.
LEMMA PublishStep ==
  ASSUME LiveInv, NEW r \in Requests, Publish(r) \/ SyncNext(r)
  PROVE  LiveInv' /\ SavesSerially
<1>1. CASE request[r].at = "sync" /\ UNCHANGED watcher
  <2>1. Beside
    BY <1>1 DEF Publish, SyncNext, sessionVars, Beside, LiveInv, IsSession, Decided
  <2>2. \A stage \in {"idle", "list"} : stage \notin CommandStages \cup {"publish"}
    BY DEF CommandStages, Statements
  <2>3. \/ request' = [request EXCEPT ![r] = Idle]
        \/ \E op, by, todo, q, last : request' = [request EXCEPT ![r] = Syncing(op, "list", by, todo, q, last)]
    BY <1>1 DEF Publish, SyncNext, Done
  <2>4. "at" \in DOMAIN Idle /\ Idle.at = "idle"
    BY DEF Idle
  <2> QED
    BY <1>1, <2>1, <2>2, <2>3, <2>4, SyncingAt, RequestMove DEF Beside
<1>2. CASE Told
  <2>1. \/ request' = [request EXCEPT ![r] = Idle] /\ UNCHANGED session
        \/ UNCHANGED watcher /\ request[r].at = "sync"
    BY DEF Publish, SyncNext, Done, sessionVars, Synced
  <2>2. CASE request' = [request EXCEPT ![r] = Idle] /\ UNCHANGED session
    <3>1. /\ RequestsKept' /\ request'[r] = Idle
          /\ \A q \in Requests : q # r => request'[q] = request[q]
      BY <2>2 DEF LiveInv, RequestsKept, Idle
    <3>2. CopiesKept'
      BY <2>2, <3>1 DEF LiveInv, CopiesKept, Current, Idle, CommandStages, Statements
    <3>3. WatchersKept' /\ WatcherWillSee'
      BY <1>2, ToldAll DEF WatcherWillSee
    <3>4. IsSession(session') /\ TimerMatchesState' /\ SavesSerially
      BY <2>2, <3>1 DEF LiveInv, TimerMatchesState, SavesSerially, Idle
    <3> QED
      BY <3>1, <3>2, <3>3, <3>4 DEF LiveInv
  <2> QED
    BY <1>1, <2>1, <2>2
<1>3. Told \/ (request[r].at = "sync" /\ UNCHANGED watcher)
  BY DEF Publish, SyncNext, Synced, Told
<1> QED
  BY <1>1, <1>2, <1>3

\* A watcher comes, reads an event and fetches the session, or goes.
LEMMA WatcherStep ==
  ASSUME LiveInv, NEW w \in Watchers, Subscribe(w) \/ Receive(w) \/ Unsubscribe(w)
  PROVE  LiveInv' /\ SavesSerially
<1>1. UNCHANGED <<session, request>>
  BY DEF Subscribe, Receive, Unsubscribe, sessionVars
<1>2. RequestsKept' /\ IsSession(session') /\ CopiesKept' /\ TimerMatchesState' /\ SavesSerially
  BY <1>1 DEF LiveInv, RequestsKept, CopiesKept, Current, TimerMatchesState, SavesSerially
<1>3. ASSUME NEW row \in [joined: BOOLEAN, hello: BOOLEAN, queue: Nat, shown: Nat],
             watcher' = [watcher EXCEPT ![w] = row]
      PROVE  /\ WatchersKept' /\ watcher'[w] = row
             /\ \A v \in Watchers : v # w => watcher'[v] = watcher[v]
  BY <1>3 DEF LiveInv, WatchersKept
<1>4. /\ WatchersKept' /\ \A v \in Watchers : v # w => watcher'[v] = watcher[v]
      /\ watcher'[w].joined => watcher'[w].hello \/ watcher'[w].shown = session.revision
  <2>1. CASE Subscribe(w)
    <3> DEFINE row == [joined |-> TRUE, hello |-> TRUE, queue |-> 0, shown |-> 0]
    <3>1. watcher' = [watcher EXCEPT ![w] = row]
      BY <2>1 DEF Subscribe
    <3>2. row \in [joined: BOOLEAN, hello: BOOLEAN, queue: Nat, shown: Nat] /\ row.hello
      OBVIOUS
    <3> HIDE DEF row
    <3> QED
      BY <3>1, <3>2, <1>3
  <2>2. CASE Receive(w)
    <3> DEFINE left == IF watcher[w].hello THEN watcher[w].queue ELSE watcher[w].queue - 1
               row == [watcher[w] EXCEPT !.hello = FALSE, !.queue = left, !.shown = session.revision]
    <3>1. watcher' = [watcher EXCEPT ![w] = row]
      BY <2>2 DEF Receive
    <3>2. /\ watcher[w] \in [joined: BOOLEAN, hello: BOOLEAN, queue: Nat, shown: Nat]
          /\ session.revision \in Nat
      BY DEF LiveInv, WatchersKept, IsSession
    <3>3. left \in Nat
      BY <2>2, <3>2 DEF Receive
    <3> HIDE DEF left
    <3>4. row \in [joined: BOOLEAN, hello: BOOLEAN, queue: Nat, shown: Nat] /\ row.shown = session.revision
      BY <3>2, <3>3
    <3> QED
      BY <3>1, <3>4, <1>3
  <2>3. CASE Unsubscribe(w)
    <3>1. watcher' = [watcher EXCEPT ![w] = Away]
      BY <2>3 DEF Unsubscribe
    <3>2. Away \in [joined: BOOLEAN, hello: BOOLEAN, queue: Nat, shown: Nat] /\ ~Away.joined
      BY DEF Away
    <3> QED
      BY <3>1, <3>2, <1>3
  <2> QED
    BY <2>1, <2>2, <2>3
<1>5. WatcherWillSee'
  BY <1>1, <1>4 DEF LiveInv, WatcherWillSee, IsSession
<1> QED
  BY <1>2, <1>4, <1>5 DEF LiveInv

\* A crash empties the hub and ends every request.
LEMMA CrashStep ==
  ASSUME LiveInv, Crash
  PROVE  LiveInv' /\ SavesSerially
<1>1. /\ UNCHANGED session
      /\ DOMAIN request' = Requests /\ \A r \in Requests : request'[r] = Idle
      /\ watcher' = [w \in Watchers |-> Away]
  BY DEF Crash, sessionVars
<1>2. RequestsKept' /\ CopiesKept' /\ SavesSerially
  BY <1>1 DEF RequestsKept, CopiesKept, SavesSerially, Idle, CommandStages, Statements
<1>3. WatchersKept' /\ WatcherWillSee'
  BY <1>1 DEF WatchersKept, WatcherWillSee, Away
<1> QED
  BY <1>1, <1>2, <1>3 DEF LiveInv, TimerMatchesState

\* Every step keeps the invariant of the session and saves serially.
LEMMA LiveStep ==
  ASSUME LiveInv, [Next]_vars
  PROVE  LiveInv' /\ SavesSerially
<1>1. CASE LiveNext
  BY <1>1, CommandsStep, StatementsStep, DrawStep, SaveStep, OtherRevisions, PublishStep, WatcherStep, FillStep, CrashStep
  DEF LiveNext
<1>2. CASE ~LiveNext /\ Next
  BY <1>2, LifeStep, PlanStep, PublishStep DEF Next
<1>3. CASE UNCHANGED vars
  BY <1>3 DEF vars, LiveInv, RequestsKept, CopiesKept, Current, WatchersKept, TimerMatchesState,
              WatcherWillSee, SavesSerially
<1> QED
  BY <1>1, <1>2, <1>3

-----------------------------------------------------------------------------
(* Theorems. *)

\* The inductive invariant: sessions, the copies of commands in progress, and watchers.
THEOREM LiveCorrect == Spec => []LiveInv
<1>1. LifeInit => LiveInv
  BY LiveInit
<1>2. LiveInv /\ [Next]_vars => LiveInv'
  BY LiveStep
<1> QED
  BY <1>1, <1>2, PTL DEF Spec

\* Whatever commands, draws, resets and crashes have done, timer and state tell one story.
THEOREM TimerSafe == Spec => []TimerMatchesState
<1>1. LiveInv => TimerMatchesState
  BY DEF LiveInv
<1> QED
  BY <1>1, LiveCorrect, PTL

\* No watcher stays behind for ever: one who has not seen the newest revision has an event due.
THEOREM WatcherSafe == Spec => []WatcherWillSee
<1>1. LiveInv => WatcherWillSee
  BY DEF LiveInv
<1> QED
  BY <1>1, LiveCorrect, PTL

\* A command is saved only over the session it decided on.
THEOREM SavedSerially == Spec => CommandsSerialise
<1>1. LiveInv /\ [Next]_vars => [SavesSerially]_vars
  BY LiveStep
<1>2. [SavesSerially]_vars <=>
        [\A r \in Requests :
           request[r].at = "save" /\ request'[r].at = "publish" =>
             LET s == request[r].copy IN
             /\ <<s.state, s.phase, s.running, s.paused, s.performance>>
                  = <<session.state, session.phase, session.running, session.paused, session.performance>>
             /\ session'.revision = s.revision + 1]_vars
  BY DEF SavesSerially
<1> QED
  BY <1>1, <1>2, LiveCorrect, PTL DEF Spec, CommandsSerialise

-----------------------------------------------------------------------------
(* The board, event by event: the recursion of the fold. *)

\* the last of a set of events
Newest(s) == Max(s)

\* g is the board of author and c after each set of events that a prefix may be
Boards(g, author, c, ev, S) ==
  g = [s \in SUBSET S |-> IF s = {} THEN FullLives
                          ELSE LET x == Max(s) IN BoardStep(author, c, g[s \ {x}], ev[x])]

BoardsOf(author, c, ev, S) == CHOOSE g : Boards(g, author, c, ev, S)

Board(author, c, ev) == BoardsOf(author, c, ev, DOMAIN ev)[DOMAIN ev]

\* The board of ApplyLifeEvents is the fold over all numbers of events.
LEMMA BoardIsFold == \A author, c : ApplyLifeEvents(author, c) = Board(author, c, event)
  BY DEF ApplyLifeEvents, FoldLeft, MapThenFoldSet, Board, BoardsOf, Boards

BoardAfter(g, author, c, ev, s) ==
  g[s] = IF s = {} THEN FullLives ELSE BoardStep(author, c, g[s \ {Newest(s)}], ev[Newest(s)])

\* What the functions that satisfy the fold's equation are at a set.
LEMMA BoardsAt ==
  ASSUME NEW author, NEW c, NEW ev, NEW S, NEW g, Boards(g, author, c, ev, S)
  PROVE  \A s \in SUBSET S : BoardAfter(g, author, c, ev, s)
  BY DEF Boards, Newest, BoardAfter

\* A set of numbers that is not empty has its newest among them.
LEMMA NewestIn == ASSUME NEW n \in Nat PROVE \A s \in SUBSET (1 .. n) : s # {} => Newest(s) \in s
<1> SUFFICES ASSUME NEW s \in SUBSET (1 .. n), s # {} PROVE Newest(s) \in s
  OBVIOUS
<1> DEFINE t == {y \in 0 .. n : n - y \in s}
<1>1. IsFiniteSet(0 .. n)
  BY FS_Interval
<1>2. IsFiniteSet(t) /\ t \subseteq Int /\ t # {}
  <2>1. IsFiniteSet(t)
    BY <1>1, FS_Subset
  <2>2. PICK x \in s : TRUE
    OBVIOUS
  <2>3. n - x \in t
    BY <2>2
  <2> HIDE DEF t
  <2>4. t \subseteq 0 .. n
    BY DEF t
  <2> QED
    BY <2>1, <2>3, <2>4
<1> HIDE DEF t
<1>3. PICK m \in t : \A y \in t : m <= y
  BY <1>2, LeastElement
<1>4. PICK k \in s : m = n - k
  <2>1. n - m \in s /\ m = n - (n - m)
    BY <1>3 DEF t
  <2> QED
    BY <2>1
<1>5. ASSUME NEW y \in s PROVE k >= y
  <2>1. n - y \in t
    BY DEF t
  <2>2. m <= n - y
    BY <1>3, <2>1
  <2> QED
    BY <1>4, <2>2
<1> QED
  BY <1>5 DEF Newest, Max

\* what the board reads of an event is the same of both
Alike(d, e) == d.author = e.author /\ d.contestant = e.contestant /\ d.delta = e.delta /\ d.question = e.question

\* Boards of two sequences agree as far as the sequences do.
BothBoards(author, c, n, g, ev, A, h, ew, B) ==
  /\ n \in Nat /\ A \subseteq 1 .. n
  /\ Boards(g, author, c, ev, A) /\ Boards(h, author, c, ew, B)
  /\ \A x \in A \cap B : Alike(ev[x], ew[x])

\* Two folds that read the same events agree at every set they share.
LEMMA BoardsAgree ==
  ASSUME NEW author, NEW c, NEW n, NEW g, NEW ev, NEW A, NEW h, NEW ew, NEW B,
         BothBoards(author, c, n, g, ev, A, h, ew, B)
  PROVE  \A u \in SUBSET A : u \in SUBSET B => g[u] = h[u]
<1> USE DEF BothBoards
<1> DEFINE T == {u \in SUBSET A : u \in SUBSET B => g[u] = h[u]}
<1>i. IsFiniteSet(1 .. n)
  BY FS_Interval
<1>f. IsFiniteSet(A)
  BY <1>i, FS_Subset
<1>g. \A s \in SUBSET A : BoardAfter(g, author, c, ev, s)
  BY BoardsAt
<1>h. \A s \in SUBSET B : BoardAfter(h, author, c, ew, s)
  BY BoardsAt
<1>1. ASSUME NEW s \in SUBSET A, \A u \in SUBSET s : u # s => u \in T
      PROVE  s \in T
  <2> SUFFICES ASSUME s \in SUBSET B PROVE g[s] = h[s]
    OBVIOUS
  <2>1. /\ g[s] = IF s = {} THEN FullLives ELSE BoardStep(author, c, g[s \ {Newest(s)}], ev[Newest(s)])
        /\ h[s] = IF s = {} THEN FullLives ELSE BoardStep(author, c, h[s \ {Newest(s)}], ew[Newest(s)])
    BY <1>g, <1>h DEF BoardAfter
  <2>2. CASE s = {}
    BY <2>1, <2>2
  <2>3. CASE s # {}
    <3>1. Newest(s) \in s
      BY <2>3, NewestIn
    <3>2. s \ {Newest(s)} \in SUBSET s /\ s \ {Newest(s)} # s
      BY <3>1
    <3>3. g[s \ {Newest(s)}] = h[s \ {Newest(s)}] /\ Alike(ev[Newest(s)], ew[Newest(s)])
      BY <1>1, <3>1, <3>2
    <3>4. \A board : BoardStep(author, c, board, ev[Newest(s)]) = BoardStep(author, c, board, ew[Newest(s)])
      BY <3>3 DEF BoardStep, Alike
    <3> QED
      BY <2>1, <2>3, <3>3, <3>4
  <2> QED
    BY <2>2, <2>3
<1> HIDE DEF T
<1>2. \A s \in SUBSET A : s \in T
  BY <1>f, <1>1, SetInduction
<1> QED
  BY <1>2 DEF T

\* The same, to be cited for the board before and after an event.
LEMMA BoardsAgreeAll ==
  \A author, c, n, g, ev, A, h, ew, B : BothBoards(author, c, n, g, ev, A, h, ew, B) =>
    (A \in SUBSET B => g[A] = h[A])
  BY BoardsAgree

\* Every finite sequence has its boards.
LEMMA BoardsExist ==
  ASSUME NEW author, NEW c, NEW ev, NEW n \in Nat
  PROVE  Boards(BoardsOf(author, c, ev, 1 .. n), author, c, ev, 1 .. n)
<1> DEFINE T == {s \in SUBSET (1 .. n) : \E g : Boards(g, author, c, ev, s)}
           F(u) == BoardsOf(author, c, ev, u)
<1>1. ASSUME NEW s \in SUBSET (1 .. n), \A u \in SUBSET s : u # s => u \in T
      PROVE  s \in T
  <2> DEFINE h == [u \in SUBSET s |-> IF u = {} THEN FullLives
                     ELSE BoardStep(author, c, F(u \ {Newest(u)})[u \ {Newest(u)}], ev[Newest(u)])]
  <2>1. \A u \in SUBSET s : u # s => Boards(F(u), author, c, ev, u)
    BY <1>1 DEF BoardsOf
  <2> HIDE DEF F
  <2>2. ASSUME NEW w \in SUBSET s, w # s
        PROVE  h[w] = F(w)[w]
    <3>1. Boards(F(w), author, c, ev, w)
      BY <2>1, <2>2
    <3>2. F(w)[w] = IF w = {} THEN FullLives
                    ELSE BoardStep(author, c, F(w)[w \ {Newest(w)}], ev[Newest(w)])
      <4>1. BoardAfter(F(w), author, c, ev, w)
        BY <3>1, BoardsAt
      <4> QED
        BY <4>1 DEF BoardAfter
    <3>3. CASE w = {}
      BY <3>2, <3>3
    <3>4. CASE w # {}
      <4> DEFINE v == w \ {Newest(w)}
      <4>1. v \in SUBSET s /\ v # s /\ v \in SUBSET w
        BY <2>2, <3>4, NewestIn
      <4>2. Boards(F(v), author, c, ev, v) /\ v \in SUBSET (1 .. n)
        BY <2>1, <4>1
      <4>3. F(v)[v] = F(w)[v]
        <5>1. BothBoards(author, c, n, F(v), ev, v, F(w), ev, w)
          BY <3>1, <4>1, <4>2 DEF BothBoards, Alike
        <5> QED
          BY <4>1, <5>1, BoardsAgreeAll
      <4> QED
        BY <3>2, <3>4, <4>3
    <3> QED
      BY <3>3, <3>4
  <2>3. ASSUME NEW u \in SUBSET s
        PROVE  h[u] = IF u = {} THEN FullLives
                      ELSE LET x == Max(u) IN BoardStep(author, c, h[u \ {x}], ev[x])
    <3>1. CASE u = {}
      BY <3>1
    <3>2. CASE u # {}
      <4>1. u \ {Newest(u)} \in SUBSET s /\ u \ {Newest(u)} # s
        BY <3>2, NewestIn
      <4>2. h[u \ {Newest(u)}] = F(u \ {Newest(u)})[u \ {Newest(u)}]
        BY <2>2, <4>1
      <4>3. h[u] = BoardStep(author, c, F(u \ {Newest(u)})[u \ {Newest(u)}], ev[Newest(u)])
        BY <3>2
      <4> HIDE DEF h
      <4> QED
        BY <3>2, <4>2, <4>3 DEF Newest
    <3> QED
      BY <3>1, <3>2
  <2>4. h = [u \in SUBSET s |-> h[u]]
    OBVIOUS
  <2> HIDE DEF h
  <2>5. h = [u \in SUBSET s |-> IF u = {} THEN FullLives
                ELSE LET x == Max(u) IN BoardStep(author, c, h[u \ {x}], ev[x])]
    BY <2>3, <2>4
  <2>6. Boards(h, author, c, ev, s)
    BY <2>5 DEF Boards
  <2> QED
    BY <2>6
<1> HIDE DEF T
<1>2. IsFiniteSet(1 .. n)
  BY FS_Interval
<1>3. \A s \in SUBSET (1 .. n) : s \in T
  BY <1>1, <1>2, SetInduction
<1>4. \E g : Boards(g, author, c, ev, 1 .. n)
  BY <1>3 DEF T
<1> QED
  BY <1>4 DEF BoardsOf

\* The board begins with all lives.
LEMMA BoardEmpty == \A author, c : Board(author, c, <<>>) = FullLives
<1> SUFFICES ASSUME NEW author, NEW c PROVE Board(author, c, <<>>) = FullLives
  OBVIOUS
<1>1. DOMAIN <<>> = 1 .. 0
  OBVIOUS
<1>2. Boards(BoardsOf(author, c, <<>>, 1 .. 0), author, c, <<>>, 1 .. 0)
  BY BoardsExist
<1> DEFINE g == BoardsOf(author, c, <<>>, 1 .. 0)
<1>3. BoardAfter(g, author, c, <<>>, 1 .. 0)
  BY <1>2, BoardsAt
<1>4. 1 .. 0 = {}
  OBVIOUS
<1> HIDE DEF g
<1>5. g[1 .. 0] = FullLives
  BY <1>3, <1>4 DEF BoardAfter
<1> QED
  BY <1>1, <1>5 DEF Board, g

\* An event changes the board by one step.
LEMMA BoardAppend ==
  ASSUME NEW S, NEW ev \in Seq(S), NEW e
  PROVE  \A author, c : Board(author, c, Append(ev, e)) = BoardStep(author, c, Board(author, c, ev), e)
<1> SUFFICES ASSUME NEW author, NEW c
             PROVE  Board(author, c, Append(ev, e)) = BoardStep(author, c, Board(author, c, ev), e)
  OBVIOUS
<1>1. PICK n \in Nat : n = Len(ev)
  OBVIOUS
<1>2. PICK ew : ew = Append(ev, e)
  OBVIOUS
<1>3. /\ DOMAIN ev = 1 .. n /\ DOMAIN ew = 1 .. n + 1
      /\ ew[n + 1] = e /\ \A x \in 1 .. n : ew[x] = ev[x]
  BY <1>1, <1>2
<1> DEFINE A == 1 .. n
           B == 1 .. n + 1
           g == BoardsOf(author, c, ev, A)
           h == BoardsOf(author, c, ew, B)
<1>4. Boards(g, author, c, ev, A) /\ Boards(h, author, c, ew, B)
  BY BoardsExist
<1>5. Newest(B) = n + 1
  <2>1. \A x \in B : n + 1 >= x
    OBVIOUS
  <2>2. Newest(B) \in B /\ \A y \in B : Newest(B) >= y
    BY <2>1 DEF Newest, Max
  <2> QED
    BY <2>2
<1>6. B \ {n + 1} = A /\ B # {}
  OBVIOUS
<1>7. h[A] = g[A]
  <2>1. A \in SUBSET (1 .. n) /\ A \in SUBSET A /\ A \in SUBSET B /\ \A x \in A \cap B : ev[x] = ew[x]
    BY <1>3
  <2> HIDE DEF g, h, A, B
  <2>2. A \subseteq 1 .. n
    BY DEF A
  <2>4. BothBoards(author, c, n, g, ev, A, h, ew, B)
    BY <1>4, <2>1, <2>2 DEF BothBoards, Alike
  <2>5. \A u \in SUBSET A : u \in SUBSET B => g[u] = h[u]
    BY <2>4, BoardsAgree
  <2> QED
    BY <2>1, <2>5
<1>8. h[B] = BoardStep(author, c, h[A], e)
  <2>1. B \in SUBSET B
    OBVIOUS
  <2> HIDE DEF g, h, A, B
  <2>2. BoardAfter(h, author, c, ew, B)
    BY <1>4, <2>1, BoardsAt
  <2> QED
    BY <1>3, <1>5, <1>6, <2>2 DEF BoardAfter
<1> QED
  BY <1>2, <1>3, <1>7, <1>8 DEF Board

\* The board looks only at what an event says, not at what it reverses.
LEMMA BoardAlike ==
  ASSUME NEW n \in Nat, NEW ev, NEW ew, DOMAIN ev = 1 .. n, DOMAIN ew = 1 .. n,
         \A x \in 1 .. n : Alike(ev[x], ew[x])
  PROVE  \A author, c : Board(author, c, ev) = Board(author, c, ew)
<1> SUFFICES ASSUME NEW author, NEW c PROVE Board(author, c, ev) = Board(author, c, ew)
  OBVIOUS
<1> DEFINE A == 1 .. n
           g == BoardsOf(author, c, ev, A)
           h == BoardsOf(author, c, ew, A)
<1>1. Boards(g, author, c, ev, A) /\ Boards(h, author, c, ew, A)
  BY BoardsExist
<1> HIDE DEF g, h
<1>2. BothBoards(author, c, n, g, ev, A, h, ew, A)
  BY <1>1 DEF BothBoards
<1>3. g[A] = h[A]
  BY <1>2, BoardsAgreeAll
<1> QED
  BY <1>3 DEF Board, g, h

-----------------------------------------------------------------------------
(* The events of one author about one contestant: nothing that is counted   *)
(* or open among them depends on the others.                               *)

Taking(E) == {e \in E : e.delta = "minus"}
Giving(E) == {e \in E : e.delta = "plus"}

\* the lives taken that nothing has given back, and those of a question
Standing(E) == {e \in Taking(E) : \A f \in E : f.reverses # e.id}
Missed(E, q) == {e \in Standing(E) : e.question = q}

IsEvent(e) ==
  /\ e = Row(e, e.id) /\ e.id \in 1 .. rows /\ e.delta \in {"plus", "minus"} /\ e.reverses \in 0 .. rows

\* a row's id is its own, and an event that gives a life back refers to one of the same board
EventsRight ==
  /\ rows \in Nat /\ \E S : event \in Seq(S)
  /\ \A e \in Range(event) : IsEvent(e)
  /\ \A m, n \in DOMAIN event : event[m].id = event[n].id => m = n
  /\ \A e, f \in Range(event) : f.reverses = e.id => f.author = e.author /\ f.contestant = e.contestant

\* each life given back was taken before, no more are taken than there are, and a question takes one at a time
AddUp(E, lives) ==
  /\ Cardinality(Giving(E)) + Cardinality(Standing(E)) = Cardinality(Taking(E))
  /\ Cardinality(Taking(E)) <= Starting + Cardinality(Giving(E))
  /\ lives = Starting + Cardinality(Giving(E)) - Cardinality(Taking(E))
  /\ \A q : \A d, e \in Missed(E, q) : d = e

PairRight(author, c) == AddUp(EventsOf(author, c), Board(author, c, event).lives)

\* an event that has been decided on still does what it was decided on for
Fits(e, E) ==
  \/ /\ e.delta = "minus" /\ Missed(E, e.question) = {}
     /\ Cardinality(Taking(E)) < Starting + Cardinality(Giving(E))
  \/ /\ e.delta = "plus" /\ \A f \in E : f.id = e.reverses => f \in Missed(E, e.question)

\* Events are finitely many.
LEMMA EventsFinite ==
  ASSUME EventsRight
  PROVE  \A author, c : IsFiniteSet(EventsOf(author, c))
<1>1. PICK S : event \in Seq(S)
  BY DEF EventsRight
<1>2. IsFiniteSet(DOMAIN event)
  <2>1. DOMAIN event = 1 .. Len(event) /\ Len(event) \in Nat
    BY <1>1
  <2> QED
    BY <2>1, FS_Interval
<1>3. event \in Surjection(DOMAIN event, Range(event))
  <2>1. event \in [DOMAIN event -> Range(event)]
    BY <1>1 DEF Range
  <2>2. \A e \in Range(event) : \E n \in DOMAIN event : event[n] = e
    BY DEF Range
  <2> QED
    BY <2>1, <2>2 DEF Surjection
<1>4. IsFiniteSet(Range(event))
  BY <1>2, <1>3, FS_Surjection
<1>5. \A author, c : EventsOf(author, c) \in SUBSET Range(event)
  BY DEF EventsOf
<1> QED
  BY <1>4, <1>5, FS_Subset

\* Numbers of events are numbers.
LEMMA CountsNat ==
  ASSUME NEW E, IsFiniteSet(E)
  PROVE  /\ IsFiniteSet(Taking(E)) /\ IsFiniteSet(Giving(E)) /\ IsFiniteSet(Standing(E))
         /\ Cardinality(Taking(E)) \in Nat /\ Cardinality(Giving(E)) \in Nat /\ Cardinality(Standing(E)) \in Nat
<1>1. Taking(E) \in SUBSET E /\ Giving(E) \in SUBSET E /\ Standing(E) \in SUBSET E
  BY DEF Taking, Giving, Standing
<1>2. IsFiniteSet(Taking(E)) /\ IsFiniteSet(Giving(E)) /\ IsFiniteSet(Standing(E))
  BY <1>1, FS_Subset
<1> QED
  BY <1>2, FS_CardinalityType

\* What is open for an author is open among the author's events.
LEMMA OwnOpen ==
  ASSUME EventsRight
  PROVE  \A author, c, q : OpenWrong(author, c, q) = Missed(EventsOf(author, c), q)
<1> SUFFICES ASSUME NEW author, NEW c, NEW q
             PROVE  OpenWrong(author, c, q) = Missed(EventsOf(author, c), q)
  OBVIOUS
<1>1. \A e \in EventsOf(author, c) : Reversed(e.id) <=> \E f \in EventsOf(author, c) : f.reverses = e.id
  BY DEF EventsRight, EventsOf, Reversed
<1> QED
  BY <1>1 DEF OpenWrong, Missed, Standing, Taking

\* What the checks count for an author is counted among the author's events.
LEMMA OwnLives ==
  ASSUME EventsRight
  PROVE  \A author, c :
           LET gained == Starting + Cardinality(Giving(EventsOf(author, c)))
               lost == Cardinality(Taking(EventsOf(author, c))) IN
           /\ gained \in Nat /\ lost \in Nat
           /\ ViewerLives(author, c) = IF lost > gained THEN 0 ELSE gained - lost
<1> SUFFICES ASSUME NEW author, NEW c
             PROVE  LET gained == Starting + Cardinality(Giving(EventsOf(author, c)))
                        lost == Cardinality(Taking(EventsOf(author, c))) IN
                    /\ gained \in Nat /\ lost \in Nat
                    /\ ViewerLives(author, c) = IF lost > gained THEN 0 ELSE gained - lost
  OBVIOUS
<1>1. /\ Cardinality(Giving(EventsOf(author, c))) \in Nat
      /\ Cardinality(Taking(EventsOf(author, c))) \in Nat
  BY EventsFinite, CountsNat
<1>2. /\ Count(author, c, "plus") = Cardinality(Giving(EventsOf(author, c)))
      /\ Count(author, c, "minus") = Cardinality(Taking(EventsOf(author, c)))
  BY DEF Count, Giving, Taking
<1> QED
  BY <1>1, <1>2, StartingPositive DEF ViewerLives

\* The mistake to be given back is one of those that are open.
LEMMA OpenIsChosen ==
  ASSUME EventsRight
  PROVE  \A author, c, q : OpenWrong(author, c, q) # {} =>
           OpenWrongEvent(author, c, q) \in OpenWrong(author, c, q)
<1> SUFFICES ASSUME NEW author, NEW c, NEW q, NEW first \in OpenWrong(author, c, q)
             PROVE  OpenWrongEvent(author, c, q) \in OpenWrong(author, c, q)
  OBVIOUS
<1> DEFINE ids == {n \in 0 .. rows : \E e \in OpenWrong(author, c, q) : e.id = rows - n}
<1>1. rows \in Nat /\ \A e \in OpenWrong(author, c, q) : e.id \in 1 .. rows
  BY DEF EventsRight, IsEvent, OpenWrong, EventsOf
<1>2. \A e \in OpenWrong(author, c, q) : rows - e.id \in ids
  <2> SUFFICES ASSUME NEW e \in OpenWrong(author, c, q) PROVE rows - e.id \in ids
    OBVIOUS
  <2>1. e.id \in 1 .. rows /\ rows - (rows - e.id) = e.id
    BY <1>1
  <2> QED
    BY <1>1, <2>1
<1>3. IsFiniteSet(ids) /\ ids \subseteq Int /\ ids # {}
  <2>1. IsFiniteSet(0 .. rows)
    BY <1>1, FS_Interval
  <2>2. ids \in SUBSET (0 .. rows) /\ ids # {}
    BY <1>2
  <2>3. ids \subseteq Int
    BY <1>1
  <2> HIDE DEF ids
  <2>4. IsFiniteSet(ids)
    BY <2>1, <2>2, FS_Subset
  <2> QED
    BY <2>2, <2>3, <2>4
<1> HIDE DEF ids
<1>4. PICK least \in ids : \A n \in ids : least <= n
  BY <1>3, LeastElement
<1>5. PICK e \in OpenWrong(author, c, q) : e.id = rows - least
  BY <1>4 DEF ids
<1>6. \A f \in OpenWrong(author, c, q) : f.id <= e.id
  <2> SUFFICES ASSUME NEW f \in OpenWrong(author, c, q) PROVE f.id <= e.id
    OBVIOUS
  <2>1. least <= rows - f.id /\ f.id \in 1 .. rows /\ least \in Int
    BY <1>1, <1>2, <1>3, <1>4
  <2> QED
    BY <1>1, <1>5, <2>1
<1> QED
  BY <1>6 DEF OpenWrongEvent

-----------------------------------------------------------------------------
(* How the events of a board change. *)

\* the event is new among these: nothing has its id or refers to it, and each has its own
NewAmong(e, E) ==
  /\ IsFiniteSet(E) /\ e \notin E /\ e.reverses # e.id
  /\ \A f \in E : f.id # e.id /\ f.reverses # e.id
  /\ \A d, f \in E : d.id = f.id => d = f

\* A life is taken: one more is lost, and the question has an open miss.
LEMMA TakeLife ==
  ASSUME NEW E, NEW e, NewAmong(e, E), NEW lives, AddUp(E, lives), Fits(e, E),
         e.delta = "minus", \A f \in E : f.id # e.reverses
  PROVE  AddUp(E \cup {e}, lives - 1) /\ lives > 0 /\ e \in Missed(E \cup {e}, e.question)
<1> DEFINE F == E \cup {e}
<1>1. /\ Taking(F) = Taking(E) \cup {e} /\ e \notin Taking(E)
      /\ Giving(F) = Giving(E)
  BY DEF Taking, Giving, NewAmong
<1>2. Standing(F) = Standing(E) \cup {e} /\ e \notin Standing(E)
  BY <1>1 DEF Standing, NewAmong, Taking
<1>3. \A q : Missed(F, q) = IF q = e.question THEN Missed(E, q) \cup {e} ELSE Missed(E, q)
  BY <1>2 DEF Missed
<1>4. /\ IsFiniteSet(Taking(E)) /\ IsFiniteSet(Standing(E))
      /\ Cardinality(Taking(E)) \in Nat /\ Cardinality(Giving(E)) \in Nat /\ Cardinality(Standing(E)) \in Nat
  BY CountsNat DEF NewAmong
<1>5. /\ Cardinality(Taking(F)) = Cardinality(Taking(E)) + 1
      /\ Cardinality(Standing(F)) = Cardinality(Standing(E)) + 1
      /\ Cardinality(Giving(F)) = Cardinality(Giving(E))
  BY <1>1, <1>2, <1>4, FS_AddElement
<1>6. Missed(E, e.question) = {} /\ Cardinality(Taking(E)) < Starting + Cardinality(Giving(E))
  BY DEF Fits
<1>7. \A q : \A d, f \in Missed(F, q) : d = f
  BY <1>3, <1>6 DEF AddUp
<1> HIDE DEF F
<1>8. /\ Cardinality(Giving(F)) + Cardinality(Standing(F)) = Cardinality(Taking(F))
      /\ Cardinality(Taking(F)) <= Starting + Cardinality(Giving(F))
      /\ lives - 1 = Starting + Cardinality(Giving(F)) - Cardinality(Taking(F))
      /\ lives > 0
  BY <1>4, <1>5, <1>6, StartingPositive DEF AddUp
<1>9. e \in Missed(F, e.question)
  BY <1>3
<1> QED
  BY <1>7, <1>8, <1>9 DEF AddUp, F

\* A life is given back, and the question it went with has none open any more.
LEMMA GiveLife ==
  ASSUME NEW E, NEW e, NewAmong(e, E), NEW lives, AddUp(E, lives), Fits(e, E),
         e.delta = "plus", \E f \in E : f.id = e.reverses
  PROVE  AddUp(E \cup {e}, lives + 1) /\ Missed(E \cup {e}, e.question) = {}
<1> DEFINE F == E \cup {e}
<1>0. PICK m \in E : m.id = e.reverses
  OBVIOUS
<1>1. m \in Missed(E, e.question) /\ m \in Standing(E) /\ m.question = e.question
  BY <1>0 DEF Fits, Missed
<1>2. /\ Giving(F) = Giving(E) \cup {e} /\ e \notin Giving(E)
      /\ Taking(F) = Taking(E)
  BY DEF Taking, Giving, NewAmong
<1>3. Standing(F) = Standing(E) \ {m}
  BY <1>0, <1>2 DEF Standing, NewAmong, Taking
<1>4. \A q : Missed(F, q) = Missed(E, q) \ {m}
  BY <1>3 DEF Missed
<1>5. /\ IsFiniteSet(Giving(E)) /\ IsFiniteSet(Standing(E))
      /\ Cardinality(Taking(E)) \in Nat /\ Cardinality(Giving(E)) \in Nat /\ Cardinality(Standing(E)) \in Nat
  BY CountsNat DEF NewAmong
<1>6. /\ Cardinality(Giving(F)) = Cardinality(Giving(E)) + 1
      /\ Cardinality(Taking(F)) = Cardinality(Taking(E))
      /\ Cardinality(Standing(F)) = Cardinality(Standing(E)) - 1
  BY <1>1, <1>2, <1>3, <1>5, FS_AddElement, FS_RemoveElement
<1>7. /\ \A q : \A d, f \in Missed(F, q) : d = f
      /\ Missed(F, e.question) = {}
  BY <1>1, <1>4 DEF AddUp
<1> HIDE DEF F
<1>8. /\ Cardinality(Giving(F)) + Cardinality(Standing(F)) = Cardinality(Taking(F))
      /\ Cardinality(Taking(F)) <= Starting + Cardinality(Giving(F))
      /\ lives + 1 = Starting + Cardinality(Giving(F)) - Cardinality(Taking(F))
  BY <1>5, <1>6, StartingPositive DEF AddUp
<1> QED
  BY <1>7, <1>8 DEF AddUp, F

\* Without an event nobody has lost a life.
LEMMA NoEvents == AddUp({}, Starting) /\ \A e : e.delta \in {"plus", "minus"} => Fits(e, {})
<1>1. Taking({}) = {} /\ Giving({}) = {} /\ Standing({}) = {}
  BY DEF Taking, Giving, Standing
<1>2. \A q : Missed({}, q) = {}
  BY <1>1 DEF Missed
<1>3. /\ Cardinality(Taking({})) = 0 /\ Cardinality(Giving({})) = 0 /\ Cardinality(Standing({})) = 0
  BY <1>1, FS_EmptySet
<1>4. Cardinality(Taking({})) < Starting + Cardinality(Giving({}))
  BY <1>3, StartingPositive
<1>5. /\ Cardinality(Giving({})) + Cardinality(Standing({})) = Cardinality(Taking({}))
      /\ Cardinality(Taking({})) <= Starting + Cardinality(Giving({}))
      /\ Starting = Starting + Cardinality(Giving({})) - Cardinality(Taking({}))
  BY <1>3, StartingPositive
<1>6. AddUp({}, Starting)
  BY <1>2, <1>5 DEF AddUp
<1>7. ASSUME NEW e, e.delta \in {"plus", "minus"} PROVE Fits(e, {})
  BY <1>2, <1>4, <1>7 DEF Fits
<1> QED
  BY <1>6, <1>7

-----------------------------------------------------------------------------
(* What a step may do to the events: nothing, delete them all, cut the      *)
(* links between them, or insert what a request has decided on.            *)

EventsStay == event' = event /\ rows' = rows
EventsGo == event' = <<>> /\ rows' = rows
LinksCut == event' = [n \in DOMAIN event |-> [event[n] EXCEPT !.reverses = 0]] /\ rows' = rows

Inserted(r) ==
  /\ request[r].at = "insert"
  /\ request[r].new.reverses = 0 \/ \E f \in Range(event) : f.id = request[r].new.reverses
  /\ rows' = rows + 1 /\ event' = Append(event, Row(request[r].new, rows + 1))
  /\ request'[r] # request[r]

\* what a request is about to insert, on whose behalf and about whom
NewRight(e) ==
  /\ e.author \in Jury /\ e.contestant \in Contestants
  /\ e.delta \in {"plus", "minus"} /\ e.reverses \in 0 .. rows
  /\ e.delta = "minus" <=> e.reverses = 0
  /\ \A f \in Range(event) : f.id = e.reverses => f.author = e.author /\ f.contestant = e.contestant

\* Without events there is nothing to count.
LEMMA EventsGone ==
  ASSUME EventsRight, EventsGo
  PROVE  /\ EventsRight' /\ \A author, c : EventsOf(author, c)' = {}
         /\ \A author, c : Board(author, c, event').lives = Starting
<1>1. DOMAIN event' = {} /\ Range(event') = {}
  BY DEF EventsGo, Range
<1>2. \E S : event' \in Seq(S)
  <2>1. <<>> \in Seq({})
    OBVIOUS
  <2> QED
    BY <2>1 DEF EventsGo
<1>3. EventsRight'
  BY <1>1, <1>2 DEF EventsRight, EventsGo
<1>4. \A author, c : Board(author, c, event').lives = Starting
  BY BoardEmpty DEF EventsGo, FullLives
<1> QED
  BY <1>1, <1>3, <1>4 DEF EventsOf

\* Cutting the links leaves the boards; an author's events that are still the same had no links.
LEMMA EventsCut ==
  ASSUME EventsRight, LinksCut
  PROVE  /\ EventsRight'
         /\ \A author, c : Board(author, c, event') = Board(author, c, event)
         /\ \A author, c : EventsOf(author, c) \subseteq EventsOf(author, c)' =>
              EventsOf(author, c)' = EventsOf(author, c)
         /\ \A author, c : EventsOf(author, c) # {} => EventsOf(author, c)' # {}
         /\ \A e \in Range(event') : \E f \in Range(event) :
              f.id = e.id /\ f.author = e.author /\ f.contestant = e.contestant
<1> DEFINE Cut(e) == [e EXCEPT !.reverses = 0]
<1>1. /\ DOMAIN event' = DOMAIN event /\ rows' = rows
      /\ \A n \in DOMAIN event : event'[n] = Cut(event[n])
  BY DEF LinksCut
<1>2. \A e \in Range(event) : /\ Cut(e) = Row(Cut(e), e.id) /\ Cut(e).id = e.id /\ Cut(e).reverses = 0
                              /\ Alike(e, Cut(e))
  <2> SUFFICES ASSUME NEW e \in Range(event)
               PROVE  /\ Cut(e) = Row(Cut(e), e.id) /\ Cut(e).id = e.id /\ Cut(e).reverses = 0
                      /\ Alike(e, Cut(e))
    OBVIOUS
  <2>1. e = Row(e, e.id)
    BY DEF EventsRight, IsEvent
  <2>2. DOMAIN e = {"id", "author", "contestant", "question", "delta", "reverses"}
    BY <2>1 DEF Row
  <2>3. Cut(e).id = e.id /\ Cut(e).reverses = 0 /\ Alike(e, Cut(e))
    BY <2>2 DEF Alike
  <2>4. Cut(e) = Row(Cut(e), e.id)
    BY <2>1, <2>3 DEF Row, Alike
  <2> QED
    BY <2>3, <2>4
<1> HIDE DEF Cut
<1>3. \A e \in Range(event') : \E f \in Range(event) : e = Cut(f)
  BY <1>1 DEF Range
<1>4. \A f \in Range(event) : Cut(f) \in Range(event')
  BY <1>1 DEF Range
<1>5. PICK S : event \in Seq(S)
  BY DEF EventsRight
<1>6. PICK len \in Nat : DOMAIN event = 1 .. len
  <2>1. DOMAIN event = 1 .. Len(event) /\ Len(event) \in Nat
    BY <1>5
  <2> QED
    BY <2>1
<1>7. \E T : event' \in Seq(T)
  <2>1. event' = [n \in 1 .. len |-> event'[n]]
    BY <1>6 DEF LinksCut
  <2>2. \A n \in 1 .. len : event'[n] \in Range(event')
    BY <1>1, <1>6 DEF Range
  <2>3. event' \in Seq(Range(event'))
    BY <2>1, <2>2
  <2> QED
    BY <2>3
<1>8. EventsRight'
  <2>1. \A e \in Range(event') : IsEvent(e)'
    BY <1>1, <1>2, <1>3 DEF EventsRight, IsEvent, Alike
  <2>2. \A m, n \in DOMAIN event' : event'[m].id = event'[n].id => m = n
    BY <1>1, <1>2 DEF EventsRight, Range
  <2>3. \A e, f \in Range(event') : f.reverses # e.id
    BY <1>2, <1>3 DEF EventsRight, IsEvent
  <2> QED
    BY <1>1, <1>7, <2>1, <2>2, <2>3 DEF EventsRight
<1>9. \A author, c : Board(author, c, event') = Board(author, c, event)
  <2>1. \A n \in 1 .. len : Alike(event[n], event'[n])
    BY <1>1, <1>2, <1>6 DEF Range
  <2> QED
    BY <1>1, <1>6, <2>1, BoardAlike
<1>10. ASSUME NEW author, NEW c
       PROVE  EventsOf(author, c)' = {Cut(f) : f \in EventsOf(author, c)}
  BY <1>2, <1>3, <1>4 DEF EventsOf, Alike
<1>11. ASSUME NEW author, NEW c, EventsOf(author, c) \subseteq EventsOf(author, c)'
       PROVE  EventsOf(author, c)' = EventsOf(author, c)
  <2>1. ASSUME NEW e \in EventsOf(author, c) PROVE e = Cut(e)
    <3>1. PICK f \in EventsOf(author, c) : e = Cut(f)
      BY <1>10, <1>11
    <3>2. e \in Range(event) /\ f \in Range(event) /\ e.id = f.id
      BY <1>2, <3>1 DEF EventsOf
    <3>3. e = f
      BY <3>2 DEF EventsRight, Range
    <3> QED
      BY <3>1, <3>3
  <2> QED
    BY <1>10, <1>11, <2>1
<1>12. \A author, c : EventsOf(author, c) # {} => EventsOf(author, c)' # {}
  BY <1>10
<1>13. \A e \in Range(event') : \E f \in Range(event) :
         f.id = e.id /\ f.author = e.author /\ f.contestant = e.contestant
  BY <1>2, <1>3 DEF Alike
<1> QED
  BY <1>8, <1>9, <1>11, <1>12, <1>13

\* An inserted event is the newest, of one author about one contestant.
LEMMA EventInserted ==
  ASSUME EventsRight, NEW r \in Requests, Inserted(r), NewRight(request[r].new)
  PROVE  LET new == request[r].new
             e == Row(new, rows + 1) IN
         /\ EventsRight'
         /\ Range(event') = Range(event) \cup {e}
         /\ \A author, c :
              EventsOf(author, c)' = IF new.author = author /\ new.contestant = c
                THEN EventsOf(author, c) \cup {e} ELSE EventsOf(author, c)
         /\ NewAmong(e, EventsOf(new.author, new.contestant))
         /\ \A author, c : Board(author, c, event') = BoardStep(author, c, Board(author, c, event), e)
<1> DEFINE new == request[r].new
<1>1. PICK e : e = Row(new, rows + 1)
  OBVIOUS
<1>2. /\ e.id = rows + 1 /\ e.author = new.author /\ e.contestant = new.contestant
      /\ e.delta = new.delta /\ e.reverses = new.reverses /\ e.question = new.question
      /\ e = Row(e, e.id)
  BY <1>1 DEF Row
<1>3. event' = Append(event, e) /\ rows' = rows + 1 /\ rows \in Nat
  BY <1>1 DEF Inserted, EventsRight
<1>4. PICK S : event \in Seq(S)
  BY DEF EventsRight
<1>5. PICK len \in Nat : len = Len(event) /\ DOMAIN event = 1 .. len
  BY <1>4
<1>6. /\ DOMAIN event' = 1 .. len + 1 /\ event'[len + 1] = e
      /\ \A n \in 1 .. len : event'[n] = event[n]
  BY <1>3, <1>4, <1>5
<1>7. Range(event') = Range(event) \cup {e}
  <2>1. 1 .. len + 1 = (1 .. len) \cup {len + 1}
    OBVIOUS
  <2> QED
    BY <1>5, <1>6, <2>1 DEF Range
<1>8. \A f \in Range(event) : f.id \in 1 .. rows /\ f.reverses \in 0 .. rows
  BY DEF EventsRight, IsEvent
<1>9. \A f \in Range(event) : f.id # e.id /\ f.reverses # e.id
  BY <1>2, <1>3, <1>8
<1>10. new.reverses \in 0 .. rows /\ e.reverses # e.id
  BY <1>2, <1>3 DEF NewRight
<1>11. EventsRight'
  <2>1. \E T : event' \in Seq(T)
    <3>1. event \in Seq(S \cup {e}) /\ e \in S \cup {e}
      BY <1>4
    <3> QED
      BY <1>3, <3>1
  <2>2. \A f \in Range(event') : IsEvent(f)'
    <3>1. \A f \in Range(event) : IsEvent(f)'
      BY <1>3 DEF EventsRight, IsEvent
    <3>2. IsEvent(e)'
      BY <1>2, <1>3, <1>10 DEF IsEvent, NewRight
    <3> QED
      BY <1>7, <3>1, <3>2
  <2>3. \A m, n \in DOMAIN event' : event'[m].id = event'[n].id => m = n
    <3> SUFFICES ASSUME NEW m \in DOMAIN event', NEW n \in DOMAIN event', event'[m].id = event'[n].id
                 PROVE  m = n
      OBVIOUS
    <3>1. \A i \in 1 .. len : event'[i] = event[i] /\ event[i] \in Range(event)
      BY <1>5, <1>6 DEF Range
    <3>2. \A i \in DOMAIN event' : i \in 1 .. len \/ i = len + 1
      BY <1>6
    <3>3. CASE m \in 1 .. len /\ n \in 1 .. len
      BY <1>5, <3>1, <3>3 DEF EventsRight
    <3>4. CASE m = len + 1 /\ n \in 1 .. len
      BY <1>6, <1>9, <3>1, <3>4
    <3>5. CASE n = len + 1 /\ m \in 1 .. len
      BY <1>6, <1>9, <3>1, <3>5
    <3> QED
      BY <3>2, <3>3, <3>4, <3>5
  <2>4. \A d, f \in Range(event') : f.reverses = d.id => f.author = d.author /\ f.contestant = d.contestant
    BY <1>2, <1>7, <1>9, <1>10 DEF EventsRight, NewRight
  <2>5. rows' \in Nat
    BY <1>3
  <2> QED
    BY <2>1, <2>2, <2>3, <2>4, <2>5 DEF EventsRight
<1>12. \A author, c :
         EventsOf(author, c)' = IF new.author = author /\ new.contestant = c
           THEN EventsOf(author, c) \cup {e} ELSE EventsOf(author, c)
  BY <1>2, <1>7 DEF EventsOf
<1>13. NewAmong(e, EventsOf(new.author, new.contestant))
  <2>1. \A d, f \in Range(event) : d.id = f.id => d = f
    BY DEF EventsRight, Range
  <2>2. IsFiniteSet(EventsOf(new.author, new.contestant))
    BY EventsFinite
  <2>3. e \notin Range(event)
    BY <1>9
  <2> QED
    BY <1>9, <1>10, <2>1, <2>2, <2>3 DEF NewAmong, EventsOf
<1>14. \A author, c : Board(author, c, event') = BoardStep(author, c, Board(author, c, event), e)
  BY <1>3, <1>4, BoardAppend
<1> QED
  BY <1>1, <1>7, <1>11, <1>12, <1>13, <1>14

-----------------------------------------------------------------------------
(* The invariant of the lives.                                             *)

\* what a request has in hand at the stages that read or write marks and events
RequestRight(q) ==
  /\ {"op", "at"} \subseteq DOMAIN q
  /\ q.at \in {"look", "mark"} => q.by \in Jury /\ q.contestant \in Contestants
  /\ q.at \in {"sync", "insert"} =>
       {"by", "todo", "question"} \subseteq DOMAIN q /\ \A x \in q.todo : x[1] \in Contestants /\ q.by \in Jury
  /\ q.at = "insert" => NewRight(q.new)

MarksRight == \A m \in mark : m = <<m[1], m[2], m[3], m[4]>> /\ m[1] \in Jury /\ m[2] \in Contestants

\* unless they have crossed, the events add up and what is due among them fits
BoardRight(author, c) ==
  <<author, c>> \notin crossed =>
    /\ PairRight(author, c)
    /\ \A r \in Requests : Due(r, author, c) => Fits(request[r].new, EventsOf(author, c))

LivesInv ==
  /\ EventsRight /\ MarksRight
  /\ DOMAIN request = Requests /\ \A r \in Requests : RequestRight(request[r])
  /\ \A author \in Jury, c \in Contestants : BoardRight(author, c)

\* what a request decides on, it decides on the events as they stay
DecidesRight(q) ==
  q.at = "insert" =>
    /\ EventsStay
    /\ <<q.new.author, q.new.contestant>> \notin crossed =>
         Fits(q.new, EventsOf(q.new.author, q.new.contestant))

\* the events and the requests after a step
EventsStep == EventsStay \/ EventsGo \/ LinksCut \/ \E r \in Requests : Inserted(r)
RequestsStep ==
  /\ DOMAIN request' = Requests
  /\ \A r \in Requests : request'[r] = request[r] \/ (RequestRight(request[r])' /\ DecidesRight(request'[r]))

\* A request that waits has in hand what it had.
LEMMA WaitingRight ==
  ASSUME LivesInv, EventsStep, NEW r \in Requests, request'[r] = request[r]
  PROVE  RequestRight(request[r])'
<1>1. RequestRight(request[r]) /\ EventsRight
  BY DEF LivesInv
<1>2. SUFFICES ASSUME request[r].at = "insert", NewRight(request[r].new)
               PROVE  NewRight(request[r].new)'
  BY <1>1 DEF RequestRight
<1>3. rows \in Nat /\ request[r].new.reverses \in 0 .. rows
  BY <1>1, <1>2 DEF NewRight, EventsRight
<1>4. CASE EventsStay
  BY <1>2, <1>4 DEF NewRight, EventsStay
<1>5. CASE EventsGo
  <2>1. Range(event') = {} /\ rows' = rows
    BY <1>5 DEF EventsGo, Range
  <2> QED
    BY <1>2, <2>1 DEF NewRight
<1>6. CASE LinksCut
  <2>1. /\ rows' = rows
        /\ \A e \in Range(event') : \E f \in Range(event) :
             f.id = e.id /\ f.author = e.author /\ f.contestant = e.contestant
    BY <1>1, <1>6, EventsCut DEF LinksCut
  <2>2. \A f \in Range(event') : f.id = request[r].new.reverses =>
          f.author = request[r].new.author /\ f.contestant = request[r].new.contestant
    BY <1>2, <2>1 DEF NewRight
  <2> QED
    BY <1>2, <2>1, <2>2 DEF NewRight
<1>7. ASSUME NEW x \in Requests, Inserted(x) PROVE NewRight(request[r].new)'
  <2>1. NewRight(request[x].new)
    BY <1>7 DEF LivesInv, RequestRight, Inserted
  <2>2. PICK e : e = Row(request[x].new, rows + 1)
    OBVIOUS
  <2>3. e.id = rows + 1 /\ rows' = rows + 1
    BY <1>7, <2>2 DEF Row, Inserted
  <2>4. Range(event') = Range(event) \cup {e}
    BY <1>1, <1>7, <2>1, <2>2, EventInserted
  <2>5. request[r].new.reverses \in 0 .. rows' /\ e.id # request[r].new.reverses
    BY <1>3, <2>3
  <2>6. \A f \in Range(event') : f.id = request[r].new.reverses =>
          f.author = request[r].new.author /\ f.contestant = request[r].new.contestant
    BY <1>2, <2>4, <2>5 DEF NewRight
  <2> QED
    BY <1>2, <2>5, <2>6 DEF NewRight
<1> QED
  BY <1>4, <1>5, <1>6, <1>7 DEF EventsStep

\* The events stay well formed.
LEMMA EventsStepRight ==
  ASSUME LivesInv, EventsStep
  PROVE  EventsRight'
<1>1. EventsRight
  BY DEF LivesInv
<1>2. CASE EventsStay
  BY <1>1, <1>2 DEF EventsStay, EventsRight, IsEvent
<1>3. ASSUME NEW r \in Requests, Inserted(r) PROVE EventsRight'
  <2>1. NewRight(request[r].new)
    BY <1>3 DEF LivesInv, RequestRight, Inserted
  <2> QED
    BY <1>1, <1>3, <2>1, EventInserted
<1> QED
  BY <1>1, <1>2, <1>3, EventsGone, EventsCut DEF EventsStep

\* Events that stay the same keep the board, whatever is inserted for others.
LEMMA BoardStays ==
  ASSUME LivesInv, EventsStep, NEW author, NEW c, EventsOf(author, c)' = EventsOf(author, c),
         <<author, c>> \notin crossed, author \in Jury, c \in Contestants, event' # <<>>
  PROVE  PairRight(author, c)'
<1>1. EventsRight /\ PairRight(author, c)
  BY DEF LivesInv, BoardRight
<1>2. SUFFICES Board(author, c, event').lives = Board(author, c, event).lives
  BY <1>1 DEF PairRight
<1>3. CASE LinksCut
  BY <1>1, <1>3, EventsCut
<1>4. ASSUME NEW r \in Requests, Inserted(r)
      PROVE  Board(author, c, event') = Board(author, c, event)
  <2>1. NewRight(request[r].new)
    BY <1>4 DEF LivesInv, RequestRight, Inserted
  <2>2. PICK e : e = Row(request[r].new, rows + 1)
    OBVIOUS
  <2>3. e.author = request[r].new.author /\ e.contestant = request[r].new.contestant
    BY <2>2 DEF Row
  <2>4. ~(e.author = author /\ e.contestant = c)
    BY <1>1, <1>4, <2>1, <2>2, <2>3, EventInserted DEF NewAmong
  <2>5. Board(author, c, event') = BoardStep(author, c, Board(author, c, event), e)
    BY <1>1, <1>4, <2>1, <2>2, EventInserted
  <2> QED
    BY <2>4, <2>5 DEF BoardStep
<1> QED
  BY <1>3, <1>4 DEF EventsStep, EventsStay, EventsGo

\* An event that was due is inserted, and the board goes one step on.
LEMMA BoardInserts ==
  ASSUME LivesInv, NEW r \in Requests, Inserted(r), NEW new, new = request[r].new,
         <<new.author, new.contestant>> \notin crossed
  PROVE  /\ PairRight(new.author, new.contestant)'
         /\ new.delta = "minus" => Missed(EventsOf(new.author, new.contestant)', new.question) # {}
         /\ new.delta = "plus" => Missed(EventsOf(new.author, new.contestant)', new.question) = {}
<1>1. Due(r, new.author, new.contestant)
  BY DEF Due, Inserted
<1>2. NewRight(new) /\ EventsRight
  BY <1>1 DEF LivesInv, RequestRight, Inserted
<1>3. PICK author, c : author = new.author /\ c = new.contestant
  OBVIOUS
<1>4. author \in Jury /\ c \in Contestants /\ new.delta \in {"plus", "minus"}
  BY <1>2, <1>3 DEF NewRight
<1>5. PICK e : e = Row(new, rows + 1)
  OBVIOUS
<1>6. /\ e.author = author /\ e.contestant = c /\ e.question = new.question
      /\ e.delta = new.delta /\ e.reverses = new.reverses
  BY <1>3, <1>5 DEF Row
<1>7. PICK E : E = EventsOf(author, c)
  OBVIOUS
<1>8. PICK board : board = Board(author, c, event)
  OBVIOUS
<1>9. /\ EventsOf(author, c)' = E \cup {e} /\ NewAmong(e, E)
      /\ Board(author, c, event') = BoardStep(author, c, board, e)
  BY <1>1, <1>2, <1>3, <1>5, <1>7, <1>8, EventInserted
<1>10. AddUp(E, board.lives) /\ Fits(new, E)
  BY <1>1, <1>3, <1>4, <1>7, <1>8 DEF LivesInv, BoardRight, PairRight
<1>11. Fits(e, E)
  BY <1>6, <1>10 DEF Fits
<1>12. CASE new.delta = "minus"
  <2>1. \A f \in E : f.id # e.reverses
    <3>1. e.reverses = 0
      BY <1>2, <1>6, <1>12 DEF NewRight
    <3>2. \A f \in E : f.id \in 1 .. rows /\ rows \in Nat
      BY <1>2, <1>7 DEF EventsRight, IsEvent, EventsOf
    <3> QED
      BY <3>1, <3>2
  <2>2. PICK lives : lives = board.lives
    OBVIOUS
  <2>3. AddUp(E \cup {e}, lives - 1) /\ lives > 0 /\ e \in Missed(E \cup {e}, e.question)
    BY <1>6, <1>9, <1>10, <1>11, <1>12, <2>1, <2>2, TakeLife
  <2>4. BoardStep(author, c, board, e).lives = lives - 1
    BY <1>6, <1>12, <2>2, <2>3 DEF BoardStep
  <2> QED
    BY <1>1, <1>3, <1>6, <1>9, <1>12, <2>3, <2>4 DEF PairRight
<1>13. CASE new.delta = "plus"
  <2>1. \E f \in E : f.id = e.reverses
    <3>1. new.reverses # 0
      BY <1>2, <1>13 DEF NewRight
    <3>2. PICK f \in Range(event) : f.id = new.reverses
      BY <1>1, <3>1 DEF Inserted
    <3>3. f \in E
      BY <1>2, <1>3, <1>7, <3>2 DEF NewRight, EventsOf
    <3> QED
      BY <1>6, <3>2, <3>3
  <2>2. PICK lives : lives = board.lives
    OBVIOUS
  <2>3. AddUp(E \cup {e}, lives + 1) /\ Missed(E \cup {e}, e.question) = {}
    BY <1>6, <1>9, <1>10, <1>11, <1>13, <2>1, <2>2, GiveLife
  <2>4. BoardStep(author, c, board, e).lives = lives + 1
    BY <1>6, <1>13, <2>2 DEF BoardStep
  <2> QED
    BY <1>1, <1>3, <1>6, <1>9, <1>13, <2>3, <2>4 DEF PairRight
<1> QED
  BY <1>4, <1>12, <1>13

\* A step that moves the events and the requests as they may keeps the invariant.
LEMMA LivesMove ==
  ASSUME LivesInv, EventsStep, RequestsStep, MarksRight', Remember
  PROVE  LivesInv'
<1>1. EventsRight /\ EventsRight'
  BY EventsStepRight DEF LivesInv
<1>2. \A r \in Requests : RequestRight(request[r])'
  BY WaitingRight DEF RequestsStep
<1>3. ASSUME NEW author \in Jury, NEW c \in Contestants, <<author, c>> \notin crossed'
      PROVE  /\ PairRight(author, c)'
             /\ \A r \in Requests : Due(r, author, c)' => Fits(request'[r].new, EventsOf(author, c)')
  <2>1. CASE event' = <<>>
    <3>1. Range(event') = {}
      BY <2>1 DEF Range
    <3>2. EventsOf(author, c)' = {}
      BY <3>1 DEF EventsOf
    <3>3. Board(author, c, event').lives = Starting
      BY <2>1, BoardEmpty DEF FullLives
    <3>4. \A r \in Requests : Due(r, author, c)' => request'[r].new.delta \in {"plus", "minus"}
      BY <1>2 DEF Due, RequestRight, NewRight
    <3> QED
      BY <3>2, <3>3, <3>4, NoEvents DEF PairRight
  <2>2. CASE event' # <<>>
    <3>1. <<author, c>> \notin crossed /\ ~Crosses(author, c)
      BY <1>3, <2>2 DEF Remember
    <3>2. BoardRight(author, c) /\ PairRight(author, c)
      BY <3>1 DEF LivesInv, BoardRight
    <3>3. CASE EventsOf(author, c)' = EventsOf(author, c)
      <4>1. PairRight(author, c)'
        BY <2>2, <3>1, <3>3, BoardStays
      <4>2. ASSUME NEW r \in Requests, Due(r, author, c)'
            PROVE  Fits(request'[r].new, EventsOf(author, c)')
        <5>1. CASE request'[r] = request[r]
          BY <3>1, <3>2, <3>3, <4>2, <5>1 DEF BoardRight, Due
        <5>2. CASE request'[r] # request[r]
          BY <3>1, <3>3, <4>2, <5>2 DEF RequestsStep, DecidesRight, Due
        <5> QED
          BY <5>1, <5>2
      <4> QED
        BY <4>1, <4>2
    <3>4. CASE EventsOf(author, c)' # EventsOf(author, c)
      <4>1. \A r \in Requests : Due(r, author, c) => request'[r] # request[r]
        BY <3>1, <3>4 DEF Crosses
      <4>2. ~EventsStay
        BY <3>4 DEF EventsStay, EventsOf
      <4>3. \A r \in Requests : ~Due(r, author, c)'
        BY <4>1, <4>2 DEF RequestsStep, DecidesRight, Due
      <4>4. ~LinksCut
        BY <1>1, <3>1, <3>4, EventsCut DEF Crosses
      <4>5. PICK r \in Requests : Inserted(r)
        BY <2>2, <4>2, <4>4 DEF EventsStep, EventsGo
      <4>6. PICK new : new = request[r].new
        OBVIOUS
      <4>7. NewRight(request[r].new)
        BY <4>5 DEF LivesInv, RequestRight, Inserted
      <4>8. new.author = author /\ new.contestant = c
        BY <1>1, <3>4, <4>5, <4>6, <4>7, EventInserted
      <4>9. PairRight(author, c)'
        BY <3>1, <4>5, <4>6, <4>8, BoardInserts
      <4> QED
        BY <4>3, <4>9
    <3> QED
      BY <3>3, <3>4
  <2> QED
    BY <2>1, <2>2
<1>4. \A author \in Jury, c \in Contestants : BoardRight(author, c)'
  BY <1>3 DEF BoardRight
<1> QED
  BY <1>1, <1>2, <1>4 DEF LivesInv, RequestsStep

-----------------------------------------------------------------------------
(* How the requests go on. *)

\* the stages at which a request has marks or events in hand
LifeStages == {"look", "mark", "sync", "insert"}

\* One request goes on, and the others wait.
LEMMA RequestMoves ==
  ASSUME LivesInv, EventsStep, MarksRight', Remember, NEW r \in Requests, NEW doing,
         request' = [request EXCEPT ![r] = doing], RequestRight(doing)', DecidesRight(doing)
  PROVE  LivesInv'
<1>1. /\ DOMAIN request' = Requests /\ request'[r] = doing
      /\ \A x \in Requests : x # r => request'[x] = request[x]
  BY DEF LivesInv
<1>2. RequestRight(request[r])' /\ DecidesRight(request'[r])
  BY <1>1 DEF RequestRight, NewRight
<1>3. RequestsStep
  BY <1>1, <1>2 DEF RequestsStep
<1> QED
  BY <1>3, LivesMove

\* Marks that stay, or are deleted, are still right.
LEMMA MarksStay == ASSUME LivesInv, mark' = mark \/ mark' = {} PROVE MarksRight'
  BY DEF LivesInv, MarksRight

\* A request that goes on elsewhere has nothing in hand.
LEMMA PassesOn ==
  ASSUME LivesInv, EventsStep, mark' = mark \/ mark' = {}, Remember, NEW r \in Requests, NEW doing,
         request' = [request EXCEPT ![r] = doing], {"op", "at"} \subseteq DOMAIN doing, doing.at \notin LifeStages
  PROVE  LivesInv'
<1>1. RequestRight(doing)' /\ DecidesRight(doing)
  BY DEF RequestRight, DecidesRight, LifeStages
<1> QED
  BY <1>1, MarksStay, RequestMoves

\* the step leaves request r with no marks or events in hand
Passes(r) ==
  /\ EventsStep /\ (mark' = mark \/ mark' = {})
  /\ \E doing : /\ request' = [request EXCEPT ![r] = doing]
                /\ {"op", "at"} \subseteq DOMAIN doing /\ doing.at \notin LifeStages

\* A request goes to a stage, or ends.
LEMMA Goes ==
  ASSUME LivesInv, EventsStep, mark' = mark \/ mark' = {}, NEW r \in Requests,
         Done(r) \/ \E stage : stage \notin LifeStages /\ Goto(r, stage)
  PROVE  Passes(r)
<1>1. CASE Done(r)
  <2>1. {"op", "at"} \subseteq DOMAIN Idle /\ Idle.at \notin LifeStages
    BY DEF Idle, LifeStages
  <2>2. request' = [request EXCEPT ![r] = Idle]
    BY <1>1 DEF Done
  <2> QED
    BY <2>1, <2>2 DEF Passes
<1>2. ASSUME NEW stage, stage \notin LifeStages, Goto(r, stage) PROVE Passes(r)
  <2>1. PICK doing : doing = [request[r] EXCEPT !.at = stage]
    OBVIOUS
  <2>2. {"op", "at"} \subseteq DOMAIN request[r]
    BY DEF LivesInv, RequestRight
  <2>3. {"op", "at"} \subseteq DOMAIN doing /\ doing.at = stage
    BY <2>1, <2>2
  <2>4. request' = [request EXCEPT ![r] = doing]
    BY <1>2, <2>1 DEF Goto
  <2> QED
    BY <1>2, <2>3, <2>4 DEF Passes
<1> QED
  BY <1>1, <1>2

\* A request that goes to a stage, or ends, has nothing in hand.
LEMMA GoesOn ==
  ASSUME LivesInv, EventsStep, mark' = mark \/ mark' = {}, Remember, NEW r \in Requests,
         Done(r) \/ \E stage : stage \notin LifeStages /\ Goto(r, stage)
  PROVE  LivesInv'
<1>1. Passes(r)
  BY Goes
<1> QED
  BY <1>1, PassesOn DEF Passes

\* No request goes on.
LEMMA NoneMoves ==
  ASSUME LivesInv, UNCHANGED <<request, event, rows, mark>>, Remember
  PROVE  LivesInv'
<1>1. RequestsStep /\ EventsStep
  BY DEF RequestsStep, LivesInv, EventsStep, EventsStay
<1> QED
  BY <1>1, MarksStay, LivesMove

\* Nothing is asked, marked or taken at the beginning.
LEMMA LivesBegin == LifeInit => LivesInv
<1> SUFFICES ASSUME LifeInit PROVE LivesInv
  OBVIOUS
<1>1. event = <<>> /\ mark = {} /\ request = [r \in Requests |-> Idle] /\ rows = 0
  BY DEF LifeInit, Init
<1>2. DOMAIN event = {} /\ Range(event) = {}
  BY <1>1 DEF Range
<1>3. EventsRight
  <2>1. <<>> \in Seq({})
    OBVIOUS
  <2> QED
    BY <1>1, <1>2, <2>1 DEF EventsRight
<1>4. \A author, c : EventsOf(author, c) = {} /\ Board(author, c, event).lives = Starting
  BY <1>1, <1>2, BoardEmpty DEF EventsOf, FullLives
<1>5. \A r \in Requests : RequestRight(request[r]) /\ \A author, c : ~Due(r, author, c)
  BY <1>1 DEF Idle, RequestRight, Due
<1>6. \A author, c : PairRight(author, c)
  BY <1>4, NoEvents DEF PairRight
<1> QED
  BY <1>1, <1>3, <1>5, <1>6 DEF LivesInv, MarksRight, BoardRight

-----------------------------------------------------------------------------
(* Requests about lives. *)

\* What is decided on, from the lives and the open misses, fits.
LEMMA DecidedFits ==
  ASSUME EventsRight, NEW author \in Jury, NEW c \in Contestants, NEW q, NEW e,
         e.author = author, e.contestant = c, e.question = q,
         \/ /\ e.delta = "minus" /\ e.reverses = 0
            /\ OpenWrong(author, c, q) = {} /\ ViewerLives(author, c) # 0
         \/ /\ e.delta = "plus" /\ e.reverses = OpenWrongEvent(author, c, q).id
            /\ OpenWrong(author, c, q) # {}
  PROVE  NewRight(e) /\ Fits(e, EventsOf(author, c))
<1>1. \A f \in Range(event) : f.id \in 1 .. rows
  BY DEF EventsRight, IsEvent
<1>2. rows \in Nat
  BY DEF EventsRight
<1>3. CASE e.delta = "minus"
  <2>1. e.reverses = 0 /\ Missed(EventsOf(author, c), q) = {} /\ ViewerLives(author, c) # 0
    BY <1>3, OwnOpen
  <2>2. Cardinality(Taking(EventsOf(author, c))) < Starting + Cardinality(Giving(EventsOf(author, c)))
    BY <2>1, OwnLives
  <2>3. Fits(e, EventsOf(author, c))
    BY <1>3, <2>1, <2>2 DEF Fits
  <2>4. \A f \in Range(event) : f.id # e.reverses
    BY <1>1, <1>2, <2>1
  <2> QED
    BY <1>2, <1>3, <2>1, <2>3, <2>4 DEF NewRight
<1>4. CASE e.delta = "plus"
  <2>1. PICK miss : miss = OpenWrongEvent(author, c, q)
    OBVIOUS
  <2>2. e.reverses = miss.id /\ miss \in OpenWrong(author, c, q)
    BY <1>4, <2>1, OpenIsChosen
  <2>3. miss \in EventsOf(author, c) /\ miss \in Range(event) /\ miss \in Missed(EventsOf(author, c), q)
    <3>1. miss \in Missed(EventsOf(author, c), q)
      BY <2>2, OwnOpen
    <3> QED
      BY <2>2, <3>1 DEF OpenWrong, EventsOf
  <2>4. \A f \in Range(event) : f.id = e.reverses => f = miss
    BY <2>2, <2>3 DEF EventsRight, Range
  <2>5. e.reverses \in 1 .. rows
    BY <1>1, <2>2, <2>3
  <2>6. Fits(e, EventsOf(author, c))
    BY <1>4, <2>3, <2>4 DEF Fits, EventsOf
  <2>7. NewRight(e)
    BY <1>2, <1>4, <2>3, <2>4, <2>5 DEF NewRight, EventsOf
  <2> QED
    BY <2>6, <2>7
<1> QED
  BY <1>3, <1>4

\* A request about lives begins.
LEMMA JuryPasses ==
  ASSUME LivesInv, NEW r \in Requests, JuryRequest(r), Remember
  PROVE  LivesInv'
<1>1. ASSUME NEW doing, Ask(r, doing), {"op", "at"} \subseteq DOMAIN doing, doing.at \notin {"sync", "insert"},
             doing.at \in {"look", "mark"} => doing.by \in Jury /\ doing.contestant \in Contestants
      PROVE  LivesInv'
  <2>1. EventsStay /\ mark' = mark /\ request' = [request EXCEPT ![r] = doing]
    BY <1>1 DEF Ask, EventsStay, lifeVarsAll
  <2>2. RequestRight(doing)' /\ DecidesRight(doing)
    BY <1>1 DEF RequestRight, DecidesRight
  <2> QED
    BY <2>1, <2>2, MarksStay, RequestMoves DEF EventsStep
<1>2. CASE JuryWrongAnswer(r)
  BY <1>1, <1>2 DEF JuryWrongAnswer
<1>3. CASE JuryRestoreLife(r)
  BY <1>1, <1>3, OperatorOfJury DEF JuryRestoreLife
<1>4. CASE JurySetAnswer(r)
  BY <1>1, <1>4 DEF JurySetAnswer
<1>5. CASE AdminSetCorrectAnswer(r)
  BY <1>1, <1>5 DEF AdminSetCorrectAnswer
<1>6. CASE AdminSetQuestionPlan(r)
  BY <1>1, <1>6 DEF AdminSetQuestionPlan
<1> QED
  BY <1>2, <1>3, <1>4, <1>5, <1>6 DEF JuryRequest

\* what a request does that has decided on an event, from what it read in the same step
Decides(r, c, delta, reverses) ==
  LET by == request[r].by
      q == request[r].question IN
  /\ request' = [request EXCEPT ![r] = Inserting(r, c, delta, reverses)]
  /\ \/ /\ delta = "minus" /\ reverses = 0
        /\ OpenWrong(by, c, q) = {} /\ ViewerLives(by, c) # 0
     \/ /\ delta = "plus" /\ reverses = OpenWrongEvent(by, c, q).id
        /\ OpenWrong(by, c, q) # {}

\* An event that is decided on from what is read is due.
LEMMA DecidesPasses ==
  ASSUME LivesInv, EventsStay, mark' = mark, Remember, NEW r \in Requests, NEW c, NEW delta, NEW reverses,
         Decides(r, c, delta, reverses), request[r].by \in Jury, c \in Contestants,
         request[r].at = "look" \/ request[r].at = "sync"
  PROVE  LivesInv'
<1>1. PICK doing : doing = Inserting(r, c, delta, reverses)
  OBVIOUS
<1>2. PICK e : e = [author |-> request[r].by, contestant |-> c, question |-> request[r].question,
                    delta |-> delta, reverses |-> reverses]
  OBVIOUS
<1>3. /\ {"op", "at", "by", "todo", "question"} \subseteq DOMAIN doing
      /\ doing.at = "insert" /\ doing.new = e /\ doing.by = request[r].by
      /\ doing.todo \subseteq (IF request[r].at = "look" THEN {} ELSE request[r].todo)
  BY <1>1, <1>2 DEF Inserting
<1>4. /\ e.author = request[r].by /\ e.contestant = c /\ e.question = request[r].question
      /\ e.delta = delta /\ e.reverses = reverses
  BY <1>2
<1>5. EventsRight /\ RequestRight(request[r])
  BY DEF LivesInv
<1>6. NewRight(e) /\ Fits(e, EventsOf(request[r].by, c))
  BY <1>4, <1>5, DecidedFits DEF Decides
<1>7. NewRight(e)'
  BY <1>6 DEF NewRight, EventsStay
<1>8. RequestRight(doing)'
  BY <1>3, <1>5, <1>7 DEF RequestRight, NewRight
<1>9. DecidesRight(doing)
  BY <1>3, <1>4, <1>6 DEF DecidesRight
<1>10. request' = [request EXCEPT ![r] = doing]
  BY <1>1 DEF Decides
<1> QED
  BY <1>8, <1>9, <1>10, MarksStay, RequestMoves DEF EventsStep

\* A life is asked for or given back.
LEMMA LookPasses ==
  ASSUME LivesInv, NEW r \in Requests, LookWrong(r) \/ LookRestore(r), Remember
  PROVE  LivesInv'
<1>1. EventsStay /\ mark' = mark /\ request[r].at = "look"
  BY DEF LookWrong, LookRestore, EventsStay, lifeVarsAll
<1>2. request[r].by \in Jury /\ request[r].contestant \in Contestants
  BY <1>1 DEF LivesInv, RequestRight
<1>3. CASE Done(r)
  BY <1>1, <1>3, GoesOn DEF EventsStep
<1>4. CASE ~Done(r)
  <2>1. \E delta, reverses : Decides(r, request[r].contestant, delta, reverses)
    BY <1>4 DEF LookWrong, LookRestore, Decides
  <2> QED
    BY <1>1, <1>2, <2>1, DecidesPasses
<1> QED
  BY <1>3, <1>4

\* A mark is looked at: it is in step, or the event that brings it in step is decided on.
LEMMA SyncPasses ==
  ASSUME LivesInv, NEW r \in Requests, SyncLifeForMark(r), Remember
  PROVE  LivesInv'
<1> DEFINE q == request[r].question
           by == request[r].by
           action(m) == IF key[q] = "NONE" THEN "nothing"
                        ELSE LifeSyncAction(m[2], key[q], OpenWrong(by, m[1], q) # {}, ViewerLives(by, m[1]))
<1>1. EventsStay /\ mark' = mark /\ request[r].at = "sync"
  BY DEF SyncLifeForMark, EventsStay, lifeVarsAll
<1>2. PICK m \in request[r].todo :
        request' = [request EXCEPT ![r] =
          CASE action(m) = "miss" -> Inserting(r, m[1], "minus", 0)
            [] action(m) = "restore" -> Inserting(r, m[1], "plus", OpenWrongEvent(by, m[1], q).id)
            [] OTHER -> [request[r] EXCEPT !.todo = @ \ {m}]]
  BY DEF SyncLifeForMark
<1>3. RequestRight(request[r]) /\ by \in Jury /\ m[1] \in Contestants
  BY <1>1 DEF LivesInv, RequestRight
<1>4. CASE action(m) = "miss"
  <2>1. request' = [request EXCEPT ![r] = Inserting(r, m[1], "minus", 0)]
    BY <1>2, <1>4
  <2>2. OpenWrong(by, m[1], q) = {} /\ ViewerLives(by, m[1]) > 0
    BY <1>4 DEF LifeSyncAction
  <2>3. Decides(r, m[1], "minus", 0)
    BY <2>1, <2>2 DEF Decides
  <2> QED
    BY <1>1, <1>3, <2>3, DecidesPasses
<1>5. CASE action(m) = "restore"
  <2>1. request' = [request EXCEPT ![r] = Inserting(r, m[1], "plus", OpenWrongEvent(by, m[1], q).id)]
    BY <1>2, <1>5
  <2>2. OpenWrong(by, m[1], q) # {}
    BY <1>5 DEF LifeSyncAction
  <2>3. Decides(r, m[1], "plus", OpenWrongEvent(by, m[1], q).id)
    BY <2>1, <2>2 DEF Decides
  <2> QED
    BY <1>1, <1>3, <2>3, DecidesPasses
<1>6. CASE action(m) \notin {"miss", "restore"}
  <2>1. PICK doing : doing = [request[r] EXCEPT !.todo = @ \ {m}]
    OBVIOUS
  <2>2. request' = [request EXCEPT ![r] = doing]
    BY <1>2, <1>6, <2>1
  <2>3. {"op", "at", "by", "todo", "question"} \subseteq DOMAIN request[r]
    BY <1>1, <1>3 DEF RequestRight
  <2>4. /\ DOMAIN doing = DOMAIN request[r] /\ doing.at = "sync" /\ doing.by = by
        /\ doing.todo \subseteq request[r].todo
    BY <1>1, <2>1, <2>3
  <2>5. RequestRight(doing)' /\ DecidesRight(doing)
    BY <1>1, <1>3, <2>3, <2>4 DEF RequestRight, DecidesRight
  <2> QED
    BY <1>1, <2>2, <2>5, MarksStay, RequestMoves DEF EventsStep
<1> QED
  BY <1>4, <1>5, <1>6

\* A mark is written, and the operator's is to be brought in step.
LEMMA MarkPasses ==
  ASSUME LivesInv, NEW r \in Requests, UpsertAnswerMark(r), Remember
  PROVE  LivesInv'
<1> DEFINE q == request[r]
<1>1. PICK todo : todo = IF q.by = Operator THEN {<<q.contestant, q.answer>>} ELSE {}
  OBVIOUS
<1>2. PICK doing : doing = Syncing("answer", "sync", q.by, todo, q.question, q.question)
  OBVIOUS
<1>3. /\ EventsStay /\ q.at = "mark" /\ request' = [request EXCEPT ![r] = doing]
      /\ mark' = {m \in mark : <<m[1], m[2], m[3]>> # <<q.by, q.contestant, q.question>>}
                   \cup {<<q.by, q.contestant, q.question, q.answer>>}
  BY <1>1, <1>2 DEF UpsertAnswerMark, EventsStay
<1>4. q.by \in Jury /\ q.contestant \in Contestants
  BY <1>3 DEF LivesInv, RequestRight
<1>5. MarksRight'
  BY <1>3, <1>4 DEF LivesInv, MarksRight
<1>6. /\ {"op", "at", "by", "todo", "question"} \subseteq DOMAIN doing
      /\ doing.at = "sync" /\ doing.by = q.by /\ doing.todo = todo
  BY <1>2 DEF Syncing
<1>7. RequestRight(doing)' /\ DecidesRight(doing)
  BY <1>1, <1>4, <1>6 DEF RequestRight, DecidesRight
<1> QED
  BY <1>3, <1>5, <1>7, RequestMoves DEF EventsStep

\* Keys and the count are written, and the operator's marks are to be listed.
LEMMA KeysPass ==
  ASSUME LivesInv, NEW r \in Requests,
         UpsertQuestionKey(r) \/ ReplaceQuestionKeys(r) \/ SetQuestionCount(r), Remember
  PROVE  LivesInv'
<1>1. EventsStay /\ mark' = mark
  BY DEF UpsertQuestionKey, ReplaceQuestionKeys, SetQuestionCount, EventsStay, lifeVars, lifeVarsAll
<1>2. ASSUME NEW op, NEW q, NEW last, request' = [request EXCEPT ![r] = Syncing(op, "list", Operator, {}, q, last)]
      PROVE  LivesInv'
  <2>1. PICK doing : doing = Syncing(op, "list", Operator, {}, q, last)
    OBVIOUS
  <2>2. {"op", "at"} \subseteq DOMAIN doing /\ doing.at \notin LifeStages
    BY <2>1 DEF Syncing, LifeStages
  <2> QED
    BY <1>1, <1>2, <2>1, <2>2, PassesOn DEF EventsStep
<1>3. CASE ReplaceQuestionKeys(r)
  BY <1>1, <1>3, GoesOn DEF ReplaceQuestionKeys, EventsStep, LifeStages
<1>4. CASE UpsertQuestionKey(r)
  BY <1>2, <1>4 DEF UpsertQuestionKey
<1>5. CASE SetQuestionCount(r)
  BY <1>2, <1>5 DEF SetQuestionCount
<1> QED
  BY <1>3, <1>4, <1>5

\* The marks to be brought in step are listed; or the next question is taken, or the last one is done.
LEMMA ListPasses ==
  ASSUME LivesInv, NEW r \in Requests, ListAnswerMarks(r) \/ SyncNext(r), Remember
  PROVE  LivesInv'
<1>1. EventsStay /\ mark' = mark
  BY DEF ListAnswerMarks, SyncNext, EventsStay, lifeVarsAll
<1>2. CASE ListAnswerMarks(r)
  <2>1. PICK q : q = request[r].question
    OBVIOUS
  <2>2. PICK todo : todo = {<<m[2], m[4]>> : m \in {m \in mark : m[1] = Operator /\ m[3] = q}}
    OBVIOUS
  <2>3. PICK doing : doing = Syncing(request[r].op, "sync", Operator, todo, q, request[r].last)
    OBVIOUS
  <2>4. request' = [request EXCEPT ![r] = doing]
    BY <1>2, <2>1, <2>2, <2>3 DEF ListAnswerMarks
  <2>5. \A x \in todo : x[1] \in Contestants /\ Operator \in Jury
    BY <2>2 DEF LivesInv, MarksRight
  <2>6. /\ {"op", "at", "by", "todo", "question"} \subseteq DOMAIN doing
        /\ doing.at = "sync" /\ doing.by = Operator /\ doing.todo = todo
    BY <2>3 DEF Syncing
  <2>7. RequestRight(doing)' /\ DecidesRight(doing)
    BY <2>5, <2>6 DEF RequestRight, DecidesRight
  <2> QED
    BY <1>1, <2>4, <2>7, MarksStay, RequestMoves DEF EventsStep
<1>3. CASE Done(r)
  BY <1>1, <1>3, GoesOn DEF EventsStep
<1>4. CASE SyncNext(r) /\ ~Done(r)
  <2>1. PICK doing : doing = Syncing(request[r].op, "list", Operator, {}, request[r].question + 1, request[r].last)
    OBVIOUS
  <2>2. request' = [request EXCEPT ![r] = doing]
    BY <1>4, <2>1 DEF SyncNext
  <2>3. {"op", "at"} \subseteq DOMAIN doing /\ doing.at \notin LifeStages
    BY <2>1 DEF Syncing, LifeStages
  <2> QED
    BY <1>1, <2>2, <2>3, PassesOn DEF EventsStep
<1> QED
  BY <1>2, <1>3, <1>4

\* what has been decided on is inserted, or its row to be reversed is gone
InsertsOrEnds(r) ==
  \/ Inserted(r) /\ request' = [request EXCEPT ![r] =
                      Syncing(request[r].op, "sync", request[r].by, request[r].todo, request[r].question, request[r].last)]
  \/ Done(r) /\ EventsStay

\* The two outcomes of an insert.
LEMMA InsertOutcomes ==
  ASSUME DOMAIN request = Requests, NEW r \in Requests, InsertLifeEvent(r)
  PROVE  InsertsOrEnds(r) /\ request[r].at = "insert" /\ UNCHANGED <<mark, key>>
<1>1. request[r].at = "insert" /\ UNCHANGED <<mark, key>>
  BY DEF InsertLifeEvent
<1>2. PICK e : e = request[r].new
  OBVIOUS
<1>3. CASE e.reverses = 0 \/ e.reverses \in {f.id : f \in Range(event)}
  <2>1. PICK doing : doing = Syncing(request[r].op, "sync", request[r].by, request[r].todo,
                                     request[r].question, request[r].last)
    OBVIOUS
  <2>2. /\ rows' = rows + 1 /\ event' = Append(event, Row(e, rows + 1))
        /\ request' = [request EXCEPT ![r] = doing]
    BY <1>2, <1>3, <2>1 DEF InsertLifeEvent
  <2>3. request'[r] # request[r]
    <3>1. doing.at = "sync"
      BY <2>1 DEF Syncing
    <3> QED
      BY <1>1, <2>2, <3>1
  <2>4. e.reverses = 0 \/ \E f \in Range(event) : f.id = e.reverses
    BY <1>3
  <2>5. Inserted(r)
    BY <1>1, <1>2, <2>2, <2>3, <2>4 DEF Inserted
  <2> QED
    BY <1>1, <2>1, <2>2, <2>5 DEF InsertsOrEnds
<1>4. CASE ~(e.reverses = 0 \/ e.reverses \in {f.id : f \in Range(event)})
  <2>1. Done(r) /\ UNCHANGED <<event, rows>>
    BY <1>2, <1>4 DEF InsertLifeEvent
  <2> QED
    BY <1>1, <2>1 DEF InsertsOrEnds, EventsStay
<1> QED
  BY <1>3, <1>4

\* A decided event is inserted.
LEMMA InsertPasses ==
  ASSUME LivesInv, NEW r \in Requests, InsertLifeEvent(r), Remember
  PROVE  LivesInv'
<1>1. InsertsOrEnds(r) /\ request[r].at = "insert" /\ mark' = mark
  BY InsertOutcomes DEF LivesInv
<1>2. CASE Done(r) /\ EventsStay
  BY <1>1, <1>2, GoesOn DEF EventsStep
<1>3. CASE ~(Done(r) /\ EventsStay)
  <2>1. PICK doing : doing = Syncing(request[r].op, "sync", request[r].by, request[r].todo,
                                     request[r].question, request[r].last)
    OBVIOUS
  <2>2. Inserted(r) /\ request' = [request EXCEPT ![r] = doing]
    BY <1>1, <1>3, <2>1 DEF InsertsOrEnds
  <2>3. /\ {"op", "at", "by", "todo", "question"} \subseteq DOMAIN doing
        /\ doing.at = "sync" /\ doing.by = request[r].by /\ doing.todo = request[r].todo
    BY <2>1 DEF Syncing
  <2>4. RequestRight(request[r])
    BY DEF LivesInv
  <2>5. RequestRight(doing)' /\ DecidesRight(doing)
    BY <1>1, <2>3, <2>4 DEF RequestRight, DecidesRight
  <2> QED
    BY <1>1, <2>2, <2>5, MarksStay, RequestMoves DEF EventsStep
<1> QED
  BY <1>2, <1>3

-----------------------------------------------------------------------------
(* Steps of the session. *)

\* A command copies the session, the draw begins or stores an order, or a reset begins.
LEMMA CopiesPass ==
  ASSUME LivesInv, NEW r \in Requests, UNCHANGED rows,
         \/ \E base \in Bases : AdminCommand(r, base)
         \/ ReplaceDraw(r) \/ ResetRuntime(r) \/ StoreDraw(r)
  PROVE  Passes(r)
<1>1. ASSUME NEW doing, request' = [request EXCEPT ![r] = doing], UNCHANGED <<mark, event>>,
             {"op", "at"} \subseteq DOMAIN doing, doing.at \notin LifeStages
      PROVE  Passes(r)
  BY <1>1 DEF Passes, EventsStep, EventsStay
<1>2. ASSUME NEW op, NEW arg, NEW base, Command(r, op, arg, base) PROVE Passes(r)
  <2>1. FirstStatement(op, arg, session) \notin LifeStages
    BY DEF FirstStatement, LifeStages
  <2>2. PICK doing : doing = [op |-> op, at |-> FirstStatement(op, arg, session), arg |-> arg,
                              base |-> base, copy |-> session]
    OBVIOUS
  <2>3. {"op", "at"} \subseteq DOMAIN doing /\ doing.at \notin LifeStages
    BY <2>1, <2>2
  <2> QED
    BY <1>1, <1>2, <2>2, <2>3 DEF Command, lifeVars
<1>3. CASE \E base \in Bases : AdminCommand(r, base)
  BY <1>2, <1>3 DEF AdminCommand, AdminStart, AdminPause, AdminFinish, AdminRestart, AdminSetContestant,
     AdminSetPhase, AdminRestartTimer, AdminCompleteContestant, AdminEndSpeech, AdminSetDurations,
     AdminStepQuestion
<1>4. CASE ReplaceDraw(r)
  BY <1>1, <1>4 DEF ReplaceDraw, lifeVars, LifeStages
<1>5. CASE ResetRuntime(r)
  BY <1>1, <1>5 DEF ResetRuntime, lifeVars, LifeStages
<1>6. CASE StoreDraw(r)
  BY <1>1, <1>6 DEF StoreDraw, lifeVars, LifeStages
<1> QED
  BY <1>3, <1>4, <1>5, <1>6

\* The statements of a command: only three of them write marks or events.
LEMMA StatementsPass ==
  ASSUME LivesInv, NEW r \in Requests, UNCHANGED rows,
         \/ RecordSpeech(r) \/ FinishOpenPerformances(r) \/ UpsertFinished(r)
         \/ ListLiveContestants(r) \/ UpsertLive(r) \/ EnsureReady(r) \/ RestartPerformances(r)
         \/ CutLifeEvents(r) \/ DeleteLifeEvents(r) \/ DeleteAnswerMarks(r)
  PROVE  Passes(r)
<1>1. ASSUME NEW stage, stage \notin LifeStages, Goto(r, stage), EventsStep, mark' = mark \/ mark' = {}
      PROVE  Passes(r)
  BY <1>1, Goes
<1>2. CASE ListLiveContestants(r)
  <2>1. PICK c, next : next \in {"live", "save", "ensure"} /\
          request' = [request EXCEPT ![r] = [@ EXCEPT !.arg = c, !.at = next]]
    BY <1>2 DEF ListLiveContestants
  <2>2. PICK doing : doing = [request[r] EXCEPT !.arg = c, !.at = next]
    OBVIOUS
  <2>3. request' = [request EXCEPT ![r] = doing]
    BY <2>1, <2>2 DEF LivesInv
  <2>4. {"op", "at"} \subseteq DOMAIN request[r]
    BY DEF LivesInv, RequestRight
  <2>5. {"op", "at"} \subseteq DOMAIN doing /\ doing.at = next
    BY <2>2, <2>4
  <2>6. EventsStay /\ mark' = mark
    BY <1>2 DEF ListLiveContestants, lifeVars, EventsStay
  <2>7. next \notin LifeStages
    BY <2>1 DEF LifeStages
  <2> QED
    BY <2>3, <2>5, <2>6, <2>7 DEF Passes, EventsStep
<1>3. CASE CutLifeEvents(r)
  <2>1. LinksCut /\ mark' = mark /\ Goto(r, "events")
    BY <1>3 DEF CutLifeEvents, LinksCut
  <2> QED
    BY <1>1, <2>1 DEF EventsStep, LifeStages
<1>4. CASE DeleteLifeEvents(r)
  <2>1. EventsGo /\ mark' = mark /\ Goto(r, "marks")
    BY <1>4 DEF DeleteLifeEvents, EventsGo
  <2> QED
    BY <1>1, <2>1 DEF EventsStep, LifeStages
<1>5. CASE DeleteAnswerMarks(r)
  <2>1. EventsStay /\ mark' = {} /\ Goto(r, "save")
    BY <1>5 DEF DeleteAnswerMarks, EventsStay
  <2> QED
    BY <1>1, <2>1 DEF EventsStep, LifeStages
<1>6. CASE \/ RecordSpeech(r) \/ FinishOpenPerformances(r) \/ UpsertFinished(r)
           \/ UpsertLive(r) \/ EnsureReady(r) \/ RestartPerformances(r)
  <2>1. EventsStay /\ mark' = mark /\ \E stage : stage \notin LifeStages /\ Goto(r, stage)
    BY <1>6 DEF RecordSpeech, FinishOpenPerformances, UpsertFinished, UpsertLive, EnsureReady,
       RestartPerformances, WritePerformance, lifeVars, EventsStay, LifeStages
  <2> QED
    BY <1>1, <2>1 DEF EventsStep
<1> QED
  BY <1>2, <1>3, <1>4, <1>5, <1>6

\* The session is saved or reset, its event published, or a request stops.
LEMMA SavesPass ==
  ASSUME LivesInv, NEW r \in Requests, UNCHANGED rows,
         \/ SaveSession(r) \/ SetCurrentContestant(r) \/ BumpSessionRevision(r)
         \/ ResetChallengeRuntime(r) \/ Publish(r) \/ Stop(r)
  PROVE  Passes(r)
<1>1. /\ Done(r) \/ \E stage : stage \notin LifeStages /\ Goto(r, stage)
      /\ mark' = mark \/ mark' = {}
  BY DEF SaveSession, SetCurrentContestant, BumpSessionRevision, ResetChallengeRuntime, Publish, Stop,
     lifeVars, LifeStages
<1>2. EventsStay \/ EventsGo
  BY DEF SaveSession, SetCurrentContestant, BumpSessionRevision, ResetChallengeRuntime, Publish, Stop,
     lifeVars, EventsStay, EventsGo
<1> QED
  BY <1>1, <1>2, Goes DEF EventsStep

\* The process stops, and with it every request.
LEMMA CrashPasses ==
  ASSUME LivesInv, Crash, UNCHANGED rows, Remember
  PROVE  LivesInv'
<1>1. EventsStay /\ mark' = mark /\ request' = [r \in Requests |-> Idle]
  BY DEF Crash, lifeVars, EventsStay
<1>2. RequestsStep
  BY <1>1 DEF RequestsStep, RequestRight, DecidesRight, Idle
<1> QED
  BY <1>1, <1>2, MarksStay, LivesMove DEF EventsStep

\* Every step keeps the invariant.
LEMMA LivesStep == LivesInv /\ [Next]_vars => LivesInv'
<1> SUFFICES ASSUME LivesInv, [Next]_vars PROVE LivesInv'
  OBVIOUS
<1>1. CASE UNCHANGED vars
  <2>1. UNCHANGED <<mark, event, request, rows, crossed>>
    BY <1>1 DEF vars
  <2>2. EventsStep
    BY <2>1 DEF EventsStep, EventsStay
  <2>3. EventsRight' /\ MarksRight' /\ \A r \in Requests : RequestRight(request[r])'
    BY <2>1, <2>2, EventsStepRight, MarksStay, WaitingRight
  <2>4. ASSUME NEW author \in Jury, NEW c \in Contestants PROVE BoardRight(author, c)'
    BY <2>1 DEF LivesInv, BoardRight, PairRight, Due, EventsOf
  <2> QED
    BY <2>1, <2>3, <2>4 DEF LivesInv
<1>2. CASE LiveNext /\ UNCHANGED <<key, rows>> /\ Remember
  <2>1. ASSUME NEW w \in Watchers, Subscribe(w) \/ Receive(w) \/ Unsubscribe(w) PROVE LivesInv'
    BY <1>2, <2>1, NoneMoves DEF Subscribe, Receive, Unsubscribe, lifeVars
  <2>2. CASE FillCurrentIfEmpty
    BY <1>2, <2>2, NoneMoves DEF FillCurrentIfEmpty, lifeVars
  <2> QED
    BY <1>2, <2>1, <2>2, CopiesPass, StatementsPass, SavesPass, CrashPasses, PassesOn DEF LiveNext, Passes
<1>3. ASSUME NEW r \in Requests, Remember,
             \/ JuryRequest(r) \/ LookWrong(r) \/ LookRestore(r) \/ UpsertAnswerMark(r)
             \/ UpsertQuestionKey(r) \/ ReplaceQuestionKeys(r) \/ SetQuestionCount(r)
             \/ ListAnswerMarks(r) \/ SyncLifeForMark(r) \/ InsertLifeEvent(r) \/ SyncNext(r)
      PROVE  LivesInv'
  BY <1>3, JuryPasses, LookPasses, MarkPasses, KeysPass, ListPasses, SyncPasses, InsertPasses
<1> QED
  BY <1>1, <1>2, <1>3 DEF Next

\* However requests about lives overlap: the events of an author about a contestant add up, and what
\* is due among them fits, unless they have crossed.
THEOREM LivesCorrect == Spec => []LivesInv
<1> QED
  BY LivesBegin, LivesStep, PTL DEF Spec

\* Where the events of a pair have not crossed, the checks count the lives that the board shows, and
\* never more than at the start.
THEOREM BoardSafe == Spec => []BoardMatchesChecks
<1>1. LivesInv => BoardMatchesChecks
  <2> SUFFICES ASSUME LivesInv, NEW j \in Jury, NEW c \in Contestants, <<j, c>> \notin crossed
               PROVE  /\ ViewerLives(j, c) = ApplyLifeEvents(j, c).lives
                      /\ ViewerLives(j, c) <= Starting
    BY DEF BoardMatchesChecks
  <2>1. PICK E, lives : E = EventsOf(j, c) /\ lives = ApplyLifeEvents(j, c).lives
    OBVIOUS
  <2>2. AddUp(E, lives)
    BY <2>1, BoardIsFold DEF LivesInv, BoardRight, PairRight
  <2>3. PICK gained, lost : gained = Starting + Cardinality(Giving(E)) /\ lost = Cardinality(Taking(E))
    OBVIOUS
  <2>4. ViewerLives(j, c) = IF lost > gained THEN 0 ELSE gained - lost
    BY <2>1, <2>3, OwnLives DEF LivesInv
  <2>5. /\ Cardinality(Giving(E)) \in Nat /\ Cardinality(Taking(E)) \in Nat
        /\ Cardinality(Standing(E)) \in Nat
    BY <2>1, EventsFinite, CountsNat DEF LivesInv
  <2> QED
    BY <2>1, <2>2, <2>3, <2>4, <2>5, StartingPositive DEF AddUp
<1> QED
  BY <1>1, LivesCorrect, PTL

-----------------------------------------------------------------------------
(* A new key or plan brings the operator's events in step. *)

\* a mark of the operator that costs a life if it differs from the key, or finds none left
MarkSettled(c, q, m) ==
  key[q] # "NONE" =>
    IF m[4] = key[q] THEN OpenWrong(Operator, c, q) = {}
    ELSE OpenWrong(Operator, c, q) # {} \/ ViewerLives(Operator, c) = 0

Wanted(c, q) == {m \in MarksOf(Operator, c) : m[3] = q}

\* the marks of a contestant that a request has to bring in step: the event they need is due, or each
\* is settled or still to do
Handled(q, c) ==
  /\ \A x \in q.todo : x[1] = c => \E m \in Wanted(c, q.question) : m[4] = x[2]
  /\ IF q.at = "insert" /\ q.new.contestant = c
     THEN /\ key[q.question] # "NONE"
          /\ \A m \in Wanted(c, q.question) : m[4] = key[q.question] <=> q.new.delta = "plus"
     ELSE \A m \in Wanted(c, q.question) : <<c, m[4]>> \in q.todo \/ MarkSettled(c, q.question, m)

Syncs(q, away) ==
  InStep(q) /\ Operator \in Jury =>
    /\ q.by = Operator
    /\ q.at = "insert" => q.new.author = Operator /\ q.new.question = q.question
    /\ \A c \in Contestants : c \notin away /\ <<Operator, c>> \notin crossed => Handled(q, c)

\* events have crossed only where there are some
CrossedHave == \A author \in Jury, c \in Contestants : <<author, c>> \in crossed => EventsOf(author, c) # {}

\* an author marks a contestant's answer to a question once
MarksOne == \A m, n \in mark : <<m[1], m[2], m[3]>> = <<n[1], n[2], n[3]>> => m = n

SyncInv == CrossedHave /\ MarksOne /\ \A r \in Requests : Syncs(request[r], stirred[r])

\* What is open and how many lives are left depends on the events of the pair only.
LEMMA SameEvents ==
  ASSUME EventsRight, EventsRight', NEW author, NEW c, EventsOf(author, c)' = EventsOf(author, c)
  PROVE  /\ \A q : OpenWrong(author, c, q)' = OpenWrong(author, c, q)
         /\ ViewerLives(author, c)' = ViewerLives(author, c)
<1>1. ASSUME NEW q PROVE OpenWrong(author, c, q)' = OpenWrong(author, c, q)
  <2>1. OpenWrong(author, c, q) = Missed(EventsOf(author, c), q)
    BY OwnOpen
  <2>2. \A e \in EventsOf(author, c)' : Reversed(e.id)' <=> \E f \in EventsOf(author, c)' : f.reverses = e.id
    BY DEF EventsRight, EventsOf, Reversed
  <2>3. OpenWrong(author, c, q)' = Missed(EventsOf(author, c)', q)
    BY <2>2 DEF OpenWrong, Missed, Standing, Taking
  <2> QED
    BY <2>1, <2>3
<1>2. ViewerLives(author, c)' = ViewerLives(author, c)
  BY DEF ViewerLives, Count
<1> QED
  BY <1>1, <1>2

\* Where nothing is touched, what a request has handled stays handled.
LEMMA HandledStays ==
  ASSUME EventsRight, EventsRight', NEW q, NEW c, ~Touches(c), Handled(q, c)
  PROVE  Handled(q, c)'
<1>1. key' = key /\ MarksOf(Operator, c)' = MarksOf(Operator, c) /\ EventsOf(Operator, c)' = EventsOf(Operator, c)
  BY DEF Touches
<1>2. /\ \A n : OpenWrong(Operator, c, n)' = OpenWrong(Operator, c, n)
      /\ ViewerLives(Operator, c)' = ViewerLives(Operator, c)
  BY <1>1, SameEvents
<1>3. \A n : Wanted(c, n)' = Wanted(c, n)
  BY <1>1 DEF Wanted
<1>4. \A n, m : MarkSettled(c, n, m)' <=> MarkSettled(c, n, m)
  BY <1>1, <1>2 DEF MarkSettled
<1> QED
  BY <1>1, <1>3, <1>4 DEF Handled

\* Events of a pair do not vanish unless all do.
LEMMA EventsLast ==
  ASSUME LivesInv, EventsStep, event' # <<>>, NEW author, NEW c, EventsOf(author, c) # {}
  PROVE  EventsOf(author, c)' # {}
<1>1. EventsRight
  BY DEF LivesInv
<1>2. CASE EventsStay
  BY <1>2 DEF EventsStay, EventsOf
<1>3. CASE LinksCut
  BY <1>1, <1>3, EventsCut
<1>4. ASSUME NEW r \in Requests, Inserted(r) PROVE EventsOf(author, c)' # {}
  <2>1. NewRight(request[r].new)
    BY <1>4 DEF LivesInv, RequestRight, Inserted
  <2> QED
    BY <1>1, <1>4, <2>1, EventInserted
<1> QED
  BY <1>2, <1>3, <1>4 DEF EventsStep, EventsGo

\* Where events have crossed there are some.
LEMMA CrossedHaveStep ==
  ASSUME LivesInv, EventsStep, CrossedHave, Remember
  PROVE  CrossedHave'
<1> SUFFICES ASSUME NEW author \in Jury, NEW c \in Contestants, <<author, c>> \in crossed'
             PROVE  EventsOf(author, c)' # {}
  BY DEF CrossedHave
<1>1. event' # <<>> /\ (<<author, c>> \in crossed \/ Crosses(author, c))
  BY DEF Remember
<1>2. EventsOf(author, c) # {} \/ EventsOf(author, c)' # {}
  BY <1>1 DEF CrossedHave, Crosses
<1> QED
  BY <1>1, <1>2, EventsLast

\* A pair whose events stay had not crossed, if it has not afterwards.
LEMMA NotCrossed ==
  ASSUME CrossedHave, Remember, NEW author \in Jury, NEW c \in Contestants, <<author, c>> \notin crossed',
         EventsOf(author, c)' = EventsOf(author, c) \/ event' # <<>>
  PROVE  <<author, c>> \notin crossed
<1>1. CASE event' # <<>>
  BY <1>1 DEF Remember
<1>2. CASE event' = <<>> /\ EventsOf(author, c)' = EventsOf(author, c)
  <2>1. EventsOf(author, c) = {}
    BY <1>2 DEF EventsOf, Range
  <2> QED
    BY <2>1 DEF CrossedHave
<1> QED
  BY <1>1, <1>2

\* A request that waits keeps what it has handled, except where it is stirred.
LEMMA WaitingSyncs ==
  ASSUME LivesInv, EventsRight', SyncInv, Remember, NEW r \in Requests, request'[r] = request[r]
  PROVE  Syncs(request[r], stirred[r])'
<1>1. PICK q : q = request[r]
  OBVIOUS
<1>2. SUFFICES ASSUME InStep(q), Operator \in Jury
               PROVE  /\ q.by = Operator
                      /\ q.at = "insert" => q.new.author = Operator /\ q.new.question = q.question
                      /\ \A c \in Contestants : c \notin stirred'[r] /\ <<Operator, c>> \notin crossed' =>
                           Handled(q, c)'
  BY <1>1 DEF Syncs, Handled, Wanted, MarkSettled
<1>3. Syncs(q, stirred[r])
  BY <1>1 DEF SyncInv
<1>4. stirred'[r] = stirred[r] \cup {c \in Contestants : Touches(c)}
  BY <1>1, <1>2 DEF Remember
<1>5. ASSUME NEW c \in Contestants, c \notin stirred'[r], <<Operator, c>> \notin crossed'
      PROVE  Handled(q, c)'
  <2>1. c \notin stirred[r] /\ ~Touches(c)
    BY <1>4, <1>5
  <2>2. <<Operator, c>> \notin crossed
    BY <1>2, <1>5, <2>1, NotCrossed DEF SyncInv, Touches
  <2>3. Handled(q, c)
    BY <1>2, <1>3, <2>1, <2>2 DEF Syncs
  <2> QED
    BY <2>1, <2>3, HandledStays DEF LivesInv
<1> QED
  BY <1>2, <1>3, <1>5 DEF Syncs

\* The marks of a question have just been listed: each is to do.
LEMMA ListSyncs ==
  ASSUME LivesInv, SyncInv, NEW r \in Requests, ListAnswerMarks(r)
  PROVE  Syncs(request[r], stirred[r])'
<1>1. PICK n : n = request[r].question
  OBVIOUS
<1>2. PICK todo : todo = {<<m[2], m[4]>> : m \in {m \in mark : m[1] = Operator /\ m[3] = n}}
  OBVIOUS
<1>3. PICK q : q = Syncing(request[r].op, "sync", Operator, todo, n, request[r].last)
  OBVIOUS
<1>4. request'[r] = q /\ mark' = mark
  BY <1>1, <1>2, <1>3 DEF ListAnswerMarks, LivesInv, lifeVarsAll
<1>5. q.at = "sync" /\ q.by = Operator /\ q.todo = todo /\ q.question = n
  BY <1>3 DEF Syncing
<1>6. ASSUME NEW c \in Contestants PROVE Handled(q, c)'
  <2>1. \A m \in Wanted(c, n)' : <<c, m[4]>> \in todo
    BY <1>2, <1>4 DEF Wanted, MarksOf
  <2>2. \A x \in todo : x[1] = c => \E m \in Wanted(c, n)' : m[4] = x[2]
    BY <1>2, <1>4 DEF Wanted, MarksOf
  <2> QED
    BY <1>5, <2>1, <2>2 DEF Handled
<1> QED
  BY <1>4, <1>5, <1>6 DEF Syncs

\* A mark is looked at: it is settled, or the event it needs is due.
LEMMA MarkSyncs ==
  ASSUME LivesInv, EventsRight', SyncInv, Remember, NEW r \in Requests, SyncLifeForMark(r), request'[r] # request[r]
  PROVE  Syncs(request[r], stirred[r])'
<1> DEFINE q == request[r].question
           by == request[r].by
           action(m) == IF key[q] = "NONE" THEN "nothing"
                        ELSE LifeSyncAction(m[2], key[q], OpenWrong(by, m[1], q) # {}, ViewerLives(by, m[1]))
<1>1. request[r].at = "sync" /\ UNCHANGED <<key, mark, event, rows>>
  BY DEF SyncLifeForMark, lifeVarsAll
<1>2. PICK m \in request[r].todo :
        request' = [request EXCEPT ![r] =
          CASE action(m) = "miss" -> Inserting(r, m[1], "minus", 0)
            [] action(m) = "restore" -> Inserting(r, m[1], "plus", OpenWrongEvent(by, m[1], q).id)
            [] OTHER -> [request[r] EXCEPT !.todo = @ \ {m}]]
  BY DEF SyncLifeForMark
<1>3. PICK doing : doing = request'[r]
  OBVIOUS
<1>4. doing = CASE action(m) = "miss" -> Inserting(r, m[1], "minus", 0)
                [] action(m) = "restore" -> Inserting(r, m[1], "plus", OpenWrongEvent(by, m[1], q).id)
                [] OTHER -> [request[r] EXCEPT !.todo = @ \ {m}]
  BY <1>2, <1>3 DEF LivesInv
<1>5. {"op", "at", "by", "todo", "question"} \subseteq DOMAIN request[r]
  BY <1>1 DEF LivesInv, RequestRight
<1>6. /\ doing.op = request[r].op /\ doing.by = by /\ doing.question = q
      /\ \A x \in doing.todo : x \in request[r].todo
      /\ \A x \in request[r].todo : x[1] # m[1] => x \in doing.todo
      /\ IF action(m) \in {"miss", "restore"}
         THEN /\ doing.at = "insert" /\ doing.new.author = by /\ doing.new.contestant = m[1]
              /\ doing.new.question = q /\ doing.new.delta = (IF action(m) = "miss" THEN "minus" ELSE "plus")
         ELSE doing.at = "sync"
  <2>1. CASE action(m) = "miss"
    BY <1>1, <1>4, <2>1 DEF Inserting
  <2>2. CASE action(m) = "restore"
    BY <1>1, <1>4, <2>2 DEF Inserting
  <2>3. CASE action(m) \notin {"miss", "restore"}
    <3>1. doing = [request[r] EXCEPT !.todo = @ \ {m}]
      BY <1>4, <2>3
    <3> QED
      BY <1>1, <1>5, <2>3, <3>1
  <2> QED
    BY <2>1, <2>2, <2>3
<1>7. SUFFICES ASSUME InStep(doing), Operator \in Jury
               PROVE  /\ doing.by = Operator
                      /\ doing.at = "insert" => doing.new.author = Operator /\ doing.new.question = doing.question
                      /\ \A c \in Contestants : c \notin stirred'[r] /\ <<Operator, c>> \notin crossed' =>
                           Handled(doing, c)'
  BY <1>3 DEF Syncs, Handled, Wanted, MarkSettled
<1>8. InStep(request[r])
  BY <1>1, <1>6, <1>7 DEF InStep
<1>9. by = Operator /\ stirred'[r] = stirred[r]
  BY <1>3, <1>7, <1>8 DEF SyncInv, Syncs, Remember
<1>10. ASSUME NEW c \in Contestants, c \notin stirred'[r], <<Operator, c>> \notin crossed'
       PROVE  Handled(doing, c)'
  <2>1. /\ \A n : Wanted(c, n)' = Wanted(c, n)
        /\ EventsOf(Operator, c)' = EventsOf(Operator, c)
    BY <1>1 DEF Wanted, MarksOf, EventsOf
  <2>2. \A n, w : MarkSettled(c, n, w)' <=> MarkSettled(c, n, w)
    BY <1>1, <2>1, SameEvents DEF MarkSettled, LivesInv
  <2>3. <<Operator, c>> \notin crossed
    BY <1>7, <1>10, <2>1, NotCrossed DEF SyncInv
  <2>4. Handled(request[r], c)
    BY <1>7, <1>8, <1>9, <1>10, <2>3 DEF SyncInv, Syncs
  <2>5. /\ \A x \in request[r].todo : x[1] = c => \E w \in Wanted(c, q) : w[4] = x[2]
        /\ \A w \in Wanted(c, q) : <<c, w[4]>> \in request[r].todo \/ MarkSettled(c, q, w)
    BY <1>1, <2>4 DEF Handled
  <2>6. CASE m[1] # c
    <3>1. \A w \in Wanted(c, q) : <<c, w[4]>> \in doing.todo \/ MarkSettled(c, q, w)
      BY <1>6, <2>5, <2>6
    <3> QED
      BY <1>6, <2>1, <2>2, <2>5, <2>6, <3>1 DEF Handled
  <2>7. CASE m[1] = c
    <3>1. \A w \in Wanted(c, q) : w[4] = m[2]
      BY <2>5, <2>7 DEF Wanted, MarksOf, SyncInv, MarksOne
    <3>2. CASE action(m) \in {"miss", "restore"}
      <4>1. key[q] # "NONE" /\ (m[2] = key[q] <=> action(m) = "restore")
        BY <3>2 DEF LifeSyncAction
      <4>2. \A w \in Wanted(c, q) : w[4] = key[q] <=> doing.new.delta = "plus"
        BY <1>6, <3>1, <3>2, <4>1
      <4> QED
        BY <1>1, <1>6, <2>1, <2>5, <2>7, <3>2, <4>1, <4>2 DEF Handled
    <3>3. CASE action(m) \notin {"miss", "restore"}
      <4>1. ViewerLives(Operator, c) \in Nat
        BY OwnLives DEF LivesInv
      <4>2. \A w \in Wanted(c, q) : MarkSettled(c, q, w)
        BY <1>9, <2>7, <3>1, <3>3, <4>1 DEF MarkSettled, LifeSyncAction
      <4> QED
        BY <1>6, <2>1, <2>2, <2>5, <3>3, <4>2 DEF Handled
    <3> QED
      BY <3>2, <3>3
  <2> QED
    BY <2>6, <2>7
<1> QED
  BY <1>6, <1>9, <1>10

\* The event that was due is inserted: the marks of its contestant are settled.
LEMMA InsertSyncs ==
  ASSUME LivesInv, EventsRight', SyncInv, Remember, NEW r \in Requests, InsertLifeEvent(r)
  PROVE  Syncs(request[r], stirred[r])'
<1>1. InsertsOrEnds(r) /\ request[r].at = "insert" /\ UNCHANGED <<mark, key>>
  BY InsertOutcomes DEF LivesInv
<1>2. CASE Done(r)
  BY <1>2 DEF Done, Idle, LivesInv, Syncs, InStep
<1>3. CASE Inserted(r) /\ request' = [request EXCEPT ![r] = Syncing(request[r].op, "sync", request[r].by,
                                        request[r].todo, request[r].question, request[r].last)]
  <2>1. PICK doing : doing = Syncing(request[r].op, "sync", request[r].by, request[r].todo,
                                     request[r].question, request[r].last)
    OBVIOUS
  <2>2. request'[r] = doing
    BY <1>3, <2>1 DEF LivesInv
  <2>3. /\ doing.op = request[r].op /\ doing.at = "sync" /\ doing.by = request[r].by
        /\ doing.todo = request[r].todo /\ doing.question = request[r].question
    BY <2>1 DEF Syncing
  <2>4. SUFFICES ASSUME InStep(doing), Operator \in Jury
                 PROVE  /\ doing.by = Operator
                        /\ \A c \in Contestants : c \notin stirred'[r] /\ <<Operator, c>> \notin crossed' =>
                             Handled(doing, c)'
    BY <2>2, <2>3 DEF Syncs, Handled, Wanted, MarkSettled
  <2>5. InStep(request[r]) /\ request'[r] # request[r]
    BY <1>1, <1>3, <2>3, <2>4 DEF InStep, Inserted
  <2>6. PICK q, new : q = request[r].question /\ new = request[r].new
    OBVIOUS
  <2>7. /\ request[r].by = Operator /\ stirred'[r] = stirred[r]
        /\ new.author = Operator /\ new.question = q
    BY <1>1, <2>2, <2>4, <2>5, <2>6 DEF SyncInv, Syncs, Remember
  <2>8. EventsRight /\ NewRight(request[r].new)
    BY <1>1 DEF LivesInv, RequestRight
  <2>9. event' # <<>>
    <3>1. event' = Append(event, Row(request[r].new, rows + 1))
      BY <1>3 DEF Inserted
    <3>2. Range(event') = Range(event) \cup {Row(request[r].new, rows + 1)}
      BY <1>3, <2>8, EventInserted
    <3> QED
      BY <3>2 DEF Range
  <2>10. ASSUME NEW c \in Contestants, c \notin stirred'[r], <<Operator, c>> \notin crossed'
         PROVE  Handled(doing, c)'
    <3>1. <<Operator, c>> \notin crossed
      BY <2>4, <2>9, <2>10, NotCrossed DEF SyncInv
    <3>2. Handled(request[r], c)
      BY <2>4, <2>5, <2>7, <2>10, <3>1 DEF SyncInv, Syncs
    <3>3. \A n : Wanted(c, n)' = Wanted(c, n)
      BY <1>1 DEF Wanted, MarksOf
    <3>4. \A x \in doing.todo : x[1] = c => \E m \in Wanted(c, q) : m[4] = x[2]
      BY <2>3, <2>6, <3>2 DEF Handled
    <3>5. CASE new.contestant # c
      <4>1. EventsOf(Operator, c)' = EventsOf(Operator, c)
        BY <1>3, <2>6, <2>8, <3>5, EventInserted
      <4>2. \A w : MarkSettled(c, q, w)' <=> MarkSettled(c, q, w)
        BY <1>1, <2>8, <4>1, SameEvents DEF MarkSettled
      <4>3. \A m \in Wanted(c, q) : <<c, m[4]>> \in doing.todo \/ MarkSettled(c, q, m)
        BY <2>3, <2>6, <3>2, <3>5 DEF Handled
      <4> QED
        BY <2>3, <2>6, <3>3, <3>4, <4>2, <4>3 DEF Handled
    <3>6. CASE new.contestant = c
      <4>1. /\ key[q] # "NONE"
            /\ \A m \in Wanted(c, q) : m[4] = key[q] <=> new.delta = "plus"
        BY <1>1, <2>6, <3>2, <3>6 DEF Handled
      <4>2. /\ new.delta = "minus" => Missed(EventsOf(Operator, c)', q) # {}
            /\ new.delta = "plus" => Missed(EventsOf(Operator, c)', q) = {}
        BY <1>3, <2>6, <2>7, <3>1, <3>6, BoardInserts
      <4>3. OpenWrong(Operator, c, q)' = Missed(EventsOf(Operator, c)', q)
        <5>1. \A e \in EventsOf(Operator, c)' :
                Reversed(e.id)' <=> \E f \in EventsOf(Operator, c)' : f.reverses = e.id
          BY DEF EventsRight, EventsOf, Reversed
        <5> QED
          BY <5>1 DEF OpenWrong, Missed, Standing, Taking
      <4>4. new.delta \in {"plus", "minus"}
        BY <2>6, <2>8 DEF NewRight
      <4>5. \A m \in Wanted(c, q) : MarkSettled(c, q, m)'
        BY <1>1, <4>1, <4>2, <4>3, <4>4 DEF MarkSettled
      <4> QED
        BY <2>3, <2>6, <3>3, <3>4, <4>5 DEF Handled
    <3> QED
      BY <3>5, <3>6
  <2> QED
    BY <2>3, <2>7, <2>10
<1> QED
  BY <1>1, <1>2, <1>3 DEF InsertsOrEnds

\* what a step may do to the requests that bring questions in step
Goings ==
  \A r \in Requests :
    \/ request'[r] = request[r] \/ ~InStep(request'[r])
    \/ ListAnswerMarks(r) \/ SyncLifeForMark(r) \/ InsertLifeEvent(r)

\* A step of one request that leaves it not bringing a question in step.
LEMMA OneGoes ==
  ASSUME DOMAIN request = Requests, NEW r \in Requests, NEW doing,
         request' = [request EXCEPT ![r] = doing], ~InStep(doing)
  PROVE  Goings
  BY DEF Goings

\* Steps of the session: none brings a question in step.
LEMMA SessionGoes ==
  ASSUME LivesInv, LiveNext, UNCHANGED <<key, rows>>
  PROVE  EventsStep /\ (mark' = mark \/ mark' = {}) /\ Goings
<1>1. ASSUME NEW r \in Requests, Passes(r)
      PROVE  EventsStep /\ (mark' = mark \/ mark' = {}) /\ Goings
  BY <1>1, OneGoes DEF Passes, LivesInv, InStep, LifeStages
<1>2. CASE (\E w \in Watchers : Subscribe(w) \/ Receive(w) \/ Unsubscribe(w)) \/ FillCurrentIfEmpty
  BY <1>2 DEF Subscribe, Receive, Unsubscribe, FillCurrentIfEmpty, lifeVars, EventsStep, EventsStay, Goings
<1>3. CASE Crash
  BY <1>3 DEF Crash, lifeVars, EventsStep, EventsStay, Goings, Idle, InStep
<1> QED
  BY <1>1, <1>2, <1>3, CopiesPass, StatementsPass, SavesPass DEF LiveNext

\* Requests about lives: those that do not write marks.
LEMMA LifeGoes ==
  ASSUME LivesInv, NEW r \in Requests,
         \/ JuryRequest(r) \/ LookWrong(r) \/ LookRestore(r)
         \/ UpsertQuestionKey(r) \/ ReplaceQuestionKeys(r) \/ SetQuestionCount(r)
         \/ ListAnswerMarks(r) \/ SyncLifeForMark(r) \/ InsertLifeEvent(r) \/ SyncNext(r)
  PROVE  EventsStep /\ mark' = mark /\ Goings
<1>0. DOMAIN request = Requests /\ \A x \in Requests : {"op", "at"} \subseteq DOMAIN request[x]
  BY DEF LivesInv, RequestRight
<1>1. CASE JuryRequest(r)
  <2>1. ASSUME NEW doing, Ask(r, doing), doing.at \in {"look", "mark", "key", "keys"}
        PROVE  EventsStep /\ mark' = mark /\ Goings
    <3>1. EventsStay /\ mark' = mark /\ request' = [request EXCEPT ![r] = doing]
      BY <2>1 DEF Ask, EventsStay, lifeVarsAll
    <3>2. ~InStep(doing)
      BY <2>1 DEF InStep
    <3> QED
      BY <1>0, <3>1, <3>2, OneGoes DEF EventsStep
  <2> QED
    BY <1>1, <2>1 DEF JuryRequest, JuryWrongAnswer, JuryRestoreLife, JurySetAnswer, AdminSetCorrectAnswer,
       AdminSetQuestionPlan
<1>2. CASE LookWrong(r) \/ LookRestore(r)
  <2>1. EventsStay /\ mark' = mark
    BY <1>2 DEF LookWrong, LookRestore, EventsStay, lifeVarsAll
  <2>2. PICK doing : request' = [request EXCEPT ![r] = doing] /\ doing.op \in {"none", "wrong", "restore"}
    BY <1>2 DEF LookWrong, LookRestore, Done, Idle, Inserting
  <2>3. ~InStep(doing)
    BY <2>2 DEF InStep
  <2> QED
    BY <1>0, <2>1, <2>2, <2>3, OneGoes DEF EventsStep
<1>3. CASE UpsertQuestionKey(r) \/ SetQuestionCount(r) \/ SyncNext(r)
  <2>1. EventsStay /\ mark' = mark
    BY <1>3 DEF UpsertQuestionKey, SetQuestionCount, SyncNext, EventsStay, lifeVars, lifeVarsAll
  <2>2. PICK op, q, last, doing : /\ request' = [request EXCEPT ![r] = doing]
                                  /\ doing = Syncing(op, "list", Operator, {}, q, last) \/ doing = Idle
    BY <1>3 DEF UpsertQuestionKey, SetQuestionCount, SyncNext, Done
  <2>3. ~InStep(doing)
    BY <2>2 DEF InStep, Syncing, Idle
  <2> QED
    BY <1>0, <2>1, <2>2, <2>3, OneGoes DEF EventsStep
<1>4. CASE ReplaceQuestionKeys(r)
  <2>1. EventsStay /\ mark' = mark /\ Goto(r, "count")
    BY <1>4 DEF ReplaceQuestionKeys, EventsStay, lifeVars
  <2>2. PICK doing : doing = [request[r] EXCEPT !.at = "count"]
    OBVIOUS
  <2>3. ~InStep(doing)
    BY <1>0, <2>2 DEF InStep
  <2>4. request' = [request EXCEPT ![r] = doing]
    BY <2>1, <2>2 DEF Goto
  <2> QED
    BY <1>0, <2>1, <2>3, <2>4, OneGoes DEF EventsStep
<1>5. CASE ListAnswerMarks(r) \/ SyncLifeForMark(r)
  <2>1. EventsStay /\ mark' = mark
    BY <1>5 DEF ListAnswerMarks, SyncLifeForMark, EventsStay, lifeVarsAll
  <2>2. PICK doing : request' = [request EXCEPT ![r] = doing]
    BY <1>5 DEF ListAnswerMarks, SyncLifeForMark
  <2>3. \A x \in Requests : x # r => request'[x] = request[x]
    BY <1>0, <2>2
  <2> QED
    BY <1>5, <2>1, <2>3 DEF Goings, EventsStep
<1>6. CASE InsertLifeEvent(r)
  <2>1. InsertsOrEnds(r) /\ mark' = mark
    BY <1>0, <1>6, InsertOutcomes
  <2>2. EventsStep
    BY <2>1 DEF InsertsOrEnds, EventsStep
  <2>3. Goings
    BY <1>0, <1>6, <2>1 DEF InsertsOrEnds, Done, Goings
  <2> QED
    BY <2>1, <2>2, <2>3
<1> QED
  BY <1>1, <1>2, <1>3, <1>4, <1>5, <1>6

\* A step that moves the events, the marks and the requests as they may keeps what is handled.
LEMMA SyncMove ==
  ASSUME LivesInv, EventsRight', SyncInv, Remember, EventsStep, Goings, MarksOne'
  PROVE  SyncInv'
<1>1. CrossedHave'
  BY CrossedHaveStep DEF SyncInv
<1>2. ASSUME NEW r \in Requests PROVE Syncs(request[r], stirred[r])'
  <2>1. CASE request'[r] = request[r]
    BY <2>1, WaitingSyncs
  <2>2. CASE ~InStep(request'[r])
    BY <2>2 DEF Syncs
  <2>3. CASE ListAnswerMarks(r)
    BY <2>3, ListSyncs
  <2>4. CASE SyncLifeForMark(r) /\ request'[r] # request[r]
    BY <2>4, MarkSyncs
  <2>5. CASE InsertLifeEvent(r)
    BY <2>5, InsertSyncs
  <2> QED
    BY <2>1, <2>2, <2>3, <2>4, <2>5 DEF Goings
<1> QED
  BY <1>1, <1>2 DEF SyncInv

\* Every step keeps the invariant.
LEMMA SyncStep == LivesInv /\ SyncInv /\ [Next]_vars => SyncInv'
<1> SUFFICES ASSUME LivesInv, SyncInv, [Next]_vars PROVE SyncInv'
  OBVIOUS
<1>0. EventsRight'
  BY LivesStep DEF LivesInv
<1>1. CASE UNCHANGED vars
  <2>1. UNCHANGED <<mark, event, key, request, crossed, stirred>>
    BY <1>1 DEF vars
  <2>2. ASSUME NEW c PROVE ~Touches(c)
    BY <2>1 DEF Touches, MarksOf, EventsOf
  <2>3. ASSUME NEW r \in Requests PROVE Syncs(request[r], stirred[r])'
    <3>1. PICK q, away : q = request[r] /\ away = stirred[r]
      OBVIOUS
    <3>2. Syncs(q, away)
      BY <3>1 DEF SyncInv
    <3>3. Syncs(q, away)'
      BY <1>0, <2>1, <2>2, <3>2, HandledStays DEF Syncs, LivesInv
    <3>4. request'[r] = q /\ stirred'[r] = away
      BY <2>1, <3>1
    <3> QED
      BY <3>3, <3>4 DEF Syncs, Handled, Wanted, MarkSettled
  <2>4. CrossedHave' /\ MarksOne'
    BY <2>1 DEF SyncInv, CrossedHave, MarksOne, EventsOf
  <2> QED
    BY <2>3, <2>4 DEF SyncInv
<1>2. CASE LiveNext /\ UNCHANGED <<key, rows>> /\ Remember
  <2>1. EventsStep /\ (mark' = mark \/ mark' = {}) /\ Goings
    BY <1>2, SessionGoes
  <2>2. MarksOne'
    BY <2>1 DEF SyncInv, MarksOne
  <2> QED
    BY <1>0, <1>2, <2>1, <2>2, SyncMove
<1>3. ASSUME NEW r \in Requests, Remember,
             \/ JuryRequest(r) \/ LookWrong(r) \/ LookRestore(r)
             \/ UpsertQuestionKey(r) \/ ReplaceQuestionKeys(r) \/ SetQuestionCount(r)
             \/ ListAnswerMarks(r) \/ SyncLifeForMark(r) \/ InsertLifeEvent(r) \/ SyncNext(r)
      PROVE  SyncInv'
  <2>1. EventsStep /\ mark' = mark /\ Goings
    BY <1>3, LifeGoes
  <2>2. MarksOne'
    BY <2>1 DEF SyncInv, MarksOne
  <2> QED
    BY <1>0, <1>3, <2>1, <2>2, SyncMove
<1>4. ASSUME NEW r \in Requests, UpsertAnswerMark(r), Remember PROVE SyncInv'
  <2>1. EventsStep
    BY <1>4 DEF UpsertAnswerMark, EventsStep, EventsStay
  <2>2. Goings
    BY <1>4, OneGoes DEF UpsertAnswerMark, Syncing, InStep, LivesInv
  <2>3. MarksOne'
    BY <1>4 DEF UpsertAnswerMark, SyncInv, MarksOne
  <2> QED
    BY <1>0, <1>4, <2>1, <2>2, <2>3, SyncMove
<1> QED
  BY <1>1, <1>2, <1>3, <1>4 DEF Next

\* A new key or plan that has been through a question has settled it for every contestant that no
\* other request touched meanwhile and whose events have not crossed.
THEOREM SyncSafe == Spec => []SyncSettles
<1>1. LifeInit => SyncInv
  BY DEF LifeInit, Init, Idle, SyncInv, CrossedHave, MarksOne, Syncs, InStep
<1>2. LivesInv /\ SyncInv => SyncSettles
  <2> SUFFICES ASSUME LivesInv, SyncInv, NEW r \in Requests, InStep(request[r]), Synced(r),
                      NEW c \in Contestants, c \notin stirred[r], <<Operator, c>> \notin crossed,
                      NEW m \in MarksOf(Operator, c), m[3] = request[r].question
               PROVE  MarkSettled(c, request[r].question, m)
    BY DEF SyncSettles, Settled, MarkSettled
  <2>1. Operator \in Jury /\ m \in Wanted(c, request[r].question)
    BY DEF LivesInv, MarksRight, MarksOf, Wanted
  <2>2. Handled(request[r], c)
    BY <2>1 DEF SyncInv, Syncs
  <2> QED
    BY <2>1, <2>2 DEF Handled, Synced
<1> QED
  BY <1>1, <1>2, SyncStep, LivesCorrect, PTL DEF Spec

-----------------------------------------------------------------------------
(* The score queue.                                                         *)

RecordStatuses == {"NONE", "PENDING", "SYNCING", "CONFLICT", "REJECTED"}
PageStages == {"idle", "mark", "wait", "admitted", "answered", "replace", "put", "fail", "retry"}
AnswerKinds == {"none", "ok", "conflict", "closed", "error", "silence"}
ScoreRecords == [id: 0 .. MaxEdits, base: Nat, status: RecordStatuses, rebases: Nat]
ScoreAnswers == [kind: AnswerKinds, revision: Nat]
PageRows == [at: PageStages, mine: ScoreRecords, epoch: Nat, answer: ScoreAnswers]
ScoreRequests == [id: Edits, base: Nat, epoch: Nat]

QueueTyped ==
  /\ slot \in ScoreRecords /\ pen \in ScoreRecords /\ made \in 0 .. MaxEdits /\ saved \in 0 .. MaxEdits
  /\ page \in [Pages -> PageRows] /\ late \subseteq ScoreRequests
  /\ value \in [score: 0 .. MaxEdits, revision: Nat]
  /\ sheet \in [epoch: Nat, there: BOOLEAN]
  /\ receipt \in [Edits -> [revision: Nat, epoch: Nat]] /\ applied \in [Edits -> Nat]
  /\ regressed \in BOOLEAN /\ wiped \in BOOLEAN

\* a mutation has a receipt when it has been applied, and has then been applied once
ReceiptsRight == \A e \in Edits :
  /\ applied[e] = IF receipt[e] = NoReceipt THEN 0 ELSE 1
  /\ ~wiped => receipt[e].revision <= value.revision

\* an older mutation than the one that counts cannot be applied any more
Overtaken(q) == q.id < value.score => q.base < value.revision

SlotRight ==
  /\ slot.id <= saved /\ saved <= made
  /\ slot.status # "NONE" => slot.id # 0
  /\ pen # NoRecord => pen.id = made /\ made # 0
  /\ ~wiped => slot.base <= value.revision /\ pen.base <= value.revision
  /\ value.score <= saved

PageRight(row) ==
  /\ row.at # "idle" => row.mine.id # 0
  /\ row.mine.id <= saved
  /\ row.at \in {"answered", "fail"} => row.answer.kind # "none"
  /\ row.at = "fail" => row.answer.kind # "ok"
  /\ row.at = "answered" /\ row.answer.kind = "ok" => applied[row.mine.id] > 0
  /\ ~wiped => row.mine.base <= value.revision /\ row.answer.revision <= value.revision
  /\ ~regressed /\ ~wiped /\ row.at \in {"wait", "admitted"} => Overtaken(row.mine)

LateRight(q) ==
  /\ q.id <= saved
  /\ ~wiped => q.base <= value.revision
  /\ ~regressed /\ ~wiped => Overtaken(q)

QueueInv ==
  /\ QueueTyped /\ ReceiptsRight /\ SlotRight
  /\ \A p \in Pages : PageRight(page[p])
  /\ \A q \in late : LateRight(q)

\* what no step may do
LeavesApplied == slot.id # 0 /\ slot'.id = 0 => applied[slot.id] > 0
KeepsOrder == ~regressed /\ ~wiped /\ value'.score # 0 => value'.score >= value.score

\* An empty queue, idle pages and a score nobody has set.
LEMMA QueueBegins == QueueInit => QueueInv
<1> SUFFICES ASSUME QueueInit PROVE QueueInv
  OBVIOUS
<1> USE QueueBoundsNat DEF QueueInit
<1>1. NoRecord \in ScoreRecords /\ IdlePage \in PageRows
  BY DEF NoRecord, ScoreRecords, RecordStatuses, IdlePage, PageRows, PageStages, Unadmitted, NoAnswer,
         ScoreAnswers, AnswerKinds
<1>2. QueueTyped
  <2>1. receipt \in [Edits -> [revision: Nat, epoch: Nat]] /\ applied \in [Edits -> Nat]
    BY DEF NoReceipt
  <2>2. value \in [score: 0 .. MaxEdits, revision: Nat] /\ sheet \in [epoch: Nat, there: BOOLEAN]
    BY DEF NoValue
  <2>3. slot \in ScoreRecords /\ pen \in ScoreRecords /\ page \in [Pages -> PageRows]
    BY <1>1
  <2>4. made \in 0 .. MaxEdits /\ saved \in 0 .. MaxEdits
    OBVIOUS
  <2>5. regressed \in BOOLEAN /\ wiped \in BOOLEAN /\ late = {}
    OBVIOUS
  <2> QED
    BY <2>1, <2>2, <2>3, <2>4, <2>5 DEF QueueTyped
<1>3. ReceiptsRight /\ SlotRight
  <2>1. \A e \in Edits : receipt[e] = NoReceipt /\ applied[e] = 0 /\ NoReceipt.revision = 0
    BY DEF NoReceipt
  <2>2. value.revision = 0 /\ value.score = 0 /\ NoRecord.id = 0 /\ NoRecord.base = 0 /\ NoRecord.status = "NONE"
    BY DEF NoValue, NoRecord
  <2> QED
    BY <2>1, <2>2 DEF ReceiptsRight, SlotRight
<1>4. \A p \in Pages : PageRight(page[p])
  BY DEF PageRight, IdlePage, NoRecord, NoAnswer, NoValue, Overtaken
<1> QED
  BY <1>2, <1>3, <1>4 DEF QueueInv

\* One page goes on, the others stay where they are.
LEMMA RowMoves ==
  ASSUME QueueTyped, NEW p \in Pages, NEW row \in PageRows, page' = [page EXCEPT ![p] = row]
  PROVE  page' \in [Pages -> PageRows] /\ \A q \in Pages : page'[q] = IF q = p THEN row ELSE page[q]
  BY DEF QueueTyped

\* A page at rest owes nothing.
LEMMA IdleIsRight ==
  ASSUME QueueInv
  PROVE  IdlePage \in PageRows /\ PageRight(IdlePage)
<1>1. IdlePage \in PageRows
  BY QueueBoundsNat DEF NoRecord, ScoreRecords, RecordStatuses, IdlePage, PageRows, PageStages,
                        Unadmitted, NoAnswer, ScoreAnswers, AnswerKinds
<1>2. saved \in Nat /\ value.revision \in Nat
  BY DEF QueueInv, QueueTyped
<1> QED
  BY <1>1, <1>2 DEF PageRight, IdlePage, NoRecord, NoAnswer

-----------------------------------------------------------------------------
(* The browser's steps: the server's tables stay. *)

\* a page goes on to row, and the queue has perhaps been written
PageTurns(p, row) ==
  /\ page' = [page EXCEPT ![p] = row]
  /\ row \in PageRows /\ PageRight(row)'
  /\ UNCHANGED <<made, pen, saved, value, receipt, applied, wiped, sheet>>
  /\ slot' \in ScoreRecords /\ slot'.id <= saved /\ (slot'.status # "NONE" => slot'.id # 0)
  /\ ~wiped => slot'.base <= value.revision
  /\ regressed' \in BOOLEAN /\ (regressed => regressed')
  /\ late' \subseteq ScoreRequests /\ \A q \in late' : q \in late \/ LateRight(q)'

\* A page goes on and nothing else changes but what the server's answer allows.
LEMMA PageStep ==
  ASSUME QueueInv, NEW p \in Pages, NEW row, PageTurns(p, row)
  PROVE  QueueInv' /\ KeepsOrder
<1> USE DEF PageTurns
<1>1. page' \in [Pages -> PageRows] /\ \A q \in Pages : page'[q] = IF q = p THEN row ELSE page[q]
  BY RowMoves DEF QueueInv
<1>2. QueueTyped'
  BY <1>1 DEF QueueInv, QueueTyped
<1>3. ReceiptsRight' /\ SlotRight'
  BY DEF QueueInv, ReceiptsRight, SlotRight
<1>4. \A q \in Pages : PageRight(page[q])'
  <2> SUFFICES ASSUME NEW q \in Pages PROVE PageRight(page[q])'
    OBVIOUS
  <2>1. CASE q = p
    BY <1>1, <2>1 DEF PageRight, Overtaken
  <2>2. CASE q # p
    BY <1>1, <2>2 DEF QueueInv, PageRight, Overtaken
  <2> QED
    BY <2>1, <2>2
<1>5. \A q \in late' : LateRight(q)'
  BY DEF QueueInv, LateRight, Overtaken
<1>6. KeepsOrder
  BY DEF KeepsOrder, QueueInv, QueueTyped
<1> QED
  BY <1>2, <1>3, <1>4, <1>5, <1>6 DEF QueueInv

\* changed is the record of the same edit with this base
SameEdit(changed, record, base) == changed \in ScoreRecords /\ changed.id = record.id /\ changed.base = base

\* A record whose other fields change is a record of the same edit.
LEMMA RecordChanges ==
  ASSUME NEW record \in ScoreRecords
  PROVE  /\ \A status \in RecordStatuses : SameEdit([record EXCEPT !.status = status], record, record.base)
         /\ \A status \in RecordStatuses, rebases \in Nat :
              SameEdit([record EXCEPT !.status = status, !.rebases = rebases], record, record.base)
         /\ \A status \in RecordStatuses, base \in Nat :
              SameEdit([record EXCEPT !.base = base, !.status = status], record, base)
         /\ \A status \in RecordStatuses, base \in Nat, rebases \in Nat :
              SameEdit([record EXCEPT !.base = base, !.rebases = rebases, !.status = status], record, base)
<1>1. ASSUME NEW status \in RecordStatuses
      PROVE  SameEdit([record EXCEPT !.status = status], record, record.base)
  BY DEF SameEdit, ScoreRecords
<1>2. ASSUME NEW status \in RecordStatuses, NEW rebases \in Nat
      PROVE  SameEdit([record EXCEPT !.status = status, !.rebases = rebases], record, record.base)
  BY DEF SameEdit, ScoreRecords
<1>3. ASSUME NEW status \in RecordStatuses, NEW base \in Nat
      PROVE  SameEdit([record EXCEPT !.base = base, !.status = status], record, base)
  BY DEF SameEdit, ScoreRecords
<1>4. ASSUME NEW status \in RecordStatuses, NEW base \in Nat, NEW rebases \in Nat
      PROVE  SameEdit([record EXCEPT !.base = base, !.rebases = rebases, !.status = status], record, base)
  BY DEF SameEdit, ScoreRecords
<1> QED
  BY <1>1, <1>2, <1>3, <1>4

\* What a page puts back is of an edit it has read; an older one than the newest puts the queue back.
LEMMA PutStep ==
  ASSUME QueueInv, NEW p \in Pages, NEW record \in ScoreRecords, Put(record), NEW row \in PageRows,
         page' = [page EXCEPT ![p] = row],
         record.id # 0, record.id <= saved, ~wiped => record.base <= value.revision,
         UNCHANGED <<made, pen, saved, late, server>>,
         regressed' = (regressed \/ record.id < saved) => PageRight(row)'
  PROVE  QueueInv' /\ KeepsOrder /\ LeavesApplied
<1>1. /\ slot' = record /\ regressed' = (regressed \/ record.id < saved)
      /\ UNCHANGED <<made, pen, saved, late, value, receipt, applied, wiped, sheet>>
  BY DEF Put, server
<1>2. PageTurns(p, row)
  BY <1>1 DEF PageTurns, QueueInv, QueueTyped
<1>3. LeavesApplied
  BY <1>1 DEF LeavesApplied
<1> QED
  BY <1>2, <1>3, PageStep

\* A page reads the record.
LEMMA FlushPasses ==
  ASSUME QueueInv, NEW p \in Pages, Flush(p) \/ ReadRetry(p) \/ ReadReplacement(p) \/ ReadFailed(p)
  PROVE  QueueInv' /\ KeepsOrder /\ LeavesApplied
<1>1. UNCHANGED <<made, pen, saved, value, receipt, applied, wiped, sheet, slot, regressed, late>>
  BY DEF Flush, ReadRetry, ReadReplacement, ReadFailed, client, server
<1>2. LeavesApplied
  BY <1>1 DEF LeavesApplied
<1>3. CASE Rest(p)
  <2>0. PICK row : row = IdlePage
    OBVIOUS
  <2>1. row \in PageRows /\ PageRight(row) /\ page' = [page EXCEPT ![p] = row]
    BY <1>3, <2>0, IdleIsRight DEF Rest
  <2>2. PageRight(row)'
    BY <1>1, <2>1 DEF PageRight, Overtaken
  <2>3. PageTurns(p, row)
    BY <1>1, <2>1, <2>2 DEF PageTurns, QueueInv, QueueTyped, SlotRight
  <2> QED
    BY <1>2, <2>3, PageStep
<1>4. ASSUME NEW stage \in {"mark", "retry", "put", "fail"}, Reads(p, stage), slot.id # 0,
             stage = "fail" => page[p].answer.kind \notin {"none", "ok"}
      PROVE  QueueInv' /\ KeepsOrder
  <2>1. PICK row : row = [page[p] EXCEPT !.at = stage, !.mine = slot]
    OBVIOUS
  <2>2. page[p] \in PageRows /\ slot \in ScoreRecords /\ PageRight(page[p])
    BY DEF QueueInv, QueueTyped
  <2>3. /\ row \in PageRows /\ row.at = stage /\ row.mine = slot /\ row.answer = page[p].answer
    BY <2>1, <2>2 DEF PageRows, PageStages
  <2>4. PageRight(row)
    BY <1>4, <2>2, <2>3 DEF PageRight, QueueInv, SlotRight
  <2>5. PageTurns(p, row)
    BY <1>1, <1>4, <2>1, <2>3, <2>4 DEF PageTurns, Reads, PageRight, Overtaken, QueueInv, QueueTyped, SlotRight
  <2> QED
    BY <2>5, PageStep
<1>5. CASE Flush(p)
  BY <1>2, <1>4, <1>5 DEF Flush, QueueInv, SlotRight
<1>6. CASE ReadRetry(p)
  BY <1>2, <1>4, <1>6 DEF ReadRetry, QueueInv, SlotRight
<1>7. CASE ReadReplacement(p)
  BY <1>2, <1>3, <1>4, <1>7 DEF ReadReplacement
<1>8. CASE ReadFailed(p)
  BY <1>2, <1>3, <1>4, <1>8 DEF ReadFailed, QueueInv, PageRight
<1> QED
  BY <1>5, <1>6, <1>7, <1>8

\* A page writes back the record it has read, whatever is stored by now.
LEMMA WriteBackPasses ==
  ASSUME QueueInv, NEW p \in Pages, MarkSyncing(p) \/ RebaseReplacement(p) \/ WriteFailed(p) \/ WriteRetry(p)
  PROVE  QueueInv' /\ KeepsOrder /\ LeavesApplied
<1>1. /\ page[p] \in PageRows /\ PageRight(page[p])
      /\ page[p].mine \in ScoreRecords /\ page[p].answer \in ScoreAnswers /\ saved \in Nat
      /\ value.score <= saved /\ value.score \in Nat /\ value.revision \in Nat
  BY DEF QueueInv, QueueTyped, PageRows, SlotRight
<1>2. PICK mine : mine = page[p].mine
  OBVIOUS
<1>3. mine \in ScoreRecords /\ mine.id # 0 /\ mine.id <= saved /\ (~wiped => mine.base <= value.revision)
  BY <1>1, <1>2 DEF PageRight, MarkSyncing, RebaseReplacement, WriteFailed, WriteRetry
<1>4. ASSUME NEW record \in ScoreRecords, Put(record), Rest(p), record.id = mine.id,
             ~wiped => record.base <= value.revision,
             UNCHANGED <<made, pen, saved, late, server>>
      PROVE  QueueInv' /\ KeepsOrder /\ LeavesApplied
  <2>1. PICK row : row = IdlePage
    OBVIOUS
  <2>2. row \in PageRows /\ PageRight(row) /\ page' = [page EXCEPT ![p] = row] /\ row.at = "idle"
    BY <1>4, <2>1, IdleIsRight DEF Rest, IdlePage
  <2>3. PageRight(row)'
    BY <1>4, <2>2 DEF PageRight, server
  <2> QED
    BY <1>3, <1>4, <2>2, <2>3, PutStep
<1>5. CASE MarkSyncing(p)
  <2>1. PICK record : record = [mine EXCEPT !.status = "SYNCING"]
    OBVIOUS
  <2>2. PICK row : row = [page[p] EXCEPT !.at = "wait", !.mine = [mine EXCEPT !.status = "NONE", !.rebases = 0]]
    OBVIOUS
  <2>3. /\ Put(record) /\ page' = [page EXCEPT ![p] = row]
        /\ UNCHANGED <<made, pen, saved, late, server>>
    <3>1. Put(record) /\ UNCHANGED <<made, pen, saved, late, server>>
      BY <1>2, <1>5, <2>1 DEF MarkSyncing
    <3>2. page' = [page EXCEPT ![p] = row]
      BY <1>2, <1>5, <2>2 DEF MarkSyncing
    <3> QED
      BY <3>1, <3>2
  <2>4. SameEdit(record, mine, mine.base)
    BY <1>3, <2>1, RecordChanges DEF RecordStatuses
  <2>5. /\ row \in PageRows /\ row.at = "wait" /\ row.mine.id = mine.id /\ row.mine.base = mine.base
        /\ row.answer = page[p].answer
    <3>1. PICK sent : sent = [mine EXCEPT !.status = "NONE", !.rebases = 0]
      OBVIOUS
    <3>2. SameEdit(sent, mine, mine.base)
      BY <1>3, <3>1, RecordChanges DEF RecordStatuses
    <3> QED
      BY <1>1, <2>2, <3>1, <3>2 DEF PageRows, PageStages, SameEdit
  <2>6. ASSUME regressed' = (regressed \/ record.id < saved)
        PROVE  PageRight(row)'
    <3>1. UNCHANGED <<saved, value, applied, wiped>>
      BY <2>3 DEF server
    <3>2. ~regressed' => ~(mine.id < saved)
      BY <2>4, <2>6 DEF SameEdit
    <3>3. ~regressed' => Overtaken(row.mine)'
      BY <1>1, <1>3, <2>5, <3>1, <3>2 DEF Overtaken, ScoreRecords
    <3>4. ~wiped => row.mine.base <= value.revision /\ row.answer.revision <= value.revision
      BY <1>1, <1>3, <2>5 DEF PageRight
    <3> QED
      BY <1>3, <2>5, <3>1, <3>3, <3>4 DEF PageRight
  <2> QED
    BY <1>3, <2>3, <2>4, <2>5, <2>6, PutStep DEF SameEdit
<1>6. CASE RebaseReplacement(p)
  <2>0. PICK revision \in Nat : revision = page[p].answer.revision /\ (~wiped => revision <= value.revision)
    BY <1>1 DEF ScoreAnswers, PageRight
  <2>1. PICK record : record = [mine EXCEPT !.base = page[p].answer.revision, !.status = "PENDING"]
    OBVIOUS
  <2>3. SameEdit(record, mine, revision)
    BY <1>3, <2>0, <2>1, RecordChanges DEF RecordStatuses
  <2>2. record \in ScoreRecords /\ record.id = mine.id /\ (~wiped => record.base <= value.revision)
    BY <2>0, <2>3 DEF SameEdit
  <2> QED
    BY <1>2, <1>4, <1>6, <2>1, <2>2 DEF RebaseReplacement
<1>7. CASE WriteRetry(p)
  <2>1. PICK record : record = [mine EXCEPT !.status = "PENDING", !.rebases = 0]
    OBVIOUS
  <2>2. record \in ScoreRecords /\ record.id = mine.id /\ (~wiped => record.base <= value.revision)
    BY <1>3, <2>1, RecordChanges DEF SameEdit, RecordStatuses
  <2> QED
    BY <1>2, <1>4, <1>7, <2>1, <2>2 DEF WriteRetry
<1>8. CASE WriteFailed(p)
  <2>1. PICK record : record = Failed(mine, page[p].answer)
    OBVIOUS
  <2>2. page[p].answer.kind \in {"conflict", "error", "silence", "closed"} /\ page[p].answer.revision \in Nat
    BY <1>1, <1>8 DEF PageRight, WriteFailed, ScoreAnswers, AnswerKinds
  <2>3. record \in ScoreRecords /\ record.id = mine.id /\ (~wiped => record.base <= value.revision)
    <3>1. CASE page[p].answer.kind = "conflict"
      <4>1. PICK revision \in Nat : revision = page[p].answer.revision /\ (~wiped => revision <= value.revision)
        BY <1>1 DEF ScoreAnswers, PageRight
      <4>2. PICK rebases \in Nat : rebases = Rebased(mine.rebases)
        BY <1>3, QueueBoundsNat DEF Rebased, ScoreRecords
      <4>3. PICK status \in RecordStatuses :
              status = IF Rebased(mine.rebases) = MaxRebases THEN "CONFLICT" ELSE "PENDING"
        BY DEF RecordStatuses
      <4>4. record = [mine EXCEPT !.base = revision, !.rebases = rebases, !.status = status]
        BY <2>1, <3>1, <4>1, <4>2, <4>3 DEF Failed
      <4>5. SameEdit(record, mine, revision)
        BY <1>3, <4>4, RecordChanges
      <4> QED
        BY <4>1, <4>5 DEF SameEdit
    <3>2. CASE page[p].answer.kind # "conflict"
      <4>1. PICK status \in RecordStatuses : record = [mine EXCEPT !.status = status]
        BY <2>1, <2>2, <3>2 DEF Failed, RecordStatuses
      <4> QED
        BY <1>3, <4>1, RecordChanges DEF SameEdit
    <3> QED
      BY <3>1, <3>2
  <2> QED
    BY <1>2, <1>4, <1>8, <2>1, <2>3 DEF WriteFailed
<1> QED
  BY <1>5, <1>6, <1>7, <1>8

\* A page that takes its answer, or none.
LEMMA AnswerPasses ==
  ASSUME QueueInv, NEW p \in Pages, NetworkFails(p) \/ Acknowledge(p)
  PROVE  QueueInv' /\ KeepsOrder /\ LeavesApplied
<1>1. /\ UNCHANGED <<made, pen, saved, value, receipt, applied, wiped, sheet, regressed>>
      /\ page[p] \in PageRows /\ PageRight(page[p]) /\ page[p].mine \in ScoreRecords
  BY DEF NetworkFails, Acknowledge, client, server, QueueInv, QueueTyped, PageRows
<1>2. CASE NetworkFails(p)
  <2>1. PICK row : row = [page[p] EXCEPT !.at = "answered", !.answer = Silence]
    OBVIOUS
  <2>2. page' = [page EXCEPT ![p] = row]
    BY <1>2, <2>1 DEF NetworkFails, Answer
  <2>3. row \in PageRows /\ row.mine = page[p].mine /\ row.at = "answered" /\ row.answer = Silence
    BY <1>1, <2>1 DEF PageRows, PageStages, Silence, ScoreAnswers, AnswerKinds
  <2>4. PageRight(row)'
    BY <1>1, <1>2, <2>3 DEF PageRight, Silence, NetworkFails, QueueInv, QueueTyped
  <2>5. late' \subseteq ScoreRequests /\ \A q \in late' : q \in late \/ LateRight(q)'
    <3>1. CASE late' = late
      BY <3>1 DEF QueueInv, QueueTyped
    <3>2. CASE late' # late
      <4>1. PICK q : q = RequestOf(p)
        OBVIOUS
      <4>2. late' = late \cup {q} /\ page[p].at \in {"wait", "admitted"}
        BY <1>2, <3>2, <4>1 DEF NetworkFails
      <4>3. /\ q.id = page[p].mine.id /\ q.base = page[p].mine.base
            /\ q = [id |-> q.id, base |-> q.base, epoch |-> page[p].epoch]
        BY <4>1 DEF RequestOf
      <4>4. q \in ScoreRequests
        <5>1. q.id \in Edits /\ q.base \in Nat /\ page[p].epoch \in Nat
          BY <1>1, <4>2, <4>3 DEF PageRight, ScoreRecords, Edits, PageRows
        <5> QED
          BY <4>3, <5>1 DEF ScoreRequests
      <4>5. LateRight(q)
        BY <1>1, <4>2, <4>3 DEF LateRight, PageRight, Overtaken
      <4>6. LateRight(q)'
        BY <1>1, <4>5 DEF LateRight, Overtaken
      <4> QED
        BY <4>2, <4>4, <4>6 DEF QueueInv, QueueTyped
    <3> QED
      BY <3>1, <3>2
  <2>6. PageTurns(p, row) /\ slot' = slot
    BY <1>1, <1>2, <2>2, <2>3, <2>4, <2>5 DEF PageTurns, QueueInv, QueueTyped, SlotRight, NetworkFails, client
  <2> QED
    BY <2>6, PageStep DEF LeavesApplied
<1>3. CASE Acknowledge(p) /\ slot.id = page[p].mine.id
  <2>1. PICK row : row = IdlePage
    OBVIOUS
  <2>2. row \in PageRows /\ PageRight(row) /\ page' = [page EXCEPT ![p] = row] /\ slot' = NoRecord
    BY <1>3, <2>1, IdleIsRight DEF Acknowledge, Rest
  <2>3. PageRight(row)'
    BY <1>1, <2>2 DEF PageRight, Overtaken
  <2>4. NoRecord \in ScoreRecords /\ NoRecord.id = 0 /\ NoRecord.base = 0 /\ NoRecord.status = "NONE"
    BY QueueBoundsNat DEF NoRecord, ScoreRecords, RecordStatuses
  <2>5. PageTurns(p, row)
    BY <1>1, <1>3, <2>2, <2>3, <2>4 DEF PageTurns, QueueInv, QueueTyped, Acknowledge
  <2>6. LeavesApplied
    BY <1>1, <1>3 DEF LeavesApplied, PageRight, Acknowledge
  <2> QED
    BY <2>5, <2>6, PageStep
<1>4. CASE Acknowledge(p) /\ slot.id # page[p].mine.id
  <2>1. PICK row : row = [page[p] EXCEPT !.at = "replace"]
    OBVIOUS
  <2>2. page' = [page EXCEPT ![p] = row] /\ slot' = slot /\ late' = late
    BY <1>4, <2>1 DEF Acknowledge, PageGoes
  <2>3. row \in PageRows /\ row.mine = page[p].mine /\ row.at = "replace" /\ row.answer = page[p].answer
    BY <1>1, <2>1 DEF PageRows, PageStages
  <2>4. PageRight(row)'
    BY <1>1, <1>4, <2>3 DEF PageRight, Acknowledge
  <2>5. PageTurns(p, row)
    BY <1>1, <2>2, <2>3, <2>4 DEF PageTurns, QueueInv, QueueTyped, SlotRight
  <2> QED
    BY <2>2, <2>5, PageStep DEF LeavesApplied
<1> QED
  BY <1>2, <1>3, <1>4

\* An edit is numbered, based on what is queued or was fetched, and stored.
LEMMA EditPasses ==
  ASSUME QueueInv, Edit \/ Enqueue
  PROVE  QueueInv' /\ KeepsOrder /\ LeavesApplied
<1>1. /\ UNCHANGED <<page, late, regressed, value, sheet, receipt, applied, wiped>>
      /\ value.revision \in Nat /\ slot \in ScoreRecords /\ pen \in ScoreRecords
      /\ made \in 0 .. MaxEdits /\ saved \in 0 .. MaxEdits /\ MaxEdits \in Nat /\ MaxRebases \in Nat
      /\ SlotRight
  BY QueueBoundsNat DEF Edit, Enqueue, server, QueueInv, QueueTyped
<1>2. pen' \in ScoreRecords /\ slot' \in ScoreRecords /\ made' \in 0 .. MaxEdits /\ saved' \in 0 .. MaxEdits
      /\ saved <= saved' /\ SlotRight' /\ LeavesApplied
  <2>1. CASE Edit
    <3>1. PICK base \in Nat : /\ pen' = [id |-> made + 1, base |-> base, status |-> "PENDING", rebases |-> 0]
                              /\ ~wiped => base <= value.revision
      BY <1>1, <2>1 DEF Edit, SlotRight, ScoreRecords
    <3>2. /\ made' = made + 1 /\ made' \in 0 .. MaxEdits
          /\ UNCHANGED <<slot, saved>> /\ pen'.id = made + 1 /\ pen'.base = base
      BY <1>1, <2>1, <3>1 DEF Edit
    <3>3. pen' \in ScoreRecords
      BY <1>1, <3>1, <3>2 DEF ScoreRecords, RecordStatuses
    <3>4. SlotRight'
      BY <1>1, <3>1, <3>2 DEF SlotRight
    <3> QED
      BY <1>1, <3>2, <3>3, <3>4 DEF LeavesApplied
  <2>2. CASE Enqueue
    <3>1. /\ slot' = pen /\ saved' = pen.id /\ pen' = NoRecord /\ pen # NoRecord /\ UNCHANGED made
          /\ pen.id = made /\ made # 0
      BY <1>1, <2>2 DEF Enqueue, SlotRight
    <3>2. NoRecord \in ScoreRecords /\ NoRecord.base = 0
      BY <1>1 DEF NoRecord, ScoreRecords, RecordStatuses
    <3>3. value.score <= made
      BY <1>1 DEF SlotRight, QueueInv, QueueTyped
    <3>4. SlotRight'
      BY <1>1, <3>1, <3>2, <3>3 DEF SlotRight
    <3> QED
      BY <1>1, <3>1, <3>2, <3>4 DEF LeavesApplied, SlotRight
  <2> QED
    BY <2>1, <2>2
<1>3. QueueTyped' /\ ReceiptsRight' /\ KeepsOrder
  BY <1>1, <1>2 DEF QueueInv, QueueTyped, ReceiptsRight, KeepsOrder
<1>4. \A p \in Pages : PageRight(page[p])'
  <2> SUFFICES ASSUME NEW p \in Pages PROVE PageRight(page[p])'
    OBVIOUS
  <2>1. PageRight(page[p]) /\ page[p].mine.id \in Nat
    BY DEF QueueInv, QueueTyped, PageRows, ScoreRecords
  <2> QED
    BY <1>1, <1>2, <2>1 DEF PageRight, Overtaken
<1>5. \A q \in late' : LateRight(q)'
  <2>1. \A q \in late : q.id \in Nat
    BY DEF QueueInv, QueueTyped, ScoreRequests, Edits
  <2> QED
    BY <1>1, <1>2, <2>1 DEF QueueInv, LateRight, Overtaken
<1> QED
  BY <1>2, <1>3, <1>4, <1>5 DEF QueueInv

\* The browser closes; requests may still be travelling.
LEMMA ReloadPasses ==
  ASSUME QueueInv, Reload
  PROVE  QueueInv' /\ KeepsOrder /\ LeavesApplied
<1>1. /\ UNCHANGED <<slot, made, saved, regressed, value, sheet, receipt, applied, wiped>>
      /\ pen' = NoRecord /\ page' = [p \in Pages |-> IdlePage]
  BY DEF Reload, server
<1>2. NoRecord \in ScoreRecords /\ NoRecord.base = 0
  BY QueueBoundsNat DEF NoRecord, ScoreRecords, RecordStatuses
<1>3. \A q \in late' : q \in ScoreRequests /\ LateRight(q)'
  <2> SUFFICES ASSUME NEW q \in late' PROVE q \in ScoreRequests /\ LateRight(q)'
    OBVIOUS
  <2>1. q \in ScoreRequests /\ LateRight(q)
    <3>1. CASE q \in late
      BY <3>1 DEF QueueInv, QueueTyped
    <3>2. CASE q \notin late
      <4>1. PICK p \in Pages : q = RequestOf(p) /\ page[p].at \in {"wait", "admitted"}
        BY <3>2 DEF Reload
      <4>2. /\ page[p] \in PageRows /\ PageRight(page[p]) /\ page[p].mine \in ScoreRecords
        BY DEF QueueInv, QueueTyped, PageRows
      <4>3. /\ q.id = page[p].mine.id /\ q.base = page[p].mine.base
            /\ q = [id |-> q.id, base |-> q.base, epoch |-> page[p].epoch]
        BY <4>1 DEF RequestOf
      <4>4. q \in ScoreRequests
        <5>1. q.id \in Edits /\ q.base \in Nat /\ page[p].epoch \in Nat
          BY <4>1, <4>2, <4>3 DEF PageRight, ScoreRecords, Edits, PageRows
        <5> QED
          BY <4>3, <5>1 DEF ScoreRequests
      <4>5. LateRight(q)
        BY <4>1, <4>2, <4>3 DEF LateRight, PageRight, Overtaken
      <4> QED
        BY <4>4, <4>5
    <3> QED
      BY <3>1, <3>2
  <2> QED
    BY <1>1, <2>1 DEF LateRight, Overtaken
<1>4. page' \in [Pages -> PageRows] /\ \A p \in Pages : PageRight(page[p])'
  <2>1. PICK row : row = IdlePage
    OBVIOUS
  <2>2. row \in PageRows /\ PageRight(row) /\ page' = [p \in Pages |-> row]
    BY <1>1, <2>1, IdleIsRight
  <2>3. PageRight(row)'
    BY <1>1, <2>2 DEF PageRight, Overtaken
  <2>4. \A p \in Pages : page'[p] = row
    BY <2>2
  <2>5. \A p \in Pages : PageRight(page[p])'
    BY <2>3, <2>4 DEF PageRight, Overtaken
  <2> QED
    BY <2>2, <2>5
<1>5. QueueTyped' /\ ReceiptsRight' /\ SlotRight'
  BY <1>1, <1>2, <1>3, <1>4 DEF QueueInv, QueueTyped, ReceiptsRight, SlotRight
<1>6. KeepsOrder /\ LeavesApplied
  BY <1>1 DEF KeepsOrder, LeavesApplied, QueueInv, QueueTyped
<1> QED
  BY <1>3, <1>4, <1>5, <1>6 DEF QueueInv

-----------------------------------------------------------------------------
(* The server's steps: the queue stays. *)

\* a request of the edit id with this base is applied, or is not
TakesEffect(id, base) ==
  \/ UNCHANGED <<value, receipt, applied>>
  \/ /\ value' = [score |-> id, revision |-> value.revision + 1]
     /\ \E epoch \in Nat : receipt' = [receipt EXCEPT ![id] = [revision |-> value.revision + 1, epoch |-> epoch]]
     /\ applied' = [applied EXCEPT ![id] = @ + 1]
     /\ receipt[id] = NoReceipt /\ base = value.revision

\* A request's effect is that of its id and base: once, and only on the revision it names.
LEMMA EffectTakes ==
  ASSUME QueueInv, NEW q \in ScoreRequests, Effect(q)
  PROVE  TakesEffect(q.id, q.base)
  BY DEF Effect, TakesEffect, Succeeds, Received, ScoreRequests

\* Whatever a request does to the score, the others stay right: their bases are now too old.
LEMMA OthersStay ==
  ASSUME QueueInv, NEW id \in Edits, NEW base \in Nat, TakesEffect(id, base), id <= saved,
         ~regressed /\ ~wiped => (id < value.score => base < value.revision),
         UNCHANGED <<saved, made, slot, pen, regressed, wiped>>
  PROVE  /\ value' \in [score: 0 .. MaxEdits, revision: Nat] /\ applied' \in [Edits -> Nat]
         /\ receipt' \in [Edits -> [revision: Nat, epoch: Nat]]
         /\ ReceiptsRight' /\ SlotRight' /\ KeepsOrder /\ LeavesApplied
         /\ value.revision <= value'.revision
         /\ \A e \in Edits : applied[e] > 0 => applied'[e] > 0
         /\ \A row \in PageRows : PageRight(row) => PageRight(row)'
         /\ \A q \in ScoreRequests : LateRight(q) => LateRight(q)'
<1>1. /\ value \in [score: 0 .. MaxEdits, revision: Nat] /\ applied \in [Edits -> Nat]
      /\ receipt \in [Edits -> [revision: Nat, epoch: Nat]] /\ value.revision \in Nat /\ value.score \in Nat
      /\ ReceiptsRight /\ SlotRight /\ saved \in Nat /\ MaxEdits \in Nat
  BY QueueBoundsNat DEF QueueInv, QueueTyped
<1>2. CASE UNCHANGED <<value, receipt, applied>>
  <2>1. ReceiptsRight' /\ SlotRight' /\ KeepsOrder /\ LeavesApplied
    BY <1>1, <1>2 DEF ReceiptsRight, SlotRight, KeepsOrder, LeavesApplied
  <2>2. \A row : PageRight(row) => PageRight(row)'
    BY <1>2 DEF PageRight, Overtaken
  <2>3. \A q : LateRight(q) => LateRight(q)'
    BY <1>2 DEF LateRight, Overtaken
  <2> QED
    BY <1>1, <1>2, <2>1, <2>2, <2>3
<1>3. CASE ~UNCHANGED <<value, receipt, applied>>
  <2>1. PICK epoch \in Nat :
          receipt' = [receipt EXCEPT ![id] = [revision |-> value.revision + 1, epoch |-> epoch]]
    BY <1>3 DEF TakesEffect
  <2>2. /\ value' = [score |-> id, revision |-> value.revision + 1]
        /\ applied' = [applied EXCEPT ![id] = @ + 1]
        /\ receipt[id] = NoReceipt /\ base = value.revision
    BY <1>3 DEF TakesEffect
  <2>3. /\ value'.score = id /\ value'.revision = value.revision + 1
        /\ value' \in [score: 0 .. MaxEdits, revision: Nat]
    BY <1>1, <2>2 DEF Edits
  <2>4. /\ applied[id] = 0 /\ applied'[id] = 1 /\ applied' \in [Edits -> Nat]
        /\ \A e \in Edits : e # id => applied'[e] = applied[e]
    BY <1>1, <2>2 DEF ReceiptsRight
  <2>5. /\ receipt' \in [Edits -> [revision: Nat, epoch: Nat]]
        /\ receipt'[id] # NoReceipt /\ receipt'[id].revision = value.revision + 1
        /\ \A e \in Edits : e # id => receipt'[e] = receipt[e]
    <3>1. PICK row : row = [revision |-> value.revision + 1, epoch |-> epoch]
      OBVIOUS
    <3>2. row \in [revision: Nat, epoch: Nat] /\ row.revision = value.revision + 1 /\ row # NoReceipt
      BY <1>1, <3>1 DEF NoReceipt
    <3> QED
      BY <1>1, <2>1, <3>1, <3>2
  <2>6. ReceiptsRight'
    <3> SUFFICES ASSUME NEW e \in Edits
                 PROVE  /\ applied'[e] = IF receipt'[e] = NoReceipt THEN 0 ELSE 1
                        /\ ~wiped => receipt'[e].revision <= value'.revision
      BY DEF ReceiptsRight
    <3>1. receipt[e].revision \in Nat
      BY <1>1
    <3> QED
      BY <1>1, <2>3, <2>4, <2>5, <3>1 DEF ReceiptsRight
  <2>7. SlotRight'
    <3>1. slot.base \in Nat /\ pen.base \in Nat
      BY DEF QueueInv, QueueTyped, ScoreRecords
    <3> QED
      BY <1>1, <2>3, <3>1 DEF SlotRight
  <2>8. KeepsOrder /\ LeavesApplied
    BY <1>1, <2>2, <2>3 DEF KeepsOrder, LeavesApplied, Edits
  <2>9. ASSUME NEW row \in PageRows, PageRight(row)
        PROVE  PageRight(row)'
    <3>1. row.mine.base \in Nat /\ row.answer.revision \in Nat /\ row.mine.id \in 0 .. MaxEdits
      BY DEF PageRows, ScoreRecords, ScoreAnswers
    <3>2. row.at = "answered" /\ row.answer.kind = "ok" => applied'[row.mine.id] > 0
      <4> SUFFICES ASSUME row.at = "answered", row.answer.kind = "ok" PROVE applied'[row.mine.id] > 0
        OBVIOUS
      <4>1. row.mine.id \in Edits /\ applied[row.mine.id] > 0
        BY <1>1, <2>9, <3>1 DEF PageRight, Edits
      <4>2. \A e \in Edits : applied[e] > 0 => applied'[e] > 0
        BY <1>1, <2>4
      <4> QED
        BY <4>1, <4>2
    <3> QED
      BY <1>1, <2>3, <2>9, <3>1, <3>2 DEF PageRight, Overtaken
  <2>10. ASSUME NEW q \in ScoreRequests, LateRight(q)
         PROVE  LateRight(q)'
    BY <1>1, <2>3, <2>10 DEF LateRight, Overtaken, ScoreRequests
  <2> QED
    BY <1>1, <2>3, <2>4, <2>5, <2>6, <2>7, <2>8, <2>9, <2>10
<1> QED
  BY <1>2, <1>3

\* The handler's check and the sheet it makes.
LEMMA AdmitPasses ==
  ASSUME QueueInv, NEW p \in Pages, Admit(p)
  PROVE  QueueInv' /\ KeepsOrder /\ LeavesApplied
<1>1. /\ UNCHANGED <<client, late, value, receipt, applied, wiped>>
      /\ page[p] \in PageRows /\ PageRight(page[p]) /\ sheet.epoch \in Nat
      /\ sheet' \in [epoch: Nat, there: BOOLEAN]
  BY DEF Admit, EnsureScoreSheet, QueueInv, QueueTyped
<1>2. PICK row : /\ row = IF open THEN [page[p] EXCEPT !.at = "admitted", !.epoch = sheet.epoch]
                          ELSE [page[p] EXCEPT !.at = "answered", !.answer = Closed]
  OBVIOUS
<1>3. page' = [page EXCEPT ![p] = row]
  BY <1>2 DEF Admit, Answer
<1>4. /\ row \in PageRows /\ row.mine = page[p].mine
      /\ \/ row.at = "admitted" /\ row.answer = page[p].answer
         \/ row.at = "answered" /\ row.answer = Closed
  BY <1>1, <1>2 DEF PageRows, PageStages, Closed, ScoreAnswers, AnswerKinds
<1>5. PageRight(row)
  BY <1>1, <1>4 DEF PageRight, Closed, Admit, QueueInv, QueueTyped
<1>6. \A r : PageRight(r) => PageRight(r)'
  BY <1>1 DEF PageRight, Overtaken, client
<1>7. page' \in [Pages -> PageRows] /\ \A q \in Pages : PageRight(page[q])'
  <2>1. page' \in [Pages -> PageRows] /\ \A q \in Pages : page'[q] = IF q = p THEN row ELSE page[q]
    BY <1>3, <1>4, RowMoves DEF QueueInv
  <2>2. \A q \in Pages : PageRight(page[q])'
    <3> SUFFICES ASSUME NEW q \in Pages PROVE PageRight(page[q])'
      OBVIOUS
    <3>1. PICK r : r = page'[q]
      OBVIOUS
    <3>2. PageRight(r)'
      BY <1>5, <1>6, <2>1, <3>1 DEF QueueInv
    <3> QED
      BY <3>1, <3>2 DEF PageRight, Overtaken
  <2> QED
    BY <2>1, <2>2
<1>8. QueueTyped' /\ ReceiptsRight' /\ SlotRight' /\ KeepsOrder /\ LeavesApplied
  BY <1>1, <1>7 DEF client, QueueInv, QueueTyped, ReceiptsRight, SlotRight, KeepsOrder, LeavesApplied
<1>9. \A q \in late' : LateRight(q)'
  BY <1>1 DEF client, QueueInv, LateRight, Overtaken
<1> QED
  BY <1>7, <1>8, <1>9 DEF QueueInv

\* The transaction of a mutation, with its answer to the page.
LEMMA ApplyPasses ==
  ASSUME QueueInv, NEW p \in Pages, ApplyScoreMutation(p)
  PROVE  QueueInv' /\ KeepsOrder /\ LeavesApplied
<1>1. /\ UNCHANGED <<client, late, sheet, wiped>> /\ page[p].at = "admitted"
      /\ page[p] \in PageRows /\ PageRight(page[p]) /\ page[p].mine \in ScoreRecords /\ page[p].epoch \in Nat
  BY DEF ApplyScoreMutation, QueueInv, QueueTyped, PageRows
<1>2. PICK q : q = RequestOf(p)
  OBVIOUS
<1>3. /\ q.id = page[p].mine.id /\ q.base = page[p].mine.base
      /\ q \in ScoreRequests /\ q.id \in Edits /\ q.base \in Nat
  <2>1. q = [id |-> page[p].mine.id, base |-> page[p].mine.base, epoch |-> page[p].epoch]
    BY <1>2 DEF RequestOf
  <2>2. page[p].mine.id \in Edits /\ page[p].mine.base \in Nat
    BY <1>1 DEF PageRight, ScoreRecords, Edits
  <2> QED
    BY <1>1, <2>1, <2>2 DEF ScoreRequests
<1>4. Effect(q) /\ TakesEffect(q.id, q.base)
  BY <1>2, <1>3, EffectTakes DEF ApplyScoreMutation
<1>5. /\ value' \in [score: 0 .. MaxEdits, revision: Nat] /\ applied' \in [Edits -> Nat]
      /\ receipt' \in [Edits -> [revision: Nat, epoch: Nat]]
      /\ ReceiptsRight' /\ SlotRight' /\ KeepsOrder /\ LeavesApplied
      /\ value.revision <= value'.revision
      /\ \A row \in PageRows : PageRight(row) => PageRight(row)'
      /\ \A x \in ScoreRequests : LateRight(x) => LateRight(x)'
  <2>1. q.id <= saved /\ (~regressed /\ ~wiped => (q.id < value.score => q.base < value.revision))
    BY <1>1, <1>3 DEF PageRight, Overtaken
  <2>2. UNCHANGED <<saved, made, slot, pen, regressed, wiped>>
    BY <1>1 DEF client
  <2> QED
    BY <1>3, <1>4, <2>1, <2>2, OthersStay
<1>6. PICK answer : answer = Reply(q)
  OBVIOUS
<1>7. /\ answer \in ScoreAnswers /\ answer.kind # "none"
      /\ ~wiped => answer.revision <= value'.revision
      /\ answer.kind = "ok" => applied'[q.id] > 0
  <2>1. /\ value.revision \in Nat /\ value'.revision \in Nat /\ value.revision <= value'.revision
        /\ receipt[q.id] \in [revision: Nat, epoch: Nat] /\ receipt[q.id].revision \in Nat
        /\ receipt'[q.id] \in [revision: Nat, epoch: Nat] /\ applied'[q.id] \in Nat
        /\ ~wiped => receipt[q.id].revision <= value.revision
        /\ applied[q.id] = IF receipt[q.id] = NoReceipt THEN 0 ELSE 1
    BY <1>3, <1>5 DEF QueueInv, QueueTyped, ReceiptsRight
  <2>2. CASE Received(q)
    <3>1. answer = Ok(receipt[q.id].revision) \/ answer = Failure
      BY <1>6, <2>2 DEF Reply, Succeeds
    <3>2. ~Succeeds(q) /\ applied[q.id] = 1
      BY <2>1, <2>2 DEF Succeeds, Received
    <3>3. applied'[q.id] = 1
      BY <1>4, <3>2 DEF Effect
    <3> QED
      BY <2>1, <3>1, <3>3 DEF Ok, Failure, ScoreAnswers, AnswerKinds
  <2>3. CASE Succeeds(q)
    <3>1. answer = Ok(value.revision + 1)
      BY <1>6, <2>3 DEF Reply, Succeeds
    <3>2. value'.revision = value.revision + 1 /\ applied'[q.id] = applied[q.id] + 1
      BY <1>3, <1>4, <2>3 DEF Effect, QueueInv, QueueTyped
    <3>3. applied'[q.id] > 0
      BY <2>1, <3>2
    <3> QED
      BY <2>1, <3>1, <3>2, <3>3 DEF Ok, ScoreAnswers, AnswerKinds
  <2>4. CASE ~Received(q) /\ ~Succeeds(q)
    <3>1. answer \in {Conflict(FoundRevision(q)), Failure}
      BY <1>6, <2>4 DEF Reply
    <3>2. FoundRevision(q) \in Nat /\ FoundRevision(q) <= value.revision
      BY <2>1 DEF FoundRevision
    <3> QED
      BY <2>1, <3>1, <3>2 DEF Conflict, Failure, ScoreAnswers, AnswerKinds
  <2> QED
    BY <2>2, <2>3, <2>4
<1>8. PICK row : row = [page[p] EXCEPT !.at = "answered", !.answer = answer]
  OBVIOUS
<1>9. page' = [page EXCEPT ![p] = row]
  BY <1>2, <1>6, <1>8 DEF ApplyScoreMutation, Answer
<1>10. row \in PageRows /\ row.mine = page[p].mine /\ row.at = "answered" /\ row.answer = answer
  BY <1>1, <1>7, <1>8 DEF PageRows, PageStages
<1>11. PageRight(row)'
  <2>1. ~wiped => row.mine.base <= value'.revision
    BY <1>1, <1>5, <1>10 DEF PageRight, ScoreRecords, QueueInv, QueueTyped
  <2> QED
    BY <1>1, <1>3, <1>7, <1>10, <2>1 DEF PageRight, client
<1>12. page' \in [Pages -> PageRows] /\ \A x \in Pages : PageRight(page[x])'
  <2>1. page' \in [Pages -> PageRows] /\ \A x \in Pages : page'[x] = IF x = p THEN row ELSE page[x]
    BY <1>9, <1>10, RowMoves DEF QueueInv
  <2>2. \A x \in Pages : PageRight(page[x])'
    <3> SUFFICES ASSUME NEW x \in Pages PROVE PageRight(page[x])'
      OBVIOUS
    <3>1. PICK r : r = page'[x]
      OBVIOUS
    <3>2. PageRight(r)'
      <4>1. CASE x = p
        BY <1>11, <2>1, <3>1, <4>1
      <4>2. CASE x # p
        <5>1. r \in PageRows /\ PageRight(r)
          BY <2>1, <3>1, <4>2 DEF QueueInv, QueueTyped
        <5> QED
          BY <1>5, <5>1
      <4> QED
        BY <4>1, <4>2
    <3> QED
      BY <3>1, <3>2 DEF PageRight, Overtaken
  <2> QED
    BY <2>1, <2>2
<1>13. QueueTyped'
  BY <1>1, <1>5, <1>12 DEF client, QueueInv, QueueTyped
<1>14. \A x \in late' : LateRight(x)'
  BY <1>1, <1>5 DEF client, QueueInv, QueueTyped
<1> QED
  BY <1>5, <1>12, <1>13, <1>14 DEF QueueInv

\* A request nobody waits for is checked or applied.
LEMMA LatePasses ==
  ASSUME QueueInv, NEW q \in late, AdmitLate(q) \/ ApplyLate(q)
  PROVE  QueueInv' /\ KeepsOrder /\ LeavesApplied
<1>1. /\ UNCHANGED <<client, page, wiped>> /\ q \in ScoreRequests /\ LateRight(q)
      /\ q.id \in Edits /\ q.base \in Nat /\ q.epoch \in Nat
      /\ sheet.epoch \in Nat /\ sheet' \in [epoch: Nat, there: BOOLEAN]
  BY DEF AdmitLate, ApplyLate, EnsureScoreSheet, QueueInv, QueueTyped, ScoreRequests
<1>2. CASE AdmitLate(q)
  <2>1. UNCHANGED <<value, receipt, applied>>
    BY <1>2 DEF AdmitLate
  <2>2. PICK other : other = [q EXCEPT !.epoch = sheet.epoch]
    OBVIOUS
  <2>3. other \in ScoreRequests /\ other.id = q.id /\ other.base = q.base
    BY <1>1, <2>2 DEF ScoreRequests
  <2>4. LateRight(other)
    BY <1>1, <2>3 DEF LateRight, Overtaken
  <2>5. \A x \in late' : x \in ScoreRequests /\ LateRight(x)
    BY <1>2, <2>2, <2>3, <2>4 DEF AdmitLate, QueueInv, QueueTyped
  <2>6. \A x \in late' : LateRight(x)'
    BY <1>1, <2>1, <2>5 DEF LateRight, Overtaken, client
  <2>7. \A p \in Pages : PageRight(page[p])'
    BY <1>1, <2>1 DEF QueueInv, PageRight, Overtaken, client
  <2>8. QueueTyped' /\ ReceiptsRight' /\ SlotRight' /\ KeepsOrder /\ LeavesApplied
    BY <1>1, <2>1, <2>5 DEF client, QueueInv, QueueTyped, ReceiptsRight, SlotRight, KeepsOrder, LeavesApplied
  <2> QED
    BY <2>6, <2>7, <2>8 DEF QueueInv
<1>3. CASE ApplyLate(q)
  <2>1. TakesEffect(q.id, q.base) /\ late' = late \ {q} /\ UNCHANGED sheet
    BY <1>1, <1>3, EffectTakes DEF ApplyLate
  <2>2. q.id <= saved /\ (~regressed /\ ~wiped => (q.id < value.score => q.base < value.revision))
    BY <1>1 DEF LateRight, Overtaken
  <2>3. UNCHANGED <<saved, made, slot, pen, regressed, wiped>>
    BY <1>1 DEF client
  <2>4. /\ value' \in [score: 0 .. MaxEdits, revision: Nat] /\ applied' \in [Edits -> Nat]
        /\ receipt' \in [Edits -> [revision: Nat, epoch: Nat]]
        /\ ReceiptsRight' /\ SlotRight' /\ KeepsOrder /\ LeavesApplied
        /\ \A row \in PageRows : PageRight(row) => PageRight(row)'
        /\ \A x \in ScoreRequests : LateRight(x) => LateRight(x)'
    BY <1>1, <2>1, <2>2, <2>3, OthersStay
  <2>5. \A p \in Pages : PageRight(page[p])'
    <3> SUFFICES ASSUME NEW p \in Pages PROVE PageRight(page[p])'
      OBVIOUS
    <3>1. PICK row : row = page[p]
      OBVIOUS
    <3>2. row \in PageRows /\ PageRight(row) /\ page'[p] = row
      BY <1>1, <3>1 DEF QueueInv, QueueTyped
    <3>3. PageRight(row)'
      BY <2>4, <3>2
    <3> QED
      BY <3>2, <3>3 DEF PageRight, Overtaken
  <2>6. \A x \in late' : LateRight(x)'
    BY <2>1, <2>4 DEF QueueInv, QueueTyped
  <2>7. QueueTyped'
    BY <1>1, <2>1, <2>4 DEF client, QueueInv, QueueTyped
  <2> QED
    BY <2>4, <2>5, <2>6, <2>7 DEF QueueInv
<1> QED
  BY <1>2, <1>3

\* The administrator's correction raises the revision; a deletion begins them again.
LEMMA AdminPasses ==
  ASSUME QueueInv, OverrideScore \/ OverrideWithNothing \/ ResetResults \/ SwitchScoring
  PROVE  QueueInv' /\ KeepsOrder /\ LeavesApplied
<1>1. UNCHANGED <<client, page, late, receipt, applied>>
  BY DEF OverrideScore, OverrideWithNothing, ResetResults, SwitchScoring
<1>n. value.revision \in Nat /\ saved \in Nat /\ MaxEdits \in Nat /\ sheet.epoch \in Nat
  BY QueueBoundsNat DEF QueueInv, QueueTyped
<1>s. sheet' \in [epoch: Nat, there: BOOLEAN]
  <2>0. sheet \in [epoch: Nat, there: BOOLEAN]
    BY DEF QueueInv, QueueTyped
  <2>1. CASE OverrideScore
    BY <2>0, <2>1 DEF OverrideScore, EnsureScoreSheet
  <2>2. CASE ResetResults
    <3>1. sheet' = [epoch |-> sheet.epoch + 1, there |-> FALSE]
      BY <2>2 DEF ResetResults
    <3> QED
      BY <1>n, <3>1
  <2> QED
    BY <2>0, <2>1, <2>2 DEF OverrideWithNothing, SwitchScoring
<1>2. /\ value' \in [score: 0 .. MaxEdits, revision: Nat] /\ wiped' \in BOOLEAN
      /\ ~wiped' => ~wiped /\ value.revision <= value'.revision
      /\ value'.score = 0 \/ (value' = value /\ wiped' = wiped)
      /\ value'.score <= saved /\ value'.revision \in Nat /\ (wiped => wiped')
  <2>1. CASE OverrideScore
    <3>1. value' = [score |-> 0, revision |-> value.revision + 1]
      BY <2>1 DEF OverrideScore
    <3>b. wiped' = wiped
      BY <2>1 DEF OverrideScore
    <3>2. /\ value' \in [score: 0 .. MaxEdits, revision: Nat] /\ value'.score = 0
          /\ value'.revision \in Nat /\ value.revision <= value'.revision /\ value'.score <= saved
      BY <1>n, <3>1
    <3>3. wiped \in BOOLEAN
      BY DEF QueueInv, QueueTyped
    <3>4. wiped' \in BOOLEAN
      BY <3>b, <3>3
    <3>5. (~wiped' => ~wiped) /\ (wiped => wiped')
      BY <3>b
    <3> QED
      BY <3>2, <3>4, <3>5
  <2>2. CASE OverrideWithNothing \/ ResetResults
    <3>1. value' = [score |-> 0, revision |-> 0] /\ wiped' = TRUE
      BY <2>2 DEF OverrideWithNothing, ResetResults, NoValue
    <3>2. /\ value' \in [score: 0 .. MaxEdits, revision: Nat] /\ value'.score = 0
          /\ value'.revision \in Nat /\ value'.score <= saved
      BY <1>n, <3>1
    <3> QED
      BY <3>1, <3>2
  <2>3. CASE SwitchScoring
    BY <1>1, <1>n, <1>s, <2>3 DEF SwitchScoring, QueueInv, QueueTyped, SlotRight
  <2> QED
    BY <2>1, <2>2, <2>3
<1>3. QueueTyped' /\ KeepsOrder /\ LeavesApplied
  BY <1>1, <1>n, <1>s, <1>2 DEF client, QueueInv, QueueTyped, KeepsOrder, LeavesApplied
<1>4. ReceiptsRight' /\ SlotRight'
  <2>1. slot.base \in Nat /\ pen.base \in Nat /\ \A e \in Edits : receipt[e].revision \in Nat
    BY DEF QueueInv, QueueTyped, ScoreRecords
  <2> QED
    BY <1>1, <1>n, <1>s, <1>2, <2>1 DEF client, QueueInv, ReceiptsRight, SlotRight
<1>5. ASSUME NEW p \in Pages
      PROVE  PageRight(page[p])'
  <2>1. PageRight(page[p]) /\ page[p].mine.base \in Nat /\ page[p].answer.revision \in Nat /\ page[p].mine.id \in Nat
    BY DEF QueueInv, QueueTyped, PageRows, ScoreRecords, ScoreAnswers
  <2>2. Overtaken(page[p].mine) \/ value' # value => Overtaken(page[p].mine)'
    BY <1>1, <1>n, <1>s, <1>2, <2>1 DEF Overtaken
  <2> QED
    BY <1>1, <1>n, <1>s, <1>2, <2>1, <2>2 DEF client, PageRight, Overtaken
<1>6. \A q \in late' : LateRight(q)'
  <2>1. \A q \in late : LateRight(q) /\ q.base \in Nat /\ q.id \in Nat
    BY DEF QueueInv, QueueTyped, ScoreRequests, Edits
  <2> QED
    BY <1>1, <1>n, <1>s, <1>2, <2>1 DEF client, LateRight, Overtaken
<1> QED
  BY <1>3, <1>4, <1>5, <1>6 DEF QueueInv

\* Every step keeps the invariant of the queue, the order of edits and the promise of a receipt.
LEMMA QueueStep ==
  ASSUME QueueInv, [QueueNext]_queueVars
  PROVE  QueueInv' /\ KeepsOrder /\ LeavesApplied
<1>1. CASE QueueNext
  BY <1>1, EditPasses, ReloadPasses, FlushPasses, WriteBackPasses, AnswerPasses, AdmitPasses, ApplyPasses, LatePasses,
     AdminPasses DEF QueueNext, FlushStep
<1>2. CASE UNCHANGED queueVars
  BY <1>2 DEF queueVars, QueueInv, QueueTyped, ReceiptsRight, SlotRight, PageRight, LateRight, Overtaken,
              KeepsOrder, LeavesApplied
<1> QED
  BY <1>1, <1>2

\* The inductive invariant of the score queue.
THEOREM QueueCorrect == QueueSpec => []QueueInv
<1>1. QueueInit => QueueInv
  BY QueueBegins
<1>2. QueueInv /\ [QueueNext]_queueVars => QueueInv'
  BY QueueStep
<1> QED
  BY <1>1, <1>2, PTL DEF QueueSpec

\* However often a mutation is sent, late or twice, it changes the score once.
THEOREM OnceSafe == QueueSpec => []AppliedOnce
<1>1. QueueInv => AppliedOnce
  BY DEF QueueInv, ReceiptsRight, AppliedOnce
<1> QED
  BY <1>1, QueueCorrect, PTL

\* A record leaves the queue only when its own value has reached the server.
THEOREM LeavingSafe == QueueSpec => AcknowledgedWasApplied
<1>1. QueueInv /\ [QueueNext]_queueVars => [LeavesApplied]_queueVars
  BY QueueStep
<1>2. [LeavesApplied]_queueVars <=> [slot.id # 0 /\ slot'.id = 0 => applied[slot.id] > 0]_queueVars
  BY DEF LeavesApplied
<1> QED
  BY <1>1, <1>2, QueueCorrect, PTL DEF QueueSpec, AcknowledgedWasApplied

\* While IndexedDB has not gone back and no score was deleted, an older edit never replaces a newer one.
THEOREM OrderSafe == QueueSpec => OrderKept
<1>1. QueueInv /\ [QueueNext]_queueVars => [KeepsOrder]_queueVars
  BY QueueStep
<1>2. [KeepsOrder]_queueVars <=> [~regressed /\ ~wiped /\ value'.score # 0 => value'.score >= value.score]_queueVars
  BY DEF KeepsOrder
<1> QED
  BY <1>1, <1>2, QueueCorrect, PTL DEF QueueSpec, OrderKept
=============================================================================
