----------------------------- MODULE TaskReview -----------------------------
(***************************************************************************)
(* Tasks of an event, the attempts participants send, and the moderators'  *)
(* decisions with the points they credit                                   *)
(* (backend/internal/modules/eventtasks).                                  *)
(*                                                                         *)
(* Sending an attempt is a request of several steps: the task and the      *)
(* submission are read, an image is stored, and one transaction checks     *)
(* again under locks and writes.  A decision is one transaction under the  *)
(* lock of the submission.  Images are objects in storage, which no        *)
(* transaction spans.  A request may stop after any step.                  *)
(***************************************************************************)
EXTENDS Naturals, FiniteSets

CONSTANTS
  Tasks, Participants,
  Requests,      \* requests that can be in progress at the same time
  Keys,          \* keys of objects in storage, each made for one upload
  None,          \* no task, no participant, no key
  MaxAttempt,    \* bound on the attempts at one task
  MaxClock       \* bound on time: the instants windows and requests are at

ASSUME NoneFresh == None \notin Tasks \cup Participants \cup Keys
ASSUME MaxAttemptNat == MaxAttempt \in Nat
ASSUME MaxClockNat == MaxClock \in Nat

VARIABLES
  task,        \* event_tasks: status, allowed types, the window, the key of the cover
  submission,  \* event_task_submissions: status, current_attempt, whether reward_granted_at is set
  attempt,     \* event_task_submission_attempts by number, with the one asset that matters
  ledger,      \* how many points_ledger entries have the key task-reward:<submission>
  stored,      \* objects in storage
  admitted,    \* participants who are ACTIVE in a contest that is ACTIVE
  clock,
  request,     \* what each request is doing
  unsure       \* history: tasks whose cover was written by a statement answered as failed

vars == <<task, submission, attempt, ledger, stored, admitted, clock, request, unsure>>

Submissions == Tasks \X Participants
AssetTypes == {"IMAGE", "LINK"}
TaskStatus == {"NONE", "DRAFT", "ACTIVE", "DISABLED", "ARCHIVED", "DELETED"}
Decision == {"APPROVED", "REJECTED"}

\* what an administrator may ask a task to be: at least one type of evidence, and a
\* window whose end is after its start (an end that is not set is the first or the last instant)
TaskInput == {input \in [allowed: SUBSET AssetTypes, starts: 0 .. MaxClock, ends: 0 .. MaxClock] :
                input.allowed # {} /\ input.starts <= input.ends}

NoTask == [status |-> "NONE", allowed |-> AssetTypes, starts |-> 0, ends |-> MaxClock, cover |-> None]
NoSubmission == [status |-> "NONE", current |-> 0, rewarded |-> FALSE]
NoAttempt == [status |-> "NONE", type |-> "LINK", key |-> None]
Idle == [op |-> "none", at |-> "idle", task |-> None, by |-> None, type |-> "LINK",
         key |-> None, now |-> 0, current |-> 0, previous |-> None]

TypeOK ==
  /\ task \in [Tasks -> [status: TaskStatus, allowed: SUBSET AssetTypes, starts: 0 .. MaxClock,
                         ends: 0 .. MaxClock, cover: Keys \cup {None}]]
  /\ submission \in [Submissions -> [status: {"NONE", "PENDING"} \cup Decision,
                                     current: 0 .. MaxAttempt, rewarded: BOOLEAN]]
  /\ attempt \in [Submissions -> [1 .. MaxAttempt ->
       [status: {"NONE", "PENDING"} \cup Decision, type: AssetTypes, key: Keys \cup {None}]]]
  /\ ledger \in [Submissions -> Nat]
  /\ stored \subseteq Keys
  /\ admitted \subseteq Participants
  /\ clock \in 0 .. MaxClock
  /\ request \in [Requests ->
       [op: {"none", "submit", "cover"} \cup Decision,
        at: {"idle", "task", "existing", "put", "cover", "begin", "shared", "write", "answer", "undo",
             "lock", "decide", "old", "set", "remove"},
        task: Tasks \cup {None}, by: Participants \cup {None}, type: AssetTypes,
        key: Keys \cup {None}, now: 0 .. MaxClock, current: 0 .. MaxAttempt,
        previous: Keys \cup {None}]]
  /\ unsure \subseteq Tasks

Init ==
  /\ task = [t \in Tasks |-> NoTask]
  /\ submission = [s \in Submissions |-> NoSubmission]
  /\ attempt = [s \in Submissions |-> [n \in 1 .. MaxAttempt |-> NoAttempt]]
  /\ ledger = [s \in Submissions |-> 0]
  /\ stored = {}
  /\ admitted = Participants
  /\ clock = 0
  /\ request = [r \in Requests |-> Idle]
  /\ unsure = {}

Goto(r, stage) == request' = [request EXCEPT ![r].at = stage]
Done(r) == request' = [request EXCEPT ![r] = Idle]
\* what a request that failed does with the image it has stored
Refused(r) == IF request[r].key = None THEN Done(r) ELSE Goto(r, "undo")

Of(r) == <<request[r].task, request[r].by>>

\* a mutant: the task is only read
NotShared(t) == FALSE

\* FOR SHARE OF t, held from the check of the task to the end of the transaction
Shared(t) == \E r \in Requests : request[r].task = t /\ request[r].at \in {"shared", "write"}

\* a mutant: the submission is only read
NotLocked(s) == FALSE

\* FOR UPDATE on the submission's row, held from its check to the end of the transaction
Locked(s) == \E r \in Requests : Of(r) = s /\ request[r].at \in {"write", "decide"}

Open(t, now) == task[t].status = "ACTIVE" /\ task[t].starts <= now /\ now <= task[t].ends

-----------------------------------------------------------------------------
(* The catalogue of tasks: single statements, which wait for a share lock. *)

CreateTask(t, input) ==
  /\ task[t].status = "NONE"
  /\ task' = [task EXCEPT ![t] = [status |-> "DRAFT", allowed |-> input.allowed,
                starts |-> input.starts, ends |-> input.ends, cover |-> None]]
  /\ UNCHANGED <<submission, attempt, ledger, stored, admitted, unsure, clock, request>>

AdminCreate(t) == \E input \in TaskInput : CreateTask(t, input)

Editable(t) == task[t].status \in {"DRAFT", "ACTIVE", "DISABLED"} /\ ~Shared(t)

UpdateTask(t, input) ==
  /\ Editable(t)
  /\ task' = [task EXCEPT ![t] = [@ EXCEPT !.allowed = input.allowed,
                                    !.starts = input.starts, !.ends = input.ends]]
  /\ UNCHANGED <<submission, attempt, ledger, stored, admitted, unsure, clock, request>>

AdminUpdate(t) == \E input \in TaskInput : UpdateTask(t, input)

SetTaskStatus(t, from, to) ==
  /\ task[t].status \in from /\ ~Shared(t)
  /\ task' = [task EXCEPT ![t].status = to]
  /\ UNCHANGED <<submission, attempt, ledger, stored, admitted, unsure, clock, request>>

TransitionTask(t, action) ==
  CASE action = "activate" -> SetTaskStatus(t, {"DRAFT", "DISABLED"}, "ACTIVE")
    [] action = "disable" -> SetTaskStatus(t, {"ACTIVE"}, "DISABLED")
    [] action = "archive" -> SetTaskStatus(t, {"DRAFT", "ACTIVE", "DISABLED"}, "ARCHIVED")

AdminTransition(t) == \E action \in {"activate", "disable", "archive"} : TransitionTask(t, action)

\* a task that went back to DRAFT does not exist, so one with submissions cannot be deleted
DeleteTask(t) ==
  /\ task[t].status = "DRAFT" /\ ~Shared(t)
  /\ \A p \in Participants : submission[<<t, p>>].status = "NONE"
  /\ task' = [task EXCEPT ![t].status = "DELETED"]
  /\ UNCHANGED <<submission, attempt, ledger, stored, admitted, unsure, clock, request>>

-----------------------------------------------------------------------------
(* The cover: stored before the row names it, the old one removed after.    *)

\* key suffixes are random: nobody else has, had or will have this key
Fresh(k) ==
  /\ k \notin stored
  /\ \A t \in Tasks : task[t].cover # k
  /\ \A s \in Submissions, n \in 1 .. MaxAttempt : attempt[s][n].key # k
  /\ \A r \in Requests : k \notin {request[r].key, request[r].previous}

SetTaskFile(r, t, k) ==
  /\ request[r].at = "idle" /\ task[t].status # "NONE" /\ Fresh(k)
  /\ request' = [request EXCEPT ![r] = [Idle EXCEPT !.op = "cover", !.at = "cover", !.task = t, !.key = k]]
  /\ UNCHANGED <<task, submission, attempt, ledger, stored, admitted, unsure, clock>>

ReplaceTaskFile(r) ==
  /\ request[r].at = "cover"
  /\ stored' = stored \cup {request[r].key}
  /\ Goto(r, "old")
  /\ UNCHANGED <<task, submission, attempt, ledger, admitted, unsure, clock>>

\* the row is to name no key
ClearTaskFile(r, t) ==
  /\ request[r].at = "idle" /\ task[t].status # "NONE"
  /\ request' = [request EXCEPT ![r] = [Idle EXCEPT !.op = "cover", !.at = "old", !.task = t]]
  /\ UNCHANGED <<task, submission, attempt, ledger, stored, admitted, unsure, clock>>

\* WITH old: the key to remove is the one of the statement's snapshot, which is older
\* than the row the update finds when it had to wait for another
ReadCover(r) ==
  /\ request[r].at = "old"
  /\ request' = [request EXCEPT ![r].previous = task[request[r].task].cover, ![r].at = "set"]
  /\ UNCHANGED <<task, submission, attempt, ledger, stored, admitted, unsure, clock>>

\* the statement can take effect though it is answered as failed: then the new image is removed
SetImage(r) ==
  LET t == request[r].task IN
  /\ request[r].at = "set" /\ ~Shared(t)
  /\ IF Editable(t)
     THEN /\ task' = [task EXCEPT ![t].cover = request[r].key]
          /\ \/ Goto(r, "remove") /\ unsure' = unsure \ {t}
             \/ Refused(r) /\ unsure' = IF request[r].key = None THEN unsure \ {t} ELSE unsure \cup {t}
     ELSE UNCHANGED <<task, unsure>> /\ Refused(r)
  /\ UNCHANGED <<submission, attempt, ledger, stored, admitted, clock>>

\* a mutant: what is removed is the key the row names now
RemoveCurrent(r) ==
  /\ request[r].at = "remove"
  /\ stored' \in {stored, stored \ {task[request[r].task].cover}}
  /\ Done(r)
  /\ UNCHANGED <<task, submission, attempt, ledger, admitted, unsure, clock>>

\* store.Remove: its error is dropped
RemovePrevious(r) ==
  /\ request[r].at = "remove"
  /\ stored' \in {stored, stored \ {request[r].previous}}
  /\ Done(r)
  /\ UNCHANGED <<task, submission, attempt, ledger, admitted, unsure, clock>>

-----------------------------------------------------------------------------
(* An attempt. *)

\* the request is made by a participant the session middleware lets in
ParticipantSubmit(r, t, p, type) ==
  /\ request[r].at = "idle" /\ p \in admitted
  /\ request' = [request EXCEPT ![r] =
       [Idle EXCEPT !.op = "submit", !.at = "task", !.task = t, !.by = p, !.type = type]]
  /\ UNCHANGED <<task, submission, attempt, ledger, stored, admitted, unsure, clock>>

\* the moment of the request is taken here, and is what the transaction compares again
CheckTask(r) ==
  /\ request[r].at = "task"
  /\ IF Open(request[r].task, clock) /\ request[r].type \in task[request[r].task].allowed
     THEN request' = [request EXCEPT ![r].now = clock, ![r].at = "existing"]
     ELSE Done(r)
  /\ UNCHANGED <<task, submission, attempt, ledger, stored, admitted, unsure, clock>>

CheckExisting(r) ==
  /\ request[r].at = "existing"
  /\ IF submission[Of(r)].status \in {"NONE", "REJECTED"}
     THEN Goto(r, IF request[r].type = "IMAGE" THEN "put" ELSE "begin")
     ELSE Done(r)
  /\ UNCHANGED <<task, submission, attempt, ledger, stored, admitted, unsure, clock>>

PutImage(r) ==
  /\ request[r].at = "put"
  /\ \E k \in {k \in Keys : Fresh(k)} :
       /\ stored' = stored \cup {k}
       /\ request' = [request EXCEPT ![r].key = k, ![r].at = "begin"]
  /\ UNCHANGED <<task, submission, attempt, ledger, admitted, unsure, clock>>

LockTask(r) ==
  LET t == request[r].task IN
  /\ request[r].at = "begin"
  /\ IF Open(t, request[r].now) /\ request[r].by \in admitted /\ request[r].type \in task[t].allowed
     THEN Goto(r, "shared")
     ELSE Refused(r)
  /\ UNCHANGED <<task, submission, attempt, ledger, stored, admitted, unsure, clock>>

\* the row is inserted if there is none, so that there is one to lock
LockSubmission(r) ==
  LET s == Of(r) IN
  /\ request[r].at = "shared" /\ ~Locked(s) /\ submission[s].current < MaxAttempt
  /\ IF submission[s].status \in {"NONE", "REJECTED"}
     THEN request' = [request EXCEPT ![r].current = submission[s].current, ![r].at = "write"]
     ELSE Refused(r)
  /\ UNCHANGED <<task, submission, attempt, ledger, stored, admitted, unsure, clock>>

CommitAttempt(r) ==
  LET s == Of(r)  n == request[r].current + 1 IN
  /\ request[r].at = "write"
  /\ attempt' = [attempt EXCEPT ![s][n] =
       [status |-> "PENDING", type |-> request[r].type, key |-> request[r].key]]
  /\ submission' = [submission EXCEPT ![s] = [@ EXCEPT !.status = "PENDING", !.current = n]]
  /\ Goto(r, "answer")
  /\ UNCHANGED <<task, ledger, stored, admitted, unsure, clock>>

\* the committed submission is read again for the answer; if that fails the service
\* takes the whole for failed
Answer(r) ==
  /\ request[r].at = "answer"
  /\ Done(r) \/ Refused(r)
  /\ UNCHANGED <<task, submission, attempt, ledger, stored, admitted, unsure, clock>>

RemoveUploaded(r) ==
  /\ request[r].at = "undo"
  /\ stored' \in {stored, stored \ {request[r].key}}
  /\ Done(r)
  /\ UNCHANGED <<task, submission, attempt, ledger, admitted, unsure, clock>>

-----------------------------------------------------------------------------
(* A decision. *)

Moderate(r, s, verdict) ==
  /\ request[r].at = "idle" /\ submission[s].status # "NONE"
  /\ request' = [request EXCEPT ![r] =
       [Idle EXCEPT !.op = verdict, !.at = "lock", !.task = s[1], !.by = s[2]]]
  /\ UNCHANGED <<task, submission, attempt, ledger, stored, admitted, unsure, clock>>

\* a mutant: only a decision that was already made this way is left alone
LockDecisionUnchecked(r) ==
  LET s == Of(r) IN
  /\ request[r].at = "lock" /\ ~Locked(s)
  /\ IF submission[s].status # request[r].op
     THEN request' = [request EXCEPT ![r].current = submission[s].current, ![r].at = "decide"]
     ELSE Done(r)
  /\ UNCHANGED <<task, submission, attempt, ledger, stored, admitted, unsure, clock>>

\* a decision already made this way is answered as a replay, one made the other way refused
LockDecision(r) ==
  LET s == Of(r) IN
  /\ request[r].at = "lock" /\ ~Locked(s)
  /\ IF submission[s].status = "PENDING"
     THEN request' = [request EXCEPT ![r].current = submission[s].current, ![r].at = "decide"]
     ELSE Done(r)
  /\ UNCHANGED <<task, submission, attempt, ledger, stored, admitted, unsure, clock>>

ModerationList(status) == {s \in Submissions : submission[s].status = status}

Decide(s, n, verdict, rewarded) ==
  /\ attempt' = [attempt EXCEPT ![s][n].status = IF @ = "PENDING" THEN verdict ELSE @]
  /\ submission' = [submission EXCEPT ![s] = [@ EXCEPT !.status = verdict, !.rewarded = rewarded]]

\* AppendTx inserts nothing when the key is there, and then the decision is rolled back
Approve(r) ==
  LET s == Of(r) IN
  /\ request[r].at = "decide" /\ request[r].op = "APPROVED"
  /\ IF ledger[s] = 0
     THEN Decide(s, request[r].current, "APPROVED", TRUE) /\ ledger' = [ledger EXCEPT ![s] = 1]
     ELSE UNCHANGED <<attempt, submission, ledger>>
  /\ Done(r)
  /\ UNCHANGED <<task, stored, admitted, unsure, clock>>

Reject(r) ==
  LET s == Of(r) IN
  /\ request[r].at = "decide" /\ request[r].op = "REJECTED"
  /\ Decide(s, request[r].current, "REJECTED", submission[s].rewarded)
  /\ Done(r)
  /\ UNCHANGED <<task, ledger, stored, admitted, unsure, clock>>

-----------------------------------------------------------------------------
(* The world around. *)

\* a statement fails or the upload does: the transaction is rolled back, what was
\* stored is to be removed
Fail(r) ==
  /\ request[r].at \notin {"idle", "answer", "undo", "remove"}
  /\ IF request[r].at \in {"begin", "shared", "write", "old", "set"} THEN Refused(r) ELSE Done(r)
  /\ UNCHANGED <<task, submission, attempt, ledger, stored, admitted, unsure, clock>>

\* the process is gone
Crash(r) ==
  /\ request[r].at # "idle"
  /\ Done(r)
  /\ UNCHANGED <<task, submission, attempt, ledger, stored, admitted, unsure, clock>>

Tick ==
  /\ clock < MaxClock
  /\ clock' = clock + 1
  /\ UNCHANGED <<task, submission, attempt, ledger, stored, admitted, unsure, request>>

\* administrators block and unblock, the contest finishes
Admission(p) ==
  /\ admitted' \in {admitted \cup {p}, admitted \ {p}}
  /\ UNCHANGED <<task, submission, attempt, ledger, stored, unsure, clock, request>>

Catalogue(t) == AdminCreate(t) \/ AdminUpdate(t) \/ AdminTransition(t) \/ DeleteTask(t)

Serve(r) ==
  \/ \E t \in Tasks : ClearTaskFile(r, t) \/ \E k \in Keys : SetTaskFile(r, t, k)
  \/ \E t \in Tasks, p \in Participants, type \in AssetTypes : ParticipantSubmit(r, t, p, type)
  \/ \E s \in Submissions, verdict \in Decision : Moderate(r, s, verdict)
  \/ ReplaceTaskFile(r) \/ ReadCover(r) \/ SetImage(r) \/ RemovePrevious(r)
  \/ CheckTask(r) \/ CheckExisting(r) \/ PutImage(r) \/ LockTask(r) \/ LockSubmission(r)
  \/ CommitAttempt(r) \/ Answer(r) \/ RemoveUploaded(r)
  \/ LockDecision(r) \/ Approve(r) \/ Reject(r)
  \/ Fail(r) \/ Crash(r)

Next ==
  \/ \E t \in Tasks : Catalogue(t)
  \/ \E r \in Requests : Serve(r)
  \/ \E p \in Participants : Admission(p)
  \/ Tick

Spec == Init /\ [][Next]_vars
-----------------------------------------------------------------------------
(* Properties. *)

\* Points for a task are credited once, exactly while the submission is approved,
\* however often the decision is repeated or contradicted (Approve, Reject).
RewardedOnce ==
  \A s \in Submissions :
    /\ ledger[s] = (IF submission[s].status = "APPROVED" THEN 1 ELSE 0)
    /\ submission[s].rewarded <=> submission[s].status = "APPROVED"

\* The submission shows the state of its last attempt, and every attempt before it was
\* rejected: no attempt is decided twice, and the moderators' list of what is to be decided
\* leaves none out.
AttemptsAgree ==
  /\ \A s \in Submissions, n \in 1 .. MaxAttempt :
       attempt[s][n].status =
         IF n = submission[s].current THEN submission[s].status
         ELSE IF n < submission[s].current THEN "REJECTED" ELSE "NONE"
  /\ ModerationList("PENDING") =
       {s \in Submissions : \E n \in 1 .. MaxAttempt : attempt[s][n].status = "PENDING"}

\* An attempt is added only while its task is active and takes its kind of evidence, by a
\* request made inside the window the task has at that moment: no edit of the task comes
\* between the check and the write.
AttemptAdmitted ==
  [][\A s \in Submissions : submission'[s].current # submission[s].current =>
       \E r \in Requests :
         /\ request[r].at = "write" /\ Of(r) = s /\ Open(s[1], request[r].now)
         /\ attempt'[s][submission'[s].current].type \in task[s[1]].allowed]_vars

\* The cover a task names is in storage, through replacements that overlap or fail: except a cover
\* whose statement took effect and was answered as failed (the service then removes the image).
CoverStored == \A t \in Tasks \ unsure : task[t].cover # None => task[t].cover \in stored

\* "IMAGE objects stay in the private S3 bucket" (0014_event_tasks.up.sql:101): the image
\* of a committed attempt is there for the moderator.
AttemptImagesStored ==
  \A s \in Submissions, n \in 1 .. MaxAttempt :
    attempt[s][n].key # None => attempt[s][n].key \in stored
=============================================================================
