----------------------------- MODULE TaskProofs -----------------------------
(***************************************************************************)
(* Attempts at tasks, their rewards and the covers of tasks, for any       *)
(* number of tasks, participants, requests and attempts: proofs about      *)
(* TaskReview, checked by TLAPS.                                           *)
(*                                                                         *)
(* The invariant is in two parts.  ReviewInv says what a transaction in    *)
(* progress may rely on: the submission it has locked and the task it      *)
(* shares are as it read them.  KeysInv says whose a key is: the key a     *)
(* request has stored is nobody else's until a task names it, and one that *)
(* is to be removed is named no more.                                      *)
(***************************************************************************)
EXTENDS TaskReview, TLAPS

RequestRow ==
  [op: {"none", "submit", "cover"} \cup Decision,
   at: {"idle", "task", "existing", "put", "cover", "begin", "shared", "write", "answer", "undo",
        "lock", "decide", "old", "set", "remove"},
   task: Tasks \cup {None}, by: Participants \cup {None}, type: AssetTypes,
   key: Keys \cup {None}, now: 0 .. MaxClock, current: 0 .. MaxAttempt,
   previous: Keys \cup {None}]

\* what a request works on at its stage
Staged(q) ==
  /\ q.at \in {"cover", "old", "set", "remove"} => q.task \in Tasks
  /\ q.at = "cover" => q.key \in Keys
  /\ q.at \in {"task", "existing", "put", "begin", "shared", "write", "answer", "lock", "decide"} =>
       q.task \in Tasks /\ q.by \in Participants

LocksRight ==
  /\ \A r \in Requests : request[r].at \in {"write", "decide"} =>
       request[r].current = submission[Of(r)].current
  /\ \A r \in Requests : request[r].at = "write" =>
       submission[Of(r)].status \in {"NONE", "REJECTED"} /\ submission[Of(r)].current < MaxAttempt
  /\ \A r \in Requests : request[r].at = "decide" => submission[Of(r)].status = "PENDING"
  /\ \A r, q \in Requests :
       r # q /\ request[r].at \in {"write", "decide"} /\ request[q].at \in {"write", "decide"} => Of(r) # Of(q)

SharesRight == \A r \in Requests : request[r].at \in {"shared", "write"} =>
  Open(request[r].task, request[r].now) /\ request[r].type \in task[request[r].task].allowed

SubmissionsRight == \A s \in Submissions : submission[s].status = "NONE" <=> submission[s].current = 0

AttemptsFollow == \A s \in Submissions, n \in 1 .. MaxAttempt :
  attempt[s][n].status =
    IF n = submission[s].current THEN submission[s].status
    ELSE IF n < submission[s].current THEN "REJECTED" ELSE "NONE"

ReviewInv ==
  /\ TypeOK /\ \A r \in Requests : Staged(request[r])
  /\ LocksRight /\ SharesRight /\ SubmissionsRight /\ AttemptsFollow /\ RewardedOnce

\* what AttemptAdmitted says of a step
Admitted == \A s \in Submissions : submission'[s].current # submission[s].current =>
  \E r \in Requests :
    /\ request[r].at = "write" /\ Of(r) = s /\ Open(s[1], request[r].now)
    /\ attempt'[s][submission'[s].current].type \in task[s[1]].allowed

-----------------------------------------------------------------------------
(* Submissions, attempts and rewards. *)

\* No tasks, attempts or requests.
LEMMA ReviewInit == Init => ReviewInv
  BY NoneFresh, MaxAttemptNat, MaxClockNat
  DEF Init, ReviewInv, TypeOK, Staged, LocksRight, SharesRight, SubmissionsRight, AttemptsFollow,
      RewardedOnce, NoTask, NoSubmission, NoAttempt, Idle, Submissions, TaskStatus, AssetTypes, Decision

\* Every pair a staged request names is a submission.
LEMMA OfTyped ==
  ASSUME ReviewInv, NEW r \in Requests, request[r].at \in {"begin", "shared", "write", "lock", "decide"}
  PROVE  Of(r) \in Submissions
  BY DEF ReviewInv, Staged, Of, Submissions

\* A request goes on without a lock; nothing but storage changes.
LEMMA ReviewMove ==
  ASSUME ReviewInv, NEW r \in Requests, NEW x \in RequestRow,
         request' = [request EXCEPT ![r] = x], Staged(x), x.at \notin {"shared", "write", "decide"},
         UNCHANGED <<task, submission, attempt, ledger, admitted, unsure, clock>>, stored' \subseteq Keys
  PROVE  ReviewInv' /\ Admitted
<1>1. /\ request'[r] = x
      /\ \A q \in Requests : q # r => request'[q] = request[q]
      /\ TypeOK'
  BY DEF ReviewInv, TypeOK, RequestRow
<1>2. \A q \in Requests : Staged(request'[q])
  BY <1>1 DEF ReviewInv
<1>3. LocksRight'
  BY <1>1 DEF ReviewInv, LocksRight, Of
<1>4. SharesRight'
  BY <1>1 DEF ReviewInv, SharesRight, Open
<1>5. SubmissionsRight' /\ AttemptsFollow' /\ RewardedOnce' /\ Admitted
  BY DEF ReviewInv, SubmissionsRight, AttemptsFollow, RewardedOnce, Admitted
<1> QED
  BY <1>1, <1>2, <1>3, <1>4, <1>5 DEF ReviewInv

\* A task is changed by a statement that had no share lock to wait for.
LEMMA ReviewTask ==
  ASSUME ReviewInv, NEW t \in Tasks,
         ~Shared(t), task' \in [Tasks -> [status: TaskStatus, allowed: SUBSET AssetTypes, starts: 0 .. MaxClock,
                                          ends: 0 .. MaxClock, cover: Keys \cup {None}]],
         \A u \in Tasks : u # t => task'[u] = task[u],
         UNCHANGED <<submission, attempt, ledger, stored, admitted, unsure, clock, request>>
  PROVE  ReviewInv' /\ Admitted
<1>1. TypeOK' /\ \A r \in Requests : Staged(request'[r])
  BY DEF ReviewInv, TypeOK
<1>2. LocksRight' /\ SubmissionsRight' /\ AttemptsFollow' /\ RewardedOnce' /\ Admitted
  BY DEF ReviewInv, LocksRight, Of, SubmissionsRight, AttemptsFollow, RewardedOnce, Admitted
<1>3. SharesRight'
  <2> SUFFICES ASSUME NEW r \in Requests, request[r].at \in {"shared", "write"}
               PROVE  Open(request[r].task, request[r].now)' /\ request[r].type \in task'[request[r].task].allowed
    BY DEF SharesRight
  <2>1. request[r].task \in Tasks /\ request[r].task # t
    BY DEF ReviewInv, Staged, Shared
  <2> QED
    BY <2>1 DEF ReviewInv, SharesRight, Open
<1> QED
  BY <1>1, <1>2, <1>3 DEF ReviewInv

\* A task is edited when no transaction shares it.
LEMMA ReviewCatalogue ==
  ASSUME ReviewInv, NEW t \in Tasks, Catalogue(t)
  PROVE  ReviewInv' /\ Admitted
<1> USE DEF ReviewInv, TypeOK
<1>0. task[t] \in [status: TaskStatus, allowed: SUBSET AssetTypes, starts: 0 .. MaxClock,
                   ends: 0 .. MaxClock, cover: Keys \cup {None}]
  OBVIOUS
<1>1. CASE AdminCreate(t) \/ AdminUpdate(t)
  <2>1. PICK input \in TaskInput : CreateTask(t, input) \/ UpdateTask(t, input)
    BY <1>1 DEF AdminCreate, AdminUpdate
  <2>2. input \in [allowed: SUBSET AssetTypes, starts: 0 .. MaxClock, ends: 0 .. MaxClock]
    BY DEF TaskInput
  <2>3. CASE CreateTask(t, input)
    <3>1. ~Shared(t)
      BY <2>3 DEF CreateTask, Shared, SharesRight, Open
    <3> QED
      BY <2>2, <2>3, <3>1, ReviewTask DEF CreateTask, TaskStatus
  <2>4. CASE UpdateTask(t, input)
    <3> DEFINE row == [task[t] EXCEPT !.allowed = input.allowed, !.starts = input.starts, !.ends = input.ends]
    <3>1. row \in [status: TaskStatus, allowed: SUBSET AssetTypes, starts: 0 .. MaxClock,
                   ends: 0 .. MaxClock, cover: Keys \cup {None}]
      BY <1>0, <2>2
    <3>2. task' = [task EXCEPT ![t] = row]
      BY <2>4 DEF UpdateTask
    <3> HIDE DEF row
    <3> QED
      BY <2>4, <3>1, <3>2, ReviewTask DEF UpdateTask, Editable
  <2> QED
    BY <2>1, <2>3, <2>4
<1>2. CASE AdminTransition(t)
  <2>1. PICK to \in TaskStatus, from \in SUBSET TaskStatus : SetTaskStatus(t, from, to)
    BY <1>2 DEF AdminTransition, TransitionTask, TaskStatus
  <2> QED
    BY <2>1, ReviewTask DEF SetTaskStatus
<1>3. CASE DeleteTask(t)
  <2> DEFINE row == [task[t] EXCEPT !.status = "DELETED"]
  <2>1. row \in [status: TaskStatus, allowed: SUBSET AssetTypes, starts: 0 .. MaxClock,
                 ends: 0 .. MaxClock, cover: Keys \cup {None}]
    BY <1>0 DEF TaskStatus
  <2>2. task' = [task EXCEPT ![t] = row] /\ ~Shared(t)
    BY <1>3 DEF DeleteTask
  <2> HIDE DEF row
  <2> QED
    BY <1>3, <2>1, <2>2, ReviewTask DEF DeleteTask
<1> QED
  BY <1>1, <1>2, <1>3 DEF Catalogue

\* An idle request holds no object.
LEMMA IdleRow == Idle \in RequestRow /\ Staged(Idle) /\ Idle.at = "idle" /\ Idle.key = None /\ Idle.previous = None
  BY MaxClockNat, MaxAttemptNat DEF Idle, RequestRow, Staged, AssetTypes, Decision

\* A request that fails ends, or goes on to remove what it has stored.
LEMMA ReviewRefused ==
  ASSUME ReviewInv, NEW r \in Requests, Refused(r) \/ Done(r),
         UNCHANGED <<task, submission, attempt, ledger, admitted, unsure, clock>>, stored' \subseteq Keys
  PROVE  ReviewInv' /\ Admitted
<1> DEFINE x == [request[r] EXCEPT !.at = "undo"]
<1>1. request[r] \in RequestRow
  BY DEF ReviewInv, TypeOK, RequestRow
<1>2. x \in RequestRow /\ x.at = "undo" /\ Staged(x)
  BY <1>1 DEF RequestRow, Staged
<1>3. request' = [request EXCEPT ![r] = Idle] \/ request' = [request EXCEPT ![r] = x]
  BY DEF Refused, Done, Goto
<1> QED
  BY <1>2, <1>3, IdleRow, ReviewMove

\* a request arrives
Begins(r) ==
  \/ \E t \in Tasks : ClearTaskFile(r, t) \/ \E k \in Keys : SetTaskFile(r, t, k)
  \/ \E t \in Tasks, p \in Participants, type \in AssetTypes : ParticipantSubmit(r, t, p, type)
  \/ \E s \in Submissions, verdict \in Decision : Moderate(r, s, verdict)

\* Steps of a request that hold no lock and write no row.
LEMMA ReviewRequest ==
  ASSUME ReviewInv, NEW r \in Requests,
         Begins(r) \/ ReplaceTaskFile(r) \/ ReadCover(r) \/ CheckTask(r) \/ CheckExisting(r) \/ PutImage(r)
  PROVE  ReviewInv' /\ Admitted
<1> USE DEF RequestRow, Staged
<1>0. request[r] \in RequestRow /\ Staged(request[r]) /\ stored \subseteq Keys
  BY DEF ReviewInv, TypeOK
<1>1. CASE \E t \in Tasks : ClearTaskFile(r, t) \/ \E k \in Keys : SetTaskFile(r, t, k)
  <2>1. PICK t \in Tasks : ClearTaskFile(r, t) \/ \E k \in Keys : SetTaskFile(r, t, k)
    BY <1>1
  <2>2. CASE ClearTaskFile(r, t)
    <3> DEFINE x == [Idle EXCEPT !.op = "cover", !.at = "old", !.task = t]
    <3>1. x \in RequestRow /\ Staged(x) /\ x.at = "old"
      BY IdleRow
    <3> QED
      BY <1>0, <2>2, <3>1, ReviewMove DEF ClearTaskFile
  <2>3. CASE \E k \in Keys : SetTaskFile(r, t, k)
    <3>1. PICK k \in Keys : SetTaskFile(r, t, k)
      BY <2>3
    <3> DEFINE x == [Idle EXCEPT !.op = "cover", !.at = "cover", !.task = t, !.key = k]
    <3>2. x \in RequestRow /\ Staged(x) /\ x.at = "cover"
      BY IdleRow
    <3> QED
      BY <1>0, <3>1, <3>2, ReviewMove DEF SetTaskFile
  <2> QED
    BY <2>1, <2>2, <2>3
<1>2. CASE \E t \in Tasks, p \in Participants, type \in AssetTypes : ParticipantSubmit(r, t, p, type)
  <2>1. PICK t \in Tasks, p \in Participants, type \in AssetTypes : ParticipantSubmit(r, t, p, type)
    BY <1>2
  <2> DEFINE x == [Idle EXCEPT !.op = "submit", !.at = "task", !.task = t, !.by = p, !.type = type]
  <2>2. x \in RequestRow /\ Staged(x) /\ x.at = "task"
    BY IdleRow
  <2> QED
    BY <1>0, <2>1, <2>2, ReviewMove DEF ParticipantSubmit
<1>3. CASE \E s \in Submissions, verdict \in Decision : Moderate(r, s, verdict)
  <2>1. PICK s \in Submissions, verdict \in Decision : Moderate(r, s, verdict)
    BY <1>3
  <2> DEFINE x == [Idle EXCEPT !.op = verdict, !.at = "lock", !.task = s[1], !.by = s[2]]
  <2>2. x \in RequestRow /\ Staged(x) /\ x.at = "lock"
    BY IdleRow DEF Submissions
  <2> QED
    BY <1>0, <2>1, <2>2, ReviewMove DEF Moderate
<1>4. CASE ReplaceTaskFile(r)
  <2> DEFINE x == [request[r] EXCEPT !.at = "old"]
  <2>1. x \in RequestRow /\ Staged(x) /\ x.at = "old" /\ stored' \subseteq Keys
    BY <1>0, <1>4 DEF ReplaceTaskFile
  <2> QED
    BY <1>4, <2>1, ReviewMove DEF ReplaceTaskFile, Goto
<1>5. CASE ReadCover(r)
  <2> DEFINE x == [request[r] EXCEPT !.previous = task[request[r].task].cover, !.at = "set"]
  <2>1. task[request[r].task].cover \in Keys \cup {None}
    BY <1>0, <1>5 DEF ReadCover, ReviewInv, TypeOK
  <2>2. x \in RequestRow /\ Staged(x) /\ x.at = "set"
    BY <1>0, <1>5, <2>1 DEF ReadCover
  <2>3. request' = [request EXCEPT ![r] = x]
    BY <1>5 DEF ReadCover, ReviewInv, TypeOK
  <2> QED
    BY <1>0, <1>5, <2>2, <2>3, ReviewMove DEF ReadCover
<1>6. CASE CheckTask(r)
  <2> DEFINE x == [request[r] EXCEPT !.now = clock, !.at = "existing"]
  <2>1. x \in RequestRow /\ Staged(x) /\ x.at = "existing"
    BY <1>0, <1>6 DEF CheckTask, ReviewInv, TypeOK
  <2>2. request' = [request EXCEPT ![r] = x] \/ Done(r)
    BY <1>6 DEF CheckTask, ReviewInv, TypeOK
  <2> QED
    BY <1>0, <1>6, <2>1, <2>2, ReviewMove, ReviewRefused DEF CheckTask
<1>7. CASE CheckExisting(r)
  <2> DEFINE x(stage) == [request[r] EXCEPT !.at = stage]
  <2>1. \A stage \in {"put", "begin"} : x(stage) \in RequestRow /\ Staged(x(stage)) /\ x(stage).at = stage
    BY <1>0, <1>7 DEF CheckExisting
  <2>2. (\E stage \in {"put", "begin"} : request' = [request EXCEPT ![r] = x(stage)]) \/ Done(r)
    BY <1>7 DEF CheckExisting, Goto
  <2> QED
    BY <1>0, <1>7, <2>1, <2>2, ReviewMove, ReviewRefused DEF CheckExisting
<1>8. CASE PutImage(r)
  <2>1. PICK k \in Keys : /\ stored' = stored \cup {k}
                          /\ request' = [request EXCEPT ![r].key = k, ![r].at = "begin"]
    BY <1>8 DEF PutImage
  <2> DEFINE x == [request[r] EXCEPT !.key = k, !.at = "begin"]
  <2>2. x \in RequestRow /\ Staged(x) /\ x.at = "begin"
    BY <1>0, <1>8 DEF PutImage
  <2>3. request' = [request EXCEPT ![r] = x]
    BY <2>1 DEF ReviewInv, TypeOK
  <2>4. /\ stored' \subseteq Keys
        /\ UNCHANGED <<task, submission, attempt, ledger, admitted, unsure, clock>>
    BY <1>0, <1>8, <2>1 DEF PutImage
  <2> QED
    BY <2>2, <2>3, <2>4, ReviewMove
<1>9. CASE Begins(r)
  BY <1>1, <1>2, <1>3, <1>9 DEF Begins
<1> HIDE DEF RequestRow, Staged
<1> QED
  BY <1>4, <1>5, <1>6, <1>7, <1>8, <1>9

\* Steps that end a request or make it clean up.
LEMMA ReviewEnds ==
  ASSUME ReviewInv, NEW r \in Requests,
         RemovePrevious(r) \/ RemoveUploaded(r) \/ Answer(r) \/ Fail(r) \/ Crash(r)
  PROVE  ReviewInv' /\ Admitted
<1>1. stored' \subseteq Keys
  BY DEF RemovePrevious, RemoveUploaded, Answer, Fail, Crash, ReviewInv, TypeOK
<1>2. UNCHANGED <<task, submission, attempt, ledger, admitted, unsure, clock>> /\ (Refused(r) \/ Done(r))
  BY DEF RemovePrevious, RemoveUploaded, Answer, Fail, Crash
<1> QED
  BY <1>1, <1>2, ReviewRefused

\* The cover is set by a statement that waits for the share locks.
LEMMA ReviewCover ==
  ASSUME ReviewInv, NEW r \in Requests, SetImage(r)
  PROVE  ReviewInv' /\ Admitted
<1> DEFINE t == request[r].task
<1>1. CASE ~Editable(t)
  BY <1>1, ReviewRefused DEF SetImage, ReviewInv, TypeOK
<1>2. CASE Editable(t)
  <2> DEFINE row == [task[t] EXCEPT !.cover = request[r].key]
  <2>1. /\ request[r] \in RequestRow /\ request[r].at = "set" /\ t \in Tasks /\ ~Shared(t)
        /\ task' = [task EXCEPT ![t] = row] /\ unsure' \subseteq Tasks
        /\ UNCHANGED <<submission, attempt, ledger, stored, admitted, clock>>
    BY <1>2 DEF SetImage, ReviewInv, TypeOK, RequestRow, Staged
  <2>2. PICK x : /\ request' = [request EXCEPT ![r] = x]
                 /\ x \in RequestRow /\ x.at \in {"remove", "undo", "idle"} /\ Staged(x)
    <3>1. \A stage \in {"remove", "undo"} :
            /\ [request[r] EXCEPT !.at = stage] \in RequestRow
            /\ [request[r] EXCEPT !.at = stage].at = stage
            /\ Staged([request[r] EXCEPT !.at = stage])
      BY <2>1 DEF RequestRow, Staged
    <3>2. Done(r) \/ \E stage \in {"remove", "undo"} : Goto(r, stage)
      BY <1>2 DEF SetImage, Refused
    <3> QED
      BY <3>1, <3>2, IdleRow DEF Done, Goto
  <2>3. row \in [status: TaskStatus, allowed: SUBSET AssetTypes, starts: 0 .. MaxClock,
                 ends: 0 .. MaxClock, cover: Keys \cup {None}]
    <3>1. task[t] \in [status: TaskStatus, allowed: SUBSET AssetTypes, starts: 0 .. MaxClock,
                       ends: 0 .. MaxClock, cover: Keys \cup {None}]
      BY <2>1 DEF ReviewInv, TypeOK
    <3> QED
      BY <2>1, <3>1 DEF RequestRow
  <2> HIDE DEF row
  <2>4. /\ request'[r] = x /\ \A q \in Requests : q # r => request'[q] = request[q]
        /\ \A u \in Tasks : u # t => task'[u] = task[u]
        /\ TypeOK'
    BY <2>1, <2>2, <2>3 DEF ReviewInv, TypeOK, RequestRow
  <2>5. \A q \in Requests : Staged(request'[q])
    BY <2>2, <2>4 DEF ReviewInv
  <2>6. LocksRight'
    BY <2>1, <2>2, <2>4 DEF ReviewInv, LocksRight, Of
  <2>7. SharesRight'
    <3> SUFFICES ASSUME NEW q \in Requests, request'[q].at \in {"shared", "write"}
                 PROVE  Open(request[q].task, request[q].now)' /\ request'[q].type \in task'[request'[q].task].allowed
      BY DEF SharesRight
    <3>1. q # r /\ request'[q] = request[q]
      BY <2>2, <2>4
    <3>2. request[q].task \in Tasks /\ request[q].task # t
      BY <2>1, <3>1 DEF ReviewInv, Staged, Shared
    <3> QED
      BY <2>4, <3>1, <3>2 DEF ReviewInv, SharesRight, Open
  <2>8. SubmissionsRight' /\ AttemptsFollow' /\ RewardedOnce' /\ Admitted
    BY <2>1 DEF ReviewInv, SubmissionsRight, AttemptsFollow, RewardedOnce, Admitted
  <2> QED
    BY <2>4, <2>5, <2>6, <2>7, <2>8 DEF ReviewInv
<1> QED
  BY <1>1, <1>2

\* A lock is taken on what has just been checked.
LEMMA ReviewLock ==
  ASSUME ReviewInv, NEW r \in Requests, LockTask(r) \/ LockSubmission(r) \/ LockDecision(r)
  PROVE  ReviewInv' /\ Admitted
<1> DEFINE s == Of(r)
<1>1. /\ request[r] \in RequestRow /\ Staged(request[r]) /\ stored' \subseteq Keys
      /\ UNCHANGED <<task, submission, attempt, ledger, stored, admitted, unsure, clock>>
      /\ request[r].at \in {"begin", "shared", "lock"}
  BY DEF LockTask, LockSubmission, LockDecision, ReviewInv, TypeOK, RequestRow
<1>2. s \in Submissions /\ submission[s].current \in 0 .. MaxAttempt
  BY <1>1, OfTyped DEF ReviewInv, TypeOK
<1>3. CASE Refused(r) \/ Done(r)
  BY <1>1, <1>3, ReviewRefused
<1>4. ASSUME NEW x \in RequestRow, request' = [request EXCEPT ![r] = x],
             Staged(x), x.task = request[r].task, x.by = request[r].by, x.now = request[r].now,
             x.type = request[r].type,
             x.at \in {"shared", "write"} => Open(x.task, x.now) /\ x.type \in task[x.task].allowed,
             x.at \in {"write", "decide"} => ~Locked(s) /\ x.current = submission[s].current,
             x.at = "write" => submission[s].status \in {"NONE", "REJECTED"} /\ submission[s].current < MaxAttempt,
             x.at = "decide" => submission[s].status = "PENDING"
      PROVE  ReviewInv' /\ Admitted
  <2>1. /\ request'[r] = x
        /\ \A q \in Requests : q # r => request'[q] = request[q] /\ Of(q)' = Of(q)
        /\ Of(r)' = s
        /\ TypeOK'
    BY <1>1, <1>4 DEF ReviewInv, TypeOK, RequestRow, Of
  <2>2. \A q \in Requests : Staged(request'[q])
    BY <1>4, <2>1 DEF ReviewInv
  <2>3. LocksRight'
    <3>1. \A q \in Requests : x.at \in {"write", "decide"} /\ request[q].at \in {"write", "decide"} => Of(q) # s
      BY <1>4 DEF Locked
    <3> QED
      BY <1>1, <1>4, <2>1, <3>1 DEF ReviewInv, LocksRight
  <2>4. SharesRight'
    BY <1>1, <1>4, <2>1 DEF ReviewInv, SharesRight, Open
  <2>5. SubmissionsRight' /\ AttemptsFollow' /\ RewardedOnce' /\ Admitted
    BY <1>1 DEF ReviewInv, SubmissionsRight, AttemptsFollow, RewardedOnce, Admitted
  <2> QED
    BY <2>1, <2>2, <2>3, <2>4, <2>5 DEF ReviewInv
<1>5. CASE LockTask(r) /\ Goto(r, "shared")
  <2> DEFINE x == [request[r] EXCEPT !.at = "shared"]
  <2>1. x \in RequestRow /\ Staged(x)
    BY <1>1, <1>5 DEF LockTask, RequestRow, Staged
  <2>2. request' = [request EXCEPT ![r] = x]
    BY <1>5 DEF Goto
  <2>3. CASE Refused(r)
    BY <1>3, <2>3
  <2>4. CASE ~Refused(r)
    <3>1. Open(request[r].task, request[r].now) /\ request[r].type \in task[request[r].task].allowed
      BY <1>5, <2>4 DEF LockTask
    <3>2. /\ x.task = request[r].task /\ x.by = request[r].by /\ x.now = request[r].now
          /\ x.type = request[r].type /\ x.at = "shared"
      BY <1>1 DEF RequestRow
    <3> HIDE DEF x
    <3> QED
      BY <1>4, <2>1, <2>2, <3>1, <3>2
  <2> QED
    BY <2>3, <2>4
<1>6. CASE \/ LockSubmission(r) /\ submission[s].status \in {"NONE", "REJECTED"}
           \/ LockDecision(r) /\ submission[s].status = "PENDING"
  <2> DEFINE x == [request[r] EXCEPT !.current = submission[s].current,
                                     !.at = IF LockSubmission(r) THEN "write" ELSE "decide"]
  <2>1. request' = [request EXCEPT ![r] = x]
    BY <1>1, <1>6 DEF LockSubmission, LockDecision, ReviewInv, TypeOK
  <2>2. /\ x \in RequestRow /\ Staged(x) /\ x.current = submission[s].current
        /\ x.task = request[r].task /\ x.by = request[r].by /\ x.now = request[r].now
        /\ x.type = request[r].type /\ x.at = IF LockSubmission(r) THEN "write" ELSE "decide"
    BY <1>1, <1>2, <1>6 DEF LockSubmission, LockDecision, RequestRow, Staged
  <2>3. ~Locked(s)
    BY <1>6 DEF LockSubmission, LockDecision
  <2> HIDE DEF x
  <2>4. CASE LockSubmission(r)
    <3>1. Open(x.task, x.now) /\ x.type \in task[x.task].allowed
      BY <2>2, <2>4 DEF LockSubmission, ReviewInv, SharesRight
    <3>2. submission[s].status \in {"NONE", "REJECTED"} /\ submission[s].current < MaxAttempt
      BY <1>6, <2>4 DEF LockSubmission, LockDecision
    <3> QED
      BY <1>4, <2>1, <2>2, <2>3, <2>4, <3>1, <3>2
  <2>5. CASE ~LockSubmission(r)
    BY <1>4, <1>6, <2>1, <2>2, <2>3, <2>5
  <2> QED
    BY <2>4, <2>5
<1> QED
  BY <1>3, <1>5, <1>6 DEF LockTask, LockSubmission, LockDecision

\* a request gives up its lock of submission s, whose attempts it leaves as `last` makes the n-th
Rewrites(r, x, s, row, n, last, paid) ==
  /\ request[r].at \in {"write", "decide"} /\ Of(r) = s
  /\ request' = [request EXCEPT ![r] = x]
  /\ x \in RequestRow /\ Staged(x) /\ x.at \in {"answer", "idle"}
  /\ submission' = [submission EXCEPT ![s] = row]
  /\ row \in [status: {"NONE", "PENDING"} \cup Decision, current: 0 .. MaxAttempt, rewarded: BOOLEAN]
  /\ row.status # "NONE" /\ row.current = n
  /\ row.rewarded <=> row.status = "APPROVED"
  /\ attempt' = [attempt EXCEPT ![s] = [attempt[s] EXCEPT ![n] = last]]
  /\ last \in [status: {"NONE", "PENDING"} \cup Decision, type: AssetTypes, key: Keys \cup {None}]
  /\ last.status = row.status
  /\ \A m \in 1 .. MaxAttempt : /\ m < n => attempt[s][m].status = "REJECTED"
                                /\ m > n => attempt[s][m].status = "NONE"
  /\ ledger' = [ledger EXCEPT ![s] = paid]
  /\ paid = IF row.status = "APPROVED" THEN 1 ELSE 0
  /\ UNCHANGED <<task, stored, admitted, unsure, clock>>

\* The submission a request has locked is written, and its lock given up.
LEMMA ReviewWrite ==
  ASSUME ReviewInv, NEW r \in Requests, NEW x, NEW s \in Submissions, NEW row, NEW n \in 1 .. MaxAttempt,
         NEW last, NEW paid, Rewrites(r, x, s, row, n, last, paid)
  PROVE  ReviewInv'
<1> USE DEF Rewrites
<1>1. /\ request'[r] = x /\ \A q \in Requests : q # r => request'[q] = request[q] /\ Of(q)' = Of(q)
      /\ submission'[s] = row /\ \A u \in Submissions : u # s => submission'[u] = submission[u]
      /\ \A u \in Submissions : u # s => attempt'[u] = attempt[u] /\ ledger'[u] = ledger[u]
      /\ ledger'[s] = paid
  BY DEF ReviewInv, TypeOK, Of
<1>2. attempt'[s][n] = last /\ \A m \in 1 .. MaxAttempt : m # n => attempt'[s][m] = attempt[s][m]
  BY DEF ReviewInv, TypeOK
<1>3. TypeOK'
  <2>1. /\ attempt' \in [Submissions -> [1 .. MaxAttempt ->
             [status: {"NONE", "PENDING"} \cup Decision, type: AssetTypes, key: Keys \cup {None}]]]
        /\ submission' \in [Submissions -> [status: {"NONE", "PENDING"} \cup Decision,
                                            current: 0 .. MaxAttempt, rewarded: BOOLEAN]]
    BY DEF ReviewInv, TypeOK
  <2> QED
    BY <2>1 DEF ReviewInv, TypeOK, RequestRow
<1>4. \A q \in Requests : Staged(request'[q])
  BY <1>1 DEF ReviewInv
<1>5. LocksRight'
  <2>1. \A q \in Requests : q # r /\ request[q].at \in {"write", "decide"} =>
          Of(q) \in Submissions /\ Of(q) # s
    BY OfTyped DEF ReviewInv, LocksRight
  <2> QED
    BY <1>1, <2>1 DEF ReviewInv, LocksRight
<1>6. SharesRight'
  BY <1>1 DEF ReviewInv, SharesRight, Open
<1>7. SubmissionsRight'
  BY <1>1 DEF ReviewInv, SubmissionsRight
<1>8. AttemptsFollow'
  <2> SUFFICES ASSUME NEW u \in Submissions, NEW m \in 1 .. MaxAttempt
               PROVE  attempt'[u][m].status =
                        IF m = submission'[u].current THEN submission'[u].status
                        ELSE IF m < submission'[u].current THEN "REJECTED" ELSE "NONE"
    BY DEF AttemptsFollow
  <2>1. CASE u = s
    <3>1. submission'[u].current = n /\ submission'[u].status = last.status
      BY <1>1, <2>1
    <3>2. /\ m < n => attempt[s][m].status = "REJECTED"
          /\ m > n => attempt[s][m].status = "NONE"
      BY MaxAttemptNat
    <3> HIDE DEF Rewrites
    <3> QED
      BY <1>2, <2>1, <3>1, <3>2, MaxAttemptNat
  <2>2. CASE u # s
    BY <1>1, <2>2 DEF ReviewInv, AttemptsFollow
  <2> QED
    BY <2>1, <2>2
<1>9. RewardedOnce'
  BY <1>1 DEF ReviewInv, RewardedOnce
<1> QED
  BY <1>3, <1>4, <1>5, <1>6, <1>7, <1>8, <1>9 DEF ReviewInv

\* An attempt is written with what its transaction has checked.
LEMMA ReviewCommit ==
  ASSUME ReviewInv, NEW r \in Requests, CommitAttempt(r)
  PROVE  ReviewInv' /\ Admitted
<1> DEFINE s == Of(r)
           n == request[r].current + 1
           x == [request[r] EXCEPT !.at = "answer"]
           row == [submission[s] EXCEPT !.status = "PENDING", !.current = n]
           last == [status |-> "PENDING", type |-> request[r].type, key |-> request[r].key]
<1>1. /\ request[r] \in RequestRow /\ Staged(request[r]) /\ request[r].at = "write"
      /\ s \in Submissions /\ s = <<request[r].task, request[r].by>>
  BY OfTyped DEF CommitAttempt, ReviewInv, TypeOK, RequestRow, Of
<1>2. /\ submission[s] \in [status: {"NONE", "PENDING"} \cup Decision, current: 0 .. MaxAttempt, rewarded: BOOLEAN]
      /\ submission[s].status \in {"NONE", "REJECTED"} /\ submission[s].current < MaxAttempt
      /\ request[r].current = submission[s].current
  BY <1>1 DEF ReviewInv, TypeOK, LocksRight
<1>3. n \in 1 .. MaxAttempt /\ n \in 0 .. MaxAttempt
  BY <1>2, MaxAttemptNat
<1>4. /\ request' = [request EXCEPT ![r] = x] /\ submission' = [submission EXCEPT ![s] = row]
      /\ attempt' = [attempt EXCEPT ![s] = [attempt[s] EXCEPT ![n] = last]]
      /\ UNCHANGED <<task, ledger, stored, admitted, unsure, clock>>
  BY DEF CommitAttempt, Goto
<1>5. x \in RequestRow /\ Staged(x) /\ x.at = "answer"
  BY <1>1 DEF RequestRow, Staged
<1>6. /\ row \in [status: {"NONE", "PENDING"} \cup Decision, current: 0 .. MaxAttempt, rewarded: BOOLEAN]
      /\ row.status = "PENDING" /\ row.current = n /\ row.rewarded = submission[s].rewarded
  BY <1>2, <1>3
<1>7. /\ last \in [status: {"NONE", "PENDING"} \cup Decision, type: AssetTypes, key: Keys \cup {None}]
      /\ last.status = "PENDING" /\ last.type = request[r].type
  BY <1>1 DEF RequestRow
<1>8. ledger' = [ledger EXCEPT ![s] = 0] /\ ~submission[s].rewarded
  BY <1>1, <1>2, <1>4 DEF ReviewInv, RewardedOnce, TypeOK
<1> HIDE DEF x, row, last
<1>9. \A m \in 1 .. MaxAttempt : /\ m < n => attempt[s][m].status = "REJECTED"
                                 /\ m > n => attempt[s][m].status = "NONE"
  <2> SUFFICES ASSUME NEW m \in 1 .. MaxAttempt
               PROVE  /\ m < n => attempt[s][m].status = "REJECTED"
                      /\ m > n => attempt[s][m].status = "NONE"
    OBVIOUS
  <2>1. attempt[s][m].status =
          IF m = submission[s].current THEN submission[s].status
          ELSE IF m < submission[s].current THEN "REJECTED" ELSE "NONE"
    BY <1>1 DEF ReviewInv, AttemptsFollow
  <2>2. m = submission[s].current => submission[s].status = "REJECTED"
    BY <1>1, <1>2 DEF ReviewInv, SubmissionsRight
  <2> QED
    BY <1>2, <1>3, <2>1, <2>2
<1>10. ReviewInv'
  <2>1. Rewrites(r, x, s, row, n, last, 0)
    BY <1>1, <1>4, <1>5, <1>6, <1>7, <1>8, <1>9 DEF Rewrites
  <2> QED
    BY <1>1, <1>3, <2>1, ReviewWrite
<1>11. Admitted
  <2>1. \A u \in Submissions : u # s => submission'[u] = submission[u]
    BY <1>4 DEF ReviewInv, TypeOK
  <2>2. submission'[s].current = n
    BY <1>1, <1>4, <1>6 DEF ReviewInv, TypeOK
  <2>3. attempt'[s][n].type = request[r].type
    BY <1>1, <1>3, <1>4, <1>7 DEF ReviewInv, TypeOK
  <2>4. Open(s[1], request[r].now) /\ request[r].type \in task[s[1]].allowed
    BY <1>1 DEF ReviewInv, SharesRight
  <2> QED
    BY <1>1, <2>1, <2>2, <2>3, <2>4 DEF Admitted
<1> QED
  BY <1>10, <1>11

\* An attempt is decided, with its credit.
LEMMA ReviewDecide ==
  ASSUME ReviewInv, NEW r \in Requests, Approve(r) \/ Reject(r)
  PROVE  ReviewInv' /\ Admitted
<1> DEFINE s == Of(r)
           n == request[r].current
           verdict == request[r].op
           rewarded == verdict = "APPROVED"
           row == [submission[s] EXCEPT !.status = verdict, !.rewarded = rewarded]
           last == [attempt[s][n] EXCEPT !.status = verdict]
<1>1. /\ request[r] \in RequestRow /\ Staged(request[r]) /\ request[r].at = "decide"
      /\ s \in Submissions /\ verdict \in Decision
  BY OfTyped DEF Approve, Reject, ReviewInv, TypeOK, RequestRow, Decision
<1>2. /\ submission[s] \in [status: {"NONE", "PENDING"} \cup Decision, current: 0 .. MaxAttempt, rewarded: BOOLEAN]
      /\ submission[s].status = "PENDING" /\ n = submission[s].current
  BY <1>1 DEF ReviewInv, TypeOK, LocksRight
<1>3. n \in 1 .. MaxAttempt /\ n # 0
  BY <1>1, <1>2, MaxAttemptNat DEF ReviewInv, SubmissionsRight
<1>4. /\ attempt[s][n] \in [status: {"NONE", "PENDING"} \cup Decision, type: AssetTypes, key: Keys \cup {None}]
      /\ attempt[s][n].status = "PENDING"
      /\ ledger[s] = 0 /\ submission[s].rewarded = FALSE
  <2> HIDE DEF row, last, rewarded
  <2>1. attempt[s][n] \in [status: {"NONE", "PENDING"} \cup Decision, type: AssetTypes, key: Keys \cup {None}]
    <3>1. attempt[s] \in [1 .. MaxAttempt ->
            [status: {"NONE", "PENDING"} \cup Decision, type: AssetTypes, key: Keys \cup {None}]]
      BY <1>1 DEF ReviewInv, TypeOK
    <3> HIDE DEF s, n
    <3> QED
      BY <1>3, <3>1
  <2>2. attempt[s][n].status = "PENDING"
    <3>1. \A m \in 1 .. MaxAttempt : m = submission[s].current => attempt[s][m].status = submission[s].status
      BY <1>1 DEF ReviewInv, AttemptsFollow
    <3> HIDE DEF s, n
    <3> QED
      BY <1>2, <1>3, <3>1
  <2>3. ledger[s] = 0 /\ ~submission[s].rewarded
    BY <1>1, <1>2 DEF ReviewInv, RewardedOnce
  <2> QED
    BY <1>2, <2>1, <2>2, <2>3
<1>5. /\ submission' = [submission EXCEPT ![s] = row]
      /\ attempt' = [attempt EXCEPT ![s] = [attempt[s] EXCEPT ![n] = last]]
      /\ ledger' = [ledger EXCEPT ![s] = IF rewarded THEN 1 ELSE 0]
      /\ request' = [request EXCEPT ![r] = Idle]
      /\ UNCHANGED <<task, stored, admitted, unsure, clock>>
  <2>1. CASE Approve(r)
    <3>1. Decide(s, n, "APPROVED", TRUE) /\ ledger' = [ledger EXCEPT ![s] = 1] /\ verdict = "APPROVED"
      BY <1>4, <2>1 DEF Approve
    <3> QED
      BY <1>4, <2>1, <3>1 DEF Approve, Decide, Done
  <2>2. CASE Reject(r)
    <3>1. Decide(s, n, "REJECTED", FALSE) /\ ledger' = ledger /\ verdict = "REJECTED"
      BY <1>4, <2>2 DEF Reject
    <3>2. ledger' = [ledger EXCEPT ![s] = 0]
      BY <1>1, <1>4, <3>1 DEF ReviewInv, TypeOK
    <3> QED
      BY <1>4, <2>2, <3>1, <3>2 DEF Reject, Decide, Done
  <2> QED
    BY <2>1, <2>2
<1>6. /\ row \in [status: {"NONE", "PENDING"} \cup Decision, current: 0 .. MaxAttempt, rewarded: BOOLEAN]
      /\ row.status = verdict /\ row.current = n /\ row.rewarded = rewarded /\ row.status # "NONE"
  BY <1>1, <1>2 DEF Decision
<1>7. /\ last \in [status: {"NONE", "PENDING"} \cup Decision, type: AssetTypes, key: Keys \cup {None}]
      /\ last.status = verdict
  BY <1>1, <1>4
<1> HIDE DEF row, last
<1>8. \A m \in 1 .. MaxAttempt : /\ m < n => attempt[s][m].status = "REJECTED"
                                 /\ m > n => attempt[s][m].status = "NONE"
  <2> SUFFICES ASSUME NEW m \in 1 .. MaxAttempt
               PROVE  /\ m < n => attempt[s][m].status = "REJECTED"
                      /\ m > n => attempt[s][m].status = "NONE"
    OBVIOUS
  <2>1. attempt[s][m].status =
          IF m = submission[s].current THEN submission[s].status
          ELSE IF m < submission[s].current THEN "REJECTED" ELSE "NONE"
    BY <1>1 DEF ReviewInv, AttemptsFollow
  <2> QED
    BY <1>2, <1>3, <2>1
<1>9. Idle \in RequestRow /\ Staged(Idle) /\ Idle.at = "idle"
  BY IdleRow
<1>10. ReviewInv'
  <2>1. Rewrites(r, Idle, s, row, n, last, IF rewarded THEN 1 ELSE 0)
    BY <1>1, <1>5, <1>6, <1>7, <1>8, <1>9 DEF Rewrites
  <2> QED
    BY <1>1, <1>3, <2>1, ReviewWrite
<1>11. Admitted
  <2>1. /\ \A u \in Submissions : u # s => submission'[u] = submission[u]
        /\ submission'[s].current = submission[s].current
    BY <1>1, <1>2, <1>5, <1>6 DEF ReviewInv, TypeOK
  <2> QED
    BY <2>1 DEF Admitted
<1> QED
  BY <1>10, <1>11

\* Every step keeps the invariant, and attempts are admitted.
LEMMA ReviewStep ==
  ASSUME ReviewInv, [Next]_vars
  PROVE  ReviewInv' /\ Admitted
<1>1. CASE \E t \in Tasks : Catalogue(t)
  BY <1>1, ReviewCatalogue
<1>2. CASE \E r \in Requests : Serve(r)
  <2>1. PICK r \in Requests : Serve(r)
    BY <1>2
  <2>2. CASE Begins(r) \/ ReplaceTaskFile(r) \/ ReadCover(r) \/ CheckTask(r) \/ CheckExisting(r) \/ PutImage(r)
    BY <2>2, ReviewRequest
  <2>3. CASE LockTask(r) \/ LockSubmission(r) \/ LockDecision(r)
    BY <2>3, ReviewLock
  <2>4. CASE RemovePrevious(r) \/ RemoveUploaded(r) \/ Answer(r) \/ Fail(r) \/ Crash(r)
    BY <2>4, ReviewEnds
  <2>5. CASE SetImage(r) \/ CommitAttempt(r) \/ Approve(r) \/ Reject(r)
    BY <2>5, ReviewCover, ReviewCommit, ReviewDecide
  <2> QED
    BY <2>1, <2>2, <2>3, <2>4, <2>5 DEF Serve, Begins
<1>3. CASE Tick \/ \E p \in Participants : Admission(p)
  <2>1. UNCHANGED <<task, submission, attempt, ledger, stored, request>> /\ TypeOK'
    BY <1>3, MaxClockNat DEF Tick, Admission, ReviewInv, TypeOK
  <2> QED
    BY <2>1 DEF ReviewInv, LocksRight, SharesRight, Open, Of, SubmissionsRight, AttemptsFollow, RewardedOnce, Admitted
<1>4. CASE UNCHANGED vars
  BY <1>4 DEF vars, ReviewInv, TypeOK, LocksRight, SharesRight, Open, Of, SubmissionsRight, AttemptsFollow,
              RewardedOnce, Admitted
<1> QED
  BY <1>1, <1>2, <1>3, <1>4 DEF Next
-----------------------------------------------------------------------------
(* The keys of images and covers. *)

\* a key that is not yet a cover belongs to the request that stored it
OwnKeys == \A r \in Requests : request[r].key # None /\ request[r].at \notin {"remove", "undo"} =>
  /\ \A t \in Tasks : task[t].cover # request[r].key
  /\ \A q \in Requests : request[q].previous # request[r].key
  /\ \A q \in Requests : q # r => request[q].key # request[r].key

\* a key that is to be taken back is a cover only of a task whose statement was answered as failed
UndoneKeys == \A r \in Requests : request[r].key # None /\ request[r].at = "undo" =>
  \A t \in Tasks \ unsure : task[t].cover # request[r].key

\* a key that a request replaces is named by the task of the request only, and by none
\* when it is to be removed
PreviousKeys == \A r \in Requests, t \in Tasks :
  request[r].previous # None /\ task[t].cover = request[r].previous => t = request[r].task /\ request[r].at # "remove"

CoversApart == \A t, u \in Tasks : t # u /\ task[t].cover # None => task[t].cover # task[u].cover

\* the image was stored before the row is to name it
UploadedFirst == \A r \in Requests :
  request[r].at \in {"old", "set"} /\ request[r].key # None => request[r].key \in stored

KeysInv == OwnKeys /\ UndoneKeys /\ PreviousKeys /\ CoversApart /\ UploadedFirst /\ CoverStored

\* request r goes on as x, with the key it had or a new one
Carries(r, x) ==
  /\ request' = [request EXCEPT ![r] = x] /\ x.at # "remove"
  /\ UNCHANGED unsure /\ \A t \in Tasks : task'[t].cover = task[t].cover
  /\ x.key # None => Fresh(x.key) \/ (x.key = request[r].key /\ request[r].at \notin {"remove", "undo"})
  /\ x.previous # None =>
       \/ x.previous = request[r].previous /\ x.task = request[r].task /\ request[r].at # "remove"
       \/ x.task \in Tasks /\ x.previous = task[x.task].cover
  /\ stored \subseteq stored'
  /\ x.at \in {"old", "set"} /\ x.key # None => x.key \in stored'

\* A request goes on with the objects it had.
LEMMA KeysMove ==
  ASSUME ReviewInv, KeysInv, NEW r \in Requests, NEW x, Carries(r, x)
  PROVE  KeysInv'
<1> USE DEF Carries
<1>1. request'[r] = x /\ \A q \in Requests : q # r => request'[q] = request[q]
  BY DEF ReviewInv, TypeOK
<1>2. x.key # None => /\ \A t \in Tasks : task[t].cover # x.key
                      /\ \A q \in Requests : request[q].previous # x.key
                      /\ \A q \in Requests : q # r => request[q].key # x.key
  BY DEF KeysInv, OwnKeys, Fresh
<1>3. OwnKeys' /\ UndoneKeys'
  BY <1>1, <1>2 DEF KeysInv, OwnKeys, UndoneKeys
<1>4. PreviousKeys'
  BY <1>1 DEF KeysInv, PreviousKeys, CoversApart
<1>5. CoversApart' /\ UploadedFirst' /\ CoverStored'
  BY <1>1 DEF KeysInv, CoversApart, UploadedFirst, CoverStored
<1> QED
  BY <1>3, <1>4, <1>5 DEF KeysInv

\* A request ends, and may remove a key that nobody needs.
LEMMA KeysRemove ==
  ASSUME ReviewInv, KeysInv, NEW r \in Requests, NEW k, Done(r),
         stored' \in {stored, stored \ {k}}, UNCHANGED <<task, unsure>>,
         k # None => /\ \A t \in Tasks \ unsure : task[t].cover # k
                     /\ \A q \in Requests : q # r /\ request[q].at \in {"old", "set"} => request[q].key # k
  PROVE  KeysInv'
<1>1. request'[r] = Idle /\ \A q \in Requests : q # r => request'[q] = request[q]
  BY DEF Done, ReviewInv, TypeOK
<1>2. Idle.key = None /\ Idle.previous = None /\ Idle.at = "idle"
  BY IdleRow
<1>3. OwnKeys' /\ UndoneKeys' /\ PreviousKeys' /\ CoversApart'
  BY <1>1, <1>2 DEF KeysInv, OwnKeys, UndoneKeys, PreviousKeys, CoversApart
<1>4. UploadedFirst' /\ CoverStored'
  BY <1>1, <1>2 DEF KeysInv, UploadedFirst, CoverStored
<1> QED
  BY <1>3, <1>4 DEF KeysInv

\* Covers change only to no cover.
LEMMA KeysCatalogue ==
  ASSUME ReviewInv, KeysInv, UNCHANGED <<unsure, stored, request>>,
         \A t \in Tasks : task'[t].cover \in {task[t].cover, None}
  PROVE  KeysInv'
  BY DEF KeysInv, OwnKeys, UndoneKeys, PreviousKeys, CoversApart, UploadedFirst, CoverStored

\* The row names the key of the request, which is told so, or told that it failed.
LEMMA KeysCover ==
  ASSUME ReviewInv, KeysInv, NEW r \in Requests, SetImage(r), Editable(request[r].task)
  PROVE  KeysInv'
<1> DEFINE t == request[r].task
           k == request[r].key
<1>1. request[r] \in RequestRow /\ t \in Tasks /\ request[r].at = "set"
  BY DEF SetImage, ReviewInv, TypeOK, RequestRow, Staged
<1>2. PICK x :
        /\ request' = [request EXCEPT ![r] = x]
        /\ (x = Idle \/ (x.key = k /\ x.previous = request[r].previous /\ x.task = t))
        /\ x.at \in {"remove", "undo", "idle"} /\ (x.at = "idle" => x = Idle)
        /\ IF x.at = "remove" \/ k = None THEN unsure' = unsure \ {t} ELSE unsure' = unsure \cup {t}
  <2>1. \A stage \in {"remove", "undo"} :
          LET y == [request[r] EXCEPT !.at = stage] IN
          y.at = stage /\ y.key = k /\ y.previous = request[r].previous /\ y.task = t
    BY <1>1 DEF RequestRow
  <2>2. CASE Goto(r, "remove") /\ unsure' = unsure \ {t}
    BY <2>1, <2>2 DEF Goto
  <2>3. CASE Goto(r, "undo") /\ k # None /\ unsure' = unsure \cup {t}
    BY <2>1, <2>3 DEF Goto
  <2>4. CASE Done(r) /\ k = None /\ unsure' = unsure \ {t}
    BY <2>4, IdleRow DEF Done
  <2> QED
    BY <2>2, <2>3, <2>4 DEF SetImage, Refused
<1>3. task' = [task EXCEPT ![t].cover = k] /\ UNCHANGED stored
  BY DEF SetImage
<1>4. request'[r] = x /\ \A q \in Requests : q # r => request'[q] = request[q]
  BY <1>2 DEF ReviewInv, TypeOK
<1>5. task'[t].cover = k /\ \A u \in Tasks : u # t => task'[u] = task[u]
  BY <1>1, <1>3 DEF ReviewInv, TypeOK
<1>6. k # None => /\ \A u \in Tasks : task[u].cover # k
                  /\ \A q \in Requests : request[q].previous # k
                  /\ \A q \in Requests : q # r => request[q].key # k
                  /\ k \in stored
  BY <1>1 DEF KeysInv, OwnKeys, UploadedFirst
<1> HIDE DEF k, t
<1>7. OwnKeys'
  BY <1>2, <1>4, <1>5, <1>6, IdleRow DEF KeysInv, OwnKeys, k
<1>8. UndoneKeys'
  <2> SUFFICES ASSUME NEW q \in Requests, request'[q].key # None, request'[q].at = "undo",
                      NEW u \in Tasks \ unsure'
               PROVE  task'[u].cover # request'[q].key
    BY DEF UndoneKeys
  <2>1. CASE q = r
    BY <1>2, <1>4, <1>5, <1>6, <2>1, IdleRow
  <2>2. CASE q # r
    BY <1>2, <1>4, <1>5, <1>6, <2>2 DEF KeysInv, UndoneKeys
  <2> QED
    BY <2>1, <2>2
<1>9. PreviousKeys'
  BY <1>2, <1>4, <1>5, <1>6, IdleRow DEF KeysInv, PreviousKeys, t
<1>10. CoversApart' /\ UploadedFirst'
  BY <1>2, <1>3, <1>4, <1>5, <1>6, IdleRow DEF KeysInv, CoversApart, UploadedFirst
<1>11. CoverStored'
  BY <1>2, <1>3, <1>5, <1>6 DEF KeysInv, CoverStored
<1> QED
  BY <1>7, <1>8, <1>9, <1>10, <1>11 DEF KeysInv

\* A request ends without removing anything.
LEMMA KeysDone ==
  ASSUME ReviewInv, KeysInv, NEW r \in Requests, Done(r), UNCHANGED <<task, unsure, stored>>
  PROVE  KeysInv'
  BY KeysRemove

\* A request goes on to another stage with the keys it has, or ends.
LEMMA KeysGoOn ==
  ASSUME ReviewInv, KeysInv, NEW r \in Requests, UNCHANGED <<task, unsure, stored>>,
         request[r].at \notin {"remove", "undo"}, NEW now, NEW current, NEW stage, stage \notin {"remove", "old", "set"},
         request' = [request EXCEPT ![r] = [request[r] EXCEPT !.at = stage, !.now = now, !.current = current]]
  PROVE  KeysInv'
<1> DEFINE x == [request[r] EXCEPT !.at = stage, !.now = now, !.current = current]
<1>1. /\ x.at = stage /\ x.key = request[r].key
      /\ x.previous = request[r].previous /\ x.task = request[r].task
  BY DEF ReviewInv, TypeOK
<1> HIDE DEF x
<1>2. request' = [request EXCEPT ![r] = x]
  BY DEF x
<1>3. Carries(r, x)
  BY <1>1, <1>2 DEF Carries
<1> QED
  BY <1>3, KeysMove

\* A request ends, or goes to a statement that needs nothing stored.
LEMMA KeysGoto ==
  ASSUME ReviewInv, KeysInv, NEW r \in Requests, UNCHANGED <<task, unsure, stored>>, request[r].at \notin {"remove", "undo"},
         \/ Done(r) \/ Refused(r)
         \/ \E stage \in {"put", "begin", "shared", "answer"} : Goto(r, stage)
  PROVE  KeysInv'
<1>0. request[r] \in RequestRow
  BY DEF ReviewInv, TypeOK, RequestRow
<1>1. CASE Done(r)
  BY <1>1, KeysDone
<1>2. CASE \E stage \in {"put", "begin", "shared", "answer", "undo"} : Goto(r, stage)
  <2>1. PICK stage \in {"put", "begin", "shared", "answer", "undo"} : Goto(r, stage)
    BY <1>2
  <2>2. request' = [request EXCEPT ![r] =
          [request[r] EXCEPT !.at = stage, !.now = request[r].now, !.current = request[r].current]]
    BY <1>0, <2>1 DEF Goto, RequestRow
  <2> QED
    BY <2>1, <2>2, KeysGoOn
<1> QED
  BY <1>1, <1>2 DEF Refused

\* A request begins, reads the cover or uploads.
LEMMA KeysRequest ==
  ASSUME ReviewInv, KeysInv, NEW r \in Requests,
         Begins(r) \/ ReplaceTaskFile(r) \/ ReadCover(r) \/ PutImage(r)
  PROVE  KeysInv'
<1>0. request[r] \in RequestRow /\ Staged(request[r])
  BY DEF ReviewInv, TypeOK, RequestRow
<1>1. CASE Begins(r)
  <2>1. PICK x : /\ request' = [request EXCEPT ![r] = x] /\ x.at \notin {"remove", "set"} /\ x.previous = None
                 /\ x.key # None => Fresh(x.key) /\ x.at = "cover"
    <3> DEFINE Good(x) == /\ x.at \notin {"remove", "set"} /\ x.previous = None
                          /\ x.key # None => Fresh(x.key) /\ x.at = "cover"
    <3>1. CASE \E t \in Tasks : ClearTaskFile(r, t)
      <4>1. PICK t \in Tasks : ClearTaskFile(r, t)
        BY <3>1
      <4>2. Good([Idle EXCEPT !.op = "cover", !.at = "old", !.task = t])
        BY DEF Idle
      <4> QED
        BY <4>1, <4>2 DEF ClearTaskFile
    <3>2. CASE \E t \in Tasks, k \in Keys : SetTaskFile(r, t, k)
      <4>1. PICK t \in Tasks, k \in Keys : SetTaskFile(r, t, k)
        BY <3>2
      <4>2. Good([Idle EXCEPT !.op = "cover", !.at = "cover", !.task = t, !.key = k])
        BY <4>1 DEF Idle, SetTaskFile
      <4> QED
        BY <4>1, <4>2 DEF SetTaskFile
    <3>3. CASE \E t \in Tasks, p \in Participants, type \in AssetTypes : ParticipantSubmit(r, t, p, type)
      <4>1. PICK t \in Tasks, p \in Participants, type \in AssetTypes : ParticipantSubmit(r, t, p, type)
        BY <3>3
      <4>2. Good([Idle EXCEPT !.op = "submit", !.at = "task", !.task = t, !.by = p, !.type = type])
        BY DEF Idle
      <4> QED
        BY <4>1, <4>2 DEF ParticipantSubmit
    <3>4. CASE \E s \in Submissions, verdict \in Decision : Moderate(r, s, verdict)
      <4>1. PICK s \in Submissions, verdict \in Decision : Moderate(r, s, verdict)
        BY <3>4
      <4>2. Good([Idle EXCEPT !.op = verdict, !.at = "lock", !.task = s[1], !.by = s[2]])
        BY DEF Idle
      <4> QED
        BY <4>1, <4>2 DEF Moderate
    <3> QED
      BY <1>1, <3>1, <3>2, <3>3, <3>4 DEF Begins
  <2>2. UNCHANGED <<task, unsure, stored>>
    BY <1>1 DEF Begins, ClearTaskFile, SetTaskFile, ParticipantSubmit, Moderate
  <2>3. Carries(r, x)
    BY <2>1, <2>2 DEF Carries
  <2> QED
    BY <2>3, KeysMove
<1>2. CASE ReplaceTaskFile(r)
  <2> DEFINE x == [request[r] EXCEPT !.at = "old"]
  <2>1. /\ x.at = "old" /\ x.key = request[r].key
        /\ x.previous = request[r].previous /\ x.task = request[r].task
    BY <1>0 DEF RequestRow
  <2>2. request' = [request EXCEPT ![r] = x]
    BY <1>2 DEF ReplaceTaskFile, Goto
  <2> HIDE DEF x
  <2>3. Carries(r, x)
    BY <1>2, <2>1, <2>2 DEF Carries, ReplaceTaskFile
  <2> QED
    BY <2>3, KeysMove
<1>3. CASE ReadCover(r)
  <2> DEFINE x == [request[r] EXCEPT !.previous = task[request[r].task].cover, !.at = "set"]
  <2>1. /\ x.at = "set" /\ x.key = request[r].key
        /\ x.previous = task[request[r].task].cover /\ x.task = request[r].task
    BY <1>0 DEF RequestRow
  <2>2. request' = [request EXCEPT ![r] = x]
    BY <1>0, <1>3 DEF ReadCover, RequestRow, ReviewInv, TypeOK
  <2> HIDE DEF x
  <2>3. x.key # None => x.key \in stored
    BY <1>3, <2>1 DEF ReadCover, KeysInv, UploadedFirst
  <2>4. Carries(r, x)
    BY <1>0, <1>3, <2>1, <2>2, <2>3 DEF Carries, ReadCover, Staged
  <2> QED
    BY <2>4, KeysMove
<1>4. CASE PutImage(r)
  <2>1. PICK k \in Keys : /\ Fresh(k) /\ stored' = stored \cup {k}
                          /\ request' = [request EXCEPT ![r].key = k, ![r].at = "begin"]
    BY <1>4 DEF PutImage
  <2> DEFINE x == [request[r] EXCEPT !.key = k, !.at = "begin"]
  <2>2. /\ x.at = "begin" /\ x.key = k
        /\ x.previous = request[r].previous /\ x.task = request[r].task
    BY <1>0 DEF RequestRow
  <2>3. request' = [request EXCEPT ![r] = x]
    BY <1>0, <2>1 DEF RequestRow, ReviewInv, TypeOK
  <2> HIDE DEF x
  <2>4. Carries(r, x)
    BY <1>4, <2>1, <2>2, <2>3 DEF Carries, PutImage
  <2> QED
    BY <2>4, KeysMove
<1> QED
  BY <1>1, <1>2, <1>3, <1>4

\* A task is edited.
LEMMA KeysTasks ==
  ASSUME ReviewInv, KeysInv, NEW t \in Tasks, Catalogue(t)
  PROVE  KeysInv'
<1>1. UNCHANGED <<unsure, stored, request>>
  BY DEF Catalogue, AdminCreate, CreateTask, AdminUpdate, UpdateTask, AdminTransition, TransitionTask,
         SetTaskStatus, DeleteTask
<1>2. task[t] \in [status: TaskStatus, allowed: SUBSET AssetTypes, starts: 0 .. MaxClock,
                   ends: 0 .. MaxClock, cover: Keys \cup {None}]
  BY DEF ReviewInv, TypeOK
<1>3. \E row : task' = [task EXCEPT ![t] = row] /\ row.cover \in {task[t].cover, None}
  <2>1. CASE AdminCreate(t)
    <3>1. PICK input \in TaskInput : CreateTask(t, input)
      BY <2>1 DEF AdminCreate
    <3> DEFINE row == [status |-> "DRAFT", allowed |-> input.allowed,
                       starts |-> input.starts, ends |-> input.ends, cover |-> None]
    <3>2. row.cover = None /\ task' = [task EXCEPT ![t] = row]
      BY <3>1 DEF CreateTask
    <3> HIDE DEF row
    <3> QED
      BY <3>2
  <2>2. CASE AdminUpdate(t)
    <3>1. PICK input \in TaskInput : UpdateTask(t, input)
      BY <2>2 DEF AdminUpdate
    <3>2. [task[t] EXCEPT !.allowed = input.allowed, !.starts = input.starts, !.ends = input.ends].cover = task[t].cover
      BY <1>2
    <3> QED
      BY <3>1, <3>2 DEF UpdateTask
  <2>3. CASE AdminTransition(t) \/ DeleteTask(t)
    <3>1. PICK to : task' = [task EXCEPT ![t].status = to]
      BY <2>3 DEF AdminTransition, TransitionTask, SetTaskStatus, DeleteTask
    <3>2. [task[t] EXCEPT !.status = to].cover = task[t].cover
      BY <1>2
    <3> QED
      BY <3>1, <3>2
  <2> QED
    BY <2>1, <2>2, <2>3 DEF Catalogue
<1>4. \A u \in Tasks : task'[u].cover \in {task[u].cover, None}
  BY <1>3 DEF ReviewInv, TypeOK
<1> QED
  BY <1>1, <1>4, KeysCatalogue

\* A statement of a submission.
LEMMA KeysServe ==
  ASSUME ReviewInv, KeysInv, NEW r \in Requests, Serve(r)
  PROVE  KeysInv'
<1>0. request[r] \in RequestRow
  BY DEF ReviewInv, TypeOK, RequestRow
<1>1. CASE Begins(r) \/ ReplaceTaskFile(r) \/ ReadCover(r) \/ PutImage(r)
  BY <1>1, KeysRequest
<1>2. CASE SetImage(r)
  <2>1. CASE Editable(request[r].task)
    BY <1>2, <2>1, KeysCover
  <2>2. CASE ~Editable(request[r].task)
    BY <1>2, <2>2, KeysGoto DEF SetImage
  <2> QED
    BY <2>1, <2>2
<1>3. CASE RemovePrevious(r)
  <2>1. request[r].previous # None =>
          /\ \A t \in Tasks : task[t].cover # request[r].previous
          /\ \A q \in Requests : q # r /\ request[q].at \in {"old", "set"} => request[q].key # request[r].previous
    BY <1>3 DEF RemovePrevious, KeysInv, PreviousKeys, OwnKeys
  <2> QED
    BY <1>3, <2>1, KeysRemove DEF RemovePrevious
<1>4. CASE RemoveUploaded(r)
  <2>1. request[r].key # None =>
          /\ \A t \in Tasks \ unsure : task[t].cover # request[r].key
          /\ \A q \in Requests : q # r /\ request[q].at \in {"old", "set"} => request[q].key # request[r].key
    BY <1>4 DEF RemoveUploaded, KeysInv, OwnKeys, UndoneKeys
  <2> QED
    BY <1>4, <2>1, KeysRemove DEF RemoveUploaded
<1>5. CASE CheckTask(r) \/ LockSubmission(r) \/ LockDecision(r)
  <2>1. /\ UNCHANGED <<task, unsure, stored>> /\ request[r].at \notin {"remove", "undo"}
        /\ \/ Done(r) \/ Refused(r)
           \/ \E now, current, stage :
                /\ stage \in {"existing", "write", "decide"}
                /\ request' = [request EXCEPT ![r] =
                                 [request[r] EXCEPT !.at = stage, !.now = now, !.current = current]]
    <3>1. CASE CheckTask(r)
      <4>1. Done(r) \/ request' = [request EXCEPT ![r] =
              [request[r] EXCEPT !.at = "existing", !.now = clock, !.current = request[r].current]]
        BY <1>0, <3>1 DEF CheckTask, RequestRow, ReviewInv, TypeOK
      <4> QED
        BY <3>1, <4>1 DEF CheckTask
    <3>2. CASE LockSubmission(r)
      <4>1. Refused(r) \/ request' = [request EXCEPT ![r] =
              [request[r] EXCEPT !.at = "write", !.now = request[r].now, !.current = submission[Of(r)].current]]
        BY <1>0, <3>2 DEF LockSubmission, RequestRow, ReviewInv, TypeOK
      <4> QED
        BY <3>2, <4>1 DEF LockSubmission
    <3>3. CASE LockDecision(r)
      <4>1. Done(r) \/ request' = [request EXCEPT ![r] =
              [request[r] EXCEPT !.at = "decide", !.now = request[r].now, !.current = submission[Of(r)].current]]
        BY <1>0, <3>3 DEF LockDecision, RequestRow, ReviewInv, TypeOK
      <4> QED
        BY <3>3, <4>1 DEF LockDecision
    <3> QED
      BY <1>5, <3>1, <3>2, <3>3
  <2>2. CASE Done(r) \/ Refused(r)
    BY <2>1, <2>2, KeysGoto
  <2>3. CASE ~(Done(r) \/ Refused(r))
    <3>1. PICK now, current, stage :
            /\ stage \in {"existing", "write", "decide"}
            /\ request' = [request EXCEPT ![r] =
                             [request[r] EXCEPT !.at = stage, !.now = now, !.current = current]]
      BY <2>1, <2>3
    <3> QED
      BY <2>1, <3>1, KeysGoOn
  <2> QED
    BY <2>2, <2>3
<1>6. CASE \/ CheckExisting(r) \/ LockTask(r) \/ CommitAttempt(r) \/ Answer(r) \/ Approve(r) \/ Reject(r) \/ Fail(r)
  <2>1. UNCHANGED <<task, unsure, stored>> /\ request[r].at \notin {"remove", "undo"}
    BY <1>6 DEF CheckExisting, LockTask, CommitAttempt, Answer, Approve, Reject, Fail
  <2>2. Done(r) \/ Refused(r) \/ \E stage \in {"put", "begin", "shared", "answer"} : Goto(r, stage)
    BY <1>6 DEF CheckExisting, LockTask, CommitAttempt, Answer, Approve, Reject, Fail
  <2> QED
    BY <2>1, <2>2, KeysGoto
<1>7. CASE Crash(r)
  BY <1>7, KeysDone DEF Crash
<1> QED
  BY <1>1, <1>2, <1>3, <1>4, <1>5, <1>6, <1>7 DEF Serve, Begins

\* Every step keeps the objects that are named, or about to be.
LEMMA KeysStep ==
  ASSUME ReviewInv, KeysInv, [Next]_vars
  PROVE  KeysInv'
<1>1. CASE \E t \in Tasks : Catalogue(t)
  BY <1>1, KeysTasks
<1>2. CASE \E r \in Requests : Serve(r)
  BY <1>2, KeysServe
<1>3. CASE Tick \/ (\E p \in Participants : Admission(p)) \/ UNCHANGED vars
  <2>1. UNCHANGED <<task, unsure, stored, request>>
    BY <1>3 DEF Tick, Admission, vars
  <2> QED
    BY <2>1, KeysCatalogue
<1> QED
  BY <1>1, <1>2, <1>3 DEF Next

\* Nothing is stored.
LEMMA KeysInit == Init => KeysInv
  BY IdleRow DEF Init, NoTask, KeysInv, OwnKeys, UndoneKeys, PreviousKeys,
                  CoversApart, UploadedFirst, CoverStored

-----------------------------------------------------------------------------
(* Theorems. *)

\* A transaction in progress may rely on the task and the submission it has locked, points
\* are credited exactly while a submission is approved, and the attempts tell the story the
\* submission shows: the inductive invariant.
THEOREM ReviewCorrect == Spec => []ReviewInv
<1>1. ReviewInv /\ [Next]_vars => ReviewInv'
  BY ReviewStep
<1> QED
  BY ReviewInit, <1>1, PTL DEF Spec

\* Every state of the tasks, their attempts and the requests is of the declared type.
THEOREM TaskTyped == Spec => []TypeOK
<1>1. ReviewInv => TypeOK
  BY DEF ReviewInv
<1> QED
  BY ReviewCorrect, <1>1, PTL

\* Approving any number of times, together with rejecting, credits a task once.
THEOREM RewardSafe == Spec => []RewardedOnce
<1>1. ReviewInv => RewardedOnce
  BY DEF ReviewInv
<1> QED
  BY ReviewCorrect, <1>1, PTL

\* The last attempt is in the state the submission shows, all before it were rejected, and
\* the moderators' list leaves out none that waits.
THEOREM AttemptsSafe == Spec => []AttemptsAgree
<1>1. ReviewInv => AttemptsAgree
  <2> SUFFICES ASSUME ReviewInv
               PROVE  ModerationList("PENDING") =
                        {s \in Submissions : \E n \in 1 .. MaxAttempt : attempt[s][n].status = "PENDING"}
    BY DEF ReviewInv, AttemptsFollow, AttemptsAgree
  <2>1. ASSUME NEW s \in Submissions, submission[s].status = "PENDING"
        PROVE  \E n \in 1 .. MaxAttempt : attempt[s][n].status = "PENDING"
    <3>1. submission[s].current \in 1 .. MaxAttempt
      BY <2>1, MaxAttemptNat DEF ReviewInv, TypeOK, SubmissionsRight
    <3> QED
      BY <2>1, <3>1 DEF ReviewInv, AttemptsFollow
  <2>2. ASSUME NEW s \in Submissions, NEW n \in 1 .. MaxAttempt, attempt[s][n].status = "PENDING"
        PROVE  submission[s].status = "PENDING"
    BY <2>2 DEF ReviewInv, AttemptsFollow
  <2> QED
    BY <2>1, <2>2 DEF ModerationList
<1> QED
  BY ReviewCorrect, <1>1, PTL

\* No edit of a task comes between the check of an attempt and its write.
THEOREM AdmittedSafe == Spec => AttemptAdmitted
<1>1. ReviewInv /\ [Next]_vars => [Admitted]_vars
  BY ReviewStep
<1>2. [Admitted]_vars <=> [\A s \in Submissions : submission'[s].current # submission[s].current =>
        \E r \in Requests :
          /\ request[r].at = "write" /\ Of(r) = s /\ Open(s[1], request[r].now)
          /\ attempt'[s][submission'[s].current].type \in task[s[1]].allowed]_vars
  BY DEF Admitted
<1> QED
  BY ReviewCorrect, <1>1, <1>2, PTL DEF Spec, AttemptAdmitted

\* A cover that is named is stored, whatever replacements overlap, fail or stop half way, unless its
\* statement took effect and was answered as failed.
THEOREM CoverSafe == Spec => []CoverStored
<1>1. ReviewInv /\ KeysInv /\ [Next]_vars => KeysInv'
  BY KeysStep
<1>2. KeysInv => CoverStored
  BY DEF KeysInv
<1> QED
  BY ReviewCorrect, KeysInit, <1>1, <1>2, PTL DEF Spec
=============================================================================
