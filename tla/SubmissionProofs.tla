-------------------------- MODULE SubmissionProofs --------------------------
(***************************************************************************)
(* One contestant's work for any number of requests, files and revisions,  *)
(* and the delivery of its events: proofs about Submissions and Outbox,    *)
(* checked by TLAPS.                                                       *)
(*                                                                         *)
(* Nothing is locked, so the inductive invariant says what a request may   *)
(* still rely on of what it read: the revision it counted from has not     *)
(* come nearer, the file it is storing is in no other request's hands and  *)
(* not shown unless its key was used again, and the file it is removing    *)
(* can never be shown again.                                               *)
(***************************************************************************)
EXTENDS Submissions, Outbox, TLAPS

RequestRow ==
  [op: {"none", "save", "submit", "upload", "delete"},
   at: {"idle", "write", "load", "commit", "put", "insert", "undo", "find", "unlink", "remove"},
   answers: Answers \cup {Blank}, current: 0 .. MaxRevision,
   files: SUBSET Files, file: Files \cup {NoFile}]

\* stages of an upload, whose file is nobody else's unless the key was used again
Uploading == {"put", "insert", "undo"}

Staged(q) ==
  /\ q.at \in {"load", "commit"} => q.current <= work.current
  /\ q.at \in Uploading \cup {"find", "unlink", "remove"} => q.file \in Files
  /\ q.at \in Uploading => q.file \in doubtful \/ row[q.file] = "NONE"
  /\ q.at = "insert" => q.file \in doubtful \/ q.file \in stored
  /\ q.at = "remove" => row[q.file] = "DELETED"

UploadsApart == \A r, q \in Requests :
  r # q /\ request[r].at \in Uploading /\ request[q].at \in Uploading =>
    request[r].file # request[q].file \/ request[r].file \in doubtful

WorkInv ==
  /\ TypeOK /\ RevisionsComplete /\ ShownFilesStored
  /\ \A r \in Requests : Staged(request[r])
  /\ UploadsApart

\* what RevisionsImmutable says of a step
WrittenOnce == \A n \in 1 .. MaxRevision : revision[n] # NoRevision => revision'[n] = revision[n]

-----------------------------------------------------------------------------
\* An idle request is well typed and holds no file.
LEMMA IdleRow == Idle \in RequestRow /\ Idle.at = "idle" /\ Idle.file = NoFile
  BY MaxRevisionNat DEF Idle, RequestRow

\* Nothing is written and nobody is at work.
LEMMA WorkInit == Init => WorkInv
<1> SUFFICES ASSUME Init PROVE WorkInv
  OBVIOUS
<1>1. TypeOK
  <2>1. revision \in [1 .. MaxRevision -> [action: {"NONE", "SUBMIT", "RESUBMIT"},
                                           answers: Answers \cup {Blank}, files: SUBSET Files]]
    BY DEF Init, NoRevision
  <2>2. work \in [status: {"NONE", "DRAFT", "SUBMITTED"}, answers: Answers \cup {Blank}, current: 0 .. MaxRevision]
    BY MaxRevisionNat DEF Init, NoWork
  <2>3. request \in [Requests -> RequestRow]
    BY IdleRow DEF Init
  <2> QED
    BY <2>1, <2>2, <2>3 DEF Init, TypeOK, RequestRow
<1>2. RevisionsComplete
  BY DEF Init, RevisionsComplete, NoWork
<1>3. ShownFilesStored /\ UploadsApart /\ \A r \in Requests : Staged(request[r])
  BY IdleRow DEF Init, ShownFilesStored, UploadsApart, Staged, Uploading
<1> QED
  BY <1>1, <1>2, <1>3 DEF WorkInv

\* A request goes on as x; nothing is written but the work's answers and its first draft.
LEMMA WorkMove ==
  ASSUME WorkInv, NEW r \in Requests, NEW x \in RequestRow,
         request' = [request EXCEPT ![r] = x] \/ UNCHANGED request,
         UNCHANGED <<revision, outbox, row, stored>>, window' \in BOOLEAN,
         doubtful \subseteq doubtful', doubtful' \subseteq Files,
         work' \in [status: {"NONE", "DRAFT", "SUBMITTED"}, answers: Answers \cup {Blank}, current: 0 .. MaxRevision],
         work'.current = work.current, work'.status = "SUBMITTED" <=> work.status = "SUBMITTED",
         Staged(x)',
         x.at \in Uploading => \A q \in Requests :
           q # r => request[q].at \notin Uploading \/ request[q].file # x.file \/ x.file \in doubtful'
  PROVE  WorkInv' /\ WrittenOnce
<1>1. TypeOK'
  <2>1. request' \in [Requests -> RequestRow]
    BY DEF WorkInv, TypeOK, RequestRow
  <2> QED
    BY <2>1 DEF WorkInv, TypeOK, RequestRow
<1>2. RevisionsComplete' /\ ShownFilesStored' /\ WrittenOnce
  BY DEF WorkInv, RevisionsComplete, ShownFilesStored, WrittenOnce
<1>3. \A q \in Requests : request'[q] = request[q] \/ (q = r /\ request'[q] = x)
  BY DEF WorkInv, TypeOK
<1>4. \A q \in Requests : Staged(request[q])'
  BY <1>3 DEF WorkInv, Staged
<1>5. UploadsApart'
  BY <1>3 DEF WorkInv, UploadsApart
<1> QED
  BY <1>1, <1>2, <1>4, <1>5 DEF WorkInv

\* A request goes on or ends with a file of its own moving between storage and its row.
LEMMA FileMove ==
  ASSUME WorkInv, NEW r \in Requests, NEW x \in RequestRow, request' = [request EXCEPT ![r] = x],
         UNCHANGED <<work, revision, outbox, window>>, doubtful \subseteq doubtful', doubtful' \subseteq Files,
         request[r].at \in Uploading \cup {"unlink", "remove"}, x.file \in {request[r].file, NoFile},
         x.at \in Uploading => request[r].at \in Uploading,
         row' \in [Files -> {"NONE", "READY", "DELETED"}], stored' \subseteq Files,
         \A f \in Files : f # request[r].file => row'[f] = row[f] /\ (f \in stored' <=> f \in stored),
         row'[request[r].file] = "READY" => request[r].file \in stored' \cup doubtful',
         request[r].at \notin Uploading => row'[request[r].file] = row[request[r].file] \/ row'[request[r].file] = "DELETED",
         request[r].at = "unlink" => stored' = stored /\ row[request[r].file] = "READY",
         row[request[r].file] = "DELETED" => row'[request[r].file] = "DELETED",
         Staged(x)'
  PROVE  WorkInv' /\ WrittenOnce
<1> DEFINE f == request[r].file
<1>0. f \in Files /\ Staged(request[r])
  BY DEF WorkInv, Staged
<1>1. /\ request' \in [Requests -> RequestRow] /\ request'[r] = x
      /\ \A q \in Requests : q # r => request'[q] = request[q]
  BY DEF WorkInv, TypeOK, RequestRow
<1>2. TypeOK'
  BY <1>1 DEF WorkInv, TypeOK, RequestRow
<1>3. RevisionsComplete' /\ WrittenOnce
  BY DEF WorkInv, RevisionsComplete, WrittenOnce
<1>4. ShownFilesStored'
  BY DEF WorkInv, ShownFilesStored
<1>5. ASSUME NEW q \in Requests, q # r
      PROVE  Staged(request[q])'
  <2>1. Staged(request[q]) /\ request'[q] = request[q]
    BY <1>1, <1>5 DEF WorkInv
  <2>2. request[q].at \in Uploading => request[q].file # f \/ f \in doubtful
    BY <1>0, <1>5, <2>1 DEF WorkInv, UploadsApart, Staged
  <2> QED
    BY <1>0, <2>1, <2>2 DEF Staged, Uploading
<1>6. UploadsApart'
  BY <1>0, <1>1, NoFileFresh DEF WorkInv, UploadsApart, Staged
<1> QED
  BY <1>1, <1>2, <1>3, <1>4, <1>5, <1>6 DEF WorkInv

\* The work every handler begins with.
LEMMA DraftMade ==
  ASSUME WorkInv, work' = EnsureDraft
  PROVE  /\ work' \in [status: {"NONE", "DRAFT", "SUBMITTED"}, answers: Answers \cup {Blank}, current: 0 .. MaxRevision]
         /\ work'.current = work.current
         /\ work'.status = "SUBMITTED" <=> work.status = "SUBMITTED"
<1>1. work \in [status: {"NONE", "DRAFT", "SUBMITTED"}, answers: Answers \cup {Blank}, current: 0 .. MaxRevision]
  BY DEF WorkInv, TypeOK
<1>2. work.status = "NONE" => work.current = 0
  BY <1>1 DEF WorkInv, RevisionsComplete
<1>3. /\ Draft \in [status: {"NONE", "DRAFT", "SUBMITTED"}, answers: Answers \cup {Blank}, current: 0 .. MaxRevision]
      /\ Draft.current = 0 /\ Draft.status = "DRAFT"
  BY MaxRevisionNat DEF Draft
<1> QED
  BY <1>1, <1>2, <1>3 DEF EnsureDraft

\* A request begins.
LEMMA AdmitStep ==
  ASSUME WorkInv, NEW r \in Requests, NEW op \in {"save", "submit", "upload", "delete"},
         NEW step \in {"write", "load", "put", "find"}, NEW answers \in Answers \cup {Blank},
         NEW file \in Files \cup {NoFile}, Admit(r, op, step, answers, file),
         step \in {"put", "find"} => file \in Files,
         doubtful \subseteq doubtful', doubtful' \subseteq Files,
         step = "put" => Fresh(file) \/ file \in doubtful'
  PROVE  WorkInv' /\ WrittenOnce
<1> DEFINE current == EnsureDraft.current
           read == [op |-> op, at |-> step, answers |-> answers, current |-> current,
                    files |-> {}, file |-> file]
<1>1. /\ work' \in [status: {"NONE", "DRAFT", "SUBMITTED"}, answers: Answers \cup {Blank}, current: 0 .. MaxRevision]
      /\ work'.current = work.current /\ (work'.status = "SUBMITTED" <=> work.status = "SUBMITTED")
      /\ current = work.current /\ work.current \in 0 .. MaxRevision
  BY DraftMade DEF Admit, WorkInv, TypeOK
<1>2. PICK x \in RequestRow : x = read /\ x.at = step /\ x.file = file /\ x.current = work.current
  <2> HIDE DEF current
  <2>1. read \in RequestRow /\ read.at = step /\ read.file = file /\ read.current = work.current
    BY <1>1 DEF RequestRow
  <2> HIDE DEF read
  <2> QED
    BY <2>1
<1>3. /\ request[r].at = "idle" /\ UNCHANGED <<revision, outbox, row, stored>> /\ window' \in BOOLEAN
      /\ request' = [request EXCEPT ![r] = x] \/ UNCHANGED request
  BY <1>2 DEF Admit, WorkInv, TypeOK
<1> HIDE DEF read, current
<1>4. Staged(x)'
  BY <1>1, <1>2, <1>3 DEF Staged, Fresh, Uploading
<1>5. x.at \in Uploading => \A q \in Requests :
        q # r => request[q].at \notin Uploading \/ request[q].file # x.file \/ x.file \in doubtful'
  BY <1>2 DEF Fresh, Uploading
<1> QED
  BY <1>1, <1>2, <1>3, <1>4, <1>5, WorkMove

\* Answers are saved, or a request goes on or ends without writing.
LEMMA AnswersStep ==
  ASSUME WorkInv, NEW r \in Requests, SaveAnswers(r) \/ LoadFiles(r) \/ FileForSubmission(r) \/ Abandon(r)
  PROVE  WorkInv' /\ WrittenOnce
<1>0. /\ work \in [status: {"NONE", "DRAFT", "SUBMITTED"}, answers: Answers \cup {Blank}, current: 0 .. MaxRevision]
      /\ request[r] \in RequestRow /\ Staged(request[r]) /\ window \in BOOLEAN
  BY DEF WorkInv, TypeOK, RequestRow
<1>1. /\ work' \in [status: {"NONE", "DRAFT", "SUBMITTED"}, answers: Answers \cup {Blank}, current: 0 .. MaxRevision]
      /\ work'.current = work.current /\ work'.status = work.status
      /\ UNCHANGED <<revision, outbox, row, stored, window, doubtful>> /\ doubtful \subseteq Files
  BY <1>0 DEF WorkInv, TypeOK, SaveAnswers, LoadFiles, FileForSubmission, Abandon, RequestRow
<1>2. PICK x \in RequestRow : request' = [request EXCEPT ![r] = x] /\ Staged(x)' /\ x.at \notin Uploading
  <2> DEFINE loaded == [request[r] EXCEPT !.files = Linked, !.at = "commit"]
             found == [request[r] EXCEPT !.at = "unlink"]
  <2>1. CASE Done(r)
    BY <1>1, <2>1, IdleRow DEF Done, Staged, Uploading
  <2>2. CASE request[r].at = "load" /\ request' = [request EXCEPT ![r].files = Linked, ![r].at = "commit"]
    <3>1. Linked \subseteq Files
      BY DEF Linked
    <3>2. /\ loaded \in RequestRow /\ loaded.at = "commit" /\ loaded.current = request[r].current
          /\ loaded.current <= work.current
      BY <1>0, <2>2, <3>1 DEF RequestRow, Staged
    <3>3. request' = [request EXCEPT ![r] = loaded]
      BY <2>2 DEF WorkInv, TypeOK
    <3> HIDE DEF loaded
    <3> QED
      BY <1>1, <3>2, <3>3 DEF Staged, Uploading
  <2>3. CASE request[r].at = "find" /\ Goto(r, "unlink")
    <3>1. found \in RequestRow /\ found.at = "unlink" /\ found.file \in Files
      BY <1>0, <2>3 DEF RequestRow, Staged
    <3>2. request' = [request EXCEPT ![r] = found]
      BY <2>3 DEF Goto
    <3> HIDE DEF found
    <3> QED
      BY <1>1, <3>1, <3>2 DEF Staged, Uploading
  <2> QED
    BY <2>1, <2>2, <2>3 DEF SaveAnswers, LoadFiles, FileForSubmission, Abandon
<1> QED
  BY <1>0, <1>1, <1>2, WorkMove

\* A revision is written under the next number, or not at all.
LEMMA CommitStep ==
  ASSUME WorkInv, NEW r \in Requests, CommitRevision(r)
  PROVE  WorkInv' /\ WrittenOnce
<1> DEFINE n == request[r].current + 1
           new == [action |-> Action(n), answers |-> request[r].answers, files |-> request[r].files]
           told == [revision |-> n, action |-> Action(n)]
<1>1. /\ request[r] \in RequestRow /\ request[r].current <= work.current /\ work.current \in 0 .. MaxRevision
      /\ request[r].current \in 0 .. MaxRevision /\ n <= MaxRevision /\ revision[n] = NoRevision
  BY DEF CommitRevision, WorkInv, TypeOK, RequestRow, Staged
<1>2. n \in 1 .. MaxRevision /\ Action(n) \in {"SUBMIT", "RESUBMIT"} /\ Action(n) # "NONE"
  BY <1>1, MaxRevisionNat DEF Action
<1>3. n = work.current + 1
  <2>1. n <= work.current => revision[n].action = Action(n)
    BY <1>2 DEF WorkInv, RevisionsComplete
  <2> QED
    BY <1>1, <1>2, <2>1, MaxRevisionNat DEF NoRevision
<1>4. /\ revision' = [revision EXCEPT ![n] = new] /\ outbox' = Append(outbox, told)
      /\ work' = [status |-> "SUBMITTED", answers |-> request[r].answers, current |-> n]
      /\ request' = [request EXCEPT ![r] = Idle] /\ UNCHANGED <<row, stored, window, doubtful>>
  BY DEF CommitRevision, Done
<1>5. /\ new \in [action: {"NONE", "SUBMIT", "RESUBMIT"}, answers: Answers \cup {Blank}, files: SUBSET Files]
      /\ new.action = Action(n)
      /\ told \in [revision: 1 .. MaxRevision, action: {"SUBMIT", "RESUBMIT"}]
  BY <1>1, <1>2 DEF RequestRow
<1>6. /\ work'.status = "SUBMITTED" /\ work'.current = n
      /\ work' \in [status: {"NONE", "DRAFT", "SUBMITTED"}, answers: Answers \cup {Blank}, current: 0 .. MaxRevision]
  BY <1>1, <1>2, <1>4 DEF RequestRow
<1>7. /\ revision' \in [1 .. MaxRevision -> [action: {"NONE", "SUBMIT", "RESUBMIT"},
                                           answers: Answers \cup {Blank}, files: SUBSET Files]]
      /\ revision'[n] = new /\ \A m \in 1 .. MaxRevision : m # n => revision'[m] = revision[m]
  BY <1>2, <1>4, <1>5 DEF WorkInv, TypeOK
<1>8. /\ outbox' \in Seq([revision: 1 .. MaxRevision, action: {"SUBMIT", "RESUBMIT"}])
      /\ Len(outbox') = n /\ outbox'[n] = told
      /\ \A m \in 1 .. MaxRevision : m <= work.current => outbox'[m] = outbox[m]
  <2>1. outbox \in Seq([revision: 1 .. MaxRevision, action: {"SUBMIT", "RESUBMIT"}]) /\ Len(outbox) = work.current
    BY DEF WorkInv, TypeOK, RevisionsComplete
  <2> HIDE DEF told
  <2> QED
    BY <1>1, <1>3, <1>4, <1>5, <2>1
<1>9. /\ request' \in [Requests -> RequestRow] /\ request'[r] = Idle
      /\ \A q \in Requests : q # r => request'[q] = request[q]
  BY <1>4, IdleRow DEF WorkInv, TypeOK, RequestRow
<1>10. TypeOK'
  BY <1>4, <1>6, <1>7, <1>8, <1>9 DEF WorkInv, TypeOK, RequestRow
<1> HIDE DEF new
<1>11. RevisionsComplete'
  <2>1. work'.status = "SUBMITTED" <=> work'.current > 0
    BY <1>2, <1>6
  <2>2. ASSUME NEW m \in 1 .. MaxRevision
        PROVE  IF m <= n THEN revision'[m].action = Action(m) /\ outbox'[m] = [revision |-> m, action |-> Action(m)]
               ELSE revision'[m] = NoRevision
    <3>1. CASE m = n
      BY <1>5, <1>7, <1>8, <3>1
    <3>2. CASE m # n
      <4>1. m <= n <=> m <= work.current
        BY <1>1, <1>3, <3>2
      <4>2. IF m <= work.current
            THEN revision[m].action = Action(m) /\ outbox[m] = [revision |-> m, action |-> Action(m)]
            ELSE revision[m] = NoRevision
        BY DEF WorkInv, RevisionsComplete
      <4> QED
        BY <1>7, <1>8, <3>2, <4>1, <4>2
    <3> QED
      BY <3>1, <3>2
  <2> QED
    BY <1>6, <1>8, <2>1, <2>2 DEF RevisionsComplete
<1>12. WrittenOnce
  BY <1>1, <1>7 DEF WrittenOnce
<1>13. ShownFilesStored' /\ UploadsApart'
  BY <1>4, <1>9, IdleRow DEF WorkInv, ShownFilesStored, UploadsApart, Uploading
<1>14. \A q \in Requests : Staged(request[q])'
  <2>1. \A q \in Requests : Staged(request[q]) /\ request[q].current \in 0 .. MaxRevision
    BY DEF WorkInv, TypeOK
  <2> QED
    BY <1>1, <1>3, <1>4, <1>6, <1>9, <2>1, IdleRow DEF Staged, Uploading
<1> QED
  BY <1>10, <1>11, <1>12, <1>13, <1>14 DEF WorkInv

\* The object of an upload is stored, its row is written, or one of them is taken back.
LEMMA FilesStep ==
  ASSUME WorkInv, NEW r \in Requests, PutObject(r) \/ InsertFile(r) \/ RemoveObject(r) \/ SoftDeleteFile(r)
  PROVE  WorkInv' /\ WrittenOnce
<1> DEFINE f == request[r].file
           Moved(step) == [request[r] EXCEPT !.at = step]
<1>0. /\ request[r] \in RequestRow /\ Staged(request[r])
      /\ row \in [Files -> {"NONE", "READY", "DELETED"}] /\ stored \subseteq Files
  BY DEF WorkInv, TypeOK, RequestRow
<1>1. \A step \in {"insert", "undo", "remove"} :
        /\ Moved(step) \in RequestRow /\ Moved(step).at = step /\ Moved(step).file = f
        /\ Goto(r, step) => request' = [request EXCEPT ![r] = Moved(step)]
  BY <1>0 DEF RequestRow, Goto
<1> HIDE DEF Moved
<1>2. CASE PutObject(r)
  <2>1. f \in Files /\ (row[f] = "NONE" \/ f \in doubtful) /\ request[r].at = "put"
    BY <1>0, <1>2 DEF PutObject, Staged, Uploading
  <2>2. PICK x \in RequestRow :
          /\ request' = [request EXCEPT ![r] = x] /\ x.file = f /\ x.at = "insert"
          /\ stored' = stored \cup {f}
          /\ UNCHANGED <<work, revision, outbox, window>> /\ UNCHANGED row
          /\ doubtful \subseteq doubtful' /\ doubtful' \subseteq Files
    BY <1>1, <1>2 DEF PutObject, WorkInv, TypeOK
  <2>3. Staged(x)'
    BY <2>1, <2>2 DEF Staged, Uploading
  <2> QED
    BY <1>0, <1>1, <2>1, <2>2, <2>3, FileMove DEF Uploading
<1>3. CASE InsertFile(r)
  <2>1. /\ f \in Files /\ request[r].at = "insert"
        /\ f \in doubtful \/ (row[f] = "NONE" /\ f \in stored)
    BY <1>0, <1>3 DEF InsertFile, Staged, Uploading
  <2>2. PICK x \in RequestRow :
          /\ request' = [request EXCEPT ![r] = x] /\ x.file \in {f, NoFile} /\ x.at \in {"idle", "undo"}
          /\ x.at = "undo" => x.file = f /\ (row' = row \/ f \in doubtful')
    BY <1>1, <1>3, IdleRow DEF InsertFile, Done, Doubt
  <2>3. /\ row' = row \/ (row[f] = "NONE" /\ row' = [row EXCEPT ![f] = "READY"])
        /\ UNCHANGED <<work, revision, outbox, window>> /\ UNCHANGED stored
    BY <1>3 DEF InsertFile
  <2>4. doubtful \subseteq doubtful' /\ doubtful' \subseteq Files
    BY <1>3, <2>1 DEF InsertFile, Doubt, WorkInv, TypeOK
  <2>5. Staged(x)'
    BY <2>1, <2>2, <2>4 DEF Staged, Uploading
  <2>6. row'[f] = "READY" => f \in stored' \cup doubtful'
    BY <1>0, <2>1, <2>3, <2>4 DEF WorkInv, ShownFilesStored
  <2>7. /\ row' \in [Files -> {"NONE", "READY", "DELETED"}] /\ stored' \subseteq Files
        /\ \A g \in Files : g # f => row'[g] = row[g] /\ (g \in stored' <=> g \in stored)
        /\ row[f] = "DELETED" => row'[f] = "DELETED"
    BY <1>0, <2>1, <2>3
  <2> QED
    BY <2>1, <2>2, <2>3, <2>4, <2>5, <2>6, <2>7, FileMove DEF Uploading
<1>4. CASE RemoveObject(r)
  <2>1. f \in Files /\ request[r].at \in {"undo", "remove"} /\ (row[f] # "READY" \/ f \in doubtful)
    BY <1>0, <1>4 DEF RemoveObject, Staged, Uploading
  <2>2. /\ request' = [request EXCEPT ![r] = Idle] /\ stored' \in {stored, stored \ {f}}
        /\ UNCHANGED <<work, revision, outbox, window>> /\ UNCHANGED row
        /\ doubtful' = doubtful /\ doubtful \subseteq Files
    BY <1>4 DEF RemoveObject, Done, WorkInv, TypeOK
  <2>3. Staged(Idle)'
    BY IdleRow DEF Staged, Uploading
  <2> QED
    BY <1>0, <2>1, <2>2, <2>3, IdleRow, FileMove DEF Uploading
<1>5. CASE SoftDeleteFile(r)
  <2>1. f \in Files /\ request[r].at = "unlink"
    BY <1>0, <1>5 DEF SoftDeleteFile, Staged
  <2>2. /\ UNCHANGED <<work, revision, outbox, window>> /\ UNCHANGED stored
        /\ doubtful' = doubtful /\ doubtful \subseteq Files
    BY <1>5 DEF SoftDeleteFile, WorkInv, TypeOK
  <2>3. CASE row[f] = "READY"
    <3>1. PICK x \in RequestRow :
            /\ request' = [request EXCEPT ![r] = x] /\ x.file = f /\ x.at = "remove"
            /\ row' = [row EXCEPT ![f] = "DELETED"]
      BY <1>1, <1>5, <2>3 DEF SoftDeleteFile
    <3>2. Staged(x)'
      BY <1>0, <2>1, <3>1 DEF Staged, Uploading
    <3> QED
      BY <1>0, <1>1, <2>1, <2>2, <2>3, <3>1, <3>2, FileMove DEF Uploading
  <2>4. CASE row[f] # "READY"
    <3>1. request' = [request EXCEPT ![r] = Idle] /\ UNCHANGED row /\ UNCHANGED <<revision, outbox, row, stored>>
      BY <1>5, <2>2, <2>4 DEF SoftDeleteFile, Done
    <3>2. /\ work' \in [status: {"NONE", "DRAFT", "SUBMITTED"}, answers: Answers \cup {Blank}, current: 0 .. MaxRevision]
          /\ work' = work /\ window' \in BOOLEAN
      BY <2>2 DEF WorkInv, TypeOK
    <3>3. Staged(Idle)' /\ Idle.at \notin Uploading
      BY IdleRow DEF Staged, Uploading
    <3> QED
      BY <2>2, <3>1, <3>2, <3>3, IdleRow, WorkMove
  <2> QED
    BY <2>3, <2>4
<1> QED
  BY <1>2, <1>3, <1>4, <1>5

\* Nothing of the work but its first draft and the window moves.
LEMMA QuietStep ==
  ASSUME WorkInv, work' = EnsureDraft \/ UNCHANGED work, window' \in BOOLEAN,
         UNCHANGED <<revision, outbox, row, stored, request, doubtful>>
  PROVE  WorkInv' /\ WrittenOnce
<1>1. /\ work' \in [status: {"NONE", "DRAFT", "SUBMITTED"}, answers: Answers \cup {Blank}, current: 0 .. MaxRevision]
      /\ work'.current = work.current /\ (work'.status = "SUBMITTED" <=> work.status = "SUBMITTED")
  BY DraftMade DEF WorkInv, TypeOK
<1>2. TypeOK'
  BY <1>1 DEF WorkInv, TypeOK
<1>3. RevisionsComplete' /\ ShownFilesStored' /\ WrittenOnce
  BY <1>1 DEF WorkInv, RevisionsComplete, ShownFilesStored, WrittenOnce
<1>4. \A q \in Requests : Staged(request[q])'
  BY <1>1 DEF WorkInv, Staged
<1> QED
  BY <1>2, <1>3, <1>4 DEF WorkInv, UploadsApart

\* Every step keeps the invariant and the revisions there are.
LEMMA WorkStep == WorkInv /\ [Next]_vars => WorkInv' /\ WrittenOnce
<1> SUFFICES ASSUME WorkInv, [Next]_vars PROVE WorkInv' /\ WrittenOnce
  OBVIOUS
<1>0. window \in BOOLEAN /\ (~window) \in BOOLEAN
  BY DEF WorkInv, TypeOK
<1>1. CASE OpenForm \/ MoveWindow \/ UNCHANGED vars
  <2>1. /\ work' = EnsureDraft \/ UNCHANGED work
        /\ window' \in BOOLEAN /\ UNCHANGED <<revision, outbox, row, stored, request, doubtful>>
    BY <1>0, <1>1 DEF OpenForm, MoveWindow, vars
  <2> QED
    BY <2>1, QuietStep
<1>2. ASSUME NEW r \in Requests, Serve(r)
      PROVE  WorkInv' /\ WrittenOnce
  <2>1. ASSUME NEW answers \in Answers, SaveDraft(r, answers) \/ Submit(r, answers)
        PROVE  WorkInv' /\ WrittenOnce
    <3>1. answers \in Answers \cup {Blank} /\ NoFile \in Files \cup {NoFile}
      OBVIOUS
    <3>2. PICK op \in {"save", "submit"}, step \in {"write", "load"} : Admit(r, op, step, answers, NoFile)
      BY <2>1 DEF SaveDraft, Submit
    <3>3. doubtful' = doubtful /\ doubtful \subseteq Files
      BY <2>1 DEF SaveDraft, Submit, WorkInv, TypeOK
    <3> QED
      BY <3>1, <3>2, <3>3, AdmitStep
  <2>2. ASSUME NEW f \in Files, UploadFile(r, f)
        PROVE  WorkInv' /\ WrittenOnce
    <3>1. Admit(r, "upload", "put", Blank, f) /\ (Fresh(f) \/ f \in doubtful')
      BY <2>2 DEF UploadFile, Doubt
    <3>2. doubtful \subseteq doubtful' /\ doubtful' \subseteq Files
      BY <2>2 DEF UploadFile, Doubt, WorkInv, TypeOK
    <3> QED
      BY <3>1, <3>2, AdmitStep
  <2>3. ASSUME NEW f \in Files, DeleteFile(r, f)
        PROVE  WorkInv' /\ WrittenOnce
    <3>1. Admit(r, "delete", "find", Blank, f) /\ doubtful' = doubtful /\ doubtful \subseteq Files
      BY <2>3 DEF DeleteFile, WorkInv, TypeOK
    <3> QED
      BY <3>1, AdmitStep
  <2>4. CASE SaveAnswers(r) \/ LoadFiles(r) \/ FileForSubmission(r) \/ Abandon(r)
    BY <2>4, AnswersStep
  <2>5. CASE CommitRevision(r)
    BY <2>5, CommitStep
  <2>6. CASE PutObject(r) \/ InsertFile(r) \/ RemoveObject(r) \/ SoftDeleteFile(r)
    BY <2>6, FilesStep
  <2> QED
    BY <1>2, <2>1, <2>2, <2>3, <2>4, <2>5, <2>6 DEF Serve
<1> QED
  BY <1>1, <1>2 DEF Next

-----------------------------------------------------------------------------
\* The inductive invariant holds of every behaviour of the handlers.
THEOREM WorkCorrect == Spec => []WorkInv
<1>1. Init => WorkInv
  BY WorkInit
<1>2. WorkInv /\ [Next]_vars => WorkInv'
  BY WorkStep
<1> QED
  BY <1>1, <1>2, PTL DEF Spec

\* Every variable keeps its type: no request's step, revision or file is outside its set.
THEOREM WorkTyped == Spec => []TypeOK
<1>1. WorkInv => TypeOK
  BY DEF WorkInv
<1> QED
  BY <1>1, WorkCorrect, PTL

\* However many submissions overlap, revisions are numbered without a gap and each has
\* the one told that names it (CreateRevision's transaction).
THEOREM RevisionsSafe == Spec => []RevisionsComplete
<1>1. WorkInv => RevisionsComplete
  BY DEF WorkInv
<1> QED
  BY <1>1, WorkCorrect, PTL

\* No number of overlapping uploads, deletions and failures shows a file whose object is
\* not in storage, unless its key was uploaded again or the answer to its insert was lost
\* (UploadFile, DeleteFile).
THEOREM ShownSafe == Spec => []ShownFilesStored
<1>1. WorkInv => ShownFilesStored
  BY DEF WorkInv
<1> QED
  BY <1>1, WorkCorrect, PTL

\* A revision is written once: no later save or submission touches it (CreateRevision).
THEOREM ImmutableSafe == Spec => RevisionsImmutable
<1>1. WorkInv /\ [Next]_vars =>
        [\A n \in 1 .. MaxRevision : revision[n] # NoRevision => revision'[n] = revision[n]]_vars
  BY WorkStep DEF WrittenOnce
<1> QED
  BY <1>1, WorkCorrect, PTL DEF Spec, RevisionsImmutable
-----------------------------------------------------------------------------
(* The dispatcher, for any number of events, any batch and any limit of attempts.  *)
(* What an event in the batch or in hand was claimed with is compared with nothing *)
(* when its result is written.  It is still true then, because one dispatcher      *)
(* holds the event and nothing else writes a settled or a counted row.             *)

EventRow == [status: {"NONE", "PENDING", "SENT", "DEAD"}, attempts: 0 .. MaxAttempts, locked: BOOLEAN]

Typed ==
  /\ event \in [Events -> EventRow]
  /\ delivered \in [Events -> 0 .. 2]
  /\ todo \subseteq Claimed
  /\ hand \in Claimed \cup {None}
  /\ stage \in {"down", "wait", "claim", "batch", "sent", "failed"}

\* the row is as it was claimed
AsClaimed(c) == event[c.id].status = "PENDING" /\ event[c.id].attempts = c.attempts

HeldOnce ==
  /\ \A c \in todo : AsClaimed(c)
  /\ \A c, d \in todo : c.id = d.id => c = d
  /\ stage \in {"down", "wait", "claim"} => todo = {}
  /\ stage \in {"sent", "failed"} =>
       /\ hand \in Claimed /\ AsClaimed(hand)
       /\ \A c \in todo : c.id # hand.id
  /\ stage = "sent" => delivered[hand.id] > 0

DispatchInv == Typed /\ HeldOnce /\ SentWasDelivered /\ DeadGaveUp

\* what SettledStays says of a step
Settled == \A e \in Events : event[e].status \in {"SENT", "DEAD"} => event'[e].status = event[e].status

-----------------------------------------------------------------------------
\* Nothing is claimed.
LEMMA DispatchInit == OutboxInit => DispatchInv
<1> SUFFICES ASSUME OutboxInit PROVE DispatchInv
  OBVIOUS
<1>1. event \in [Events -> EventRow]
  BY MaxAttemptsPositive DEF OutboxInit, Absent, EventRow
<1> QED
  BY <1>1, MaxAttemptsPositive DEF OutboxInit, DispatchInv, Typed, HeldOnce, SentWasDelivered, DeadGaveUp, Absent

\* Locks are taken or dropped, rows are added, the batch is laid down: no result is written.
LEMMA RowStep ==
  ASSUME DispatchInv, event' \in [Events -> EventRow], UNCHANGED delivered,
         \A e \in Events : \/ event'[e].status = event[e].status /\ event'[e].attempts = event[e].attempts
                           \/ event[e].status = "NONE" /\ event'[e].status = "PENDING" /\ event'[e].attempts = 0,
         \/ UNCHANGED <<todo, hand, stage>>
         \/ /\ stage' \in {"down", "wait", "claim", "batch"} /\ hand' \in {hand, None}
            /\ (todo' = {} \/ (todo' = todo /\ stage' = "batch"))
  PROVE  DispatchInv' /\ Settled
<1>1. Typed'
  BY DEF DispatchInv, Typed
<1>2. \A c \in Claimed : c.id \in Events
  BY DEF Claimed
<1>3. \A c \in Claimed : AsClaimed(c) => AsClaimed(c)'
  BY <1>2 DEF AsClaimed
<1>4. HeldOnce'
  BY <1>2, <1>3 DEF DispatchInv, Typed, HeldOnce
<1>5. SentWasDelivered' /\ DeadGaveUp' /\ Settled
  BY MaxAttemptsPositive DEF DispatchInv, Typed, SentWasDelivered, DeadGaveUp, Settled
<1> QED
  BY <1>1, <1>4, <1>5 DEF DispatchInv

\* A claim writes the lock and nothing else of an event.
LEMMA LockKeeps ==
  ASSUME DispatchInv, NEW ids
  PROVE  /\ Lock(ids) \in [Events -> EventRow]
         /\ \A e \in Events : Lock(ids)[e].status = event[e].status /\ Lock(ids)[e].attempts = event[e].attempts
BY DEF Lock, DispatchInv, Typed, EventRow

\* Each event of the batch is taken once, as its row stands.
LEMMA ClaimStep == DispatchInv /\ Claim => DispatchInv' /\ Settled
<1> SUFFICES ASSUME DispatchInv, Claim PROVE DispatchInv' /\ Settled
  OBVIOUS
<1>1. /\ event' \in [Events -> EventRow] /\ UNCHANGED delivered
      /\ \A e \in Events : event'[e].status = event[e].status /\ event'[e].attempts = event[e].attempts
  BY LockKeeps DEF Claim
<1>2. \A e \in Taken : e \in Events /\ event[e].status = "PENDING"
  BY DEF Taken, PendingDue
<1>3. /\ todo' \subseteq Claimed
      /\ \A c \in todo' : event[c.id].status = "PENDING" /\ c.attempts = event[c.id].attempts
      /\ \A c, d \in todo' : c.id = d.id => c = d
  <2>1. todo' = {[id |-> e, attempts |-> event[e].attempts] : e \in Taken}
    BY DEF Claim
  <2>2. \A e \in Taken : event[e].attempts \in 0 .. MaxAttempts
    BY <1>2 DEF DispatchInv, Typed, EventRow
  <2> QED
    BY <1>2, <2>1, <2>2 DEF Claimed
<1>4. Typed'
  BY <1>1, <1>3 DEF Claim, DispatchInv, Typed
<1>5. HeldOnce'
  <2>1. stage' = "batch"
    BY DEF Claim
  <2>2. \A c \in todo' : c.id \in Events
    BY <1>3 DEF Claimed
  <2> QED
    BY <1>1, <1>3, <2>1, <2>2 DEF HeldOnce, AsClaimed
<1>6. SentWasDelivered' /\ DeadGaveUp' /\ Settled
  BY <1>1 DEF DispatchInv, SentWasDelivered, DeadGaveUp, Settled
<1> QED
  BY <1>4, <1>5, <1>6 DEF DispatchInv

\* A message is posted: the event leaves the batch and is in hand.
LEMMA SendStep == DispatchInv /\ Send => DispatchInv' /\ Settled
<1> SUFFICES ASSUME DispatchInv, Send PROVE DispatchInv' /\ Settled
  OBVIOUS
<1>1. PICK c \in todo :
        /\ hand' = c /\ todo' = todo \ {c}
        /\ \/ stage' = "sent" /\ delivered' = [delivered EXCEPT ![c.id] = More(@)]
           \/ stage' = "failed" /\ delivered' \in {delivered, [delivered EXCEPT ![c.id] = More(@)]}
  BY DEF Send
<1>2. c \in Claimed /\ c.id \in Events /\ UNCHANGED event
  BY DEF Send, DispatchInv, Typed, Claimed
<1>3. /\ delivered' \in [Events -> 0 .. 2] /\ \A e \in Events : delivered[e] > 0 => delivered'[e] > 0
      /\ stage' = "sent" => delivered'[c.id] > 0
  BY <1>1, <1>2 DEF DispatchInv, Typed, More
<1>4. Typed'
  BY <1>1, <1>2, <1>3 DEF DispatchInv, Typed
<1>5. HeldOnce'
  BY <1>1, <1>2, <1>3 DEF DispatchInv, HeldOnce, AsClaimed
<1>6. SentWasDelivered' /\ DeadGaveUp' /\ Settled
  BY <1>2, <1>3 DEF DispatchInv, SentWasDelivered, DeadGaveUp, Settled
<1> QED
  BY <1>4, <1>5, <1>6 DEF DispatchInv

\* A result is written for the event in hand, and the batch goes on.
LEMMA MarkStep == DispatchInv /\ (MarkSent \/ MarkFailed) => DispatchInv' /\ Settled
<1> SUFFICES ASSUME DispatchInv, MarkSent \/ MarkFailed PROVE DispatchInv' /\ Settled
  OBVIOUS
<1> DEFINE e == hand.id
<1>1. /\ hand \in Claimed /\ e \in Events /\ hand.attempts \in 0 .. MaxAttempts
      /\ event[e].status = "PENDING" /\ event[e].attempts = hand.attempts
      /\ \A c \in todo : c.id # e
  BY DEF MarkSent, MarkFailed, DispatchInv, HeldOnce, AsClaimed, Claimed
<1>2. event[e] \in EventRow /\ event[e].attempts < MaxAttempts /\ hand.attempts + 1 \in 0 .. MaxAttempts
  BY <1>1, MaxAttemptsPositive DEF DispatchInv, Typed, DeadGaveUp
<1>3. /\ UNCHANGED <<delivered, todo>> /\ stage' = "batch" /\ hand' = None
      /\ \E x \in EventRow :
           /\ event' = [event EXCEPT ![e] = x]
           /\ \/ x.status = "SENT" /\ x.attempts = event[e].attempts /\ delivered[e] > 0
              \/ x.status = "DEAD" /\ x.attempts = MaxAttempts
              \/ x.status = "PENDING" /\ x.attempts < MaxAttempts
  <2>1. CASE MarkSent
    <3> DEFINE x == [event[e] EXCEPT !.status = "SENT", !.locked = FALSE]
    <3>1. x \in EventRow /\ x.status = "SENT" /\ x.attempts = event[e].attempts
      BY <1>2 DEF EventRow
    <3>2. event' = [event EXCEPT ![e] = x]
      BY <1>1, <2>1 DEF MarkSent, DispatchInv, Typed
    <3>3. delivered[e] > 0 /\ UNCHANGED <<delivered, todo>> /\ stage' = "batch" /\ hand' = None
      BY <2>1 DEF MarkSent, NextInBatch, DispatchInv, HeldOnce
    <3> HIDE DEF x
    <3> QED
      BY <3>1, <3>2, <3>3
  <2>2. CASE MarkFailed
    <3> DEFINE x == [status |-> IF hand.attempts + 1 >= MaxAttempts THEN "DEAD" ELSE "PENDING",
                     attempts |-> hand.attempts + 1, locked |-> FALSE]
    <3>1. /\ x \in EventRow
          /\ (x.status = "DEAD" /\ x.attempts = MaxAttempts) \/ (x.status = "PENDING" /\ x.attempts < MaxAttempts)
      BY <1>1, <1>2, MaxAttemptsPositive DEF EventRow
    <3>2. event' = [event EXCEPT ![e] = x]
      BY <2>2 DEF MarkFailed
    <3>3. UNCHANGED <<delivered, todo>> /\ stage' = "batch" /\ hand' = None
      BY <2>2 DEF MarkFailed, NextInBatch
    <3> HIDE DEF x
    <3> QED
      BY <3>1, <3>2, <3>3
  <2> QED
    BY <2>1, <2>2
<1>4. PICK x \in EventRow :
        /\ event' = [event EXCEPT ![e] = x]
        /\ \/ x.status = "SENT" /\ x.attempts = event[e].attempts /\ delivered[e] > 0
           \/ x.status = "DEAD" /\ x.attempts = MaxAttempts
           \/ x.status = "PENDING" /\ x.attempts < MaxAttempts
  BY <1>3
<1>5. /\ event' \in [Events -> EventRow] /\ event'[e] = x
      /\ \A d \in Events : d # e => event'[d] = event[d]
  BY <1>1, <1>4 DEF DispatchInv, Typed
<1>6. Typed'
  BY <1>3, <1>5 DEF DispatchInv, Typed
<1>7. HeldOnce'
  <2>1. \A c \in todo : c.id \in Events
    BY DEF DispatchInv, Typed, Claimed
  <2> QED
    BY <1>1, <1>3, <1>5, <2>1 DEF DispatchInv, HeldOnce, AsClaimed
<1>8. SentWasDelivered' /\ DeadGaveUp' /\ Settled
  BY <1>1, <1>2, <1>3, <1>4, <1>5, MaxAttemptsPositive
     DEF DispatchInv, SentWasDelivered, DeadGaveUp, Settled
<1> QED
  BY <1>6, <1>7, <1>8 DEF DispatchInv

\* Every step keeps the invariant and the recorded results.
LEMMA DispatchStep == DispatchInv /\ [OutboxNext]_outboxVars => DispatchInv' /\ Settled
<1> SUFFICES ASSUME DispatchInv, [OutboxNext]_outboxVars PROVE DispatchInv' /\ Settled
  OBVIOUS
<1>0. event \in [Events -> EventRow] /\ stage \in {"down", "wait", "claim", "batch", "sent", "failed"}
  BY DEF DispatchInv, Typed
<1>1. ASSUME NEW e \in Events, Enqueue(e) \/ BackoffOver(e)
      PROVE  DispatchInv' /\ Settled
  <2>1. /\ event' \in [Events -> EventRow] /\ UNCHANGED delivered /\ UNCHANGED <<todo, hand, stage>>
        /\ \A d \in Events : \/ event'[d].status = event[d].status /\ event'[d].attempts = event[d].attempts
                             \/ event[d].status = "NONE" /\ event'[d].status = "PENDING" /\ event'[d].attempts = 0
    <3>1. Pending \in EventRow /\ Pending.status = "PENDING" /\ Pending.attempts = 0 /\ Absent.status = "NONE"
      BY MaxAttemptsPositive DEF Pending, Absent, EventRow
    <3>2. UNCHANGED delivered /\ UNCHANGED <<todo, hand, stage>>
      BY <1>1 DEF Enqueue, BackoffOver
    <3> QED
      BY <1>0, <1>1, <3>1, <3>2 DEF Enqueue, BackoffOver
  <2> QED
    BY <2>1, RowStep
<1>2. CASE Tick
  <2>1. PICK stale \in SUBSET Events :
          event' = [e \in Events |-> IF e \in stale THEN [event[e] EXCEPT !.locked = FALSE] ELSE event[e]]
    BY <1>2 DEF Tick
  <2>2. /\ event' \in [Events -> EventRow]
        /\ \A e \in Events : event'[e].status = event[e].status /\ event'[e].attempts = event[e].attempts
    BY <1>0, <2>1 DEF EventRow
  <2>3. UNCHANGED delivered /\ stage' = "claim" /\ hand' = hand /\ todo' = {}
    BY <1>2 DEF Tick, DispatchInv, HeldOnce
  <2> QED
    BY <2>2, <2>3, RowStep
<1>3. CASE ClaimFails
  <2>1. /\ event' \in [Events -> EventRow]
        /\ \A e \in Events : event'[e].status = event[e].status /\ event'[e].attempts = event[e].attempts
    BY <1>0, <1>3, LockKeeps DEF ClaimFails
  <2>2. UNCHANGED delivered /\ stage' = "wait" /\ hand' = hand /\ todo' = {}
    BY <1>3 DEF ClaimFails, DispatchInv, HeldOnce
  <2> QED
    BY <2>1, <2>2, RowStep
<1>4. CASE EndTick \/ Stop \/ Start \/ MarkLost \/ UNCHANGED outboxVars
  <2>1. /\ UNCHANGED event /\ UNCHANGED delivered
        /\ \/ UNCHANGED <<todo, hand, stage>>
           \/ /\ stage' \in {"down", "wait", "claim", "batch"} /\ hand' \in {hand, None}
              /\ (todo' = {} \/ (todo' = todo /\ stage' = "batch"))
    BY <1>4 DEF EndTick, Stop, Start, MarkLost, NextInBatch, outboxVars, DispatchInv, HeldOnce
  <2> QED
    BY <1>0, <2>1, RowStep
<1> QED
  BY <1>1, <1>2, <1>3, <1>4, ClaimStep, SendStep, MarkStep DEF OutboxNext, Dispatch

-----------------------------------------------------------------------------
\* The inductive invariant holds of every behaviour of the dispatcher.
THEOREM DispatchCorrect == OutboxSpec => []DispatchInv
<1>1. OutboxInit => DispatchInv
  BY DispatchInit
<1>2. DispatchInv /\ [OutboxNext]_outboxVars => DispatchInv'
  BY DispatchStep
<1> QED
  BY <1>1, <1>2, PTL DEF OutboxSpec

\* However the process stops and statements fail, an event marked SENT has its message in
\* the chat (Dispatcher.process, MarkSent).
THEOREM SentSafe == OutboxSpec => []SentWasDelivered
<1>1. DispatchInv => SentWasDelivered
  BY DEF DispatchInv
<1> QED
  BY <1>1, DispatchCorrect, PTL

\* An event is DEAD after exactly MaxAttempts recorded failures (Dispatcher.fail, MarkFailed).
THEOREM DeadSafe == OutboxSpec => []DeadGaveUp
<1>1. DispatchInv => DeadGaveUp
  BY DEF DispatchInv
<1> QED
  BY <1>1, DispatchCorrect, PTL

\* A recorded result stands: no later tick takes the event again (ClaimPending).
THEOREM SettledSafe == OutboxSpec => SettledStays
<1>1. DispatchInv /\ [OutboxNext]_outboxVars =>
        [\A e \in Events : event[e].status \in {"SENT", "DEAD"} => event'[e].status = event[e].status]_outboxVars
  BY DispatchStep DEF Settled
<1> QED
  BY <1>1, DispatchCorrect, PTL DEF OutboxSpec, SettledStays
=============================================================================
