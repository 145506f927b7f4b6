---------------------------- MODULE Submissions ----------------------------
(***************************************************************************)
(* One contestant's work on one challenge, and the requests several tabs   *)
(* make about it at the same time (backend/internal/modules/submissions).  *)
(*                                                                         *)
(* A handler reads the work, checks, and writes in statements of its own:  *)
(* only the write of a revision with its outbox event, and the two writes  *)
(* about a file row and its link, are transactions.  A file is a row and   *)
(* an object in storage, which no transaction spans.  A handler may stop   *)
(* after any step: the client left, the process died, a statement failed.  *)
(*                                                                         *)
(* The key of an upload is the request's X-Request-ID, which a client may  *)
(* choose, and the name of the file: a call repeated with both comes to    *)
(* the object and the unique key of the first one.                         *)
(***************************************************************************)
EXTENDS Naturals, Sequences, FiniteSets

CONSTANTS
  Requests,      \* requests that can be in progress at the same time
  Answers,       \* what the form can be filled with
  Blank,         \* the answers of a new draft
  Files,         \* keys of files: an id of a request with a name
  NoFile,
  MaxRevision    \* bound on the number of revisions

ASSUME BlankFresh == Blank \notin Answers
ASSUME NoFileFresh == NoFile \notin Files
ASSUME MaxRevisionNat == MaxRevision \in Nat

VARIABLES
  work,      \* the submissions row: status, answers_json, current_revision_number
  revision,  \* submission_revisions by revision_number, UNIQUE per work
  outbox,    \* outbox_events about this work in commit order
  row,       \* files with their submission_files link: NONE, READY or DELETED
  stored,    \* objects in storage
  window,    \* the challenge is published and now is between its opening and its deadline
  request,   \* what each request is doing
  doubtful   \* history: keys uploaded again, or committed with the answer lost

vars == <<work, revision, outbox, row, stored, window, request, doubtful>>

Action(n) == IF n = 1 THEN "SUBMIT" ELSE "RESUBMIT"
NoWork == [status |-> "NONE", answers |-> Blank, current |-> 0]
Draft == [status |-> "DRAFT", answers |-> Blank, current |-> 0]
NoRevision == [action |-> "NONE", answers |-> Blank, files |-> {}]
Idle == [op |-> "none", at |-> "idle", answers |-> Blank, current |-> 0,
         files |-> {}, file |-> NoFile]

TypeOK ==
  /\ work \in [status: {"NONE", "DRAFT", "SUBMITTED"}, answers: Answers \cup {Blank},
               current: 0 .. MaxRevision]
  /\ revision \in [1 .. MaxRevision -> [action: {"NONE", "SUBMIT", "RESUBMIT"},
                                        answers: Answers \cup {Blank}, files: SUBSET Files]]
  /\ outbox \in Seq([revision: 1 .. MaxRevision, action: {"SUBMIT", "RESUBMIT"}])
  /\ row \in [Files -> {"NONE", "READY", "DELETED"}]
  /\ stored \subseteq Files
  /\ window \in BOOLEAN
  /\ request \in [Requests ->
       [op: {"none", "save", "submit", "upload", "delete"},
        at: {"idle", "write", "load", "commit", "put", "insert", "undo", "find", "unlink", "remove"},
        answers: Answers \cup {Blank}, current: 0 .. MaxRevision,
        files: SUBSET Files, file: Files \cup {NoFile}]]
  /\ doubtful \subseteq Files

Init ==
  /\ work = NoWork
  /\ revision = [n \in 1 .. MaxRevision |-> NoRevision]
  /\ outbox = <<>>
  /\ row = [f \in Files |-> "NONE"]
  /\ stored = {}
  /\ window \in BOOLEAN
  /\ request = [r \in Requests |-> Idle]
  /\ doubtful = {}

-----------------------------------------------------------------------------
(* What every handler begins with. *)

\* the existing work, or an empty draft: two tabs that both miss it insert one
EnsureDraft == IF work.status = "NONE" THEN Draft ELSE work

Goto(r, stage) == request' = [request EXCEPT ![r].at = stage]
Done(r) == request' = [request EXCEPT ![r] = Idle]

\* GET of the form: any published or closed challenge
OpenForm ==
  /\ work.status = "NONE"
  /\ work' = EnsureDraft
  /\ UNCHANGED <<revision, outbox, row, stored, window, request, doubtful>>

\* loadForWrite makes the draft before ensureWindowOpen may turn the request away
Admit(r, op, stage, answers, file) ==
  /\ request[r].at = "idle"
  /\ work' = EnsureDraft
  /\ IF window
     THEN request' = [request EXCEPT ![r] =
            [op |-> op, at |-> stage, answers |-> answers, current |-> EnsureDraft.current,
             files |-> {}, file |-> file]]
     ELSE UNCHANGED request
  /\ UNCHANGED <<revision, outbox, row, stored, window>>

-----------------------------------------------------------------------------
(* Saving and submitting the answers. *)

SaveDraft(r, answers) == Admit(r, "save", "write", answers, NoFile) /\ UNCHANGED doubtful

\* a mutant: the save also corrects the revision the contestant last sent
SaveAnswersToRevision(r) ==
  /\ request[r].at = "write"
  /\ work' = [work EXCEPT !.answers = request[r].answers]
  /\ revision' = [n \in 1 .. MaxRevision |->
       IF n = work.current THEN [revision[n] EXCEPT !.answers = request[r].answers] ELSE revision[n]]
  /\ Done(r)
  /\ UNCHANGED <<outbox, row, stored, window, doubtful>>

\* whatever the status: a draft is saved over a submitted work too
SaveAnswers(r) ==
  /\ request[r].at = "write"
  /\ work' = [work EXCEPT !.answers = request[r].answers]
  /\ Done(r)
  /\ UNCHANGED <<revision, outbox, row, stored, window, doubtful>>

Submit(r, answers) ==
  /\ work.current < MaxRevision
  /\ Admit(r, "submit", "load", answers, NoFile)
  /\ UNCHANGED doubtful

Linked == {f \in Files : row[f] = "READY"}

\* the form has a required field for files
LoadFiles(r) ==
  /\ request[r].at = "load"
  /\ IF Linked = {} THEN Done(r)
     ELSE request' = [request EXCEPT ![r].files = Linked, ![r].at = "commit"]
  /\ UNCHANGED <<work, revision, outbox, row, stored, window, doubtful>>

\* a mutant: two revisions may have one number
CommitRevisionTwice(r) ==
  LET n == request[r].current + 1 IN
  /\ request[r].at = "commit" /\ n <= MaxRevision
  /\ revision' = [revision EXCEPT ![n] = [action |-> Action(n),
                    answers |-> request[r].answers, files |-> request[r].files]]
  /\ work' = [status |-> "SUBMITTED", answers |-> request[r].answers, current |-> n]
  /\ outbox' = Append(outbox, [revision |-> n, action |-> Action(n)])
  /\ Done(r)
  /\ UNCHANGED <<row, stored, window, doubtful>>

\* the number is the one after the work that was read when the request began: if
\* another request has used it since, the insert fails and with it the transaction
CommitRevision(r) ==
  LET n == request[r].current + 1 IN
  /\ request[r].at = "commit" /\ n <= MaxRevision
  /\ revision[n] = NoRevision
  /\ revision' = [revision EXCEPT ![n] = [action |-> Action(n),
                    answers |-> request[r].answers, files |-> request[r].files]]
  /\ work' = [status |-> "SUBMITTED", answers |-> request[r].answers, current |-> n]
  /\ outbox' = Append(outbox, [revision |-> n, action |-> Action(n)])
  /\ Done(r)
  /\ UNCHANGED <<row, stored, window, doubtful>>

-----------------------------------------------------------------------------
(* Files: the object is stored before its row and removed after it. *)

\* nothing of the key is left: no row, no object, no request at work with it
Fresh(f) ==
  /\ row[f] = "NONE" /\ f \notin stored
  /\ \A r \in Requests : request[r].file # f

Doubt(f) == doubtful' = doubtful \cup {f}

UploadFile(r, f) ==
  /\ Admit(r, "upload", "put", Blank, f)
  /\ IF Fresh(f) THEN UNCHANGED doubtful ELSE Doubt(f)

\* an object already stored under the key is overwritten
PutObject(r) ==
  /\ request[r].at = "put"
  /\ stored' = stored \cup {request[r].file}
  /\ Goto(r, "insert")
  /\ UNCHANGED <<work, revision, outbox, row, window, doubtful>>

\* the row and its link, or neither and the object is to be taken back: the key is
\* unique, over deleted rows too, and a commit can take effect though it is answered
\* as failed
InsertFile(r) ==
  LET f == request[r].file IN
  /\ request[r].at = "insert"
  /\ \/ /\ row[f] = "NONE" /\ row' = [row EXCEPT ![f] = "READY"]
        /\ \/ Done(r) /\ UNCHANGED doubtful
           \/ Goto(r, "undo") /\ Doubt(f)
     \/ UNCHANGED <<row, doubtful>> /\ Goto(r, "undo")
  /\ UNCHANGED <<work, revision, outbox, stored, window>>

\* store.Remove: its error is dropped, so the object may stay
RemoveObject(r) ==
  /\ request[r].at \in {"undo", "remove"}
  /\ stored' \in {stored, stored \ {request[r].file}}
  /\ Done(r)
  /\ UNCHANGED <<work, revision, outbox, row, window, doubtful>>

DeleteFile(r, f) == Admit(r, "delete", "find", Blank, f) /\ UNCHANGED doubtful

FileForSubmission(r) ==
  /\ request[r].at = "find"
  /\ IF row[request[r].file] = "READY" THEN Goto(r, "unlink") ELSE Done(r)
  /\ UNCHANGED <<work, revision, outbox, row, stored, window, doubtful>>

\* a mutant: the object goes although the transaction did not
SoftDeleteFileUnchecked(r) ==
  /\ request[r].at = "unlink"
  /\ row' \in {row, [row EXCEPT ![request[r].file] = "DELETED"]}
  /\ Goto(r, "remove")
  /\ UNCHANGED <<work, revision, outbox, stored, window, doubtful>>

\* no link left to delete: another request was first
SoftDeleteFile(r) ==
  /\ request[r].at = "unlink"
  /\ IF row[request[r].file] = "READY"
     THEN row' = [row EXCEPT ![request[r].file] = "DELETED"] /\ Goto(r, "remove")
     ELSE UNCHANGED row /\ Done(r)
  /\ UNCHANGED <<work, revision, outbox, stored, window, doubtful>>

-----------------------------------------------------------------------------
(* The world around. *)

\* the client is gone, the process is restarted, or a statement fails
Abandon(r) ==
  /\ request[r].at # "idle"
  /\ Done(r)
  /\ UNCHANGED <<work, revision, outbox, row, stored, window, doubtful>>

\* the opening or the deadline passes, or an administrator publishes or closes
MoveWindow ==
  /\ window' = ~window
  /\ UNCHANGED <<work, revision, outbox, row, stored, request, doubtful>>

Serve(r) ==
  \/ \E answers \in Answers : SaveDraft(r, answers) \/ Submit(r, answers)
  \/ \E f \in Files : UploadFile(r, f) \/ DeleteFile(r, f)
  \/ SaveAnswers(r) \/ LoadFiles(r) \/ CommitRevision(r)
  \/ PutObject(r) \/ InsertFile(r) \/ RemoveObject(r)
  \/ FileForSubmission(r) \/ SoftDeleteFile(r)
  \/ Abandon(r)

Next == OpenForm \/ MoveWindow \/ \E r \in Requests : Serve(r)

Spec == Init /\ [][Next]_vars
-----------------------------------------------------------------------------
(* Properties. *)

\* However submissions overlap, the revisions are numbered from 1 without a gap, the
\* work counts them, and each has its one event: SUBMIT for the first, RESUBMIT after.
RevisionsComplete ==
  /\ work.status = "SUBMITTED" <=> work.current > 0
  /\ Len(outbox) = work.current
  /\ \A n \in 1 .. MaxRevision :
       IF n <= work.current
       THEN revision[n].action = Action(n) /\ outbox[n] = [revision |-> n, action |-> Action(n)]
       ELSE revision[n] = NoRevision

\* A revision, once written, is never written again.
RevisionsImmutable ==
  [][\A n \in 1 .. MaxRevision : revision[n] # NoRevision => revision'[n] = revision[n]]_vars

\* A file the form shows can be downloaded: its object is in storage, through uploads
\* and deletions that overlap or stop half way.  Not so a file whose key was uploaded
\* again while something of it was left, or whose insert was committed but answered as
\* failed (doubtful): the upload that failed takes the object back.
ShownFilesStored == \A f \in Files \ doubtful : row[f] = "READY" => f \in stored

\* The same of every file, which the code does not keep.
AllShownFilesStored == \A f \in Files : row[f] = "READY" => f \in stored

\* "A file of an old revision does not disappear" (SITE.md, 13.6).
RevisionFilesKept == \A n \in 1 .. MaxRevision : revision[n].files \subseteq stored
=============================================================================
