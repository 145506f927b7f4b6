----------------------------- MODULE Challenges -----------------------------
(***************************************************************************)
(* The challenges of a contest: their forms and the versions kept of them, *)
(* and the briefings contestants are shown                                 *)
(* (backend/internal/modules/challenges).                                  *)
(*                                                                         *)
(* No request here is one transaction.  An edit of the form reads the      *)
(* challenge, writes the field, and, when the challenge was PUBLISHED as   *)
(* read, bumps the version, reads the form and keeps it under that         *)
(* version.  A briefing's file is an object in storage, a row of files and *)
(* a link; the key of the object is the request's X-Request-ID, which a    *)
(* client may choose, with the size and the name of the file.              *)
(***************************************************************************)
EXTENDS Contest, SequencesExt

CONSTANTS
  Tests,            \* the challenges
  Fields,           \* keys of form fields
  ValidFieldTypes,  \* types a field may have
  Contestants,      \* accounts that take part as contestants
  Uploads,          \* ids of requests with the size and the name of a file
  MaxVersion,       \* bound on schema versions
  MaxClock,         \* bound on time: the instants a briefing may be published at
  MaxBriefingFiles, \* how many files a briefing may have
  OverrideInputs    \* what an administrator may ask of one contestant's briefing

ASSUME MaxVersionPos == MaxVersion \in Nat \ {0}
ASSUME MaxClockNat == MaxClock \in Nat

VARIABLES
  challenge,   \* contest_challenges: status, current_schema_version, accepts_submissions
  form,        \* the live challenge_fields in their order
  snapshot,    \* challenge_schema_versions
  briefing,    \* challenge_briefings: has text, publish_at; whether the row exists
  override,    \* challenge_briefing_overrides by challenge and contestant
  filed,       \* keys with a row in files, where object_key is unique; deleted rows stay
  link,        \* challenge_briefing_files: what each file is attached to
  stored,      \* objects in storage
  clock,
  loose,       \* challenges whose form was changed by a request that keeps no version of it
  doubtful     \* history: keys uploaded again, or linked with the answer lost

challengeVars == <<challenge, form, snapshot, briefing, override, filed, link, stored, clock, loose, doubtful>>
formVars == <<challenge, form, snapshot, loose>>
briefingVars == <<briefing, override, filed, link, stored, clock, doubtful>>

ChallengeStatus == {"NONE", "DRAFT", "PUBLISHED", "CLOSED", "ARCHIVED"}
Instants == 0 .. MaxClock
Keys == Tests \X Uploads    \* the key of an object begins with its challenge

KeysOf(fields) == {fields[i].key : i \in DOMAIN fields}
Forms == {fields \in UNION {[1 .. n -> [key: Fields, type: ValidFieldTypes]] : n \in 0 .. Cardinality(Fields)} :
            Cardinality(KeysOf(fields)) = Len(fields)}

NoBriefing == [exists |-> FALSE, text |-> FALSE, publish |-> None]
NoOverride(row) == [exists |-> FALSE, row |-> row, text |-> "default", publish |-> None,
                    custom |-> FALSE, hidden |-> FALSE, replace |-> FALSE]
NotLinked == [on |-> None, for |-> None]

ChallengesTypeOK ==
  /\ contest \in ContestStatus
  /\ challenge \in [Tests -> [status: ChallengeStatus, version: 1 .. MaxVersion, accepts: BOOLEAN]]
  /\ form \in [Tests -> Forms]
  /\ snapshot \in [Tests -> [1 .. MaxVersion -> Forms \cup {None}]]
  /\ briefing \in [Tests -> [exists: BOOLEAN, text: BOOLEAN, publish: Instants \cup {None}]]
  /\ override \in [Tests -> [Contestants ->
       [exists: BOOLEAN, row: Nat, text: {"default", "some", "empty"}, publish: Instants \cup {None},
        custom: BOOLEAN, hidden: BOOLEAN, replace: BOOLEAN]]]
  /\ filed \subseteq Keys
  /\ link \in [Keys -> [on: Tests \cup {None}, for: Contestants \cup {None}]]
  /\ stored \subseteq Keys
  /\ clock \in Instants
  /\ loose \subseteq Tests
  /\ doubtful \subseteq Keys

----------------------------------------------------------------------------
(* The form and its versions                                                *)

Exists(c) == challenge[c].status # "NONE"

\* a new challenge is a DRAFT with an empty form
Create(c) ==
  /\ ~Exists(c) /\ Accepted
  /\ \E accepts \in BOOLEAN :
       challenge' = [challenge EXCEPT ![c] = [status |-> "DRAFT", version |-> 1, accepts |-> accepts]]
  /\ UNCHANGED <<contest, request, form, snapshot, loose, briefingVars>>

\* the title, the dates and whether it accepts work; no version is kept of these
Update(c) ==
  /\ Exists(c) /\ Accepted
  /\ \E accepts \in BOOLEAN : challenge' = [challenge EXCEPT ![c].accepts = accepts]
  /\ UNCHANGED <<contest, request, form, snapshot, loose, briefingVars>>

CreateField(fields) ==
  {Append(fields, f) : f \in {g \in [key: Fields, type: ValidFieldTypes] : g.key \notin KeysOf(fields)}}
UpdateField(fields) ==
  {[fields EXCEPT ![i] = f] : i \in DOMAIN fields, f \in [key: Fields, type: ValidFieldTypes]} \cap Forms
DeleteField(fields) == {RemoveAt(fields, i) : i \in DOMAIN fields}
ReorderFields(fields) ==
  {[i \in DOMAIN fields |-> fields[order[i]]] : order \in Permutations(DOMAIN fields)}

\* one write to challenge_fields; a taken key or a field that is gone writes nothing
Written(fields) ==
  CreateField(fields) \cup UpdateField(fields) \cup DeleteField(fields) \cup ReorderFields(fields)

\* an edit begins: the challenge is read
BeginEdit(r, c) ==
  /\ Free(r) /\ Exists(c) /\ Accepted
  /\ Becomes(r, Doing("edit", "field", c, challenge[c].status, None))
  /\ UNCHANGED <<contest, challengeVars>>

\* a version of this form is already kept, or another request is about to keep one
BeingKept(c) ==
  \/ challenge[c].status = "PUBLISHED"
  \/ snapshot[c][challenge[c].version] # None
  \/ \E r \in Requests : request[r].on = c /\ request[r].at \in {"status", "read", "save"}

\* the field is written; only an edit that saw the challenge PUBLISHED goes on to version it
WriteVersioning(r, versioned) ==
  LET c == request[r].on
      published == request[r].seen = "PUBLISHED"
  IN /\ At(r, "edit", "field")
     /\ \E fields \in Written(form[c]) :
          /\ form' = [form EXCEPT ![c] = fields]
          /\ IF published /\ fields \in versioned THEN Becomes(r, [request[r] EXCEPT !.at = "bump"]) ELSE Done(r)
     /\ loose' = IF ~published /\ BeingKept(c) THEN loose \cup {c} ELSE loose
     /\ UNCHANGED <<contest, changes, challenge, snapshot, briefingVars>>

\* a mutant: putting the fields in another order keeps no version
WriteFieldOrderUnversioned(r) ==
  LET fields == form[request[r].on]
  IN WriteVersioning(r, CreateField(fields) \cup UpdateField(fields) \cup DeleteField(fields))
WriteField(r) == WriteVersioning(r, Written(form[request[r].on]))

BumpSchemaVersion(r) ==
  LET c == request[r].on
      next == challenge[c].version + 1
  IN /\ At(r, "edit", "bump") /\ next <= MaxVersion
     /\ challenge' = [challenge EXCEPT ![c].version = next]
     /\ Becomes(r, [request[r] EXCEPT !.at = "read", !.seen = next])
     /\ loose' = loose \ {c}
     /\ UNCHANGED <<contest, changes, form, snapshot, briefingVars>>

SchemaJSON(r) ==
  /\ request[r].at = "read"
  /\ Becomes(r, [request[r] EXCEPT !.at = "save", !.arg = form[request[r].on]])
  /\ UNCHANGED <<contest, changes, challengeVars>>

\* the form as it is now is kept under the version; a version that is kept stays as it is
SaveSnapshot(r) ==
  LET c == request[r].on
      version == request[r].seen
  IN /\ request[r].at = "save"
     /\ snapshot' = IF snapshot[c][version] = None
                    THEN [snapshot EXCEPT ![c][version] = request[r].arg] ELSE snapshot
     /\ Done(r)
     /\ UNCHANGED <<contest, changes, challenge, form, loose, briefingVars>>

allowedStatus == [s \in ChallengeStatus |->
  CASE s = "DRAFT" -> {"PUBLISHED", "ARCHIVED"}
    [] s = "PUBLISHED" -> {"CLOSED", "ARCHIVED"}
    [] s = "CLOSED" -> {"PUBLISHED", "ARCHIVED"}
    [] OTHER -> {}]

\* the status and the version are read and the target is looked up in the table
BeginStatus(r, c, target) ==
  /\ Free(r) /\ Accepted
  /\ target \in allowedStatus[challenge[c].status]
  /\ Becomes(r, Doing("challenge", "status", c, challenge[c].version, target))
  /\ UNCHANGED <<contest, challengeVars>>

\* the status is written unconditionally; publishing goes on to keep the form under the version read
SetChallengeStatus(r) ==
  LET c == request[r].on
      target == request[r].arg
  IN /\ At(r, "challenge", "status")
     /\ challenge' = [challenge EXCEPT ![c].status = target]
     /\ IF target = "PUBLISHED" THEN Becomes(r, [request[r] EXCEPT !.at = "read", !.arg = None]) ELSE Done(r)
     /\ UNCHANGED <<contest, changes, form, snapshot, loose, briefingVars>>

\* a copy is made of a challenge: the form is read, a DRAFT is created, then field by field
BeginDuplicate(r, c) ==
  /\ Free(r) /\ Exists(c) /\ Accepted
  /\ Becomes(r, Doing("duplicate", "create", c, challenge[c].accepts, form[c]))
  /\ UNCHANGED <<contest, challengeVars>>

CreateCopy(r, d) ==
  /\ At(r, "duplicate", "create") /\ ~Exists(d)
  /\ challenge' = [challenge EXCEPT ![d] = [status |-> "DRAFT", version |-> 1, accepts |-> request[r].seen]]
  /\ Becomes(r, [request[r] EXCEPT !.at = "copy", !.on = d])
  /\ UNCHANGED <<contest, changes, form, snapshot, loose, briefingVars>>

\* the next field of the original; a key the copy already has ends the request
CopyField(r) ==
  LET c == request[r].on
      rest == request[r].arg
  IN /\ At(r, "duplicate", "copy") /\ rest # <<>>
     /\ IF Head(rest).key \in KeysOf(form[c])
          THEN Done(r) /\ UNCHANGED form
          ELSE /\ form' = [form EXCEPT ![c] = Append(@, Head(rest))]
               /\ Becomes(r, [request[r] EXCEPT !.arg = Tail(rest)])
     /\ loose' = IF BeingKept(c) THEN loose \cup {c} ELSE loose
     /\ UNCHANGED <<contest, changes, challenge, snapshot, briefingVars>>

EndCopy(r) ==
  /\ At(r, "duplicate", "copy") /\ request[r].arg = <<>>
  /\ Done(r)
  /\ UNCHANGED <<contest, changes, challengeVars>>

----------------------------------------------------------------------------
(* Briefings                                                                *)

UpsertBriefing(c, text, publish) ==
  briefing' = [briefing EXCEPT ![c] = [exists |-> TRUE, text |-> text, publish |-> publish]]

AdminSaveBriefing(c) ==
  /\ Exists(c) /\ Accepted
  /\ \E text \in BOOLEAN, publish \in Instants \cup {None} : UpsertBriefing(c, text, publish)
  /\ UNCHANGED <<contest, request, formVars, override, filed, link, stored, clock, doubtful>>

\* every column is replaced; a row that is made anew has another id
UpsertOverride(c, u, input) ==
  override' = [override EXCEPT ![c][u] =
    [exists |-> TRUE, row |-> IF @.exists THEN @.row ELSE @.row + 1,
     text |-> input.text, publish |-> input.publish, custom |-> input.custom,
     hidden |-> input.hidden, replace |-> input.replace]]

\* an instant counts only when the publication is the contestant's own
AdminSaveOverride(c, u, input) ==
  /\ Exists(c) /\ Accepted
  /\ UpsertOverride(c, u, [input EXCEPT !.publish = IF input.custom THEN @ ELSE None])
  /\ UNCHANGED <<contest, request, formVars, briefing, filed, link, stored, clock, doubtful>>

\* the links of its files go with the row; the objects stay
AdminClearOverride(c, u) ==
  /\ override[c][u].exists /\ Accepted
  /\ override' = [override EXCEPT ![c][u] = NoOverride(@.row)]
  /\ link' = [k \in Keys |-> IF link[k] = [on |-> c, for |-> u] THEN NotLinked ELSE link[k]]
  /\ UNCHANGED <<contest, request, formVars, briefing, filed, stored, clock, doubtful>>

\* a file for everybody (u = None) or for one contestant, whose override must replace the files
BeginUpload(r, c, u) ==
  /\ Free(r) /\ Exists(c) /\ Accepted
  /\ Becomes(r, Doing("upload", IF u # None /\ ~override[c][u].replace THEN "override" ELSE "put",
                      <<c, u>>, IF u = None THEN None ELSE override[c][u], None))
  /\ UNCHANGED <<contest, challengeVars>>

\* the override is written back as it was read, with its own files
ReplaceFiles(r) ==
  LET c == request[r].on[1]
      u == request[r].on[2]
      read == request[r].seen
  IN /\ At(r, "upload", "override")
     /\ UpsertOverride(c, u, [read EXCEPT !.replace = TRUE])
     /\ Becomes(r, [request[r] EXCEPT !.at = "put", !.seen = override'[c][u]])
     /\ UNCHANGED <<contest, changes, formVars, briefing, filed, link, stored, clock, doubtful>>

listBriefingFiles(c, u) == {k \in Keys : link[k] = [on |-> c, for |-> u]}

\* nothing is stored under the key and no request has it in hand
Fresh(k) ==
  /\ k \notin stored
  /\ \A q \in Requests : request[q].op \in {"upload", "unlink"} => request[q].arg # k

Doubt(k) == doubtful' = doubtful \cup {k}

\* there is room for one more file, and its object is stored, over the one that has its key
PutBriefingFile(r, k) ==
  LET c == request[r].on[1]
      u == request[r].on[2]
  IN /\ At(r, "upload", "put") /\ k[1] = c
     /\ IF Cardinality(listBriefingFiles(c, u)) >= MaxBriefingFiles
          THEN Done(r) /\ UNCHANGED <<stored, doubtful>>
          ELSE /\ stored' = stored \cup {k}
               /\ IF Fresh(k) THEN UNCHANGED doubtful ELSE Doubt(k)
               /\ Becomes(r, [request[r] EXCEPT !.at = "insert", !.arg = k])
     /\ UNCHANGED <<contest, changes, formVars, briefing, override, filed, link, clock>>

\* the row of files is inserted; a key that has one, or an answer that is lost, and the
\* object is removed again
InsertBriefingFile(r) ==
  LET k == request[r].arg IN
  /\ At(r, "upload", "insert")
  /\ \/ /\ k \notin filed /\ filed' = filed \cup {k}
        /\ Becomes(r, [request[r] EXCEPT !.at = "link"])
     \/ /\ filed' \in {filed, filed \cup {k}}
        /\ Becomes(r, [request[r] EXCEPT !.at = "remove"])
  /\ UNCHANGED <<contest, changes, formVars, briefing, override, link, stored, clock, doubtful>>

\* the link is inserted, unless the override it names is gone: then, or when the answer is
\* lost, the object is removed again
LinkBriefingFile(r) ==
  LET c == request[r].on[1]
      u == request[r].on[2]
      k == request[r].arg
  IN /\ At(r, "upload", "link")
     /\ \/ /\ u # None => override[c][u].exists /\ override[c][u].row = request[r].seen.row
           /\ link' = [link EXCEPT ![k] = [on |-> c, for |-> u]]
           /\ \/ Done(r) /\ UNCHANGED doubtful
              \/ Becomes(r, [request[r] EXCEPT !.at = "remove"]) /\ Doubt(k)
        \/ Becomes(r, [request[r] EXCEPT !.at = "remove"]) /\ UNCHANGED <<link, doubtful>>
     /\ UNCHANGED <<contest, changes, formVars, briefing, override, filed, stored, clock>>

\* the error of the removal is dropped, so the object may stay
RemoveObject(r) ==
  /\ request[r].at = "remove"
  /\ stored' \in {stored, stored \ {request[r].arg}}
  /\ Done(r)
  /\ UNCHANGED <<contest, changes, formVars, briefing, override, filed, link, clock, doubtful>>

\* a mutant: the object is removed before the rows
DeleteBriefingFileObjectFirst(r, k) ==
  /\ Free(r) /\ link[k] # NotLinked /\ Accepted
  /\ stored' = stored \ {k}
  /\ link' \in {link, [link EXCEPT ![k] = NotLinked]}
  /\ UNCHANGED <<contest, request, formVars, briefing, override, filed, clock, doubtful>>

\* the link first, then the object; the row of files stays, marked DELETED
DeleteBriefingFile(r, k) ==
  /\ Free(r) /\ link[k] # NotLinked /\ Accepted
  /\ link' = [link EXCEPT ![k] = NotLinked]
  /\ Becomes(r, Doing("unlink", "remove", None, None, k))
  /\ UNCHANGED <<contest, formVars, briefing, override, filed, stored, clock, doubtful>>

----------------------------------------------------------------------------
(* What a contestant is shown                                               *)

\* the files of a briefing without a row are not listed
defaultFiles(c) == IF briefing[c].exists THEN listBriefingFiles(c, None) ELSE {}

\* a hidden briefing shows nothing; otherwise each part is the contestant's own or the default
resolveBriefing(c, u) ==
  LET own == override[c][u]
      publish == IF own.exists /\ own.custom THEN own.publish ELSE briefing[c].publish
      text == IF own.exists /\ own.text # "default" THEN own.text = "some" ELSE briefing[c].text
      files == IF own.exists /\ own.replace THEN listBriefingFiles(c, u) ELSE defaultFiles(c)
      shown == ~(own.exists /\ own.hidden) /\ publish # None
  IN [visible |-> shown /\ publish <= clock /\ (text \/ files # {}),
      scheduled |-> shown /\ publish > clock]

contestantSeesBriefing(c, u) ==
  resolveBriefing(c, u).visible \/ resolveBriefing(c, u).scheduled

TakesWork(c) == challenge[c].status = "PUBLISHED" /\ challenge[c].accepts

\* whether ContestantGet opens the challenge for a contestant
ensureContestantChallenge(c, u) ==
  /\ challenge[c].status \notin {"NONE", "ARCHIVED"}
  /\ TakesWork(c) \/ contestantSeesBriefing(c, u)

\* a mutant: a publication of the contestant's own is not looked for
ListForContestantDefault(u) ==
  {c \in Tests :
     /\ challenge[c].status \notin {"NONE", "ARCHIVED"}
     /\ \/ TakesWork(c)
        \/ briefing[c].exists /\ briefing[c].publish # None /\ ~override[c][u].hidden}

\* the challenges the database query lists for a contestant
ListForContestant(u) ==
  {c \in Tests :
     /\ challenge[c].status \notin {"NONE", "ARCHIVED"}
     /\ \/ TakesWork(c)
        \/ /\ briefing[c].exists /\ briefing[c].publish # None
           /\ ~override[c][u].hidden
           /\ ~(override[c][u].custom /\ override[c][u].publish = None)
        \/ /\ override[c][u].exists /\ ~override[c][u].hidden
           /\ override[c][u].custom /\ override[c][u].publish # None}

\* time passes; the instants that matter are the ones something is published at
Tick ==
  /\ clock < MaxClock /\ clock' = clock + 1
  /\ \E c \in Tests : \/ briefing[c].publish = clock'
                     \/ \E u \in Contestants : override[c][u].publish = clock'
  /\ UNCHANGED <<contestVars, formVars, briefing, override, filed, link, stored, doubtful>>

\* a request that stops leaves the form without the version it was to keep
StopChallenge(r) ==
  /\ request[r].op \in {"edit", "challenge", "duplicate", "upload", "unlink"}
  /\ Stop(r)
  /\ loose' = IF request[r].at \in {"bump", "read", "save"} THEN loose \cup {request[r].on} ELSE loose
  /\ UNCHANGED <<challenge, form, snapshot, briefingVars>>

ChallengesInit ==
  /\ \E fields \in {f \in Forms : KeysOf(f) = Fields} :
       /\ challenge \in {[c \in Tests |-> [status |-> IF c = d THEN "PUBLISHED" ELSE "NONE",
                                           version |-> 1, accepts |-> TRUE]] : d \in Tests}
       /\ form = [c \in Tests |-> IF Exists(c) THEN fields ELSE <<>>]
       /\ snapshot = [c \in Tests |-> [v \in 1 .. MaxVersion |->
                        IF Exists(c) /\ v = 1 THEN fields ELSE None]]
  /\ briefing = [c \in Tests |-> NoBriefing]
  /\ override = [c \in Tests |-> [u \in Contestants |-> NoOverride(0)]]
  /\ link = [k \in Keys |-> NotLinked]
  /\ filed = {} /\ stored = {} /\ clock = 0 /\ loose = {} /\ doubtful = {}

\* one request of an administrator begins, or goes on by one statement
FormNext ==
  \E r \in Requests :
    \/ \E c \in Tests : Create(c) \/ Update(c) \/ BeginEdit(r, c) \/ BeginDuplicate(r, c) \/ CreateCopy(r, c)
    \/ \E c \in Tests, target \in ChallengeStatus : BeginStatus(r, c, target)
    \/ WriteField(r) \/ BumpSchemaVersion(r) \/ SchemaJSON(r) \/ SaveSnapshot(r)
    \/ SetChallengeStatus(r) \/ CopyField(r) \/ EndCopy(r)

BriefingNext ==
  \E r \in Requests :
    \/ \E c \in Tests : AdminSaveBriefing(c)
    \/ \E c \in Tests, u \in Contestants :
         AdminClearOverride(c, u) \/ \E input \in OverrideInputs : AdminSaveOverride(c, u, input)
    \/ \E c \in Tests, u \in Contestants \cup {None} : BeginUpload(r, c, u)
    \/ ReplaceFiles(r) \/ InsertBriefingFile(r) \/ LinkBriefingFile(r) \/ RemoveObject(r)
    \/ \E k \in Keys : PutBriefingFile(r, k) \/ DeleteBriefingFile(r, k)

ChallengesNext == FormNext \/ BriefingNext \/ Tick \/ \E r \in Requests : StopChallenge(r)

----------------------------------------------------------------------------
\* Once nobody is at work on it, a published challenge's current version is the form its
\* contestants fill in, whatever edits and publications overlapped, unless a request that
\* keeps no version changed the form (SITE.md 11.4; service_fields.go versionIfPublished,
\* service_status.go Transition).
SnapshotCurrent ==
  \A c \in Tests : (Quiet /\ challenge[c].status = "PUBLISHED" /\ c \notin loose)
                    => snapshot[c][challenge[c].version] = form[c]

\* Whatever a contestant may open is in the list they are shown: the rule the service applies
\* to one challenge and the query that lists them agree (service_read.go
\* ensureContestantChallenge, repo.go ListForContestant).
AccessibleIsListed ==
  \A c \in Tests, u \in Contestants : ensureContestantChallenge(c, u) => c \in ListForContestant(u)

\* Every file of a briefing can be downloaded: its object is stored for as long as the row
\* names it, whichever uploads, deletions and cleared overrides overlap or stop half way
\* (service_briefing.go UploadBriefingFile and DeleteBriefingFile).  Not so a file whose key
\* was uploaded again while its object was stored, or whose link was written but answered as
\* failed (doubtful): the upload that failed removes the object.
LinkedFileStored == \A k \in Keys \ doubtful : link[k] # NotLinked => k \in stored

\* The same of every file, which the code does not keep.
AllLinkedFilesStored == \A k \in Keys : link[k] # NotLinked => k \in stored
=============================================================================
