----------------------------- MODULE Attendance -----------------------------
(***************************************************************************)
(* Attendance at lectures (backend/internal/modules/lectures): an          *)
(* organiser scans the short-lived QR code on a participant's telephone;   *)
(* the scan records the attendance, uses the code up and credits points.   *)
(*                                                                         *)
(* A scan is one transaction of several statements.  It holds the lecture  *)
(* FOR SHARE and the code FOR UPDATE to its end; the row it inserts makes  *)
(* another scan of the same participant wait at the unique index.  What it *)
(* writes is seen when it commits.                                         *)
(*                                                                         *)
(* Refusals that depend on data no property tells apart (the attendance    *)
(* window, the participant's direction and status, the contest's status)   *)
(* are the choice of EndScan.  Time is the order in which codes expire.    *)
(***************************************************************************)
EXTENDS Naturals, FiniteSets

CONSTANTS
  Lectures, Participants,
  Codes,       \* nonces
  Scanners,    \* requests of organisers
  Points,      \* what a lecture may be worth
  NoLecture, NoCode, Nobody

ASSUME PointsPositive == Points \subseteq Nat \ {0}
ASSUME NamesFresh == NoLecture \notin Lectures /\ NoCode \notin Codes /\ Nobody \notin Participants

VARIABLES
  lecture,      \* lectures: status and points
  code,         \* participant_qr_codes: age, owner and the lecture it was used for
  attendance,   \* lecture_attendance
  credited,     \* points_ledger: LECTURE_ATTENDANCE entries, summed for a lecture and a participant
  scan          \* where each request is, and the points it has read

vars == <<lecture, code, attendance, credited, scan>>

NoLectureYet == [status |-> "NONE", points |-> 0]
NoCodeRow == [state |-> "none", owner |-> Nobody, used |-> NoLecture]
Purged == [state |-> "gone", owner |-> Nobody, used |-> NoLecture]
NoScan == [stage |-> "idle", lecture |-> NoLecture, code |-> NoCode, points |-> 0]

CodeRow == [state: {"none", "live", "old", "gone"}, owner: Participants \cup {Nobody},
            used: Lectures \cup {NoLecture}]
ScanRow == [stage: {"idle", "begun", "lecture", "code", "checked", "inserted"},
            lecture: Lectures \cup {NoLecture}, code: Codes \cup {NoCode}, points: Points \cup {0}]
Row == [lecture: Lectures, participant: Participants, code: Codes, points: Points]

TypeOK ==
  /\ lecture \in [Lectures -> [status: {"NONE", "DRAFT", "ACTIVE", "FINISHED", "DELETED"},
                               points: Points \cup {0}]]
  /\ code \in [Codes -> CodeRow]
  /\ attendance \subseteq Row
  /\ credited \in [Lectures -> [Participants -> Nat]]
  /\ scan \in [Scanners -> ScanRow]

Init ==
  /\ lecture = [l \in Lectures |-> NoLectureYet]
  /\ code = [c \in Codes |-> NoCodeRow]
  /\ attendance = {}
  /\ credited = [l \in Lectures |-> [p \in Participants |-> 0]]
  /\ scan = [s \in Scanners |-> NoScan]

-----------------------------------------------------------------------------
(* Locks and rows. *)

\* a mutant: the scan reads the lecture without locking it
NotShared(l) == FALSE

\* some scan has the lecture FOR SHARE: an UPDATE or DELETE of it waits
Shared(l) == \E s \in Scanners : scan[s].lecture = l /\ scan[s].stage \notin {"idle", "begun"}

\* some scan has the code FOR UPDATE
Locked(c) == \E s \in Scanners : scan[s].code = c /\ scan[s].stage \in {"code", "checked", "inserted"}

Owner(s) == code[scan[s].code].owner

Attended(l, p) == \E a \in attendance : a.lecture = l /\ a.participant = p

\* a row for the same lecture and participant that is not committed: the insert waits for it
Pending(s) == \E t \in Scanners \ {s} :
  scan[t].stage = "inserted" /\ scan[t].lecture = scan[s].lecture /\ Owner(t) = Owner(s)

-----------------------------------------------------------------------------
(* Lectures. *)

CreateLecture(l, n) ==
  /\ lecture[l].status = "NONE"
  /\ lecture' = [lecture EXCEPT ![l] = [status |-> "DRAFT", points |-> n]]
  /\ UNCHANGED <<code, attendance, credited, scan>>

UpdateLecture(l, n) ==
  /\ lecture[l].status \in {"DRAFT", "ACTIVE"} /\ ~Shared(l)
  /\ lecture' = [lecture EXCEPT ![l].points = n]
  /\ UNCHANGED <<code, attendance, credited, scan>>

\* the status is read first and again in the WHERE of the update: it has not changed between
Activate(l) ==
  /\ lecture[l].status \in {"DRAFT", "FINISHED"} /\ ~Shared(l)
  /\ lecture' = [lecture EXCEPT ![l].status = "ACTIVE"]
  /\ UNCHANGED <<code, attendance, credited, scan>>

Finish(l) ==
  /\ lecture[l].status = "ACTIVE" /\ ~Shared(l)
  /\ lecture' = [lecture EXCEPT ![l].status = "FINISHED"]
  /\ UNCHANGED <<code, attendance, credited, scan>>

DeleteLecture(l) ==
  /\ lecture[l].status = "DRAFT" /\ ~Shared(l)
  /\ \A p \in Participants : ~Attended(l, p)
  /\ lecture' = [lecture EXCEPT ![l].status = "DELETED"]
  /\ UNCHANGED <<code, attendance, credited, scan>>

-----------------------------------------------------------------------------
(* Codes. *)

\* CreateCode first deletes the codes that expired a day ago; which ones, time decides.
\* For an inactive participant or contest nothing is inserted and the deletion is undone.
IssueCode(c, p) ==
  /\ code[c].state = "none"
  /\ \E ancient \in SUBSET {d \in Codes : code[d].state = "old" /\ ~Locked(d)} :
       code' = [d \in Codes |-> CASE d = c -> [state |-> "live", owner |-> p, used |-> NoLecture]
                                  [] d \in ancient -> Purged
                                  [] OTHER -> code[d]]
  /\ UNCHANGED <<lecture, attendance, credited, scan>>

Expire(c) ==
  /\ code[c].state = "live"
  /\ code' = [code EXCEPT ![c].state = "old"]
  /\ UNCHANGED <<lecture, attendance, credited, scan>>

-----------------------------------------------------------------------------
(* A scan. *)

GoesTo(s, stage) == scan' = [scan EXCEPT ![s].stage = stage]
Leaves(s) == scan' = [scan EXCEPT ![s] = NoScan]

\* The token is verified when the request begins and its moment kept: a code that expires
\* later is still accepted.
BeginScan(s, l, c) ==
  /\ scan[s] = NoScan
  /\ code[c].state = "live" /\ lecture[l].status # "NONE"
  /\ scan' = [scan EXCEPT ![s] = [stage |-> "begun", lecture |-> l, code |-> c, points |-> 0]]
  /\ UNCHANGED <<lecture, code, attendance, credited>>

LockLecture(s) ==
  /\ scan[s].stage = "begun"
  /\ lecture[scan[s].lecture].status = "ACTIVE"
  /\ scan' = [scan EXCEPT ![s].stage = "lecture", ![s].points = lecture[scan[s].lecture].points]
  /\ UNCHANGED <<lecture, code, attendance, credited>>

LockCode(s) ==
  /\ scan[s].stage = "lecture"
  /\ code[scan[s].code].state \in {"live", "old"} /\ ~Locked(scan[s].code)
  /\ GoesTo(s, "code")
  /\ UNCHANGED <<lecture, code, attendance, credited>>

CheckNew(s) ==
  /\ scan[s].stage = "code"
  /\ ~Attended(scan[s].lecture, Owner(s))
  /\ code[scan[s].code].used = NoLecture
  /\ GoesTo(s, "checked")
  /\ UNCHANGED <<lecture, code, attendance, credited>>

\* a mutant: an insert that trusts the check before it
InsertUnchecked(s) ==
  /\ scan[s].stage = "checked"
  /\ GoesTo(s, "inserted")
  /\ UNCHANGED <<lecture, code, attendance, credited>>

\* both unique indexes let the row in
Insert(s) ==
  /\ scan[s].stage = "checked"
  /\ ~Pending(s) /\ ~Attended(scan[s].lecture, Owner(s))
  /\ \A a \in attendance : a.code # scan[s].code
  /\ GoesTo(s, "inserted")
  /\ UNCHANGED <<lecture, code, attendance, credited>>

UseCode(s) == code' = [code EXCEPT ![scan[s].code].used = IF @ = NoLecture THEN scan[s].lecture ELSE @]

\* ON CONFLICT DO NOTHING: another code of the participant was first; this one is used up too
InsertNothing(s) ==
  /\ scan[s].stage = "checked"
  /\ ~Pending(s) /\ Attended(scan[s].lecture, Owner(s))
  /\ UseCode(s) /\ Leaves(s)
  /\ UNCHANGED <<lecture, attendance, credited>>

NewRow(s) == [lecture |-> scan[s].lecture, participant |-> Owner(s),
              code |-> scan[s].code, points |-> scan[s].points]

Credit(s) == credited' = [credited EXCEPT ![scan[s].lecture][Owner(s)] = @ + scan[s].points]

\* a mutant: the code stays unused
CommitKeepingCode(s) ==
  /\ scan[s].stage = "inserted"
  /\ attendance' = attendance \cup {NewRow(s)} /\ Credit(s) /\ Leaves(s)
  /\ UNCHANGED <<lecture, code>>

\* the code is marked, the points are appended and the audit row written, and all commit
Commit(s) ==
  /\ scan[s].stage = "inserted"
  /\ attendance' = attendance \cup {NewRow(s)} /\ Credit(s) /\ UseCode(s) /\ Leaves(s)
  /\ UNCHANGED <<lecture>>

\* A refusal, the answer "already checked" after the first look, a failed statement, a lost
\* connection: the transaction ends and leaves nothing.
EndScan(s) ==
  /\ scan[s].stage # "idle"
  /\ Leaves(s)
  /\ UNCHANGED <<lecture, code, attendance, credited>>

-----------------------------------------------------------------------------
Next ==
  \/ \E l \in Lectures : \/ \E n \in Points : CreateLecture(l, n) \/ UpdateLecture(l, n)
                         \/ Activate(l) \/ Finish(l) \/ DeleteLecture(l)
  \/ \E c \in Codes : Expire(c) \/ \E p \in Participants : IssueCode(c, p)
  \/ \E s \in Scanners :
       \/ \E l \in Lectures, c \in Codes : BeginScan(s, l, c)
       \/ LockLecture(s) \/ LockCode(s) \/ CheckNew(s) \/ Insert(s) \/ InsertNothing(s)
       \/ Commit(s) \/ EndScan(s)

Spec == Init /\ [][Next]_vars

-----------------------------------------------------------------------------
(* Properties. *)

\* However many organisers scan however many codes of a participant at one lecture, there is one
\* attendance and the ledger has its points once; and one code never serves two attendances
\* (ScanAttendance: the unique indexes, the lock on the code, one transaction).
CreditedOnce ==
  /\ \A a, b \in attendance :
       (a.lecture = b.lecture /\ a.participant = b.participant) \/ a.code = b.code => a = b
  /\ \A a \in attendance : credited[a.lecture][a.participant] = a.points
  /\ \A l \in Lectures, p \in Participants : ~Attended(l, p) => credited[l][p] = 0

\* A code that was used up shows the lecture its owner attended, and an attendance leaves its own
\* code used for that lecture as long as the row is kept: no code is burnt for nothing and none
\* can be shown at another lecture (ScanAttendance against rollbacks and CreateCode's purge).
CodesShowAttendance ==
  /\ \A c \in Codes : code[c].used # NoLecture => Attended(code[c].used, code[c].owner)
  /\ \A a \in attendance : code[a.code].state # "gone" =>
       code[a.code].used = a.lecture /\ code[a.code].owner = a.participant

\* An attendance appears only while its lecture is active, and for the points the lecture is
\* worth at that moment: no edit or end of the lecture slips in between the scan's look at
\* the lecture and its commit (FOR SHARE in ScanAttendance against Update and Transition).
AttendedWhileOpen ==
  [][\A a \in attendance' \ attendance :
       lecture[a.lecture] = [status |-> "ACTIVE", points |-> a.points]]_vars
=============================================================================
