-------------------------- MODULE AttendanceProofs --------------------------
(***************************************************************************)
(* Proofs about Attendance and Event, checked by TLAPS, for any number of  *)
(* lectures, codes, organisers, challenges, participants and requests.     *)
(*                                                                         *)
(* Attendance: CreditedOnce is not inductive: that a commit adds the first *)
(* row of its participant depends on what the scans in progress hold and   *)
(* have seen.  ScanInv says it: each of them still sees the lecture it has *)
(* locked (ScansSeeLectures), its code is its own and still unused         *)
(* (ScansHold, ScansApart), and a row not yet committed clashes with no    *)
(* other.                                                                  *)
(*                                                                         *)
(* Event: the requests are cut between their statements, so each property  *)
(* needs what the requests at every statement may still write.             *)
(*   RequestsRight  a request of each kind stands at a statement of its    *)
(*                  own, so that the other kinds' statements are never its *)
(*   FileInv        an object that a row may name is never removed         *)
(*   RowsInv        the columns a contestant's query reads agree           *)
(*   PeopleInv      logins name somebody, live sessions are somebody's     *)
(*   VersionsInv    whoever has a version to keep holds the form as it is  *)
(*                  or will read it                                        *)
(***************************************************************************)
EXTENDS Attendance, Event, TLAPS

Holding == {"code", "checked", "inserted"}

LecturesRight == \A l \in Lectures : lecture[l].status # "NONE" => lecture[l].points \in Points

CodesRight == \A c \in Codes :
  /\ code[c].state \in {"live", "old"} => code[c].owner \in Participants
  /\ code[c].state \in {"none", "gone"} => code[c].used = NoLecture

ScansSeeLectures == \A s \in Scanners :
  /\ scan[s].stage # "idle" => scan[s].lecture \in Lectures /\ scan[s].code \in Codes
  /\ scan[s].stage \notin {"idle", "begun"} =>
       lecture[scan[s].lecture].status = "ACTIVE" /\ lecture[scan[s].lecture].points = scan[s].points

ScansHold == \A s \in Scanners :
  /\ scan[s].stage \in Holding => code[scan[s].code].state \in {"live", "old"}
  /\ scan[s].stage \in {"checked", "inserted"} => code[scan[s].code].used = NoLecture
  /\ scan[s].stage = "inserted" =>
       /\ ~Attended(scan[s].lecture, Owner(s))
       /\ \A a \in attendance : a.code # scan[s].code

ScansApart == \A s, t \in Scanners : s # t =>
  /\ scan[s].stage \in Holding /\ scan[t].stage \in Holding => scan[s].code # scan[t].code
  /\ scan[s].stage = "inserted" /\ scan[t].stage = "inserted" /\ scan[s].lecture = scan[t].lecture
       => Owner(s) # Owner(t)

ScanInv ==
  /\ TypeOK /\ LecturesRight /\ CodesRight
  /\ ScansSeeLectures /\ ScansHold /\ ScansApart
  /\ CreditedOnce /\ CodesShowAttendance

-----------------------------------------------------------------------------
(* The steps. *)

\* Nothing has been created, scanned or credited.
LEMMA ScanInit == Init => ScanInv
  BY PointsPositive, NamesFresh
  DEF Init, ScanInv, TypeOK, Row, LecturesRight, CodesRight, ScansSeeLectures, ScansHold, ScansApart,
      CreditedOnce, CodesShowAttendance, Attended, Owner, Holding, NoLectureYet, NoCodeRow, NoScan, CodeRow, ScanRow

\* An edit of a lecture waits for the scans that have seen it, and touches no other row.
LEMMA LectureStep ==
  ASSUME ScanInv, NEW l \in Lectures, NEW n \in Points,
         CreateLecture(l, n) \/ UpdateLecture(l, n) \/ Activate(l) \/ Finish(l) \/ DeleteLecture(l)
  PROVE  ScanInv'
<1>1. /\ UNCHANGED <<code, attendance, credited, scan>>
      /\ \E row \in [status: {"NONE", "DRAFT", "ACTIVE", "FINISHED", "DELETED"}, points: Points] :
           lecture' = [lecture EXCEPT ![l] = row]
  BY DEF ScanInv, TypeOK, LecturesRight, CreateLecture, UpdateLecture, Activate, Finish, DeleteLecture
<1>2. \A s \in Scanners : scan[s].stage \notin {"idle", "begun"} => scan[s].lecture # l
  <2>1. ~Shared(l) \/ lecture[l].status = "NONE"
    BY DEF CreateLecture, UpdateLecture, Activate, Finish, DeleteLecture
  <2>2. \A s \in Scanners : scan[s].stage \notin {"idle", "begun"} => lecture[scan[s].lecture].status = "ACTIVE"
    BY DEF ScanInv, ScansSeeLectures
  <2> QED BY <2>1, <2>2 DEF Shared
<1>3. TypeOK' /\ LecturesRight'
  BY <1>1 DEF ScanInv, TypeOK, LecturesRight
<1>4. ScansSeeLectures'
  BY <1>1, <1>2 DEF ScanInv, TypeOK, ScansSeeLectures
<1>5. CodesRight' /\ ScansHold' /\ ScansApart' /\ CreditedOnce' /\ CodesShowAttendance'
  BY <1>1 DEF ScanInv, CodesRight, ScansHold, ScansApart, CreditedOnce, CodesShowAttendance, Attended, Owner
<1> QED BY <1>3, <1>4, <1>5 DEF ScanInv

\* A code that a scan holds is neither issued nor purged; its age does not matter any more.
LEMMA CodeStep ==
  ASSUME ScanInv, NEW c \in Codes, NEW p \in Participants, IssueCode(c, p) \/ Expire(c)
  PROVE  ScanInv'
<1>1. UNCHANGED <<lecture, attendance, credited, scan>>
  BY DEF IssueCode, Expire
<1>2. /\ code' = [d \in Codes |-> code'[d]]
      /\ \A d \in Codes : \/ code'[d] = code[d]
                          \/ code[d].state = "none" /\ \E q \in Participants : code'[d] = [state |-> "live", owner |-> q, used |-> NoLecture]
                          \/ ~Locked(d) /\ code'[d] = Purged
                          \/ code[d].state = "live" /\ code'[d] = [code[d] EXCEPT !.state = "old"]
  <2>1. CASE IssueCode(c, p)
    BY <2>1 DEF IssueCode
  <2>2. CASE Expire(c)
    BY <2>2 DEF Expire, ScanInv, TypeOK
  <2> QED BY <2>1, <2>2
<1>3. TypeOK' /\ CodesRight'
  <2>1. ASSUME NEW d \in Codes
        PROVE  /\ code'[d] \in CodeRow
               /\ code'[d].state \in {"live", "old"} => code'[d].owner \in Participants
               /\ code'[d].state \in {"none", "gone"} => code'[d].used = NoLecture
    <3>1. code[d] \in CodeRow
      BY DEF ScanInv, TypeOK
    <3>2. CASE code'[d] = [code[d] EXCEPT !.state = "old"] /\ code[d].state = "live"
      BY <3>1, <3>2 DEF ScanInv, CodesRight, CodeRow
    <3> QED BY <1>2, <3>1, <3>2 DEF ScanInv, CodesRight, Purged, CodeRow
  <2> QED BY <1>1, <1>2, <2>1 DEF ScanInv, TypeOK, CodesRight
<1>4. \A s \in Scanners : scan[s].stage \in Holding =>
        /\ code'[scan[s].code].state \in {"live", "old"}
        /\ code'[scan[s].code].owner = code[scan[s].code].owner
        /\ code'[scan[s].code].used = code[scan[s].code].used
  <2> SUFFICES ASSUME NEW s \in Scanners, scan[s].stage \in Holding
               PROVE  /\ code'[scan[s].code].state \in {"live", "old"}
                      /\ code'[scan[s].code].owner = code[scan[s].code].owner
                      /\ code'[scan[s].code].used = code[scan[s].code].used
    OBVIOUS
  <2>1. scan[s].code \in Codes /\ Locked(scan[s].code) /\ code[scan[s].code].state \in {"live", "old"}
    BY DEF ScanInv, ScansSeeLectures, ScansHold, Holding, Locked
  <2>2. code[scan[s].code] \in CodeRow
    BY <2>1 DEF ScanInv, TypeOK
  <2> QED BY <1>2, <2>1, <2>2 DEF CodeRow
<1>5. ScansHold' /\ ScansApart'
  BY <1>1, <1>4 DEF ScanInv, ScansHold, ScansApart, Attended, Owner, Holding
<1>6. CodesShowAttendance'
  <2>1. ASSUME NEW d \in Codes, code'[d].used # NoLecture PROVE Attended(code'[d].used, code'[d].owner)
    <3>1. code[d] \in CodeRow
      BY DEF ScanInv, TypeOK
    <3>2. code'[d].used = code[d].used /\ code'[d].owner = code[d].owner
      BY <1>2, <2>1, <3>1 DEF Purged, CodeRow
    <3> QED BY <2>1, <3>2 DEF ScanInv, CodesShowAttendance
  <2>2. ASSUME NEW a \in attendance, code'[a.code].state # "gone"
        PROVE  code'[a.code].used = a.lecture /\ code'[a.code].owner = a.participant
    <3>1. a \in Row /\ a.code \in Codes /\ a.lecture # NoLecture
      BY NamesFresh DEF ScanInv, TypeOK, Row
    <3>2. code[a.code] \in CodeRow
      BY <3>1 DEF ScanInv, TypeOK
    <3>3. code[a.code].state # "none"
      BY <3>1 DEF ScanInv, CodesRight, CodesShowAttendance
    <3>4. code[a.code].state # "gone"
      BY <1>2, <2>2, <3>1, <3>2, <3>3 DEF Purged
    <3> QED BY <1>2, <2>2, <3>1, <3>2, <3>3, <3>4 DEF ScanInv, CodesShowAttendance, Purged, CodeRow
  <2> QED BY <1>1, <2>1, <2>2 DEF CodesShowAttendance, Attended
<1>7. LecturesRight' /\ ScansSeeLectures' /\ CreditedOnce'
  BY <1>1 DEF ScanInv, LecturesRight, ScansSeeLectures, CreditedOnce, Attended
<1> QED BY <1>3, <1>5, <1>6, <1>7 DEF ScanInv

\* A scan moves on and writes nothing: what its new state must satisfy.
LEMMA ScanMove ==
  ASSUME ScanInv, NEW s \in Scanners, NEW new \in ScanRow,
         UNCHANGED <<lecture, code, attendance, credited>>,
         scan' = [scan EXCEPT ![s] = new],
         new.stage # "idle" => new.lecture \in Lectures /\ new.code \in Codes,
         new.stage \notin {"idle", "begun"} =>
           lecture[new.lecture].status = "ACTIVE" /\ lecture[new.lecture].points = new.points,
         new.stage \in Holding =>
           /\ code[new.code].state \in {"live", "old"}
           /\ \A t \in Scanners \ {s} : scan[t].stage \in Holding => scan[t].code # new.code,
         new.stage \in {"checked", "inserted"} => code[new.code].used = NoLecture,
         new.stage = "inserted" =>
           /\ ~Attended(new.lecture, code[new.code].owner)
           /\ \A a \in attendance : a.code # new.code
           /\ \A t \in Scanners \ {s} : scan[t].stage = "inserted" /\ scan[t].lecture = new.lecture
                                          => Owner(t) # code[new.code].owner
  PROVE  ScanInv'
<1>1. scan'[s] = new /\ \A t \in Scanners \ {s} : scan'[t] = scan[t]
  BY DEF ScanInv, TypeOK
<1>2. TypeOK'
  BY DEF ScanInv, TypeOK
<1>3. ScansSeeLectures'
  BY <1>1 DEF ScanInv, ScansSeeLectures
<1>4. ScansHold'
  BY <1>1 DEF ScanInv, ScansHold, Attended, Owner
<1>5. ScansApart'
  BY <1>1 DEF ScanInv, ScansApart, Owner
<1>6. LecturesRight' /\ CodesRight' /\ CreditedOnce' /\ CodesShowAttendance'
  BY DEF ScanInv, LecturesRight, CodesRight, CreditedOnce, CodesShowAttendance, Attended
<1> QED BY <1>2, <1>3, <1>4, <1>5, <1>6 DEF ScanInv

\* The statements of a scan up to its insert, and its end without one.
LEMMA ScanStep ==
  ASSUME ScanInv, NEW s \in Scanners, NEW l \in Lectures, NEW c \in Codes,
         \/ BeginScan(s, l, c) \/ LockLecture(s) \/ LockCode(s) \/ CheckNew(s)
         \/ Insert(s) \/ EndScan(s)
  PROVE  ScanInv'
<1>1. scan[s] \in ScanRow
  BY DEF ScanInv, TypeOK
<1>2. scan[s].stage # "idle" => scan[s].lecture \in Lectures /\ scan[s].code \in Codes
  BY DEF ScanInv, ScansSeeLectures
<1>3. scan[s].stage \notin {"idle", "begun"} =>
        lecture[scan[s].lecture].status = "ACTIVE" /\ lecture[scan[s].lecture].points = scan[s].points
  BY DEF ScanInv, ScansSeeLectures
<1>4. scan[s].stage \in Holding =>
        /\ code[scan[s].code].state \in {"live", "old"}
        /\ \A t \in Scanners \ {s} : scan[t].stage \in Holding => scan[t].code # scan[s].code
  BY DEF ScanInv, ScansHold, ScansApart
<1>5. CASE BeginScan(s, l, c)
  <2> DEFINE new == [stage |-> "begun", lecture |-> l, code |-> c, points |-> 0]
  <2>1. new \in ScanRow /\ scan' = [scan EXCEPT ![s] = new]
    BY <1>5 DEF BeginScan, ScanRow
  <2> QED BY <1>5, <2>1, ScanMove DEF BeginScan, Holding
<1>6. CASE LockLecture(s)
  <2> DEFINE new == [scan[s] EXCEPT !.stage = "lecture", !.points = lecture[scan[s].lecture].points]
  <2>1. scan' = [scan EXCEPT ![s] = new]
    BY <1>6 DEF LockLecture, ScanInv, TypeOK
  <2>2. lecture[scan[s].lecture].points \in Points
    BY <1>2, <1>6 DEF LockLecture, ScanInv, LecturesRight
  <2>3. new \in ScanRow
    BY <1>1, <2>2 DEF ScanRow
  <2>4. new.stage = "lecture" /\ new.lecture = scan[s].lecture /\ new.code = scan[s].code
        /\ new.points = lecture[scan[s].lecture].points
    BY <1>1 DEF ScanRow
  <2> HIDE DEF new
  <2> QED BY <1>2, <1>6, <2>1, <2>3, <2>4, ScanMove DEF LockLecture, Holding
<1>7. ASSUME NEW stage \in {"code", "checked", "inserted"}, GoesTo(s, stage), scan[s].stage # "idle",
             scan[s].stage # "begun",
             UNCHANGED <<lecture, code, attendance, credited>>,
             /\ code[scan[s].code].state \in {"live", "old"}
             /\ \A t \in Scanners \ {s} : scan[t].stage \in Holding => scan[t].code # scan[s].code,
             stage \in {"checked", "inserted"} => code[scan[s].code].used = NoLecture,
             stage = "inserted" =>
               /\ ~Attended(scan[s].lecture, Owner(s)) /\ ~Pending(s)
               /\ \A a \in attendance : a.code # scan[s].code
      PROVE  ScanInv'
  <2> DEFINE new == [scan[s] EXCEPT !.stage = stage]
  <2>1. scan' = [scan EXCEPT ![s] = new]
    BY <1>7 DEF GoesTo, ScanInv, TypeOK
  <2>2. new \in ScanRow
    BY <1>1 DEF ScanRow
  <2>3. new.stage = stage /\ new.lecture = scan[s].lecture /\ new.code = scan[s].code
        /\ new.points = scan[s].points
    BY <1>1 DEF ScanRow
  <2>4. stage = "inserted" =>
          \A t \in Scanners \ {s} : scan[t].stage = "inserted" /\ scan[t].lecture = new.lecture
                                      => Owner(t) # code[new.code].owner
    BY <1>7, <2>3 DEF Pending, Owner
  <2> HIDE DEF new
  <2> QED BY <1>2, <1>3, <1>7, <2>1, <2>2, <2>3, <2>4, ScanMove DEF Owner
<1>8. CASE LockCode(s)
  <2>1. \A t \in Scanners \ {s} : scan[t].stage \in Holding => scan[t].code # scan[s].code
    BY <1>8 DEF LockCode, Locked, Holding
  <2> QED BY <1>7, <1>8, <2>1 DEF LockCode
<1>9. CASE CheckNew(s)
  BY <1>4, <1>7, <1>9 DEF CheckNew, Holding
<1>10. CASE Insert(s)
  <2>1. code[scan[s].code].used = NoLecture
    BY <1>10 DEF Insert, ScanInv, ScansHold
  <2> QED BY <1>4, <1>7, <1>10, <2>1 DEF Insert, Holding
<1>11. CASE EndScan(s)
  <2>1. NoScan \in ScanRow /\ scan' = [scan EXCEPT ![s] = NoScan] /\ NoScan.stage = "idle"
    BY <1>11 DEF EndScan, Leaves, ScanRow, NoScan
  <2> QED BY <1>11, <2>1, ScanMove DEF EndScan, Holding
<1> QED BY <1>5, <1>6, <1>8, <1>9, <1>10, <1>11

\* A scan past its check uses its code up: the code was unused, and no attendance or other scan has it.
LEMMA CodeUsed ==
  ASSUME ScanInv, NEW s \in Scanners, scan[s].stage \in {"checked", "inserted"}, UseCode(s)
  PROVE  /\ scan[s].lecture \in Lectures /\ scan[s].code \in Codes /\ Owner(s) \in Participants
         /\ code' = [code EXCEPT ![scan[s].code] = [@ EXCEPT !.used = scan[s].lecture]]
         /\ code' \in [Codes -> CodeRow] /\ CodesRight'
         /\ \A d \in Codes : code'[d].owner = code[d].owner /\ code'[d].state = code[d].state
         /\ \A d \in Codes \ {scan[s].code} : code'[d] = code[d]
         /\ code'[scan[s].code].used = scan[s].lecture
         /\ \A a \in attendance : a.code # scan[s].code
         /\ \A t \in Scanners \ {s} : scan[t].stage \in Holding => scan[t].code \in Codes \ {scan[s].code}
<1>1. scan[s].lecture \in Lectures /\ scan[s].code \in Codes
  BY DEF ScanInv, ScansSeeLectures
<1>2. /\ code[scan[s].code].state \in {"live", "old"} /\ code[scan[s].code].used = NoLecture
      /\ Owner(s) \in Participants
  BY <1>1 DEF ScanInv, ScansHold, Holding, CodesRight, Owner
<1>3. code' = [code EXCEPT ![scan[s].code] = [@ EXCEPT !.used = scan[s].lecture]]
  BY <1>1, <1>2 DEF UseCode
<1>4. \A d \in Codes : code[d] \in CodeRow
  BY DEF ScanInv, TypeOK
<1>5. /\ code' \in [Codes -> CodeRow]
      /\ \A d \in Codes : code'[d].owner = code[d].owner /\ code'[d].state = code[d].state
      /\ \A d \in Codes \ {scan[s].code} : code'[d] = code[d]
      /\ code'[scan[s].code].used = scan[s].lecture
  BY <1>1, <1>3, <1>4 DEF ScanInv, TypeOK, CodeRow
<1>6. CodesRight'
  BY <1>2, <1>5 DEF ScanInv, CodesRight
<1>7. \A a \in attendance : a.code # scan[s].code
  BY <1>2, NamesFresh DEF ScanInv, TypeOK, Row, CodesShowAttendance
<1>8. \A t \in Scanners \ {s} : scan[t].stage \in Holding => scan[t].code \in Codes \ {scan[s].code}
  BY DEF ScanInv, ScansSeeLectures, ScansApart, Holding
<1> QED BY <1>1, <1>2, <1>3, <1>5, <1>6, <1>7, <1>8

\* Another code of the participant was first: only the code changes.
LEMMA NothingStep ==
  ASSUME ScanInv, NEW s \in Scanners, InsertNothing(s)
  PROVE  ScanInv'
<1>1. scan[s].stage = "checked" /\ UseCode(s) /\ Attended(scan[s].lecture, Owner(s))
      /\ scan' = [scan EXCEPT ![s] = NoScan] /\ UNCHANGED <<lecture, attendance, credited>>
  BY DEF InsertNothing, Leaves
<1>2. scan'[s] = NoScan /\ \A t \in Scanners \ {s} : scan'[t] = scan[t]
  BY <1>1 DEF ScanInv, TypeOK
<1>3. TypeOK' /\ CodesRight' /\ LecturesRight'
  BY <1>1, CodeUsed DEF ScanInv, TypeOK, ScanRow, NoScan, LecturesRight
<1>4. ScansSeeLectures'
  BY <1>1, <1>2 DEF ScanInv, ScansSeeLectures, NoScan
<1>5. ScansHold'
  <2> SUFFICES ASSUME NEW t \in Scanners \ {s}, scan[t].stage \in Holding
               PROVE  /\ code'[scan[t].code] = code[scan[t].code]
    BY <1>1, <1>2 DEF ScanInv, ScansHold, Holding, Attended, Owner, NoScan
  <2> QED BY <1>1, CodeUsed
<1>6. ScansApart'
  <2>1. \A t \in Scanners \ {s} : scan[t].stage \in Holding => code'[scan[t].code] = code[scan[t].code]
    BY <1>1, CodeUsed
  <2> QED BY <1>2, <2>1 DEF ScanInv, ScansApart, Holding, Owner, NoScan
<1>7. CreditedOnce'
  BY <1>1 DEF ScanInv, CreditedOnce, Attended
<1>8. CodesShowAttendance'
  <2>1. ASSUME NEW d \in Codes, code'[d].used # NoLecture PROVE Attended(code'[d].used, code'[d].owner)
    <3>1. CASE d = scan[s].code
      <4>1. code'[d].used = scan[s].lecture /\ code'[d].owner = Owner(s)
        BY <1>1, <3>1, CodeUsed DEF Owner
      <4> QED BY <1>1, <4>1
    <3>2. CASE d # scan[s].code
      <4>1. code'[d] = code[d]
        <5>1. \A e \in Codes \ {scan[s].code} : code'[e] = code[e]
          BY <1>1, CodeUsed
        <5> QED BY <3>2, <5>1
      <4> QED BY <2>1, <4>1 DEF ScanInv, CodesShowAttendance
    <3> QED BY <3>1, <3>2
  <2>2. \A a \in attendance : code'[a.code] = code[a.code]
    BY <1>1, CodeUsed DEF ScanInv, TypeOK, Row
  <2> QED BY <1>1, <2>1, <2>2 DEF ScanInv, CodesShowAttendance, Attended
<1> QED BY <1>3, <1>4, <1>5, <1>6, <1>7, <1>8 DEF ScanInv

\* The row, the points and the use of the code appear together.
LEMMA CommitStep ==
  ASSUME ScanInv, NEW s \in Scanners, Commit(s)
  PROVE  /\ ScanInv'
         /\ \A a \in attendance' \ attendance :
              lecture[a.lecture] = [status |-> "ACTIVE", points |-> a.points]
<1> DEFINE l == scan[s].lecture
           p == Owner(s)
           row == NewRow(s)
<1>1. /\ scan[s].stage = "inserted" /\ UseCode(s) /\ attendance' = attendance \cup {row}
      /\ credited' = [credited EXCEPT ![l][p] = @ + scan[s].points]
      /\ scan' = [scan EXCEPT ![s] = NoScan] /\ UNCHANGED lecture
  BY DEF Commit, Leaves, Credit
<1>2. scan'[s] = NoScan /\ \A t \in Scanners \ {s} : scan'[t] = scan[t]
  BY <1>1 DEF ScanInv, TypeOK
<1>3. /\ l \in Lectures /\ p \in Participants /\ scan[s].code \in Codes
      /\ lecture[l].status = "ACTIVE" /\ lecture[l].points = scan[s].points
      /\ scan[s].points \in Points /\ scan[s].points \in Nat
      /\ ~Attended(l, p) /\ credited[l][p] = 0
  <2>1. l \in Lectures /\ p \in Participants /\ scan[s].code \in Codes
    BY <1>1, CodeUsed
  <2>2. lecture[l].status = "ACTIVE" /\ lecture[l].points = scan[s].points
    BY <1>1 DEF ScanInv, ScansSeeLectures
  <2>3. ~Attended(l, p)
    BY <1>1 DEF ScanInv, ScansHold
  <2> QED BY <2>1, <2>2, <2>3, PointsPositive DEF ScanInv, LecturesRight, CreditedOnce
<1>4. /\ row \in Row /\ row.lecture = l /\ row.participant = p
      /\ row.code = scan[s].code /\ row.points = scan[s].points
  BY <1>3 DEF NewRow, Row
<1>5. /\ credited' \in [Lectures -> [Participants -> Nat]]
      /\ credited'[l][p] = scan[s].points
      /\ \A m \in Lectures, q \in Participants : m # l \/ q # p => credited'[m][q] = credited[m][q]
  BY <1>1, <1>3 DEF ScanInv, TypeOK
<1>6. \A m, q : (\E a \in attendance' : a.lecture = m /\ a.participant = q)
                  <=> Attended(m, q) \/ (m = l /\ q = p)
  BY <1>1, <1>4 DEF Attended
<1> HIDE DEF row, l, p
<1>7. TypeOK' /\ CodesRight' /\ LecturesRight'
  BY <1>1, <1>4, <1>5, CodeUsed DEF ScanInv, TypeOK, ScanRow, NoScan, LecturesRight
<1>8. ScansSeeLectures'
  BY <1>1, <1>2 DEF ScanInv, ScansSeeLectures, NoScan
<1>9. \A t \in Scanners \ {s} : scan[t].stage \in Holding =>
        scan[t].code # scan[s].code /\ code'[scan[t].code] = code[scan[t].code]
  BY <1>1, CodeUsed
<1>10. ScansHold'
  <2>1. ASSUME NEW t \in Scanners \ {s}, scan[t].stage = "inserted"
        PROVE  /\ ~Attended(scan[t].lecture, Owner(t))'
               /\ \A a \in attendance' : a.code # scan[t].code
    <3>1. scan[t].stage \in Holding /\ code'[scan[t].code] = code[scan[t].code]
          /\ scan[t].code # scan[s].code
      BY <1>9, <2>1 DEF Holding
    <3>2. ~Attended(scan[t].lecture, Owner(t)) /\ \A a \in attendance : a.code # scan[t].code
      BY <2>1 DEF ScanInv, ScansHold
    <3>3. ~(scan[t].lecture = l /\ Owner(t) = p)
      BY <1>1, <2>1 DEF ScanInv, ScansApart, l, p
    <3>4. \A a \in attendance' : a.code # scan[t].code
      BY <1>1, <1>4, <3>1, <3>2
    <3>5. ~Attended(scan[t].lecture, Owner(t))'
      <4>1. scan'[t].lecture = scan[t].lecture /\ code'[scan'[t].code].owner = Owner(t)
        BY <1>2, <3>1 DEF Owner
      <4>2. ~(\E a \in attendance' : a.lecture = scan[t].lecture /\ a.participant = Owner(t))
        BY <1>6, <3>2, <3>3
      <4> QED BY <4>1, <4>2 DEF Attended, Owner
    <3> QED BY <3>4, <3>5
  <2>2. \A t \in Scanners \ {s} :
          /\ scan[t].stage \in Holding => code'[scan[t].code].state \in {"live", "old"}
          /\ scan[t].stage \in {"checked", "inserted"} => code'[scan[t].code].used = NoLecture
    BY <1>9 DEF ScanInv, ScansHold, Holding
  <2> QED BY <1>2, <2>1, <2>2 DEF ScansHold, Holding, NoScan
<1>11. ScansApart'
  BY <1>2, <1>9 DEF ScanInv, ScansApart, Holding, Owner, NoScan
<1>12. CreditedOnce'
  <2>1. \A a \in attendance : a.code # scan[s].code /\ ~(a.lecture = l /\ a.participant = p)
                              /\ a.lecture \in Lectures /\ a.participant \in Participants
    BY <1>1, <1>3, CodeUsed DEF Attended, ScanInv, TypeOK, Row
  <2>2. ASSUME NEW a \in attendance', NEW b \in attendance',
               (a.lecture = b.lecture /\ a.participant = b.participant) \/ a.code = b.code
        PROVE  a = b
    BY <1>1, <1>4, <2>1, <2>2 DEF ScanInv, CreditedOnce
  <2>3. ASSUME NEW a \in attendance' PROVE credited'[a.lecture][a.participant] = a.points
    BY <1>1, <1>4, <1>5, <2>1 DEF ScanInv, CreditedOnce
  <2>4. ASSUME NEW m \in Lectures, NEW q \in Participants, ~Attended(m, q)' PROVE credited'[m][q] = 0
    <3>1. ~Attended(m, q) /\ ~(m = l /\ q = p)
      BY <1>6, <2>4 DEF Attended
    <3>2. credited[m][q] = 0
      BY <3>1 DEF ScanInv, CreditedOnce
    <3> QED BY <1>5, <3>1, <3>2
  <2> QED BY <2>2, <2>3, <2>4 DEF CreditedOnce
<1>13. CodesShowAttendance'
  <2>0. code'[scan[s].code].used = l /\ code'[scan[s].code].owner = p
    BY <1>1, <1>3, CodeUsed DEF l, p, Owner
  <2>1. ASSUME NEW d \in Codes, code'[d].used # NoLecture PROVE Attended(code[d].used, code[d].owner)'
    <3>1. CASE d = scan[s].code
      BY <1>6, <2>0, <3>1 DEF Attended
    <3>2. CASE d # scan[s].code
      <4>1. code'[d] = code[d]
        <5>1. \A e \in Codes \ {scan[s].code} : code'[e] = code[e]
          BY <1>1, CodeUsed
        <5> QED BY <3>2, <5>1
      <4>2. Attended(code[d].used, code[d].owner)
        BY <2>1, <4>1 DEF ScanInv, CodesShowAttendance
      <4> QED BY <1>6, <4>1, <4>2 DEF Attended
    <3> QED BY <3>1, <3>2
  <2>2. \A a \in attendance : code'[a.code] = code[a.code]
    BY <1>1, CodeUsed DEF ScanInv, TypeOK, Row
  <2>3. code'[row.code].used = l /\ code'[row.code].owner = p
    BY <1>4, <2>0
  <2>4. \A a \in attendance' : code'[a.code].state # "gone" =>
          code'[a.code].used = a.lecture /\ code'[a.code].owner = a.participant
    BY <1>1, <1>4, <2>2, <2>3 DEF ScanInv, CodesShowAttendance
  <2> QED BY <2>1, <2>4 DEF CodesShowAttendance
<1>14. \A a \in attendance' \ attendance : lecture[a.lecture] = [status |-> "ACTIVE", points |-> a.points]
  BY <1>1, <1>3, <1>4 DEF ScanInv, TypeOK
<1> QED BY <1>7, <1>8, <1>10, <1>11, <1>12, <1>13, <1>14 DEF ScanInv

\* One step of anybody.
LEMMA ScanNext == ScanInv /\ [Next]_vars => ScanInv'
<1> SUFFICES ASSUME ScanInv, [Next]_vars PROVE ScanInv'
  OBVIOUS
<1>1. CASE UNCHANGED vars
  BY <1>1 DEF vars, ScanInv, TypeOK, LecturesRight, CodesRight, ScansSeeLectures, ScansHold, ScansApart,
              CreditedOnce, CodesShowAttendance, Attended, Owner
<1>2. ASSUME NEW l \in Lectures, NEW n \in Points, CreateLecture(l, n) \/ UpdateLecture(l, n) PROVE ScanInv'
  BY <1>2, LectureStep
<1>3. ASSUME NEW l \in Lectures, Activate(l) \/ Finish(l) \/ DeleteLecture(l) PROVE ScanInv'
  <2>1. lecture[l].points \in Points
    BY <1>3 DEF ScanInv, LecturesRight, Activate, Finish, DeleteLecture
  <2> QED BY <1>3, <2>1, LectureStep
<1>4. ASSUME NEW c \in Codes, NEW p \in Participants, IssueCode(c, p) PROVE ScanInv'
  BY <1>4, CodeStep
<1>5. ASSUME NEW c \in Codes, Expire(c) PROVE ScanInv'
  <2>1. code[c].owner \in Participants
    BY <1>5 DEF ScanInv, CodesRight, Expire
  <2> QED BY <1>5, <2>1, CodeStep
<1>6. ASSUME NEW s \in Scanners, NEW l \in Lectures, NEW c \in Codes, BeginScan(s, l, c) PROVE ScanInv'
  BY <1>6, ScanStep
<1>7. ASSUME NEW s \in Scanners,
             LockLecture(s) \/ LockCode(s) \/ CheckNew(s) \/ Insert(s) \/ EndScan(s)
      PROVE  ScanInv'
  <2>1. scan[s].lecture \in Lectures /\ scan[s].code \in Codes
    BY <1>7 DEF ScanInv, ScansSeeLectures, LockLecture, LockCode, CheckNew, Insert, EndScan
  <2> QED BY <1>7, <2>1, ScanStep
<1>8. ASSUME NEW s \in Scanners, InsertNothing(s) \/ Commit(s) PROVE ScanInv'
  BY <1>8, NothingStep, CommitStep
<1> QED BY <1>1, <1>2, <1>3, <1>4, <1>5, <1>6, <1>7, <1>8 DEF Next

-----------------------------------------------------------------------------
(* The theorems. *)

\* Whatever is scanned, issued and edited, and in whatever order, ScanInv holds.
THEOREM ScansCorrect == Spec => []ScanInv
  BY ScanInit, ScanNext, PTL DEF Spec

\* Every reachable state of the attendance tables is well typed.
THEOREM AttendanceTyped == Spec => []TypeOK
<1>1. ScanInv => TypeOK
  BY DEF ScanInv
<1> QED BY <1>1, ScansCorrect, PTL

\* One attendance and one credit, and no code serves two (ScanAttendance).
THEOREM CreditSafe == Spec => []CreditedOnce
<1>1. ScanInv => CreditedOnce
  BY DEF ScanInv
<1> QED BY <1>1, ScansCorrect, PTL

\* A used code and an attendance always show each other (ScanAttendance, CreateCode).
THEOREM CodesSafe == Spec => []CodesShowAttendance
<1>1. ScanInv => CodesShowAttendance
  BY DEF ScanInv
<1> QED BY <1>1, ScansCorrect, PTL

\* Only a commit adds an attendance, and its lecture is active and unchanged (FOR SHARE).
THEOREM OpenSafe == Spec => AttendedWhileOpen
<1> DEFINE Opens == \A a \in attendance' \ attendance :
                      lecture[a.lecture] = [status |-> "ACTIVE", points |-> a.points]
<1>1. ScanInv /\ [Next]_vars => [Opens]_vars
  <2> SUFFICES ASSUME ScanInv, Next PROVE Opens
    BY DEF vars
  <2>1. ASSUME NEW s \in Scanners, Commit(s) PROVE Opens
    BY <2>1, CommitStep
  <2>2. CASE attendance' = attendance
    BY <2>2
  <2>3. (\E s \in Scanners : Commit(s)) \/ attendance' = attendance
    BY DEF Next, CreateLecture, UpdateLecture, Activate, Finish, DeleteLecture, IssueCode, Expire,
           BeginScan, LockLecture, LockCode, CheckNew, Insert, InsertNothing, EndScan
  <2> QED BY <2>1, <2>2, <2>3
<1> QED BY <1>1, ScansCorrect, PTL DEF Spec, AttendedWhileOpen
-----------------------------------------------------------------------------
(* Requests.  Each is a record that one step at a time replaces.            *)

Shaped(q) ==
  request[q] = Doing(request[q].op, request[q].at, request[q].on, request[q].seen, request[q].arg)
RequestsShaped == request = [q \in Requests |-> request[q]] /\ \A q \in Requests : Shaped(q)

\* A step replaces the request r and no other.
Touches(r) == Shaped(r)' /\ request' = [request EXCEPT ![r] = request'[r]]
Others(r) == \A q \in Requests \ {r} : request'[q] = request[q]

\* The fields of a request that has been put to a statement.
LEMMA DoingIs ==
  ASSUME NEW op, NEW at, NEW on, NEW seen, NEW arg, NEW d, d = Doing(op, at, on, seen, arg)
  PROVE  d.op = op /\ d.at = at /\ d.on = on /\ d.seen = seen /\ d.arg = arg
  BY DEF Doing

\* The fields of a request that has nothing to do.
LEMMA IdleIs == /\ Idle = Doing("none", "idle", None, None, None)
                /\ Idle.op = "none" /\ Idle.at = "idle" /\ Idle.on = None
  BY DEF Idle, Doing

\* A request goes on to a statement and the others stay.
LEMMA BecomesDoing ==
  ASSUME RequestsShaped, NEW r \in Requests,
         NEW op, NEW at, NEW on, NEW seen, NEW arg, Becomes(r, Doing(op, at, on, seen, arg))
  PROVE  /\ Touches(r) /\ Others(r)
         /\ request'[r].op = op /\ request'[r].at = at /\ request'[r].on = on
         /\ request'[r].seen = seen /\ request'[r].arg = arg
<1> DEFINE d == Doing(op, at, on, seen, arg)
<1>1. d.op = op /\ d.at = at /\ d.on = on /\ d.seen = seen /\ d.arg = arg
  BY DoingIs
<1>2. d = Doing(d.op, d.at, d.on, d.seen, d.arg)
  BY <1>1
<1>3. request' = [request EXCEPT ![r] = d]
  BY DEF Becomes
<1> HIDE DEF d
<1>4. request'[r] = d /\ Others(r)
  BY <1>3 DEF RequestsShaped, Others
<1>5. request' = [request EXCEPT ![r] = request'[r]]
  BY <1>3, <1>4
<1>6. Shaped(r)'
  BY <1>2, <1>4 DEF Shaped
<1> QED
  BY <1>1, <1>4, <1>5, <1>6 DEF Touches

\* A request is done and the others stay.
LEMMA DoneTouches ==
  ASSUME RequestsShaped, NEW r \in Requests, Done(r)
  PROVE  /\ Touches(r) /\ Others(r) /\ request'[r] = Idle
         /\ request'[r].op = "none" /\ request'[r].at = "idle" /\ request'[r].on = None
<1>1. Becomes(r, Doing("none", "idle", None, None, None))
  BY IdleIs DEF Done
<1>2. request'[r] = Idle
  BY DEF Done, Becomes, RequestsShaped
<1> QED
  BY <1>1, <1>2, BecomesDoing

\* A step of one request leaves a record for each.
LEMMA TouchedShaped ==
  ASSUME RequestsShaped, NEW r \in Requests, Touches(r)
  PROVE  RequestsShaped' /\ Others(r)
<1>1. Others(r)
  BY DEF Touches, RequestsShaped, Others
<1>2. request' = [q \in Requests |-> request'[q]]
  BY DEF Touches, RequestsShaped
<1>3. ASSUME NEW q \in Requests PROVE Shaped(q)'
  <2>1. CASE q = r
    BY <2>1 DEF Touches
  <2>2. CASE q # r
    BY <1>1, <2>2 DEF Others, RequestsShaped, Shaped
  <2> QED
    BY <2>1, <2>2
<1> QED
  BY <1>1, <1>2, <1>3 DEF RequestsShaped

\* The request r is turned into the given one, and no other changes.
Turns(r, op, at, on, seen, arg) ==
  /\ Touches(r) /\ Others(r)
  /\ request'[r].op = op /\ request'[r].at = at /\ request'[r].on = on
  /\ request'[r].seen = seen /\ request'[r].arg = arg

\* A request moves on: its statement changes, and some of what it holds.
LEMMA Moves ==
  ASSUME RequestsShaped, NEW r \in Requests, NEW at, NEW seen, NEW arg
  PROVE  /\ Becomes(r, [request[r] EXCEPT !.at = at])
              => Turns(r, request[r].op, at, request[r].on, request[r].seen, request[r].arg)
         /\ Becomes(r, [request[r] EXCEPT !.at = at, !.seen = seen])
              => Turns(r, request[r].op, at, request[r].on, seen, request[r].arg)
         /\ Becomes(r, [request[r] EXCEPT !.at = at, !.arg = arg])
              => Turns(r, request[r].op, at, request[r].on, request[r].seen, arg)
         /\ Becomes(r, [request[r] EXCEPT !.at = at, !.on = arg])
              => Turns(r, request[r].op, at, arg, request[r].seen, request[r].arg)
         /\ Becomes(r, [request[r] EXCEPT !.arg = arg])
              => Turns(r, request[r].op, request[r].at, request[r].on, request[r].seen, arg)
<1>0. /\ [request[r] EXCEPT !.at = at] = Doing(request[r].op, at, request[r].on, request[r].seen, request[r].arg)
      /\ [request[r] EXCEPT !.at = at, !.seen = seen]
           = Doing(request[r].op, at, request[r].on, seen, request[r].arg)
      /\ [request[r] EXCEPT !.at = at, !.arg = arg]
           = Doing(request[r].op, at, request[r].on, request[r].seen, arg)
      /\ [request[r] EXCEPT !.at = at, !.on = arg]
           = Doing(request[r].op, at, arg, request[r].seen, request[r].arg)
      /\ [request[r] EXCEPT !.arg = arg]
           = Doing(request[r].op, request[r].at, request[r].on, request[r].seen, arg)
  <2> DEFINE d == request[r]
             e == [op |-> d.op, at |-> at, on |-> d.on, seen |-> d.seen, arg |-> d.arg]
  <2>1. d = Doing(d.op, d.at, d.on, d.seen, d.arg)
    BY DEF RequestsShaped, Shaped
  <2>2. d = [op |-> d.op, at |-> d.at, on |-> d.on, seen |-> d.seen, arg |-> d.arg]
    BY <2>1 DEF Doing
  <2> HIDE DEF d
  <2>3. [d EXCEPT !.at = at] = e
    BY <2>2
  <2>4. [d EXCEPT !.arg = arg] = [op |-> d.op, at |-> d.at, on |-> d.on, seen |-> d.seen, arg |-> arg]
    BY <2>2
  <2>5. /\ [d EXCEPT !.at = at, !.seen = seen] = [[d EXCEPT !.at = at] EXCEPT !.seen = seen]
        /\ [d EXCEPT !.at = at, !.arg = arg] = [[d EXCEPT !.at = at] EXCEPT !.arg = arg]
        /\ [d EXCEPT !.at = at, !.on = arg] = [[d EXCEPT !.at = at] EXCEPT !.on = arg]
    OBVIOUS
  <2>6. /\ [e EXCEPT !.seen = seen] = [op |-> d.op, at |-> at, on |-> d.on, seen |-> seen, arg |-> d.arg]
        /\ [e EXCEPT !.arg = arg] = [op |-> d.op, at |-> at, on |-> d.on, seen |-> d.seen, arg |-> arg]
        /\ [e EXCEPT !.on = arg] = [op |-> d.op, at |-> at, on |-> arg, seen |-> d.seen, arg |-> d.arg]
    OBVIOUS
  <2>7. e = Doing(d.op, at, d.on, d.seen, d.arg)
    BY DEF Doing
  <2> HIDE DEF e
  <2>8. /\ [d EXCEPT !.at = at, !.seen = seen] = [e EXCEPT !.seen = seen]
        /\ [d EXCEPT !.at = at, !.arg = arg] = [e EXCEPT !.arg = arg]
        /\ [d EXCEPT !.at = at, !.on = arg] = [e EXCEPT !.on = arg]
    BY <2>3, <2>5, Zenon
  <2>9. /\ [d EXCEPT !.at = at] = Doing(d.op, at, d.on, d.seen, d.arg)
        /\ [d EXCEPT !.at = at, !.seen = seen] = Doing(d.op, at, d.on, seen, d.arg)
        /\ [d EXCEPT !.at = at, !.arg = arg] = Doing(d.op, at, d.on, d.seen, arg)
        /\ [d EXCEPT !.at = at, !.on = arg] = Doing(d.op, at, arg, d.seen, d.arg)
        /\ [d EXCEPT !.arg = arg] = Doing(d.op, d.at, d.on, d.seen, arg)
    BY <2>3, <2>4, <2>6, <2>7, <2>8, Zenon DEF Doing
  <2> QED
    BY <2>9, Zenon DEF d
<1>1. ASSUME NEW op, NEW at2, NEW on, NEW seen2, NEW arg2, Becomes(r, Doing(op, at2, on, seen2, arg2))
      PROVE  Turns(r, op, at2, on, seen2, arg2)
  BY <1>1, BecomesDoing DEF Turns
<1>2. ASSUME NEW d, NEW op, NEW at2, NEW on, NEW seen2, NEW arg2,
             d = Doing(op, at2, on, seen2, arg2), Becomes(r, d)
      PROVE  Turns(r, op, at2, on, seen2, arg2)
  BY <1>1, <1>2
<1>3. Becomes(r, [request[r] EXCEPT !.at = at])
        => Turns(r, request[r].op, at, request[r].on, request[r].seen, request[r].arg)
  BY <1>2, <1>0
<1>4. Becomes(r, [request[r] EXCEPT !.at = at, !.seen = seen])
        => Turns(r, request[r].op, at, request[r].on, seen, request[r].arg)
  <2> DEFINE d == [request[r] EXCEPT !.at = at, !.seen = seen]
  <2>1. d = Doing(request[r].op, at, request[r].on, seen, request[r].arg)
    BY <1>0, Zenon
  <2> HIDE DEF d
  <2>2. Becomes(r, d) => Turns(r, request[r].op, at, request[r].on, seen, request[r].arg)
    BY <1>2, <2>1
  <2> QED
    BY <2>2, Zenon DEF d
<1>5. Becomes(r, [request[r] EXCEPT !.at = at, !.arg = arg])
        => Turns(r, request[r].op, at, request[r].on, request[r].seen, arg)
  <2> DEFINE d == [request[r] EXCEPT !.at = at, !.arg = arg]
  <2>1. d = Doing(request[r].op, at, request[r].on, request[r].seen, arg)
    BY <1>0, Zenon
  <2> HIDE DEF d
  <2>2. Becomes(r, d) => Turns(r, request[r].op, at, request[r].on, request[r].seen, arg)
    BY <1>2, <2>1
  <2> QED
    BY <2>2, Zenon DEF d
<1>6. Becomes(r, [request[r] EXCEPT !.at = at, !.on = arg])
        => Turns(r, request[r].op, at, arg, request[r].seen, request[r].arg)
  <2> DEFINE d == [request[r] EXCEPT !.at = at, !.on = arg]
  <2>1. d = Doing(request[r].op, at, arg, request[r].seen, request[r].arg)
    BY <1>0, Zenon
  <2> HIDE DEF d
  <2>2. Becomes(r, d) => Turns(r, request[r].op, at, arg, request[r].seen, request[r].arg)
    BY <1>2, <2>1
  <2> QED
    BY <2>2, Zenon DEF d
<1>7. Becomes(r, [request[r] EXCEPT !.arg = arg])
        => Turns(r, request[r].op, request[r].at, request[r].on, request[r].seen, arg)
  BY <1>2, <1>0
<1> QED
  BY <1>3, <1>4, <1>5, <1>6, <1>7, Zenon

\* A step of one request in the words the proofs about kinds use.
LEMMA Begins ==
  ASSUME RequestsShaped, NEW r \in Requests, NEW op, NEW at, NEW on, NEW seen, NEW arg
  PROVE  /\ Becomes(r, Doing(op, at, on, seen, arg)) => Turns(r, op, at, on, seen, arg)
         /\ Done(r) => Turns(r, "none", "idle", None, None, None) /\ request'[r] = Idle
<1>1. Becomes(r, Doing(op, at, on, seen, arg)) => Turns(r, op, at, on, seen, arg)
  BY BecomesDoing DEF Turns
<1>2. Done(r) => Turns(r, "none", "idle", None, None, None) /\ request'[r] = Idle
  BY DoneTouches, DoingIs, IdleIs DEF Turns
<1> QED
  BY <1>1, <1>2

-----------------------------------------------------------------------------
(* Which statements the requests of each kind have.                         *)

Placed(q) ==
  \/ request[q].op = "none" /\ request[q].at = "idle"
  \/ request[q].op = "contest" /\ request[q].at = "status"
  \/ request[q].op = "person" /\ request[q].at \in {"write", "status"}
  \/ request[q].op = "import" /\ request[q].at \in {"create", "update"}
  \/ request[q].op = "login" /\ request[q].at \in {"bind", "issue"}
  \/ request[q].op = "edit" /\ request[q].at \in {"field", "bump", "read", "save"}
  \/ request[q].op = "challenge" /\ request[q].at \in {"status", "read", "save"}
  \/ request[q].op = "duplicate" /\ request[q].at \in {"create", "copy"}
  \/ request[q].op = "upload" /\ request[q].at \in {"override", "put", "insert", "link", "remove"}
  \/ request[q].op = "unlink" /\ request[q].at = "remove"

RequestsRight == RequestsShaped /\ \A q \in Requests : Placed(q)

\* A step changes requests of these kinds only.
OnlyOf(kinds) ==
  \A q \in Requests : request'[q] = request[q] \/ (request[q].op \in kinds /\ request'[q].op \in kinds)

\* A request that stays at the statements of its kind keeps every request right.
LEMMA TurnsKeep ==
  ASSUME RequestsRight, NEW r \in Requests, NEW kinds, NEW op, NEW at, NEW on, NEW seen, NEW arg,
         Turns(r, op, at, on, seen, arg), Placed(r)', request[r].op \in kinds, op \in kinds
  PROVE  RequestsRight' /\ OnlyOf(kinds)
<1>1. RequestsShaped' /\ Others(r)
  BY TouchedShaped DEF RequestsRight, Turns
<1>2. ASSUME NEW q \in Requests PROVE Placed(q)'
  <2>1. CASE q = r
    BY <2>1
  <2>2. CASE q # r
    BY <1>1, <2>2 DEF Others, RequestsRight, Placed
  <2> QED
    BY <2>1, <2>2
<1> QED
  BY <1>1, <1>2 DEF RequestsRight, OnlyOf, Others, Turns

\* A step of no request.
LEMMA Unmoved ==
  ASSUME RequestsRight, UNCHANGED request, NEW kinds
  PROVE  RequestsRight' /\ OnlyOf(kinds)
  BY DEF RequestsRight, RequestsShaped, Shaped, Placed, OnlyOf

\* A free request has no kind.
LEMMA FreeIs ==
  ASSUME RequestsRight, NEW r \in Requests, Free(r)
  PROVE  request[r].op = "none"
  BY DEF RequestsRight, Placed, Free

\* A request that stops was doing something and is idle then.
LEMMA StopTurns ==
  ASSUME RequestsRight, NEW r \in Requests, Stop(r)
  PROVE  Turns(r, "none", "idle", None, None, None) /\ request[r].op # "none"
  BY Begins DEF Stop, RequestsRight, Placed, Free

\* The contest's requests touch neither challenges nor participants.
LEMMA ContestRequests ==
  ASSUME RequestsRight, ContestNext
  PROVE  /\ UNCHANGED <<challengeVars, participantVars>>
         /\ RequestsRight' /\ OnlyOf({"none", "contest"})
<1> DEFINE kinds == {"none", "contest"}
<1>1. PICK r \in Requests :
        \/ \E target \in ContestStatus : Transition(r, target) /\ UNCHANGED <<challengeVars, participantVars>>
        \/ SetStatus(r) /\ UNCHANGED <<challengeVars, participantVars>>
        \/ request[r].op = "contest" /\ Stop(r) /\ UNCHANGED <<challengeVars, participantVars>>
  BY DEF ContestNext
<1>2. ASSUME NEW target, Transition(r, target) PROVE RequestsRight' /\ OnlyOf(kinds)
  <2>1. Turns(r, "contest", "status", None, contest, target) /\ request[r].op = "none"
    BY <1>2, Begins, FreeIs DEF Transition, RequestsRight
  <2> QED
    BY <2>1, TurnsKeep DEF Placed, Turns
<1>3. ASSUME SetStatus(r) PROVE RequestsRight' /\ OnlyOf(kinds)
  <2>1. Turns(r, "none", "idle", None, None, None) /\ request[r].op = "contest"
    BY <1>3, Begins DEF SetStatus, RequestsRight, At
  <2> QED
    BY <2>1, TurnsKeep DEF Placed, Turns
<1>4. ASSUME request[r].op = "contest", Stop(r) PROVE RequestsRight' /\ OnlyOf(kinds)
  <2>1. Turns(r, "none", "idle", None, None, None) /\ request[r].op = "contest"
    BY <1>4, StopTurns
  <2> QED
    BY <2>1, TurnsKeep DEF Placed, Turns
<1> QED
  BY <1>1, <1>2, <1>3, <1>4

\* The request is answered, or given up.
Ends(r) == Turns(r, "none", "idle", None, None, None)

\* Where each step of the requests about forms and status goes.
LEMMA FormTurns ==
  ASSUME RequestsRight, NEW r \in Requests
  PROVE  /\ \A c \in Tests : BeginEdit(r, c) =>
              request[r].op = "none" /\ Turns(r, "edit", "field", c, challenge[c].status, None)
         /\ WriteField(r) =>
              /\ request[r].op = "edit" /\ request[r].at = "field"
              /\ IF request[r].seen = "PUBLISHED"
                   THEN Turns(r, "edit", "bump", request[r].on, request[r].seen, request[r].arg)
                   ELSE Ends(r)
         /\ BumpSchemaVersion(r) =>
              /\ request[r].op = "edit" /\ request[r].at = "bump"
              /\ Turns(r, "edit", "read", request[r].on, challenge[request[r].on].version + 1, request[r].arg)
         /\ SchemaJSON(r) =>
              /\ request[r].op \in {"edit", "challenge"} /\ request[r].at = "read"
              /\ Turns(r, request[r].op, "save", request[r].on, request[r].seen, form[request[r].on])
         /\ SaveSnapshot(r) =>
              request[r].op \in {"edit", "challenge"} /\ request[r].at = "save" /\ Ends(r)
         /\ \A c \in Tests, target \in ChallengeStatus : BeginStatus(r, c, target) =>
              request[r].op = "none" /\ Turns(r, "challenge", "status", c, challenge[c].version, target)
         /\ SetChallengeStatus(r) =>
              /\ request[r].op = "challenge" /\ request[r].at = "status"
              /\ IF request[r].arg = "PUBLISHED"
                   THEN Turns(r, "challenge", "read", request[r].on, request[r].seen, None)
                   ELSE Ends(r)
<1> USE DEF Ends
<1>1. ASSUME NEW c \in Tests, BeginEdit(r, c)
      PROVE  request[r].op = "none" /\ Turns(r, "edit", "field", c, challenge[c].status, None)
  BY <1>1, FreeIs, Begins DEF BeginEdit, RequestsRight
<1>2. ASSUME WriteField(r)
      PROVE  /\ request[r].op = "edit" /\ request[r].at = "field"
             /\ IF request[r].seen = "PUBLISHED"
                  THEN Turns(r, "edit", "bump", request[r].on, request[r].seen, request[r].arg)
                  ELSE Ends(r)
  <2>1. request[r].op = "edit" /\ request[r].at = "field"
    BY <1>2 DEF WriteField, WriteVersioning, At
  <2>2. IF request[r].seen = "PUBLISHED" THEN Becomes(r, [request[r] EXCEPT !.at = "bump"]) ELSE Done(r)
    BY <1>2 DEF WriteField, WriteVersioning
  <2> QED
    BY <2>1, <2>2, Moves, Begins DEF RequestsRight
<1>3. ASSUME BumpSchemaVersion(r)
      PROVE  /\ request[r].op = "edit" /\ request[r].at = "bump"
             /\ Turns(r, "edit", "read", request[r].on, challenge[request[r].on].version + 1, request[r].arg)
  <2>1. request[r].op = "edit" /\ request[r].at = "bump"
    BY <1>3 DEF BumpSchemaVersion, At
  <2> DEFINE next == challenge[request[r].on].version + 1
  <2>2. Becomes(r, [request[r] EXCEPT !.at = "read", !.seen = next])
    BY <1>3, Zenon DEF BumpSchemaVersion
  <2> HIDE DEF next
  <2>3. Turns(r, request[r].op, "read", request[r].on, next, request[r].arg)
    BY <2>2, Moves, Zenon DEF RequestsRight
  <2> QED
    BY <2>1, <2>3 DEF next
<1>4. ASSUME SchemaJSON(r)
      PROVE  /\ request[r].op \in {"edit", "challenge"} /\ request[r].at = "read"
             /\ Turns(r, request[r].op, "save", request[r].on, request[r].seen, form[request[r].on])
  <2>1. request[r].op \in {"edit", "challenge"} /\ request[r].at = "read"
    BY <1>4 DEF SchemaJSON, RequestsRight, Placed
  <2> DEFINE fields == form[request[r].on]
  <2>2. Becomes(r, [request[r] EXCEPT !.at = "save", !.arg = fields])
    BY <1>4, Zenon DEF SchemaJSON
  <2> HIDE DEF fields
  <2>3. Turns(r, request[r].op, "save", request[r].on, request[r].seen, fields)
    BY <2>2, Moves, Zenon DEF RequestsRight
  <2> QED
    BY <2>1, <2>3 DEF fields
<1>5. ASSUME SaveSnapshot(r)
      PROVE  request[r].op \in {"edit", "challenge"} /\ request[r].at = "save" /\ Ends(r)
  <2>1. request[r].op \in {"edit", "challenge"} /\ request[r].at = "save"
    BY <1>5 DEF SaveSnapshot, RequestsRight, Placed
  <2> QED
    BY <1>5, <2>1, Begins DEF SaveSnapshot, RequestsRight
<1>6. ASSUME NEW c \in Tests, NEW target \in ChallengeStatus, BeginStatus(r, c, target)
      PROVE  request[r].op = "none" /\ Turns(r, "challenge", "status", c, challenge[c].version, target)
  BY <1>6, FreeIs, Begins DEF BeginStatus, RequestsRight
<1>7. ASSUME SetChallengeStatus(r)
      PROVE  /\ request[r].op = "challenge" /\ request[r].at = "status"
             /\ IF request[r].arg = "PUBLISHED"
                  THEN Turns(r, "challenge", "read", request[r].on, request[r].seen, None)
                  ELSE Ends(r)
  <2>1. request[r].op = "challenge" /\ request[r].at = "status"
    BY <1>7 DEF SetChallengeStatus, At
  <2>2. CASE request[r].arg = "PUBLISHED"
    <3>1. Becomes(r, [request[r] EXCEPT !.at = "read", !.arg = None])
      BY <1>7, <2>2, Zenon DEF SetChallengeStatus
    <3>2. Turns(r, request[r].op, "read", request[r].on, request[r].seen, None)
      BY <3>1, Moves, Zenon DEF RequestsRight
    <3> QED
      BY <2>1, <2>2, <3>2
  <2>3. CASE request[r].arg # "PUBLISHED"
    BY <1>7, <2>1, <2>3, Begins DEF SetChallengeStatus, RequestsRight
  <2> QED
    BY <2>1, <2>2, <2>3
<1> QED
  BY <1>1, <1>2, <1>3, <1>4, <1>5, <1>6, <1>7

\* Where each step of a copy goes.
LEMMA CopyTurns ==
  ASSUME RequestsRight, NEW r \in Requests
  PROVE  /\ \A c \in Tests : BeginDuplicate(r, c) =>
              request[r].op = "none" /\ Turns(r, "duplicate", "create", c, challenge[c].accepts, form[c])
         /\ \A d \in Tests : CreateCopy(r, d) =>
              /\ request[r].op = "duplicate" /\ request[r].at = "create"
              /\ Turns(r, "duplicate", "copy", d, request[r].seen, request[r].arg)
         /\ CopyField(r) =>
              /\ request[r].op = "duplicate" /\ request[r].at = "copy"
              /\ \/ Ends(r) /\ form' = form
                 \/ /\ Turns(r, "duplicate", "copy", request[r].on, request[r].seen, Tail(request[r].arg))
                    /\ \E fields : form' = [form EXCEPT ![request[r].on] = fields]
         /\ EndCopy(r) => request[r].op = "duplicate" /\ request[r].at = "copy" /\ Ends(r)
<1> USE DEF Ends
<1>1. ASSUME NEW c \in Tests, BeginDuplicate(r, c)
      PROVE  request[r].op = "none" /\ Turns(r, "duplicate", "create", c, challenge[c].accepts, form[c])
  BY <1>1, FreeIs, Begins DEF BeginDuplicate, RequestsRight
<1>2. ASSUME NEW d \in Tests, CreateCopy(r, d)
      PROVE  /\ request[r].op = "duplicate" /\ request[r].at = "create"
             /\ Turns(r, "duplicate", "copy", d, request[r].seen, request[r].arg)
  <2>1. request[r].op = "duplicate" /\ request[r].at = "create"
    BY <1>2 DEF CreateCopy, At
  <2>2. Becomes(r, [request[r] EXCEPT !.at = "copy", !.on = d])
    BY <1>2, Zenon DEF CreateCopy
  <2>3. Turns(r, request[r].op, "copy", d, request[r].seen, request[r].arg)
    BY <2>2, Moves, Zenon DEF RequestsRight
  <2> QED
    BY <2>1, <2>3
<1>3. ASSUME CopyField(r)
      PROVE  /\ request[r].op = "duplicate" /\ request[r].at = "copy"
             /\ \/ Ends(r) /\ form' = form
                \/ /\ Turns(r, "duplicate", "copy", request[r].on, request[r].seen, Tail(request[r].arg))
                   /\ \E fields : form' = [form EXCEPT ![request[r].on] = fields]
  <2>1. request[r].op = "duplicate" /\ request[r].at = "copy"
    BY <1>3 DEF CopyField, At
  <2> DEFINE rest == Tail(request[r].arg)
             fields == Append(form[request[r].on], Head(request[r].arg))
  <2>2. \/ Done(r) /\ form' = form
        \/ Becomes(r, [request[r] EXCEPT !.arg = rest]) /\ form' = [form EXCEPT ![request[r].on] = fields]
    BY <1>3, Zenon DEF CopyField
  <2> HIDE DEF rest, fields
  <2>3. Becomes(r, [request[r] EXCEPT !.arg = rest])
          => Turns(r, request[r].op, request[r].at, request[r].on, request[r].seen, rest)
    BY Moves, Zenon DEF RequestsRight
  <2>4. \/ Ends(r) /\ form' = form
        \/ /\ Turns(r, "duplicate", "copy", request[r].on, request[r].seen, rest)
           /\ \E new : form' = [form EXCEPT ![request[r].on] = new]
    BY <2>1, <2>2, <2>3, Begins DEF RequestsRight
  <2> QED
    BY <2>1, <2>4, Zenon DEF rest
<1>4. ASSUME EndCopy(r) PROVE request[r].op = "duplicate" /\ request[r].at = "copy" /\ Ends(r)
  BY <1>4, Begins DEF EndCopy, At, RequestsRight
<1> QED
  BY <1>1, <1>2, <1>3, <1>4, Zenon

\* Where each step of the requests about briefings goes.
LEMMA BriefingTurns ==
  ASSUME RequestsRight, NEW r \in Requests
  PROVE  /\ \A c \in Tests, u \in Contestants \cup {None} : BeginUpload(r, c, u) =>
              /\ request[r].op = "none"
              /\ \E at \in {"override", "put"} : \E seen : Turns(r, "upload", at, <<c, u>>, seen, None)
         /\ ReplaceFiles(r) =>
              /\ request[r].op = "upload" /\ request[r].at = "override"
              /\ \E seen : Turns(r, "upload", "put", request[r].on, seen, request[r].arg)
         /\ \A k \in Keys : PutBriefingFile(r, k) =>
              /\ request[r].op = "upload" /\ request[r].at = "put"
              /\ \/ Ends(r) /\ stored' = stored /\ doubtful' = doubtful
                 \/ /\ Turns(r, "upload", "insert", request[r].on, request[r].seen, k)
                    /\ stored' = stored \cup {k}
                    /\ (Fresh(k) /\ doubtful' = doubtful) \/ doubtful' = doubtful \cup {k}
         /\ InsertBriefingFile(r) =>
              /\ request[r].op = "upload" /\ request[r].at = "insert"
              /\ \E at \in {"link", "remove"} : Turns(r, "upload", at, request[r].on, request[r].seen, request[r].arg)
         /\ LinkBriefingFile(r) =>
              /\ request[r].op = "upload" /\ request[r].at = "link"
              /\ \/ Ends(r) /\ doubtful' = doubtful /\ \E row : link' = [link EXCEPT ![request[r].arg] = row]
                 \/ /\ Turns(r, "upload", "remove", request[r].on, request[r].seen, request[r].arg)
                    /\ \/ link' = link /\ doubtful' = doubtful
                       \/ /\ doubtful' = doubtful \cup {request[r].arg}
                          /\ \E row : link' = [link EXCEPT ![request[r].arg] = row]
         /\ RemoveObject(r) =>
              request[r].op \in {"upload", "unlink"} /\ request[r].at = "remove" /\ Ends(r)
         /\ \A k \in Keys : DeleteBriefingFile(r, k) =>
              request[r].op = "none" /\ Turns(r, "unlink", "remove", None, None, k)
<1> USE DEF Ends
<1>1. ASSUME NEW c \in Tests, NEW u \in Contestants \cup {None}, BeginUpload(r, c, u)
      PROVE  /\ request[r].op = "none"
             /\ \E at \in {"override", "put"} : \E seen : Turns(r, "upload", at, <<c, u>>, seen, None)
  <2>1. PICK at \in {"override", "put"} : \E seen : Becomes(r, Doing("upload", at, <<c, u>>, seen, None))
    BY <1>1 DEF BeginUpload
  <2>2. PICK seen : Becomes(r, Doing("upload", at, <<c, u>>, seen, None))
    BY <2>1
  <2>3. Turns(r, "upload", at, <<c, u>>, seen, None)
    BY <2>2, Begins DEF RequestsRight
  <2> QED
    BY <1>1, <2>3, FreeIs DEF BeginUpload
<1>2. ASSUME ReplaceFiles(r)
      PROVE  /\ request[r].op = "upload" /\ request[r].at = "override"
             /\ \E seen : Turns(r, "upload", "put", request[r].on, seen, request[r].arg)
  <2>1. request[r].op = "upload" /\ request[r].at = "override"
    BY <1>2 DEF ReplaceFiles, At
  <2>2. PICK seen : Becomes(r, [request[r] EXCEPT !.at = "put", !.seen = seen])
    BY <1>2, Zenon DEF ReplaceFiles
  <2>3. Turns(r, request[r].op, "put", request[r].on, seen, request[r].arg)
    BY <2>2, Moves, Zenon DEF RequestsRight
  <2> QED
    BY <2>1, <2>3
<1>3. ASSUME NEW k \in Keys, PutBriefingFile(r, k)
      PROVE  /\ request[r].op = "upload" /\ request[r].at = "put"
             /\ \/ Ends(r) /\ stored' = stored /\ doubtful' = doubtful
                \/ /\ Turns(r, "upload", "insert", request[r].on, request[r].seen, k)
                   /\ stored' = stored \cup {k}
                   /\ (Fresh(k) /\ doubtful' = doubtful) \/ doubtful' = doubtful \cup {k}
  <2>1. request[r].op = "upload" /\ request[r].at = "put"
    BY <1>3 DEF PutBriefingFile, At
  <2>2. \/ Done(r) /\ stored' = stored /\ doubtful' = doubtful
        \/ /\ stored' = stored \cup {k}
           /\ (Fresh(k) /\ doubtful' = doubtful) \/ doubtful' = doubtful \cup {k}
           /\ Becomes(r, [request[r] EXCEPT !.at = "insert", !.arg = k])
    BY <1>3, Zenon DEF PutBriefingFile, Doubt
  <2>3. Becomes(r, [request[r] EXCEPT !.at = "insert", !.arg = k])
          => Turns(r, request[r].op, "insert", request[r].on, request[r].seen, k)
    BY Moves, Zenon DEF RequestsRight
  <2>4. Done(r) => Ends(r)
    BY Begins DEF RequestsRight
  <2> QED
    BY <2>1, <2>2, <2>3, <2>4, Zenon
<1>4. ASSUME InsertBriefingFile(r)
      PROVE  /\ request[r].op = "upload" /\ request[r].at = "insert"
             /\ \E at \in {"link", "remove"} : Turns(r, "upload", at, request[r].on, request[r].seen, request[r].arg)
  <2>1. request[r].op = "upload" /\ request[r].at = "insert"
    BY <1>4 DEF InsertBriefingFile, At
  <2>2. PICK at \in {"link", "remove"} : Becomes(r, [request[r] EXCEPT !.at = at])
    BY <1>4, Zenon DEF InsertBriefingFile
  <2>3. Turns(r, request[r].op, at, request[r].on, request[r].seen, request[r].arg)
    BY <2>2, Moves, Zenon DEF RequestsRight
  <2> QED
    BY <2>1, <2>3
<1>7. ASSUME LinkBriefingFile(r)
      PROVE  /\ request[r].op = "upload" /\ request[r].at = "link"
             /\ \/ Ends(r) /\ doubtful' = doubtful /\ \E row : link' = [link EXCEPT ![request[r].arg] = row]
                \/ /\ Turns(r, "upload", "remove", request[r].on, request[r].seen, request[r].arg)
                   /\ \/ link' = link /\ doubtful' = doubtful
                      \/ /\ doubtful' = doubtful \cup {request[r].arg}
                         /\ \E row : link' = [link EXCEPT ![request[r].arg] = row]
  <2>1. request[r].op = "upload" /\ request[r].at = "link"
    BY <1>7 DEF LinkBriefingFile, At
  <2>2. \/ Done(r) /\ doubtful' = doubtful /\ \E row : link' = [link EXCEPT ![request[r].arg] = row]
        \/ /\ Becomes(r, [request[r] EXCEPT !.at = "remove"])
           /\ \/ link' = link /\ doubtful' = doubtful
              \/ /\ doubtful' = doubtful \cup {request[r].arg}
                 /\ \E row : link' = [link EXCEPT ![request[r].arg] = row]
    BY <1>7, Zenon DEF LinkBriefingFile, Doubt
  <2>3. Becomes(r, [request[r] EXCEPT !.at = "remove"])
          => Turns(r, request[r].op, "remove", request[r].on, request[r].seen, request[r].arg)
    BY Moves, Zenon DEF RequestsRight
  <2>4. Done(r) => Ends(r)
    BY Begins DEF RequestsRight
  <2> QED
    BY <2>1, <2>2, <2>3, <2>4, Zenon
<1>5. ASSUME RemoveObject(r)
      PROVE  request[r].op \in {"upload", "unlink"} /\ request[r].at = "remove" /\ Ends(r)
  BY <1>5, Begins DEF RemoveObject, RequestsRight, Placed
<1>6. ASSUME NEW k \in Keys, DeleteBriefingFile(r, k)
      PROVE  request[r].op = "none" /\ Turns(r, "unlink", "remove", None, None, k)
  BY <1>6, FreeIs, Begins DEF DeleteBriefingFile, RequestsRight
<1> HIDE DEF Ends
<1> QED
  BY <1>1, <1>2, <1>3, <1>4, <1>5, <1>6, <1>7

\* Where each step of the requests about the list of participants goes.
LEMMA ListTurns ==
  ASSUME RequestsRight, NEW r \in Requests
  PROVE  /\ \A p \in People : BeginUpdatePerson(r, p) =>
              request[r].op = "none" /\ \E input : Turns(r, "person", "write", p, person[p], input)
         /\ \A p \in People, target \in Status : BeginPersonStatus(r, p, target) =>
              request[r].op = "none" /\ Turns(r, "person", "status", p, person[p].status, target)
         /\ UpdatePerson(r) => request[r].op = "person" /\ request[r].at = "write" /\ Ends(r)
         /\ SetPersonStatus(r) => request[r].op = "person" /\ request[r].at = "status" /\ Ends(r)
         /\ \A row \in Rows : BeginImport(r, row) =>
              \/ request' = request
              \/ /\ request[r].op = "none"
                 /\ \E at \in {"create", "update"}, p \in People : \E seen : Turns(r, "import", at, p, seen, row)
         /\ CreateImported(r) => request[r].op = "import" /\ request[r].at = "create" /\ Ends(r)
         /\ UpdateImported(r) => request[r].op = "import" /\ request[r].at = "update" /\ Ends(r)
<1> USE DEF Ends
<1>1. ASSUME NEW p \in People, BeginUpdatePerson(r, p)
      PROVE  request[r].op = "none" /\ \E input : Turns(r, "person", "write", p, person[p], input)
  <2>1. PICK input : Becomes(r, Doing("person", "write", p, person[p], input))
    BY <1>1, Zenon DEF BeginUpdatePerson
  <2>2. Turns(r, "person", "write", p, person[p], input)
    BY <2>1, Begins DEF RequestsRight
  <2> QED
    BY <1>1, <2>2, FreeIs DEF BeginUpdatePerson
<1>2. ASSUME NEW p \in People, NEW target \in Status, BeginPersonStatus(r, p, target)
      PROVE  request[r].op = "none" /\ Turns(r, "person", "status", p, person[p].status, target)
  BY <1>2, FreeIs, Begins DEF BeginPersonStatus, RequestsRight
<1>3. ASSUME UpdatePerson(r) PROVE request[r].op = "person" /\ request[r].at = "write" /\ Ends(r)
  <2>1. Done(r) /\ At(r, "person", "write")
    BY <1>3, Zenon DEF UpdatePerson
  <2> QED
    BY <2>1, Begins DEF At, RequestsRight
<1>4. ASSUME SetPersonStatus(r) PROVE request[r].op = "person" /\ request[r].at = "status" /\ Ends(r)
  BY <1>4, Begins DEF SetPersonStatus, At, RequestsRight
<1>5. ASSUME NEW row \in Rows, BeginImport(r, row)
      PROVE  \/ request' = request
             \/ /\ request[r].op = "none"
                /\ \E at \in {"create", "update"}, p \in People : \E seen : Turns(r, "import", at, p, seen, row)
  <2> DEFINE matches == importMatches(row)
             found == CHOOSE p \in matches : TRUE
  <2>1. \/ request' = request
        \/ \E p \in People : Becomes(r, Doing("import", "create", p, NoPerson, row))
        \/ matches # {} /\ Becomes(r, Doing("import", "update", found, person[found], row))
    BY <1>5, Zenon DEF BeginImport
  <2>2. matches \subseteq People
    BY DEF importMatches, FindByCard, FindByNameBirth
  <2>3. matches # {} => found \in People
    BY <2>2
  <2> HIDE DEF found, matches
  <2>4. \/ request' = request
        \/ \E at \in {"create", "update"}, p \in People : \E seen : Becomes(r, Doing("import", at, p, seen, row))
    BY <2>1, <2>3
  <2>5. ASSUME NEW at \in {"create", "update"}, NEW p \in People, NEW seen,
               Becomes(r, Doing("import", at, p, seen, row))
        PROVE  Turns(r, "import", at, p, seen, row)
    BY <2>5, Begins DEF RequestsRight
  <2>6. request[r].op = "none"
    BY <1>5, FreeIs, Zenon DEF BeginImport
  <2> QED
    BY <2>4, <2>5, <2>6
<1>6. ASSUME CreateImported(r) PROVE request[r].op = "import" /\ request[r].at = "create" /\ Ends(r)
  <2>1. Done(r) /\ At(r, "import", "create")
    BY <1>6, Zenon DEF CreateImported
  <2> QED
    BY <2>1, Begins DEF At, RequestsRight
<1>7. ASSUME UpdateImported(r) PROVE request[r].op = "import" /\ request[r].at = "update" /\ Ends(r)
  <2>1. Done(r) /\ At(r, "import", "update")
    BY <1>7, Zenon DEF UpdateImported
  <2> QED
    BY <2>1, Begins DEF At, RequestsRight
<1> HIDE DEF Ends
<1> QED
  BY <1>1, <1>2, <1>3, <1>4, <1>5, <1>6, <1>7

\* Where each step of signing in goes.
LEMMA LoginTurns ==
  ASSUME RequestsRight, NEW r \in Requests
  PROVE  /\ \A name \in Names : LoginByName(r, name) =>
              request[r].op = "none" /\ \E p \in People : Turns(r, "login", "issue", p, None, None)
         /\ \A card \in Cards : LoginByIdentifier(r, card) =>
              request[r].op = "none" /\ \E p \in People : Turns(r, "login", "issue", p, None, None)
         /\ \A a \in Accounts : LoginByVK(r, a) =>
              request[r].op = "none" /\ \E p \in People : Turns(r, "login", "bind", p, None, a)
         /\ BindVK(r) =>
              /\ request[r].op = "login" /\ request[r].at = "bind"
              /\ Turns(r, "login", "issue", request[r].on, request[r].seen, None)
         /\ \A t \in Tokens : CreateSession(r, t) =>
              request[r].op = "login" /\ request[r].at = "issue" /\ Ends(r)
<1> USE DEF Ends
<1>1. ASSUME NEW name \in Names, LoginByName(r, name)
      PROVE  request[r].op = "none" /\ \E p \in People : Turns(r, "login", "issue", p, None, None)
  BY <1>1, FreeIs, Begins DEF LoginByName, IssueSession, FindByNameBirth, RequestsRight
<1>2. ASSUME NEW card \in Cards, LoginByIdentifier(r, card)
      PROVE  request[r].op = "none" /\ \E p \in People : Turns(r, "login", "issue", p, None, None)
  BY <1>2, FreeIs, Begins DEF LoginByIdentifier, IssueSession, FindByCard, RequestsRight
<1>3. ASSUME NEW a \in Accounts, LoginByVK(r, a)
      PROVE  request[r].op = "none" /\ \E p \in People : Turns(r, "login", "bind", p, None, a)
  <2>1. matchesOf(a) \subseteq People
    BY DEF matchesOf, ListActiveByVKUserID, ListActiveByVKIdentity
  <2>2. PICK p \in matchesOf(a) : Becomes(r, Doing("login", "bind", p, None, a))
    BY <1>3 DEF LoginByVK
  <2>3. Turns(r, "login", "bind", p, None, a)
    BY <2>2, Begins DEF RequestsRight
  <2> QED
    BY <1>3, <2>1, <2>3, FreeIs DEF LoginByVK
<1>4. ASSUME BindVK(r)
      PROVE  /\ request[r].op = "login" /\ request[r].at = "bind"
             /\ Turns(r, "login", "issue", request[r].on, request[r].seen, None)
  <2>1. At(r, "login", "bind") /\ Becomes(r, [request[r] EXCEPT !.at = "issue", !.arg = None])
    BY <1>4, Zenon DEF BindVK
  <2>2. Turns(r, request[r].op, "issue", request[r].on, request[r].seen, None)
    BY <2>1, Moves, Zenon DEF RequestsRight
  <2> QED
    BY <2>1, <2>2, Zenon DEF At
<1>5. ASSUME NEW t \in Tokens, CreateSession(r, t)
      PROVE  request[r].op = "login" /\ request[r].at = "issue" /\ Ends(r)
  BY <1>5, Begins DEF CreateSession, At, RequestsRight
<1> HIDE DEF Ends
<1> QED
  BY <1>1, <1>2, <1>3, <1>4, <1>5

\* The places these steps go to are right for their kinds.
LEMMA TurnsRight ==
  ASSUME RequestsRight, NEW r \in Requests, NEW kinds, NEW op, NEW at, NEW on, NEW seen, NEW arg,
         Turns(r, op, at, on, seen, arg), request[r].op \in kinds, op \in kinds,
         \/ op = "none" /\ at = "idle"
         \/ op = "person" /\ at \in {"write", "status"}
         \/ op = "import" /\ at \in {"create", "update"}
         \/ op = "login" /\ at \in {"bind", "issue"}
         \/ op = "edit" /\ at \in {"field", "bump", "read", "save"}
         \/ op = "challenge" /\ at \in {"status", "read", "save"}
         \/ op = "duplicate" /\ at \in {"create", "copy"}
         \/ op = "upload" /\ at \in {"override", "put", "insert", "link", "remove"}
         \/ op = "unlink" /\ at = "remove"
  PROVE  RequestsRight' /\ OnlyOf(kinds)
<1>1. Placed(r)'
  BY DEF Placed, Turns
<1> QED
  BY <1>1, TurnsKeep

FormKinds == {"none", "edit", "challenge", "duplicate"}
BriefingKinds == {"none", "upload", "unlink"}
PeopleKinds == {"none", "person", "import", "login"}

\* The requests about forms touch no briefing and no request of another kind.
LEMMA FormRequests ==
  ASSUME RequestsRight, FormNext
  PROVE  UNCHANGED briefingVars /\ UNCHANGED contest /\ RequestsRight' /\ OnlyOf(FormKinds)
<1> DEFINE Fine == UNCHANGED briefingVars /\ UNCHANGED contest /\ RequestsRight' /\ OnlyOf(FormKinds)
<1> USE DEF FormKinds
<1>1. PICK r \in Requests :
        \/ \E c \in Tests : Create(c) \/ Update(c) \/ BeginEdit(r, c) \/ BeginDuplicate(r, c) \/ CreateCopy(r, c)
        \/ \E c \in Tests, target \in ChallengeStatus : BeginStatus(r, c, target)
        \/ WriteField(r) \/ BumpSchemaVersion(r) \/ SchemaJSON(r) \/ SaveSnapshot(r)
        \/ SetChallengeStatus(r) \/ CopyField(r) \/ EndCopy(r)
  BY DEF FormNext
<1>2. ASSUME NEW c \in Tests, Create(c) PROVE Fine
  BY <1>2, Unmoved DEF Create
<1>3. ASSUME NEW c \in Tests, Update(c) PROVE Fine
  BY <1>3, Unmoved DEF Update
<1>4. ASSUME NEW c \in Tests, BeginEdit(r, c) PROVE Fine
  <2>1. request[r].op = "none" /\ Turns(r, "edit", "field", c, challenge[c].status, None)
    BY <1>4, FormTurns
  <2> QED
    BY <1>4, <2>1, TurnsRight DEF BeginEdit, challengeVars, briefingVars
<1>5. ASSUME NEW c \in Tests, BeginDuplicate(r, c) PROVE Fine
  <2>1. request[r].op = "none" /\ Turns(r, "duplicate", "create", c, challenge[c].accepts, form[c])
    BY <1>5, CopyTurns
  <2> QED
    BY <1>5, <2>1, TurnsRight DEF BeginDuplicate, challengeVars, briefingVars
<1>6. ASSUME NEW c \in Tests, CreateCopy(r, c) PROVE Fine
  <2>1. request[r].op = "duplicate" /\ Turns(r, "duplicate", "copy", c, request[r].seen, request[r].arg)
    BY <1>6, CopyTurns
  <2> QED
    BY <1>6, <2>1, TurnsRight DEF CreateCopy
<1>7. ASSUME NEW c \in Tests, NEW target \in ChallengeStatus, BeginStatus(r, c, target) PROVE Fine
  <2>1. request[r].op = "none" /\ Turns(r, "challenge", "status", c, challenge[c].version, target)
    BY <1>7, FormTurns
  <2> QED
    BY <1>7, <2>1, TurnsRight DEF BeginStatus, challengeVars, briefingVars
<1>8. ASSUME WriteField(r) PROVE Fine
  <2>1. request[r].op = "edit" /\ (Turns(r, "edit", "bump", request[r].on, request[r].seen, request[r].arg) \/ Ends(r))
    BY <1>8, FormTurns
  <2> QED
    BY <1>8, <2>1, TurnsRight DEF WriteField, WriteVersioning, Ends
<1>9. ASSUME BumpSchemaVersion(r) PROVE Fine
  <2>1. /\ request[r].op = "edit"
        /\ Turns(r, "edit", "read", request[r].on, challenge[request[r].on].version + 1, request[r].arg)
    BY <1>9, FormTurns
  <2> QED
    BY <1>9, <2>1, TurnsRight DEF BumpSchemaVersion
<1>10. ASSUME SchemaJSON(r) PROVE Fine
  <2>1. /\ request[r].op \in {"edit", "challenge"}
        /\ Turns(r, request[r].op, "save", request[r].on, request[r].seen, form[request[r].on])
    BY <1>10, FormTurns
  <2> QED
    BY <1>10, <2>1, TurnsRight DEF SchemaJSON, challengeVars, briefingVars
<1>11. ASSUME SaveSnapshot(r) PROVE Fine
  <2>1. request[r].op \in {"edit", "challenge"} /\ Ends(r)
    BY <1>11, FormTurns
  <2> QED
    BY <1>11, <2>1, TurnsRight DEF SaveSnapshot, Ends
<1>12. ASSUME SetChallengeStatus(r) PROVE Fine
  <2>1. /\ request[r].op = "challenge"
        /\ Turns(r, "challenge", "read", request[r].on, request[r].seen, None) \/ Ends(r)
    BY <1>12, FormTurns
  <2> QED
    BY <1>12, <2>1, TurnsRight DEF SetChallengeStatus, Ends
<1>13. ASSUME CopyField(r) PROVE Fine
  <2>1. /\ request[r].op = "duplicate"
        /\ \/ Turns(r, "duplicate", "copy", request[r].on, request[r].seen, Tail(request[r].arg))
           \/ Ends(r)
    BY <1>13, CopyTurns
  <2>2. UNCHANGED <<contest, briefingVars>>
    BY <1>13, Zenon DEF CopyField
  <2> QED
    BY <2>1, <2>2, TurnsRight DEF Ends
<1>14. ASSUME EndCopy(r) PROVE Fine
  <2>1. request[r].op = "duplicate" /\ Ends(r)
    BY <1>14, CopyTurns
  <2> QED
    BY <1>14, <2>1, TurnsRight DEF EndCopy, Ends, challengeVars, briefingVars
<1> HIDE DEF Fine
<1>15. Fine
  BY <1>1, <1>2, <1>3, <1>4, <1>5, <1>6, <1>7, <1>8, <1>9, <1>10, <1>11, <1>12, <1>13, <1>14
<1> QED
  BY <1>15 DEF Fine

\* The requests about briefings touch no form and no request of another kind.
LEMMA BriefingRequests ==
  ASSUME RequestsRight, BriefingNext
  PROVE  UNCHANGED formVars /\ UNCHANGED contest /\ RequestsRight' /\ OnlyOf(BriefingKinds)
<1> DEFINE Fine == UNCHANGED formVars /\ UNCHANGED contest /\ RequestsRight' /\ OnlyOf(BriefingKinds)
<1> USE DEF BriefingKinds
<1>1. PICK r \in Requests :
        \/ \E c \in Tests : AdminSaveBriefing(c)
        \/ \E c \in Tests, u \in Contestants :
             AdminClearOverride(c, u) \/ \E input \in OverrideInputs : AdminSaveOverride(c, u, input)
        \/ \E c \in Tests, u \in Contestants \cup {None} : BeginUpload(r, c, u)
        \/ ReplaceFiles(r) \/ InsertBriefingFile(r) \/ LinkBriefingFile(r) \/ RemoveObject(r)
        \/ \E k \in Keys : PutBriefingFile(r, k) \/ DeleteBriefingFile(r, k)
  BY DEF BriefingNext
<1>2. ASSUME NEW c \in Tests, AdminSaveBriefing(c) PROVE Fine
  BY <1>2, Unmoved DEF AdminSaveBriefing
<1>3. ASSUME NEW c \in Tests, NEW u \in Contestants, AdminClearOverride(c, u) PROVE Fine
  BY <1>3, Unmoved DEF AdminClearOverride
<1>4. ASSUME NEW c \in Tests, NEW u \in Contestants, NEW input \in OverrideInputs, AdminSaveOverride(c, u, input)
      PROVE  Fine
  <2>1. UNCHANGED <<contest, request, formVars>>
    BY <1>4, Zenon DEF AdminSaveOverride
  <2> QED
    BY <2>1, Unmoved
<1>5. ASSUME NEW c \in Tests, NEW u \in Contestants \cup {None}, BeginUpload(r, c, u) PROVE Fine
  <2>1. PICK at \in {"override", "put"} : \E seen : Turns(r, "upload", at, <<c, u>>, seen, None)
    BY <1>5, BriefingTurns
  <2>2. request[r].op = "none"
    BY <1>5, BriefingTurns
  <2> QED
    BY <1>5, <2>1, <2>2, TurnsRight DEF BeginUpload, challengeVars, formVars
<1>6. ASSUME ReplaceFiles(r) PROVE Fine
  <2>1. request[r].op = "upload" /\ \E seen : Turns(r, "upload", "put", request[r].on, seen, request[r].arg)
    BY <1>6, BriefingTurns
  <2>2. UNCHANGED <<contest, formVars>>
    BY <1>6, Zenon DEF ReplaceFiles
  <2> QED
    BY <2>1, <2>2, TurnsRight
<1>7. ASSUME InsertBriefingFile(r) PROVE Fine
  <2>1. PICK at \in {"link", "remove"} :
          /\ request[r].op = "upload"
          /\ Turns(r, "upload", at, request[r].on, request[r].seen, request[r].arg)
    BY <1>7, BriefingTurns
  <2> QED
    BY <1>7, <2>1, TurnsRight DEF InsertBriefingFile
<1>12. ASSUME LinkBriefingFile(r) PROVE Fine
  <2>1. /\ request[r].op = "upload"
        /\ Turns(r, "upload", "remove", request[r].on, request[r].seen, request[r].arg) \/ Ends(r)
    BY <1>12, BriefingTurns
  <2>2. UNCHANGED <<contest, formVars>>
    BY <1>12, Zenon DEF LinkBriefingFile
  <2> QED
    BY <2>1, <2>2, TurnsRight DEF Ends
<1>8. ASSUME RemoveObject(r) PROVE Fine
  <2>1. request[r].op \in {"upload", "unlink"} /\ Ends(r)
    BY <1>8, BriefingTurns
  <2> QED
    BY <1>8, <2>1, TurnsRight DEF RemoveObject, Ends
<1>9. ASSUME NEW k \in Keys, PutBriefingFile(r, k) PROVE Fine
  <2>1. request[r].op = "upload" /\ (Turns(r, "upload", "insert", request[r].on, request[r].seen, k) \/ Ends(r))
    BY <1>9, BriefingTurns
  <2>2. UNCHANGED <<contest, formVars>>
    BY <1>9, Zenon DEF PutBriefingFile
  <2> QED
    BY <2>1, <2>2, TurnsRight DEF Ends
<1>10. ASSUME NEW k \in Keys, DeleteBriefingFile(r, k) PROVE Fine
  <2>1. request[r].op = "none" /\ Turns(r, "unlink", "remove", None, None, k)
    BY <1>10, BriefingTurns
  <2> QED
    BY <1>10, <2>1, TurnsRight DEF DeleteBriefingFile
<1> HIDE DEF Fine
<1>11. Fine
  BY <1>1, <1>2, <1>3, <1>4, <1>5, <1>6, <1>7, <1>8, <1>9, <1>10, <1>12
<1> QED
  BY <1>11 DEF Fine

\* The requests about participants touch no request of another kind.
LEMMA ParticipantRequests ==
  ASSUME RequestsRight, ParticipantsNext
  PROVE  UNCHANGED contest /\ RequestsRight' /\ OnlyOf(PeopleKinds)
<1> DEFINE Fine == UNCHANGED contest /\ RequestsRight' /\ OnlyOf(PeopleKinds)
<1> USE DEF PeopleKinds
<1>1. \/ \E p \in People : CreatePerson(p)
      \/ \E d \in Directions : CreateDirection(d) \/ DeleteDirection(d)
      \/ \E t \in Tokens : Logout(t) \/ SessionExpires(t)
      \/ \E r \in Requests :
           \/ \E p \in People : BeginUpdatePerson(r, p) \/ \E target \in Status : BeginPersonStatus(r, p, target)
           \/ UpdatePerson(r) \/ SetPersonStatus(r)
           \/ \E row \in Rows : BeginImport(r, row)
           \/ CreateImported(r) \/ UpdateImported(r)
      \/ \E r \in Requests :
           \/ \E name \in Names : LoginByName(r, name)
           \/ \E card \in Cards : LoginByIdentifier(r, card)
           \/ \E a \in Accounts : LoginByVK(r, a)
           \/ BindVK(r)
           \/ \E t \in Tokens : CreateSession(r, t)
           \/ StopParticipant(r)
  BY DEF ParticipantsNext, ListNext, LoginNext
<1>2. ASSUME NEW p \in People, CreatePerson(p) PROVE Fine
  <2>1. UNCHANGED <<contest, request>>
    BY <1>2, Zenon DEF CreatePerson
  <2> QED
    BY <2>1, Unmoved
<1>3. ASSUME NEW d \in Directions, CreateDirection(d) \/ DeleteDirection(d) PROVE Fine
  BY <1>3, Unmoved DEF CreateDirection, DeleteDirection
<1>4. ASSUME NEW t \in Tokens, Logout(t) \/ SessionExpires(t) PROVE Fine
  BY <1>4, Unmoved DEF Logout, SessionExpires, contestVars
<1>5. ASSUME NEW r \in Requests, NEW p \in People,
             BeginUpdatePerson(r, p) \/ \E target \in Status : BeginPersonStatus(r, p, target)
      PROVE  Fine
  <2>1. /\ request[r].op = "none"
        /\ \E at \in {"write", "status"} : \E on, seen, arg : Turns(r, "person", at, on, seen, arg)
    BY <1>5, ListTurns
  <2>2. UNCHANGED contest
    BY <1>5, Zenon DEF BeginUpdatePerson, BeginPersonStatus
  <2> QED
    BY <2>1, <2>2, TurnsRight
<1>6. ASSUME NEW r \in Requests, UpdatePerson(r) \/ SetPersonStatus(r) PROVE Fine
  <2>1. request[r].op = "person" /\ Ends(r)
    BY <1>6, ListTurns
  <2>2. UNCHANGED contest
    BY <1>6, Zenon DEF UpdatePerson, SetPersonStatus
  <2> QED
    BY <2>1, <2>2, TurnsRight DEF Ends
<1>7. ASSUME NEW r \in Requests, NEW row \in Rows, BeginImport(r, row) PROVE Fine
  <2>1. \/ request' = request
        \/ /\ request[r].op = "none"
           /\ \E at \in {"create", "update"}, p \in People : \E seen : Turns(r, "import", at, p, seen, row)
    BY <1>7, ListTurns
  <2>2. UNCHANGED contest
    BY <1>7, Zenon DEF BeginImport
  <2> QED
    BY <2>1, <2>2, TurnsRight, Unmoved
<1>8. ASSUME NEW r \in Requests, CreateImported(r) \/ UpdateImported(r) PROVE Fine
  <2>1. request[r].op = "import" /\ Ends(r)
    BY <1>8, ListTurns
  <2>2. UNCHANGED contest
    BY <1>8, Zenon DEF CreateImported, UpdateImported
  <2> QED
    BY <2>1, <2>2, TurnsRight DEF Ends
<1>9. ASSUME NEW r \in Requests,
             \/ \E name \in Names : LoginByName(r, name)
             \/ \E card \in Cards : LoginByIdentifier(r, card)
             \/ \E a \in Accounts : LoginByVK(r, a)
      PROVE  Fine
  <2>1. /\ request[r].op = "none"
        /\ \E at \in {"bind", "issue"} : \E on, seen, arg : Turns(r, "login", at, on, seen, arg)
    BY <1>9, LoginTurns
  <2>2. UNCHANGED contest
    BY <1>9 DEF LoginByName, LoginByIdentifier, LoginByVK
  <2> QED
    BY <2>1, <2>2, TurnsRight
<1>10. ASSUME NEW r \in Requests, BindVK(r) PROVE Fine
  <2>1. request[r].op = "login" /\ Turns(r, "login", "issue", request[r].on, request[r].seen, None)
    BY <1>10, LoginTurns
  <2>2. UNCHANGED contest
    BY <1>10, Zenon DEF BindVK
  <2> QED
    BY <2>1, <2>2, TurnsRight
<1>11. ASSUME NEW r \in Requests, NEW t \in Tokens, CreateSession(r, t) PROVE Fine
  <2>1. request[r].op = "login" /\ Ends(r)
    BY <1>11, LoginTurns
  <2> QED
    BY <1>11, <2>1, TurnsRight DEF CreateSession, Ends
<1>12. ASSUME NEW r \in Requests, StopParticipant(r) PROVE Fine
  <2>1. request[r].op \in {"person", "import", "login"} /\ Stop(r)
    BY <1>12 DEF StopParticipant
  <2>2. Turns(r, "none", "idle", None, None, None)
    BY <2>1, StopTurns
  <2> QED
    BY <2>1, <2>2, TurnsRight DEF Stop
<1> HIDE DEF Fine
<1>13. Fine
  BY <1>1, <1>2, <1>3, <1>4, <1>5, <1>6, <1>7, <1>8, <1>9, <1>10, <1>11, <1>12
<1> QED
  BY <1>13 DEF Fine

\* Every request stands at a statement of its kind.
LEMMA RequestsKeep ==
  ASSUME RequestsRight, [EventNext]_eventVars
  PROVE  RequestsRight'
<1>1. CASE ContestNext
  BY <1>1, ContestRequests
<1>2. CASE FormNext
  BY <1>2, FormRequests
<1>3. CASE BriefingNext
  BY <1>3, BriefingRequests
<1>4. CASE Tick \/ UNCHANGED eventVars
  BY <1>4, Unmoved DEF Tick, eventVars, contestVars
<1>5. ASSUME NEW r \in Requests, StopChallenge(r) PROVE RequestsRight'
  <2>1. Stop(r)
    BY <1>5, Zenon DEF StopChallenge
  <2> DEFINE kinds == {"none", request[r].op}
  <2>2. Turns(r, "none", "idle", None, None, None) /\ request[r].op \in kinds /\ "none" \in kinds
    BY <2>1, StopTurns
  <2> HIDE DEF kinds
  <2> QED
    BY <2>2, TurnsRight
<1>6. CASE ParticipantsNext
  BY <1>6, ParticipantRequests
<1> QED
  BY <1>1, <1>2, <1>3, <1>4, <1>5, <1>6 DEF EventNext, ChallengesNext

\* All requests are idle at first.
LEMMA RequestsStart == EventInit => RequestsRight
<1> SUFFICES ASSUME EventInit PROVE RequestsRight
  OBVIOUS
<1>1. request = [q \in Requests |-> Idle]
  BY DEF EventInit
<1>2. ASSUME NEW q \in Requests PROVE Shaped(q) /\ Placed(q)
  <2>1. request[q] = Idle
    BY <1>1
  <2>2. Idle = Doing(Idle.op, Idle.at, Idle.on, Idle.seen, Idle.arg)
    BY DEF Idle, Doing
  <2> QED
    BY <2>1, <2>2, IdleIs DEF Shaped, Placed
<1> QED
  BY <1>1, <1>2 DEF RequestsRight, RequestsShaped

-----------------------------------------------------------------------------
(* Briefing files.  An object that a row may still name is never removed:   *)
(* whoever is to insert, link or remove a key is the only one, and no row   *)
(* names it (FilesHeld), as long as the key is not in doubt.                *)

\* A request that is to insert the rows of an object, or to remove the object.
Filing(q) == request[q].at \in {"insert", "link", "remove"}

FileFree(q) ==
  Filing(q) => /\ request[q].arg \in Keys
               /\ \/ request[q].arg \in doubtful
                  \/ link[request[q].arg] = NotLinked /\ request[q].arg \in stored

FilesApart == \A p, q \in Requests :
  Filing(p) /\ Filing(q) /\ request[p].arg = request[q].arg /\ request[p].arg \notin doubtful => p = q

FilesHeld ==
  /\ link = [k \in Keys |-> link[k]]
  /\ LinkedFileStored
  /\ \A q \in Requests : FileFree(q)
  /\ FilesApart

FileInv == RequestsRight /\ FilesHeld

\* There are no files at first.
LEMMA FilesStart == EventInit => FileInv
<1> SUFFICES ASSUME EventInit PROVE FileInv
  OBVIOUS
<1>1. RequestsRight
  BY RequestsStart
<1>2. link = [k \in Keys |-> NotLinked] /\ \A q \in Requests : request[q] = Idle
  BY DEF EventInit, ChallengesInit
<1> QED
  BY <1>1, <1>2, IdleIs DEF FileInv, FilesHeld, LinkedFileStored, FileFree, FilesApart, Filing

\* A step of requests that handle no file leaves the files as they are.
LEMMA FilesUntouched ==
  ASSUME FileInv, NEW kinds, OnlyOf(kinds), kinds \cap {"upload", "unlink"} = {}, RequestsRight',
         UNCHANGED <<link, stored, doubtful>>
  PROVE  FileInv'
<1>1. ASSUME NEW q \in Requests
      PROVE  Filing(q)' => Filing(q) /\ request'[q] = request[q]
  <2>1. CASE request'[q] = request[q]
    BY <2>1 DEF Filing
  <2>2. CASE request'[q].op \in kinds
    <3>1. request'[q].op \notin {"upload", "unlink"}
      BY <2>2
    <3>2. Placed(q)'
      BY DEF RequestsRight
    <3> QED
      BY <3>1, <3>2 DEF Placed, Filing
  <2> QED
    BY <2>1, <2>2 DEF OnlyOf
<1>2. \A q \in Requests : FileFree(q)'
  BY <1>1 DEF FileInv, FilesHeld, FileFree
<1>3. FilesApart'
  BY <1>1 DEF FileInv, FilesHeld, FilesApart
<1>4. LinkedFileStored'
  BY DEF FileInv, FilesHeld, LinkedFileStored
<1> QED
  BY <1>2, <1>3, <1>4 DEF FileInv, FilesHeld

\* So does a request that turns to a statement that handles none, or ends.
LEMMA FilesLeft ==
  ASSUME FileInv, NEW r \in Requests, Others(r), request'[r].at \notin {"insert", "link", "remove"}, RequestsRight',
         LinkedFileStored', link' = [k \in Keys |-> link'[k]], doubtful \subseteq doubtful',
         \A q \in Requests \ {r} : Filing(q) =>
           \/ request[q].arg \in doubtful'
           \/ link'[request[q].arg] = link[request[q].arg] /\ request[q].arg \in stored'
  PROVE  FileInv'
<1>1. ASSUME NEW q \in Requests
      PROVE  Filing(q)' => q # r /\ Filing(q) /\ request'[q] = request[q]
  BY DEF Filing, Others
<1>2. ASSUME NEW q \in Requests PROVE FileFree(q)'
  BY <1>1 DEF FileInv, FilesHeld, FileFree, NotLinked
<1>3. FilesApart'
  BY <1>1 DEF FileInv, FilesHeld, FilesApart
<1> QED
  BY <1>2, <1>3 DEF FileInv, FilesHeld

\* Every step keeps the objects that rows name, or may come to name.
LEMMA FilesStep == FileInv /\ [EventNext]_eventVars => FileInv'
<1> SUFFICES ASSUME FileInv, [EventNext]_eventVars PROVE FileInv'
  OBVIOUS
<1>1. RequestsRight /\ RequestsRight'
  BY RequestsKeep DEF FileInv
<1>0. ASSUME UNCHANGED <<request, link, stored, doubtful>> PROVE FileInv'
  <2>1. OnlyOf({})
    BY <1>0, <1>1, Unmoved
  <2>2. {} \cap {"upload", "unlink"} = {}
    OBVIOUS
  <2> QED
    BY <1>0, <1>1, <2>1, <2>2, FilesUntouched
<1>2. CASE ContestNext
  BY <1>1, <1>2, ContestRequests, FilesUntouched DEF challengeVars
<1>3. CASE FormNext
  BY <1>1, <1>3, FormRequests, FilesUntouched DEF FormKinds, briefingVars
<1>4. CASE ParticipantsNext /\ UNCHANGED challengeVars
  BY <1>1, <1>4, ParticipantRequests, FilesUntouched DEF PeopleKinds, challengeVars
<1>5. CASE Tick \/ UNCHANGED eventVars
  <2>1. UNCHANGED <<request, link, stored, doubtful>>
    BY <1>5 DEF Tick, eventVars, contestVars, challengeVars
  <2> QED
    BY <1>0, <2>1
<1>6. ASSUME NEW r \in Requests, StopChallenge(r) PROVE FileInv'
  <2>1. Stop(r) /\ UNCHANGED <<link, stored, doubtful>>
    BY <1>6, Zenon DEF StopChallenge, briefingVars
  <2>2. Others(r) /\ request'[r].at = "idle"
    BY <1>1, <2>1, StopTurns DEF Turns
  <2>3. LinkedFileStored' /\ link' = [k \in Keys |-> link'[k]]
    BY <2>1 DEF FileInv, FilesHeld, LinkedFileStored, NotLinked
  <2>4. \A q \in Requests \ {r} : Filing(q) =>
          \/ request[q].arg \in doubtful'
          \/ link'[request[q].arg] = link[request[q].arg] /\ request[q].arg \in stored'
    BY <2>1 DEF FileInv, FilesHeld, FileFree
  <2>5. doubtful \subseteq doubtful'
    BY <2>1
  <2> QED
    BY <1>1, <2>2, <2>3, <2>4, <2>5, FilesLeft
<1>7. CASE BriefingNext
  <2> USE <1>1 DEF FileInv, FilesHeld
  <2>1. PICK r \in Requests :
          \/ \E c \in Tests : AdminSaveBriefing(c)
          \/ \E c \in Tests, u \in Contestants :
               AdminClearOverride(c, u) \/ \E input \in OverrideInputs : AdminSaveOverride(c, u, input)
          \/ \E c \in Tests, u \in Contestants \cup {None} : BeginUpload(r, c, u)
          \/ ReplaceFiles(r) \/ InsertBriefingFile(r) \/ LinkBriefingFile(r) \/ RemoveObject(r)
          \/ \E k \in Keys : PutBriefingFile(r, k) \/ DeleteBriefingFile(r, k)
    BY <1>7 DEF BriefingNext
  <2>3. ASSUME NEW c \in Tests, AdminSaveBriefing(c) PROVE FileInv'
    BY <1>0, <2>3 DEF AdminSaveBriefing
  <2>4. ASSUME NEW c \in Tests, NEW u \in Contestants, NEW input \in OverrideInputs, AdminSaveOverride(c, u, input)
        PROVE  FileInv'
    <3>1. UNCHANGED <<request, link, stored, doubtful>>
      BY <2>4, Zenon DEF AdminSaveOverride
    <3> QED
      BY <1>0, <3>1
  <2>5. ASSUME NEW c \in Tests, NEW u \in Contestants, AdminClearOverride(c, u) PROVE FileInv'
    <3>1. UNCHANGED <<request, stored, doubtful>>
      BY <2>5 DEF AdminClearOverride
    <3>2. /\ link' = [k \in Keys |-> link'[k]]
          /\ \A k \in Keys : link'[k] \in {link[k], NotLinked}
      BY <2>5 DEF AdminClearOverride
    <3>3. LinkedFileStored'
      BY <3>1, <3>2 DEF LinkedFileStored
    <3>4. ASSUME NEW q \in Requests PROVE FileFree(q)'
      BY <3>1, <3>2 DEF FileFree, Filing, NotLinked
    <3>5. FilesApart'
      BY <3>1 DEF FilesApart, Filing
    <3> QED
      BY <3>2, <3>3, <3>4, <3>5
  <2>6. ASSUME NEW c \in Tests, NEW u \in Contestants \cup {None}, BeginUpload(r, c, u) PROVE FileInv'
    <3>1. UNCHANGED <<link, stored, doubtful>>
      BY <2>6 DEF BeginUpload, challengeVars
    <3>2. Others(r) /\ request'[r].at \in {"override", "put"}
      BY <2>6, BriefingTurns DEF Turns
    <3> QED
      BY <3>1, <3>2, FilesLeft DEF LinkedFileStored, FileFree
  <2>7. ASSUME ReplaceFiles(r) PROVE FileInv'
    <3>1. UNCHANGED <<link, stored, doubtful>>
      BY <2>7, Zenon DEF ReplaceFiles
    <3>2. Others(r) /\ request'[r].at = "put"
      BY <2>7, BriefingTurns DEF Turns
    <3> QED
      BY <3>1, <3>2, FilesLeft DEF LinkedFileStored, FileFree
  <2>8. ASSUME InsertBriefingFile(r) PROVE FileInv'
    <3>1. PICK at \in {"link", "remove"} :
            /\ request[r].at = "insert"
            /\ Turns(r, "upload", at, request[r].on, request[r].seen, request[r].arg)
      BY <2>8, BriefingTurns
    <3>2. UNCHANGED <<link, stored, doubtful>>
      BY <2>8 DEF InsertBriefingFile
    <3>3. \A q \in Requests : /\ Filing(q)' <=> Filing(q)
                              /\ request'[q].arg = request[q].arg
      BY <3>1 DEF Turns, Others, Filing
    <3>4. \A q \in Requests : FileFree(q)'
      BY <3>2, <3>3 DEF FileFree, NotLinked
    <3>5. FilesApart'
      BY <3>2, <3>3 DEF FilesApart
    <3> QED
      BY <3>2, <3>4, <3>5 DEF LinkedFileStored, NotLinked
  <2>12. ASSUME LinkBriefingFile(r) PROVE FileInv'
    <3> DEFINE k == request[r].arg
               Relinked == \E row : link' = [link EXCEPT ![k] = row]
    <3>1. /\ request[r].at = "link"
          /\ \/ Ends(r) /\ doubtful' = doubtful /\ Relinked
             \/ /\ Turns(r, "upload", "remove", request[r].on, request[r].seen, k)
                /\ \/ link' = link /\ doubtful' = doubtful
                   \/ doubtful' = doubtful \cup {k} /\ Relinked
      BY <2>12, BriefingTurns
    <3>2. stored' = stored
      BY <2>12, Zenon DEF LinkBriefingFile
    <3>3. k \in Keys /\ (k \in doubtful \/ (k \in stored /\ link[k] = NotLinked))
      BY <3>1 DEF FileFree, Filing
    <3>6. link' = [j \in Keys |-> link'[j]] /\ \A j \in Keys \ {k} : link'[j] = link[j]
      BY <3>1, <3>3
    <3>7. LinkedFileStored' /\ doubtful \subseteq doubtful'
      BY <3>1, <3>2, <3>3, <3>6 DEF LinkedFileStored
    <3>8. ASSUME NEW q \in Requests \ {r}, Filing(q)
          PROVE  request[q].arg \in doubtful \/ request[q].arg \in Keys \ {k}
      BY <3>1, <3>8 DEF FilesApart, FileFree, Filing
    <3>4. CASE Ends(r) /\ doubtful' = doubtful /\ Relinked
      <4>1. Others(r) /\ request'[r].at = "idle"
        BY <3>4 DEF Ends, Turns
      <4> QED
        BY <3>2, <3>4, <3>6, <3>7, <3>8, <4>1, FilesLeft DEF FileFree
    <3>5. CASE /\ Turns(r, "upload", "remove", request[r].on, request[r].seen, k)
               /\ \/ link' = link /\ doubtful' = doubtful
                  \/ doubtful' = doubtful \cup {k} /\ Relinked
      <4>1. \A q \in Requests : /\ Filing(q)' <=> Filing(q)
                                /\ request'[q].arg = request[q].arg
        BY <3>1, <3>5 DEF Turns, Others, Filing
      <4>2. ASSUME NEW q \in Requests PROVE FileFree(q)'
        <5>1. Filing(q) => request[q].arg \in doubtful' \/ link'[request[q].arg] = link[request[q].arg]
          BY <3>5, <3>6, <3>7 DEF FileFree
        <5> QED
          BY <3>2, <3>7, <4>1, <5>1 DEF FileFree, NotLinked
      <4>3. FilesApart'
        BY <3>7, <4>1 DEF FilesApart
      <4> QED
        BY <3>6, <3>7, <4>2, <4>3
    <3> QED
      BY <3>1, <3>4, <3>5
  <2>9. ASSUME RemoveObject(r) PROVE FileInv'
    <3> DEFINE k == request[r].arg
    <3>1. request[r].at = "remove" /\ Others(r) /\ request'[r].at = "idle"
      BY <2>9, BriefingTurns DEF Ends, Turns
    <3>2. stored' \in {stored, stored \ {k}} /\ link' = link /\ doubtful' = doubtful
      BY <2>9 DEF RemoveObject
    <3>3. k \in doubtful \/ link[k] = NotLinked
      BY <3>1 DEF FileFree, Filing
    <3>4. LinkedFileStored'
      BY <3>2, <3>3 DEF LinkedFileStored, NotLinked
    <3>5. ASSUME NEW q \in Requests \ {r}, Filing(q)
          PROVE  request[q].arg \in doubtful \/ request[q].arg \in stored'
      BY <3>1, <3>2, <3>5 DEF FilesApart, FileFree, Filing
    <3> QED
      BY <3>1, <3>2, <3>4, <3>5, FilesLeft
  <2>10. ASSUME NEW k \in Keys, PutBriefingFile(r, k) PROVE FileInv'
    <3>1. /\ request[r].at = "put"
          /\ \/ Ends(r) /\ stored' = stored /\ doubtful' = doubtful
             \/ /\ Turns(r, "upload", "insert", request[r].on, request[r].seen, k)
                /\ stored' = stored \cup {k}
                /\ (Fresh(k) /\ doubtful' = doubtful) \/ doubtful' = doubtful \cup {k}
      BY <2>10, BriefingTurns
    <3>2. link' = link
      BY <2>10, Zenon DEF PutBriefingFile
    <3>3. CASE Ends(r) /\ stored' = stored /\ doubtful' = doubtful
      BY <3>2, <3>3, FilesLeft DEF Ends, Turns, LinkedFileStored, FileFree
    <3>4. CASE /\ Turns(r, "upload", "insert", request[r].on, request[r].seen, k)
               /\ stored' = stored \cup {k}
               /\ (Fresh(k) /\ doubtful' = doubtful) \/ doubtful' = doubtful \cup {k}
      <4>1. request'[r].arg = k /\ Others(r)
        BY <3>4 DEF Turns
      <4>2. \A q \in Requests \ {r} : Filing(q)' => Filing(q) /\ request'[q] = request[q]
        BY <4>1 DEF Others, Filing
      <4>3. ASSUME NEW q \in Requests, Filing(q) PROVE request[q].op \in {"upload", "unlink"}
        BY <4>3 DEF RequestsRight, Placed, Filing
      <4>4. ASSUME k \notin doubtful'
            PROVE  /\ doubtful' = doubtful /\ k \notin stored /\ link[k] = NotLinked
                   /\ \A q \in Requests : Filing(q) => request[q].arg # k
        <5>1. doubtful' = doubtful /\ Fresh(k)
          BY <3>4, <4>4
        <5> QED
          BY <4>3, <4>4, <5>1 DEF Fresh, LinkedFileStored
      <4>5. doubtful \subseteq doubtful' /\ stored \subseteq stored' /\ k \in stored'
        BY <3>4
      <4>6. ASSUME NEW q \in Requests PROVE FileFree(q)'
        <5>1. CASE q = r
          BY <3>2, <4>1, <4>4, <4>5, <5>1 DEF FileFree, NotLinked
        <5>2. CASE q # r
          BY <3>2, <4>2, <4>5, <5>2 DEF FileFree, NotLinked
        <5> QED
          BY <5>1, <5>2
      <4>7. FilesApart'
        BY <4>1, <4>2, <4>4, <4>5 DEF FilesApart
      <4>8. LinkedFileStored'
        BY <3>2, <4>5 DEF LinkedFileStored, NotLinked
      <4> QED
        BY <3>2, <4>6, <4>7, <4>8
    <3> QED
      BY <3>1, <3>3, <3>4
  <2>11. ASSUME NEW k \in Keys, DeleteBriefingFile(r, k) PROVE FileInv'
    <3>1. Turns(r, "unlink", "remove", None, None, k) /\ request[r].op = "none"
      BY <2>11, BriefingTurns
    <3>2. /\ link[k] # NotLinked /\ link' = [link EXCEPT ![k] = NotLinked]
          /\ stored' = stored /\ doubtful' = doubtful
      BY <2>11 DEF DeleteBriefingFile
    <3>3. request'[r].arg = k /\ Others(r)
      BY <3>1 DEF Turns
    <3>4. \A j \in Keys : link'[j] = IF j = k THEN NotLinked ELSE link[j]
      BY <3>2
    <3>5. \A q \in Requests \ {r} :
            Filing(q)' => Filing(q) /\ request'[q] = request[q] /\ (request[q].arg # k \/ k \in doubtful)
      BY <3>2, <3>3 DEF Others, Filing, FileFree
    <3>6. ASSUME NEW q \in Requests PROVE FileFree(q)'
      <4>1. CASE q = r
        BY <3>2, <3>3, <3>4, <4>1 DEF FileFree, NotLinked, LinkedFileStored
      <4>2. CASE q # r
        BY <3>2, <3>4, <3>5, <4>2 DEF FileFree, NotLinked
      <4> QED
        BY <4>1, <4>2
    <3>7. FilesApart'
      BY <3>2, <3>3, <3>5 DEF FilesApart
    <3>8. LinkedFileStored'
      BY <3>2, <3>4 DEF LinkedFileStored, NotLinked
    <3>9. link' = [j \in Keys |-> link'[j]]
      BY <3>2
    <3> QED
      BY <3>6, <3>7, <3>8, <3>9
  <2> HIDE DEF FileInv
  <2> QED
    BY <2>1, <2>3, <2>4, <2>5, <2>6, <2>7, <2>8, <2>9, <2>10, <2>11, <2>12
<1> QED
  BY <1>2, <1>3, <1>4, <1>5, <1>6, <1>7 DEF EventNext, ChallengesNext

\* Every file of a briefing can be downloaded, however uploads, deletions and cleared
\* overrides overlap or stop half way, unless its key was uploaded again or the answer to
\* its link was lost (UploadBriefingFile, DeleteBriefingFile).
THEOREM FilesDownload == EventSpec => []LinkedFileStored
<1>1. FileInv => LinkedFileStored
  BY DEF FileInv, FilesHeld
<1> QED
  BY <1>1, FilesStart, FilesStep, PTL DEF EventSpec

-----------------------------------------------------------------------------
(* What a contestant may open.  The query reads columns of rows the rule    *)
(* does not look at; they agree as only rows that exist publish, hide or    *)
(* have a publication of their own (RowsHold).                              *)

RowsHold ==
  /\ \A c \in Tests : briefing[c].publish # None => briefing[c].exists
  /\ \A c \in Tests, u \in Contestants :
       ~override[c][u].exists => ~override[c][u].hidden /\ ~override[c][u].custom

RowsInv ==
  /\ briefing = [c \in Tests |-> briefing[c]]
  /\ override = [c \in Tests |-> [u \in Contestants |-> override[c][u]]]
  /\ RowsHold

\* What the rule opens, the query lists.
LEMMA RowsListed == RowsInv => AccessibleIsListed
<1> SUFFICES ASSUME RowsInv, NEW c \in Tests, NEW u \in Contestants, ensureContestantChallenge(c, u)
             PROVE  c \in ListForContestant(u)
  BY DEF AccessibleIsListed
<1>1. challenge[c].status \notin {"NONE", "ARCHIVED"}
  BY DEF ensureContestantChallenge
<1>2. CASE TakesWork(c)
  BY <1>1, <1>2 DEF ListForContestant
<1>3. CASE contestantSeesBriefing(c, u)
  <2> DEFINE own == override[c][u]
  <2>1. /\ ~(own.exists /\ own.hidden)
        /\ (IF own.exists /\ own.custom THEN own.publish ELSE briefing[c].publish) # None
    BY <1>3 DEF contestantSeesBriefing, resolveBriefing
  <2>2. ~own.hidden
    BY <2>1 DEF RowsInv, RowsHold
  <2>3. CASE own.exists /\ own.custom
    BY <1>1, <2>1, <2>2, <2>3 DEF ListForContestant
  <2>4. CASE ~(own.exists /\ own.custom)
    <3>1. briefing[c].publish # None /\ briefing[c].exists /\ ~own.custom
      BY <2>1, <2>4 DEF RowsInv, RowsHold
    <3> QED
      BY <1>1, <2>2, <3>1 DEF ListForContestant
  <2> QED
    BY <2>3, <2>4
<1> QED
  BY <1>2, <1>3 DEF ensureContestantChallenge

\* There are no briefings and no overrides at first.
LEMMA RowsStart == EventInit => RowsInv
  BY DEF EventInit, ChallengesInit, RowsInv, RowsHold, NoBriefing, NoOverride

\* An override of one contestant and challenge is written.
LEMMA UpsertKeeps ==
  ASSUME RowsInv, NEW c, NEW u, NEW input, UpsertOverride(c, u, input), UNCHANGED briefing
  PROVE  RowsInv'
<1> DEFINE row == [exists |-> TRUE, row |-> IF override[c][u].exists THEN override[c][u].row ELSE override[c][u].row + 1,
                   text |-> input.text, publish |-> input.publish, custom |-> input.custom,
                   hidden |-> input.hidden, replace |-> input.replace]
<1>1. override' = [override EXCEPT ![c][u] = row]
  BY DEF UpsertOverride
<1>2. row.exists
  OBVIOUS
<1> HIDE DEF row
<1>3. /\ override' = [d \in Tests |-> [w \in Contestants |-> override'[d][w]]]
      /\ \A d \in Tests, w \in Contestants : override'[d][w] \in {override[d][w], row}
  BY <1>1 DEF RowsInv
<1> QED
  BY <1>2, <1>3 DEF RowsInv, RowsHold

\* Every step keeps the columns of the two rows in agreement.
LEMMA RowsStep == RowsInv /\ [EventNext]_eventVars => RowsInv'
<1> SUFFICES ASSUME RowsInv, [EventNext]_eventVars PROVE RowsInv'
  OBVIOUS
<1>1. ASSUME UNCHANGED <<briefing, override>> PROVE RowsInv'
  BY <1>1 DEF RowsInv, RowsHold
<1>2. CASE ContestNext \/ (ParticipantsNext /\ UNCHANGED challengeVars) \/ UNCHANGED eventVars
  BY <1>1, <1>2 DEF ContestNext, challengeVars, eventVars
<1>3. CASE FormNext \/ Tick
  <2>1. UNCHANGED briefingVars \/ UNCHANGED <<briefing, override>>
    BY <1>3, Zenon DEF FormNext, Tick, Create, Update, BeginEdit, BeginDuplicate, CreateCopy, BeginStatus,
         WriteField, WriteVersioning, BumpSchemaVersion, SchemaJSON, SaveSnapshot, SetChallengeStatus,
         CopyField, EndCopy, challengeVars, briefingVars
  <2> QED
    BY <1>1, <2>1 DEF briefingVars
<1>4. ASSUME NEW r \in Requests, StopChallenge(r) PROVE RowsInv'
  <2>1. UNCHANGED <<briefing, override>>
    BY <1>4, Zenon DEF StopChallenge, briefingVars
  <2> QED
    BY <1>1, <2>1
<1>5. CASE BriefingNext
  <2>1. PICK r \in Requests :
          \/ \E c \in Tests : AdminSaveBriefing(c)
          \/ \E c \in Tests, u \in Contestants :
               AdminClearOverride(c, u) \/ \E input \in OverrideInputs : AdminSaveOverride(c, u, input)
          \/ \E c \in Tests, u \in Contestants \cup {None} : BeginUpload(r, c, u)
          \/ ReplaceFiles(r) \/ InsertBriefingFile(r) \/ LinkBriefingFile(r) \/ RemoveObject(r)
          \/ \E k \in Keys : PutBriefingFile(r, k) \/ DeleteBriefingFile(r, k)
    BY <1>5 DEF BriefingNext
  <2>2. ASSUME NEW c \in Tests, AdminSaveBriefing(c) PROVE RowsInv'
    <3>1. PICK text, publish : briefing' = [briefing EXCEPT ![c] = [exists |-> TRUE, text |-> text, publish |-> publish]]
      BY <2>2 DEF AdminSaveBriefing, UpsertBriefing
    <3>2. UNCHANGED override
      BY <2>2 DEF AdminSaveBriefing
    <3> QED
      BY <3>1, <3>2 DEF RowsInv, RowsHold
  <2>3. ASSUME NEW c \in Tests, NEW u \in Contestants, NEW input \in OverrideInputs, AdminSaveOverride(c, u, input)
        PROVE  RowsInv'
    <3>1. PICK given : UpsertOverride(c, u, given) /\ UNCHANGED briefing
      BY <2>3, Zenon DEF AdminSaveOverride
    <3> QED
      BY <3>1, UpsertKeeps
  <2>4. ASSUME NEW c \in Tests, NEW u \in Contestants, AdminClearOverride(c, u) PROVE RowsInv'
    <3> DEFINE row == NoOverride(override[c][u].row)
    <3>1. override' = [override EXCEPT ![c][u] = row] /\ UNCHANGED briefing
      BY <2>4 DEF AdminClearOverride
    <3>2. ~row.exists /\ ~row.hidden /\ ~row.custom
      BY DEF NoOverride
    <3> HIDE DEF row
    <3>3. /\ override' = [d \in Tests |-> [w \in Contestants |-> override'[d][w]]]
          /\ \A d \in Tests, w \in Contestants : override'[d][w] \in {override[d][w], row}
      BY <3>1 DEF RowsInv
    <3> QED
      BY <3>1, <3>2, <3>3 DEF RowsInv, RowsHold
  <2>5. ASSUME ReplaceFiles(r) PROVE RowsInv'
    <3>1. PICK c, u, given : UpsertOverride(c, u, given) /\ UNCHANGED briefing
      BY <2>5, Zenon DEF ReplaceFiles
    <3> QED
      BY <3>1, UpsertKeeps
  <2>6. ASSUME \/ \E c \in Tests, u \in Contestants \cup {None} : BeginUpload(r, c, u)
               \/ InsertBriefingFile(r) \/ LinkBriefingFile(r) \/ RemoveObject(r)
               \/ \E k \in Keys : PutBriefingFile(r, k) \/ DeleteBriefingFile(r, k)
        PROVE  RowsInv'
    <3>1. UNCHANGED <<briefing, override>>
      BY <2>6, Zenon DEF BeginUpload, InsertBriefingFile, LinkBriefingFile, RemoveObject, PutBriefingFile, DeleteBriefingFile,
           challengeVars
    <3> QED
      BY <1>1, <3>1
  <2> QED
    BY <2>1, <2>2, <2>3, <2>4, <2>5, <2>6
<1> QED
  BY <1>2, <1>3, <1>4, <1>5 DEF EventNext, ChallengesNext

\* Whatever a contestant may open is in the list they are shown.
THEOREM OpenIsListed == EventSpec => []AccessibleIsListed
  BY RowsStart, RowsStep, RowsListed, PTL DEF EventSpec

-----------------------------------------------------------------------------
(* Participants.  A login names somebody in the list, a live session is     *)
(* somebody's, and a row of a file has the columns it is read by            *)
(* (PeopleInv).                                                             *)

RowOf(status, name, card, vk, bound, dir) ==
  [status |-> status, name |-> name, card |-> card, vk |-> vk, bound |-> bound, direction |-> dir]
IsRow(row) == row = RowOf(row.status, row.name, row.card, row.vk, row.bound, row.direction)
IsInput(row) == row = [name |-> row.name, card |-> row.card, vk |-> row.vk, direction |-> row.direction]
IsSession(s) == s = [of |-> s.of, state |-> s.state]

RowsRight ==
  /\ person = [p \in People |-> person[p]] /\ \A p \in People : IsRow(person[p])
  /\ session = [t \in Tokens |-> session[t]] /\ \A t \in Tokens : IsSession(session[t])

NamesSomebody(q) ==
  /\ request[q].op \in {"person", "import", "login"} => request[q].on \in People
  /\ request[q].op = "import" => IsInput(request[q].arg)

LivesAreSomebodys == \A t \in Tokens : session[t].state = "LIVE" => session[t].of \in People

PeopleInv == RequestsRight /\ RowsRight /\ (\A q \in Requests : NamesSomebody(q)) /\ LivesAreSomebodys

Edited(row, name, card, vk, bound, dir) ==
  [row EXCEPT !.name = name, !.card = card, !.vk = vk, !.bound = bound, !.direction = dir]

\* What an edit of a row changes, and what it leaves.
LEMMA EditedRow ==
  ASSUME NEW row, IsRow(row), NEW name, NEW card, NEW vk, NEW bound, NEW dir
  PROVE  Edited(row, name, card, vk, bound, dir) = RowOf(row.status, name, card, vk, bound, dir)
<1> DEFINE a == RowOf(row.status, name, row.card, row.vk, row.bound, row.direction)
           b == RowOf(row.status, name, card, row.vk, row.bound, row.direction)
           c == RowOf(row.status, name, card, vk, row.bound, row.direction)
           d == RowOf(row.status, name, card, vk, bound, row.direction)
           e == RowOf(row.status, name, card, vk, bound, dir)
<1>1. [row EXCEPT !.name = name] = a
  BY DEF IsRow, RowOf
<1>2. [a EXCEPT !.card = card] = b
  BY DEF RowOf
<1>3. [b EXCEPT !.vk = vk] = c
  BY DEF RowOf
<1>4. [c EXCEPT !.bound = bound] = d
  BY DEF RowOf
<1>5. [d EXCEPT !.direction = dir] = e
  BY DEF RowOf
<1>6. [row EXCEPT !.name = name, !.card = card, !.vk = vk, !.bound = bound, !.direction = dir]
        = [[[[[row EXCEPT !.name = name] EXCEPT !.card = card] EXCEPT !.vk = vk] EXCEPT !.bound = bound]
             EXCEPT !.direction = dir]
  OBVIOUS
<1> HIDE DEF a, b, c, d, e
<1>7. [row EXCEPT !.name = name, !.card = card, !.vk = vk, !.bound = bound, !.direction = dir] = e
  BY <1>1, <1>2, <1>3, <1>4, <1>5, <1>6, Zenon
<1>8. Edited(row, name, card, vk, bound, dir) = e
  BY <1>7, Zenon DEF Edited
<1> QED
  BY <1>8 DEF e

\* A row that is bound to a profile keeps its other fields.
LEMMA BoundRow ==
  ASSUME NEW row, IsRow(row), NEW bound, NEW vk
  PROVE  [row EXCEPT !.bound = bound, !.vk = vk] = RowOf(row.status, row.name, row.card, vk, bound, row.direction)
<1> DEFINE a == RowOf(row.status, row.name, row.card, row.vk, bound, row.direction)
           b == RowOf(row.status, row.name, row.card, vk, bound, row.direction)
<1>1. [row EXCEPT !.bound = bound] = a
  BY DEF IsRow, RowOf
<1>2. [a EXCEPT !.vk = vk] = b
  BY DEF RowOf
<1>3. [row EXCEPT !.bound = bound, !.vk = vk] = [[row EXCEPT !.bound = bound] EXCEPT !.vk = vk]
  OBVIOUS
<1> HIDE DEF a, b
<1>4. [row EXCEPT !.bound = bound, !.vk = vk] = b
  BY <1>1, <1>2, <1>3, Zenon
<1> QED
  BY <1>4 DEF b

\* A row that is given a status keeps its other fields.
LEMMA StatusRow ==
  ASSUME NEW row, IsRow(row), NEW status
  PROVE  [row EXCEPT !.status = status] = RowOf(status, row.name, row.card, row.vk, row.bound, row.direction)
  BY DEF IsRow, RowOf

\* The fields of a participant's row.
LEMMA RowIs ==
  ASSUME NEW status, NEW name, NEW card, NEW vk, NEW bound, NEW dir, NEW row,
         row = RowOf(status, name, card, vk, bound, dir)
  PROVE  /\ IsRow(row) /\ row.status = status /\ row.name = name /\ row.card = card
         /\ row.vk = vk /\ row.bound = bound /\ row.direction = dir
  BY DEF IsRow, RowOf

\* An empty cell of the file is filled with what is known, and no other.
LEMMA KeptKnown ==
  ASSUME NEW row, IsInput(row), NEW read
  PROVE  /\ keepKnown(row, read).card = IF row.card = None THEN read.card ELSE row.card
         /\ keepKnown(row, read).vk = IF row.vk = None THEN read.vk ELSE row.vk
         /\ keepKnown(row, read).direction = IF row.direction = None THEN read.direction ELSE row.direction
<1> DEFINE card == IF row.card = None THEN read.card ELSE row.card
           vk == IF row.vk = None THEN read.vk ELSE row.vk
           dir == IF row.direction = None THEN read.direction ELSE row.direction
           a == [name |-> row.name, card |-> card, vk |-> row.vk, direction |-> row.direction]
           b == [name |-> row.name, card |-> card, vk |-> vk, direction |-> row.direction]
           c == [name |-> row.name, card |-> card, vk |-> vk, direction |-> dir]
<1>0. keepKnown(row, read) = [row EXCEPT !.card = card, !.vk = vk, !.direction = dir]
  BY Zenon DEF keepKnown
<1>9. c.card = card /\ c.vk = vk /\ c.direction = dir
  OBVIOUS
<1> HIDE DEF card, vk, dir
<1>1. [row EXCEPT !.card = card] = a
  BY DEF IsInput
<1>2. [a EXCEPT !.vk = vk] = b
  OBVIOUS
<1>3. [b EXCEPT !.direction = dir] = c
  OBVIOUS
<1>4. [row EXCEPT !.card = card, !.vk = vk, !.direction = dir]
        = [[[row EXCEPT !.card = card] EXCEPT !.vk = vk] EXCEPT !.direction = dir]
  OBVIOUS
<1> HIDE DEF a, b, c
<1>5. [row EXCEPT !.card = card, !.vk = vk, !.direction = dir] = c
  BY <1>1, <1>2, <1>3, <1>4, Zenon
<1>6. keepKnown(row, read) = c
  BY <1>0, <1>5, Zenon
<1> QED
  BY <1>6, <1>9, Zenon DEF card, vk, dir

\* One row is stored and the others stay.
LEMMA StoredRows ==
  ASSUME RowsRight, NEW p \in People, NEW row, IsRow(row), Store(p, row), UNCHANGED session
  PROVE  RowsRight' /\ \A q \in People : person'[q] = person[q] \/ (q = p /\ person'[q] = row)
<1>1. person' = person \/ person' = [person EXCEPT ![p] = row]
  BY DEF Store
<1>2. /\ person' = [q \in People |-> person'[q]]
      /\ \A q \in People : person'[q] = person[q] \/ (q = p /\ person'[q] = row)
  BY <1>1 DEF RowsRight
<1>3. \A q \in People : IsRow(person'[q])
  BY <1>2 DEF RowsRight
<1> QED
  BY <1>2, <1>3 DEF RowsRight

\* Everything that writes a row leaves the status of whoever is ACTIVE to SetPersonStatus.
Writes == \E p \in People : \E row :
  /\ IsRow(row) /\ Store(p, row)
  /\ row.status = person[p].status \/ person[p].status # "ACTIVE"

\* What a step does to rows and sessions: nothing, a row, the end of sessions, or a new one.
LEMMA PeopleSteps ==
  ASSUME PeopleInv, ParticipantsNext
  PROVE  \/ UNCHANGED <<person, session>>
         \/ Writes /\ UNCHANGED session
         \/ \E r \in Requests : SetPersonStatus(r)
         \/ \E r \in Requests, t \in Tokens : CreateSession(r, t)
         \/ \E t \in Tokens : Logout(t)
<1> DEFINE Fine == \/ UNCHANGED <<person, session>>
                   \/ Writes /\ UNCHANGED session
                   \/ \E r \in Requests : SetPersonStatus(r)
                   \/ \E r \in Requests, t \in Tokens : CreateSession(r, t)
                   \/ \E t \in Tokens : Logout(t)
<1> USE DEF PeopleInv
<1>1. \/ \E p \in People : CreatePerson(p)
      \/ \E d \in Directions : CreateDirection(d) \/ DeleteDirection(d)
      \/ \E t \in Tokens : Logout(t) \/ SessionExpires(t)
      \/ \E r \in Requests :
           \/ \E p \in People : BeginUpdatePerson(r, p) \/ \E target \in Status : BeginPersonStatus(r, p, target)
           \/ UpdatePerson(r) \/ SetPersonStatus(r)
           \/ \E row \in Rows : BeginImport(r, row)
           \/ CreateImported(r) \/ UpdateImported(r)
      \/ \E r \in Requests :
           \/ \E name \in Names : LoginByName(r, name)
           \/ \E card \in Cards : LoginByIdentifier(r, card)
           \/ \E a \in Accounts : LoginByVK(r, a)
           \/ BindVK(r)
           \/ \E t \in Tokens : CreateSession(r, t)
           \/ StopParticipant(r)
  BY DEF ParticipantsNext, ListNext, LoginNext
<1>2. ASSUME NEW p \in People, CreatePerson(p) PROVE Fine
  <2>1. PICK name, card, vk, bound, dir : Store(p, RowOf("ACTIVE", name, card, vk, bound, dir))
    BY <1>2, Zenon DEF CreatePerson, RowOf
  <2>2. person[p].status # "ACTIVE" /\ UNCHANGED session
    BY <1>2, Zenon DEF CreatePerson, Listed
  <2> QED
    BY <2>1, <2>2, RowIs DEF Writes
<1>3. ASSUME NEW d \in Directions, CreateDirection(d) \/ DeleteDirection(d) PROVE Fine
  BY <1>3 DEF CreateDirection, DeleteDirection
<1>4. ASSUME NEW t \in Tokens, Logout(t) \/ SessionExpires(t) PROVE Fine
  BY <1>4 DEF SessionExpires
<1>5. ASSUME NEW r \in Requests, NEW p \in People,
             BeginUpdatePerson(r, p) \/ \E target \in Status : BeginPersonStatus(r, p, target)
      PROVE  Fine
  <2>1. UNCHANGED <<person, session>>
    BY <1>5, Zenon DEF BeginUpdatePerson, BeginPersonStatus, participantVars
  <2> QED
    BY <2>1
<1>6. ASSUME NEW r \in Requests, UpdatePerson(r) PROVE Fine
  <2> DEFINE p == request[r].on
             input == request[r].arg
  <2>1. request[r].op = "person"
    BY <1>6, ListTurns
  <2>2. p \in People /\ IsRow(person[p])
    BY <2>1 DEF NamesSomebody, RowsRight
  <2>3. UNCHANGED session /\ \E bound : Store(p, Edited(person[p], input.name, input.card, input.vk, bound, input.direction))
    BY <1>6, Zenon DEF UpdatePerson, Edited
  <2>4. PICK bound : Store(p, Edited(person[p], input.name, input.card, input.vk, bound, input.direction))
    BY <2>3, Zenon
  <2> DEFINE row == Edited(person[p], input.name, input.card, input.vk, bound, input.direction)
             new == RowOf(person[p].status, input.name, input.card, input.vk, bound, input.direction)
  <2> HIDE DEF p, input
  <2>5. row = new
    BY <2>2, EditedRow
  <2>6. IsRow(new) /\ new.status = person[p].status
    BY RowIs
  <2> HIDE DEF row, new
  <2>7. Store(p, row)
    BY <2>4, Zenon DEF row
  <2> QED
    BY <2>2, <2>3, <2>5, <2>6, <2>7, Zenon DEF Writes
<1>7. ASSUME NEW r \in Requests, NEW row \in Rows, BeginImport(r, row) PROVE Fine
  <2>1. UNCHANGED <<person, session>>
    BY <1>7, Zenon DEF BeginImport
  <2> QED
    BY <2>1
<1>8. ASSUME NEW r \in Requests, CreateImported(r) PROVE Fine
  <2> DEFINE p == request[r].on
  <2>1. request[r].op = "import"
    BY <1>8, ListTurns
  <2>2. p \in People
    BY <2>1 DEF NamesSomebody
  <2>3. CASE Listed(p)
    BY <1>8, <2>3, Zenon DEF CreateImported
  <2>4. CASE ~Listed(p)
    <3>1. PICK name, card, vk, bound, dir : Store(p, RowOf("ACTIVE", name, card, vk, bound, dir))
      BY <1>8, <2>4, Zenon DEF CreateImported, RowOf
    <3>2. person[p].status # "ACTIVE" /\ UNCHANGED session
      BY <1>8, <2>4, Zenon DEF CreateImported, Listed
    <3> QED
      BY <2>2, <3>1, <3>2, RowIs DEF Writes
  <2> QED
    BY <2>3, <2>4
<1>9. ASSUME NEW r \in Requests, UpdateImported(r) PROVE Fine
  <2> DEFINE p == request[r].on
             input == keepKnown(request[r].arg, request[r].seen)
  <2>1. request[r].op = "import"
    BY <1>9, ListTurns
  <2>2. p \in People /\ IsRow(person[p])
    BY <2>1 DEF NamesSomebody, RowsRight
  <2>3. UNCHANGED session /\ \E bound : Store(p, Edited(person[p], input.name, input.card, input.vk, bound, input.direction))
    BY <1>9, Zenon DEF UpdateImported, Edited
  <2> HIDE DEF input
  <2>4. PICK bound : Store(p, Edited(person[p], input.name, input.card, input.vk, bound, input.direction))
    BY <2>3, Zenon
  <2> DEFINE row == Edited(person[p], input.name, input.card, input.vk, bound, input.direction)
             new == RowOf(person[p].status, input.name, input.card, input.vk, bound, input.direction)
  <2>5. row = new
    BY <2>2, EditedRow
  <2>6. IsRow(new) /\ new.status = person[p].status
    BY RowIs
  <2> HIDE DEF row, new
  <2>7. Store(p, row)
    BY <2>4, Zenon DEF row
  <2> QED
    BY <2>2, <2>3, <2>5, <2>6, <2>7, Zenon DEF Writes
<1>10. ASSUME NEW r \in Requests,
             \/ \E name \in Names : LoginByName(r, name)
             \/ \E card \in Cards : LoginByIdentifier(r, card)
             \/ \E a \in Accounts : LoginByVK(r, a)
      PROVE  Fine
  BY <1>10 DEF LoginByName, LoginByIdentifier, LoginByVK, participantVars
<1>11. ASSUME NEW r \in Requests, BindVK(r) PROVE Fine
  <2> DEFINE p == request[r].on
             a == request[r].arg
             vk == IF person[p].vk = None THEN a ELSE person[p].vk
             row == [person[p] EXCEPT !.bound = a, !.vk = vk]
             new == RowOf(person[p].status, person[p].name, person[p].card, vk, a, person[p].direction)
  <2>1. request[r].op = "login"
    BY <1>11, LoginTurns
  <2>2. p \in People /\ IsRow(person[p])
    BY <2>1 DEF NamesSomebody, RowsRight
  <2>3. UNCHANGED session /\ Store(p, row)
    BY <1>11, Zenon DEF BindVK
  <2> HIDE DEF vk, p, a
  <2>4. row = new
    BY <2>2, BoundRow, Zenon
  <2>5. IsRow(new) /\ new.status = person[p].status
    BY RowIs
  <2> HIDE DEF row, new
  <2> QED
    BY <2>2, <2>3, <2>4, <2>5, Zenon DEF Writes
<1>12. ASSUME NEW r \in Requests, StopParticipant(r) PROVE Fine
  BY <1>12 DEF StopParticipant, participantVars
<1> HIDE DEF Fine
<1>13. Fine
  <2>1. (\E r \in Requests : SetPersonStatus(r)) => Fine
    BY DEF Fine
  <2>2. (\E r \in Requests, t \in Tokens : CreateSession(r, t)) => Fine
    BY DEF Fine
  <2> QED
    BY <1>1, <1>2, <1>3, <1>4, <1>5, <1>6, <1>7, <1>8, <1>9, <1>10, <1>11, <1>12, <2>1, <2>2
<1> QED
  BY <1>13 DEF Fine

\* A step of one request leaves the others naming somebody.
LEMMA NamesKeep ==
  ASSUME PeopleInv, NEW r \in Requests, Others(r), NamesSomebody(r)'
  PROVE  \A q \in Requests : NamesSomebody(q)'
<1> TAKE q \in Requests
<1>1. CASE q = r
  BY <1>1
<1>2. CASE q # r
  BY <1>2 DEF Others, PeopleInv, NamesSomebody
<1> QED
  BY <1>1, <1>2

\* Every request that is at a statement about a row names somebody.
LEMMA PeopleNames ==
  ASSUME PeopleInv, ParticipantsNext
  PROVE  \A q \in Requests : NamesSomebody(q)'
<1> DEFINE Fine == \A q \in Requests : NamesSomebody(q)'
<1>0. RequestsRight
  BY DEF PeopleInv
<1>1. \/ \E p \in People : CreatePerson(p)
      \/ \E d \in Directions : CreateDirection(d) \/ DeleteDirection(d)
      \/ \E t \in Tokens : Logout(t) \/ SessionExpires(t)
      \/ \E r \in Requests :
           \/ \E p \in People : BeginUpdatePerson(r, p) \/ \E target \in Status : BeginPersonStatus(r, p, target)
           \/ UpdatePerson(r) \/ SetPersonStatus(r)
           \/ \E row \in Rows : BeginImport(r, row)
           \/ CreateImported(r) \/ UpdateImported(r)
      \/ \E r \in Requests :
           \/ \E name \in Names : LoginByName(r, name)
           \/ \E card \in Cards : LoginByIdentifier(r, card)
           \/ \E a \in Accounts : LoginByVK(r, a)
           \/ BindVK(r)
           \/ \E t \in Tokens : CreateSession(r, t)
           \/ StopParticipant(r)
  BY DEF ParticipantsNext, ListNext, LoginNext
<1>2. ASSUME UNCHANGED request PROVE Fine
  BY <1>2 DEF PeopleInv, NamesSomebody
<1>3. ASSUME NEW r \in Requests, NEW op, NEW at, NEW on, NEW seen, NEW arg, Turns(r, op, at, on, seen, arg),
             op \in {"person", "import", "login"} => on \in People, op = "import" => IsInput(arg)
      PROVE  Fine
  BY <1>3, NamesKeep DEF Turns, NamesSomebody
<1>4. ASSUME NEW p \in People, CreatePerson(p) PROVE Fine
  BY <1>2, <1>4, Zenon DEF CreatePerson
<1>5. ASSUME NEW d \in Directions, CreateDirection(d) \/ DeleteDirection(d) PROVE Fine
  BY <1>2, <1>5 DEF CreateDirection, DeleteDirection
<1>6. ASSUME NEW t \in Tokens, Logout(t) \/ SessionExpires(t) PROVE Fine
  BY <1>2, <1>6 DEF Logout, SessionExpires, contestVars
<1>7. ASSUME NEW r \in Requests, Ends(r) PROVE Fine
  BY <1>3, <1>7 DEF Ends
<1>8. ASSUME NEW r \in Requests, NEW p \in People,
             BeginUpdatePerson(r, p) \/ \E target \in Status : BeginPersonStatus(r, p, target)
      PROVE  Fine
  <2>1. \E at, seen, arg : Turns(r, "person", at, p, seen, arg)
    BY <1>0, <1>8, ListTurns
  <2> QED
    BY <1>3, <2>1
<1>9. ASSUME NEW r \in Requests,
             UpdatePerson(r) \/ SetPersonStatus(r) \/ CreateImported(r) \/ UpdateImported(r)
      PROVE  Fine
  <2>1. Ends(r)
    BY <1>0, <1>9, ListTurns
  <2> QED
    BY <1>7, <2>1
<1>10. ASSUME NEW r \in Requests, NEW row \in Rows, BeginImport(r, row) PROVE Fine
  <2>1. \/ request' = request
        \/ \E at \in {"create", "update"}, p \in People : \E seen : Turns(r, "import", at, p, seen, row)
    BY <1>0, <1>10, ListTurns
  <2>2. IsInput(row)
    BY DEF Rows, IsInput
  <2> QED
    BY <1>2, <1>3, <2>1, <2>2
<1>11. ASSUME NEW r \in Requests,
             \/ \E name \in Names : LoginByName(r, name)
             \/ \E card \in Cards : LoginByIdentifier(r, card)
             \/ \E a \in Accounts : LoginByVK(r, a)
      PROVE  Fine
  <2>1. \E at \in {"bind", "issue"} : \E p \in People : \E arg : Turns(r, "login", at, p, None, arg)
    BY <1>0, <1>11, LoginTurns
  <2> QED
    BY <1>3, <2>1
<1>12. ASSUME NEW r \in Requests, BindVK(r) PROVE Fine
  <2>1. request[r].op = "login" /\ Turns(r, "login", "issue", request[r].on, request[r].seen, None)
    BY <1>0, <1>12, LoginTurns
  <2>2. request[r].on \in People
    BY <2>1 DEF PeopleInv, NamesSomebody
  <2> QED
    BY <1>3, <2>1, <2>2
<1>13. ASSUME NEW r \in Requests, NEW t \in Tokens, CreateSession(r, t) PROVE Fine
  BY <1>0, <1>7, <1>13, LoginTurns
<1>14. ASSUME NEW r \in Requests, StopParticipant(r) PROVE Fine
  <2>1. Stop(r)
    BY <1>14 DEF StopParticipant
  <2> QED
    BY <1>0, <1>7, <2>1, StopTurns DEF Ends
<1> HIDE DEF Fine
<1>15. Fine
  BY <1>1, <1>4, <1>5, <1>6, <1>8, <1>9, <1>10, <1>11, <1>12, <1>13, <1>14
<1> QED
  BY <1>15 DEF Fine

\* An ended session is still the same participant's.
LEMMA SessionEnds ==
  ASSUME NEW s, IsSession(s)
  PROVE  LET e == [s EXCEPT !.state = "ENDED"] IN IsSession(e) /\ e.of = s.of /\ e.state = "ENDED"
<1> DEFINE e == [s EXCEPT !.state = "ENDED"]
<1>1. e = [of |-> s.of, state |-> "ENDED"]
  BY DEF IsSession
<1>2. e.of = s.of /\ e.state = "ENDED"
  BY <1>1
<1> HIDE DEF e
<1>3. IsSession(e)
  BY <1>1, <1>2 DEF IsSession
<1> QED
  BY <1>2, <1>3 DEF e

\* What a step may do to the sessions of participants and their statuses.
StartOver ==
  \A t \in Tokens :
    LET p == session[t].of IN
    /\ (session[t].state = "LIVE" /\ person[p].status = "ACTIVE" /\ person'[p].status # "ACTIVE")
         => session'[t].state = "ENDED"
    /\ session[t].state = "ENDED" => ~AuthenticateSession(t)'

\* Every step keeps rows and sessions apart, and a block ends what was live.
LEMMA PeopleStep ==
  ASSUME PeopleInv, ParticipantsNext
  PROVE  RowsRight' /\ LivesAreSomebodys' /\ StartOver
<1> DEFINE Fine == RowsRight' /\ LivesAreSomebodys' /\ StartOver
<1> USE DEF PeopleInv
<1>1. CASE UNCHANGED <<person, session>>
  BY <1>1 DEF RowsRight, LivesAreSomebodys, StartOver, AuthenticateSession
<1>2. CASE Writes /\ UNCHANGED session
  <2>1. PICK p \in People : \E row : /\ IsRow(row) /\ Store(p, row)
                                     /\ row.status = person[p].status \/ person[p].status # "ACTIVE"
    BY <1>2 DEF Writes
  <2>2. PICK row : /\ IsRow(row) /\ Store(p, row)
                   /\ row.status = person[p].status \/ person[p].status # "ACTIVE"
    BY <2>1
  <2>3. RowsRight' /\ \A q \in People : person'[q] = person[q] \/ (q = p /\ person'[q] = row)
    BY <1>2, <2>2, StoredRows
  <2>4. \A q \in People : person[q].status = "ACTIVE" => person'[q].status = "ACTIVE"
    BY <2>2, <2>3
  <2> QED
    BY <1>2, <2>3, <2>4 DEF LivesAreSomebodys, StartOver, AuthenticateSession
<1>3. ASSUME NEW r \in Requests, SetPersonStatus(r) PROVE Fine
  <2> DEFINE p == request[r].on
             target == request[r].arg
  <2>1. /\ person' = [person EXCEPT ![p].status = target]
        /\ session' = IF target # "ACTIVE" THEN sessionsEnded(p) ELSE session
    BY <1>3 DEF SetPersonStatus
  <2>2. request[r].op = "person"
    BY <1>3, ListTurns
  <2>3. p \in People
    BY <2>2 DEF NamesSomebody
  <2> HIDE DEF p, target
  <2> DEFINE row == [person[p] EXCEPT !.status = target]
  <2>4. row = RowOf(target, person[p].name, person[p].card, person[p].vk, person[p].bound, person[p].direction)
    BY <2>3, StatusRow DEF RowsRight
  <2>5. IsRow(row) /\ row.status = target
    BY <2>4, RowIs
  <2>6. person' = [person EXCEPT ![p] = row]
    BY <2>1
  <2> HIDE DEF row
  <2>7. /\ person' = [q \in People |-> person'[q]]
        /\ \A q \in People : person'[q] = IF q = p THEN row ELSE person[q]
    BY <2>6 DEF RowsRight
  <2>8. \A q \in People : IsRow(person'[q])
    BY <2>5, <2>7 DEF RowsRight
  <2>9. ASSUME NEW t \in Tokens
        PROVE  /\ session'[t] \in {session[t], [session[t] EXCEPT !.state = "ENDED"]}
               /\ (target # "ACTIVE" /\ session[t].of = p) => session'[t] = [session[t] EXCEPT !.state = "ENDED"]
    BY <2>1 DEF sessionsEnded
  <2>10. ASSUME NEW t \in Tokens
         PROVE  /\ IsSession(session'[t]) /\ session'[t].of = session[t].of
                /\ session'[t].state \in {session[t].state, "ENDED"}
                /\ (target # "ACTIVE" /\ session[t].of = p) => session'[t].state = "ENDED"
    <3>1. IsSession(session[t])
      BY DEF RowsRight
    <3> DEFINE e == [session[t] EXCEPT !.state = "ENDED"]
    <3>2. IsSession(e) /\ e.of = session[t].of /\ e.state = "ENDED"
      BY <3>1, SessionEnds
    <3> HIDE DEF e
    <3>3. /\ session'[t] \in {session[t], e}
          /\ (target # "ACTIVE" /\ session[t].of = p) => session'[t] = e
      BY <2>9, Zenon DEF e
    <3> QED
      BY <3>1, <3>2, <3>3
  <2>11. session' = [t \in Tokens |-> session'[t]]
    BY <2>1 DEF sessionsEnded, RowsRight
  <2>12. RowsRight'
    BY <2>7, <2>8, <2>10, <2>11 DEF RowsRight
  <2>13. LivesAreSomebodys'
    BY <2>10 DEF LivesAreSomebodys
  <2>14. ASSUME NEW t \in Tokens, session[t].state = "LIVE", person[session[t].of].status = "ACTIVE",
                person'[session[t].of].status # "ACTIVE"
         PROVE  session'[t].state = "ENDED"
    <3>1. session[t].of \in People
      BY <2>14 DEF LivesAreSomebodys
    <3>2. session[t].of = p /\ target # "ACTIVE"
      BY <2>5, <2>7, <2>14, <3>1
    <3> QED
      BY <2>10, <3>2
  <2>15. \A t \in Tokens : session[t].state = "ENDED" => session'[t].state # "LIVE"
    BY <2>10
  <2> QED
    BY <2>12, <2>13, <2>14, <2>15 DEF StartOver, AuthenticateSession
<1>4. ASSUME NEW r \in Requests, NEW t \in Tokens, CreateSession(r, t) PROVE Fine
  <2> DEFINE s == [of |-> request[r].on, state |-> "LIVE"]
  <2>1. session[t] = NoSession /\ session' = [session EXCEPT ![t] = s] /\ UNCHANGED person
    BY <1>4 DEF CreateSession
  <2>2. request[r].op = "login"
    BY <1>4, LoginTurns
  <2>3. request[r].on \in People
    BY <2>2 DEF NamesSomebody
  <2>4. IsSession(s) /\ s.of = request[r].on
    BY DEF IsSession
  <2>5. session[t].state # "ENDED"
    BY <2>1 DEF NoSession
  <2> HIDE DEF s
  <2>6. /\ session' = [q \in Tokens |-> session'[q]]
        /\ \A q \in Tokens : session'[q] = IF q = t THEN s ELSE session[q]
    BY <2>1 DEF RowsRight
  <2>7. RowsRight' /\ LivesAreSomebodys'
    BY <2>1, <2>3, <2>4, <2>6 DEF RowsRight, LivesAreSomebodys
  <2> QED
    BY <2>1, <2>5, <2>6, <2>7 DEF StartOver, AuthenticateSession
<1>5. ASSUME NEW t \in Tokens, Logout(t) PROVE Fine
  <2> DEFINE e == [session[t] EXCEPT !.state = "ENDED"]
  <2>1. session' = [session EXCEPT ![t] = e] /\ UNCHANGED person
    BY <1>5 DEF Logout
  <2>2. IsSession(e) /\ e.of = session[t].of /\ e.state = "ENDED"
    BY SessionEnds DEF RowsRight
  <2> HIDE DEF e
  <2>3. /\ session' = [q \in Tokens |-> session'[q]]
        /\ \A q \in Tokens : session'[q] = IF q = t THEN e ELSE session[q]
    BY <2>1 DEF RowsRight
  <2>4. RowsRight' /\ LivesAreSomebodys'
    BY <2>1, <2>2, <2>3 DEF RowsRight, LivesAreSomebodys
  <2> QED
    BY <2>1, <2>2, <2>3, <2>4 DEF StartOver, AuthenticateSession
<1> QED
  BY <1>1, <1>2, <1>3, <1>4, <1>5, PeopleSteps

\* Nobody is listed and nobody signed in at first.
LEMMA PeopleStart == EventInit => PeopleInv
<1> SUFFICES ASSUME EventInit PROVE PeopleInv
  OBVIOUS
<1>1. RequestsRight /\ \A q \in Requests : request[q] = Idle
  BY RequestsStart DEF EventInit
<1>2. \A q \in Requests : NamesSomebody(q)
  BY <1>1, IdleIs DEF NamesSomebody
<1>3. PICK first \in People, name \in Names :
        person = [p \in People |-> IF p = first THEN [NoPerson EXCEPT !.status = "ACTIVE", !.name = name] ELSE NoPerson]
  BY DEF EventInit, ParticipantsInit
<1> DEFINE row == [NoPerson EXCEPT !.status = "ACTIVE", !.name = name]
<1>4. NoPerson = RowOf("NONE", None, None, None, None, None)
  BY DEF NoPerson, RowOf
<1>5. row = RowOf("ACTIVE", name, None, None, None, None)
  <2> DEFINE a == RowOf("ACTIVE", None, None, None, None, None)
             b == RowOf("ACTIVE", name, None, None, None, None)
  <2>1. [NoPerson EXCEPT !.status = "ACTIVE"] = a
    BY DEF NoPerson, RowOf
  <2>2. [a EXCEPT !.name = name] = b
    BY DEF RowOf
  <2>3. row = [[NoPerson EXCEPT !.status = "ACTIVE"] EXCEPT !.name = name]
    OBVIOUS
  <2> HIDE DEF a, b, row
  <2>4. row = b
    BY <2>1, <2>2, <2>3, Zenon
  <2> QED
    BY <2>4 DEF b
<1>6. IsRow(row) /\ IsRow(NoPerson)
  BY <1>4, <1>5, RowIs
<1> HIDE DEF row
<1>7. person = [p \in People |-> IF p = first THEN row ELSE NoPerson]
  BY <1>3, Zenon DEF row
<1>8. session = [t \in Tokens |-> NoSession] /\ IsSession(NoSession) /\ NoSession.state # "LIVE"
  BY DEF EventInit, ParticipantsInit, IsSession, NoSession
<1> QED
  BY <1>1, <1>2, <1>6, <1>7, <1>8 DEF PeopleInv, RowsRight, LivesAreSomebodys

\* The kinds of requests that are not about participants.
LEMMA OthersNames ==
  ASSUME PeopleInv, NEW kinds, OnlyOf(kinds), kinds \cap {"person", "import", "login"} = {}
  PROVE  \A q \in Requests : NamesSomebody(q)'
<1> TAKE q \in Requests
<1>1. request'[q] = request[q] \/ request'[q].op \notin {"person", "import", "login"}
  BY DEF OnlyOf
<1> QED
  BY <1>1 DEF PeopleInv, NamesSomebody

\* Every step of the composition keeps the invariant, and the blocked start over.
LEMMA PeopleInvStep == PeopleInv /\ [EventNext]_eventVars => PeopleInv' /\ [StartOver]_<<person, session>>
<1> SUFFICES ASSUME PeopleInv, [EventNext]_eventVars PROVE PeopleInv' /\ [StartOver]_<<person, session>>
  OBVIOUS
<1>1. RequestsRight /\ RequestsRight'
  BY RequestsKeep DEF PeopleInv
<1>2. CASE ParticipantsNext
  BY <1>1, <1>2, PeopleStep, PeopleNames DEF PeopleInv
<1>3. ASSUME UNCHANGED <<person, session>>, NEW kinds, OnlyOf(kinds), kinds \cap {"person", "import", "login"} = {}
      PROVE  PeopleInv' /\ [StartOver]_<<person, session>>
  <2>1. \A q \in Requests : NamesSomebody(q)'
    BY <1>3, OthersNames
  <2> QED
    BY <1>1, <1>3, <2>1 DEF PeopleInv, RowsRight, LivesAreSomebodys
<1>4. CASE ContestNext
  BY <1>1, <1>3, <1>4, ContestRequests DEF participantVars
<1>5. CASE ChallengesNext /\ UNCHANGED participantVars
  <2>1. UNCHANGED <<person, session>>
    BY <1>5 DEF participantVars
  <2>2. CASE FormNext
    BY <1>1, <1>3, <2>1, <2>2, FormRequests DEF FormKinds
  <2>3. CASE BriefingNext
    BY <1>1, <1>3, <2>1, <2>3, BriefingRequests DEF BriefingKinds
  <2>4. CASE Tick
    <3>1. OnlyOf({"none"})
      BY <1>1, <2>4, Unmoved DEF Tick, contestVars
    <3> QED
      BY <1>3, <2>1, <3>1
  <2>5. ASSUME NEW r \in Requests, StopChallenge(r) PROVE PeopleInv' /\ [StartOver]_<<person, session>>
    <3> DEFINE kinds == {"none", request[r].op}
    <3>1. Stop(r) /\ request[r].op \in {"edit", "challenge", "duplicate", "upload", "unlink"}
      BY <2>5, Zenon DEF StopChallenge
    <3>2. Turns(r, "none", "idle", None, None, None) /\ request[r].op \in kinds /\ "none" \in kinds
      BY <1>1, <3>1, StopTurns
    <3>3. kinds \cap {"person", "import", "login"} = {}
      BY <3>1
    <3> HIDE DEF kinds
    <3>4. OnlyOf(kinds)
      BY <1>1, <3>2, TurnsRight
    <3> QED
      BY <1>3, <2>1, <3>3, <3>4
  <2> QED
    BY <1>5, <2>2, <2>3, <2>4, <2>5 DEF ChallengesNext
<1>6. CASE UNCHANGED eventVars
  <2>1. OnlyOf({"none"}) /\ UNCHANGED <<person, session>>
    BY <1>1, <1>6, Unmoved DEF eventVars, contestVars, participantVars
  <2> QED
    BY <1>3, <2>1
<1> QED
  BY <1>2, <1>4, <1>5, <1>6 DEF EventNext

\* A session a participant had when they were blocked or archived is of no use afterwards, and
\* what has ended never signs anybody in again.
THEOREM BlockedStartOver == EventSpec => BlockedStartsOver
<1>1. [StartOver]_<<person, session>> <=>
        [\A t \in Tokens :
           LET p == session[t].of IN
           /\ (session[t].state = "LIVE" /\ person[p].status = "ACTIVE" /\ person'[p].status # "ACTIVE")
                => session'[t].state = "ENDED"
           /\ session[t].state = "ENDED" => ~AuthenticateSession(t)']_<<person, session>>
  BY DEF StartOver
<1> QED
  BY <1>1, PeopleStart, PeopleInvStep, PTL DEF EventSpec, BlockedStartsOver

KnownKept == \A r \in Requests : Imports(r) => ~Clears(request[r].on, request[r].seen)

\* Every write of an import keeps what its row knew.
LEMMA KnownKeptStep == PeopleInv /\ [EventNext]_eventVars => [KnownKept]_<<person, request>>
<1> SUFFICES ASSUME PeopleInv, [EventNext]_eventVars, NEW r \in Requests, Imports(r)
             PROVE  ~Clears(request[r].on, request[r].seen)
  BY DEF KnownKept
<1>0. RequestsRight
  BY DEF PeopleInv
<1>1. request[r].op = "import" /\ request[r].at = "update" /\ person' # person /\ request'[r] # request[r]
  BY DEF Imports, At
<1>2. ParticipantsNext
  BY <1>1 DEF EventNext, ContestNext, eventVars, participantVars
<1>3. UpdateImported(r)
  <2>1. \/ \E p \in People : CreatePerson(p)
        \/ \E d \in Directions : CreateDirection(d) \/ DeleteDirection(d)
        \/ \E t \in Tokens : Logout(t) \/ SessionExpires(t)
        \/ \E q \in Requests :
             \/ \E p \in People : BeginUpdatePerson(q, p) \/ \E target \in Status : BeginPersonStatus(q, p, target)
             \/ UpdatePerson(q) \/ SetPersonStatus(q)
             \/ \E row \in Rows : BeginImport(q, row)
             \/ CreateImported(q) \/ UpdateImported(q)
        \/ \E q \in Requests :
             \/ \E name \in Names : LoginByName(q, name)
             \/ \E card \in Cards : LoginByIdentifier(q, card)
             \/ \E a \in Accounts : LoginByVK(q, a)
             \/ BindVK(q)
             \/ \E t \in Tokens : CreateSession(q, t)
             \/ StopParticipant(q)
    BY <1>2 DEF ParticipantsNext, ListNext, LoginNext
  <2>2. \A p \in People : ~CreatePerson(p)
    BY <1>1, Zenon DEF CreatePerson
  <2>3. \A d \in Directions : ~CreateDirection(d) /\ ~DeleteDirection(d)
    BY <1>1, Zenon DEF CreateDirection, DeleteDirection
  <2>4. \A t \in Tokens : ~Logout(t) /\ ~SessionExpires(t)
    BY <1>1, Zenon DEF Logout, SessionExpires
  <2>5. ASSUME NEW q \in Requests,
               \/ UpdatePerson(q) \/ SetPersonStatus(q) \/ CreateImported(q) \/ BindVK(q)
        PROVE  FALSE
    <3>1. Others(q) /\ (request[q].op # "import" \/ request[q].at # "update")
      BY <1>0, <2>5, ListTurns, LoginTurns DEF Ends, Turns
    <3> QED
      BY <1>1, <3>1 DEF Others
  <2>6. ASSUME NEW q \in Requests, UpdateImported(q) PROVE q = r
    <3>1. Others(q)
      BY <1>0, <2>6, ListTurns DEF Ends, Turns
    <3> QED
      BY <1>1, <3>1 DEF Others
  <2>7. ASSUME NEW q \in Requests,
               \/ \E p \in People : BeginUpdatePerson(q, p) \/ \E target \in Status : BeginPersonStatus(q, p, target)
               \/ \E row \in Rows : BeginImport(q, row)
               \/ \E name \in Names : LoginByName(q, name)
               \/ \E card \in Cards : LoginByIdentifier(q, card)
               \/ \E a \in Accounts : LoginByVK(q, a)
               \/ \E t \in Tokens : CreateSession(q, t)
               \/ StopParticipant(q)
        PROVE  person' = person
    BY <2>7, Zenon DEF BeginUpdatePerson, BeginPersonStatus, BeginImport, LoginByName, LoginByIdentifier,
         LoginByVK, CreateSession, StopParticipant, participantVars
  <2> QED
    BY <1>1, <2>1, <2>2, <2>3, <2>4, <2>5, <2>6, <2>7
<1> DEFINE p == request[r].on
           read == request[r].seen
           row == keepKnown(request[r].arg, read)
<1>4. p \in People /\ IsRow(person[p]) /\ IsInput(request[r].arg)
  BY <1>1 DEF PeopleInv, NamesSomebody, RowsRight
<1>5. /\ read.card # None => row.card # None
      /\ read.vk # None => row.vk # None
      /\ read.direction # None => row.direction # None
  BY <1>4, KeptKnown
<1>6. \E bound : Store(p, Edited(person[p], row.name, row.card, row.vk, bound, row.direction))
  BY <1>3, Zenon DEF UpdateImported, Edited
<1> HIDE DEF row, p, read
<1>7. PICK bound : Store(p, Edited(person[p], row.name, row.card, row.vk, bound, row.direction))
  BY <1>6
<1> DEFINE new == Edited(person[p], row.name, row.card, row.vk, bound, row.direction)
<1>8. new = RowOf(person[p].status, row.name, row.card, row.vk, bound, row.direction)
  BY <1>4, EditedRow
<1>9. new.card = row.card /\ new.vk = row.vk /\ new.direction = row.direction
  BY <1>8, RowIs
<1> HIDE DEF new
<1>10. person' = [person EXCEPT ![p] = new]
  BY <1>1, <1>7 DEF Store, new
<1>11. person'[p] = new
  BY <1>4, <1>10 DEF PeopleInv, RowsRight
<1>12. ~Clears(p, read)
  BY <1>5, <1>9, <1>11 DEF Clears
<1> QED
  BY <1>12 DEF p, read

\* An empty cell of an imported file clears no card, link or direction the row found.
THEOREM ImportKeeps == EventSpec => ImportKeepsKnown
<1>1. [KnownKept]_<<person, request>> <=>
        [\A r \in Requests : Imports(r) => ~Clears(request[r].on, request[r].seen)]_<<person, request>>
  BY DEF KnownKept
<1> QED
  BY <1>1, PeopleStart, PeopleInvStep, KnownKeptStep, PTL DEF EventSpec, ImportKeepsKnown

-----------------------------------------------------------------------------
(* The versions of a form.  While a request still has a version to keep, it *)
(* holds the form as it is or will read it; a challenge without such a      *)
(* request has its form kept, is not published, or changed by a request     *)
(* that keeps no version (VersionsInv).                                     *)

Bumping(q, c) == request[q].at = "bump" /\ request[q].on = c
Keeping(q, c) == /\ request[q].at \in {"read", "save"} /\ request[q].on = c
                 /\ request[q].seen = challenge[c].version
Opening(q, c) == /\ request[q].op = "challenge" /\ request[q].at = "status" /\ request[q].on = c
                 /\ request[q].arg = "PUBLISHED"

\* What a request at work on a form knows of it.
Publishes(q) == request[q].op = "challenge" /\ request[q].at = "status"
Knows(q) ==
  LET c == request[q].on IN
  /\ \/ request[q].at \in {"field", "bump", "read", "save"}
     \/ Publishes(q)
     \/ request[q].op = "duplicate" /\ request[q].at = "copy"
     => c \in Tests /\ Exists(c)
  /\ request[q].at \in {"read", "save"} \/ Publishes(q) => request[q].seen \in 1 .. challenge[c].version
  /\ Publishes(q) => request[q].arg \in ChallengeStatus \ {"NONE"}

Held(c) ==
  /\ \A q \in Requests : request[q].at = "save" /\ Keeping(q, c) => request[q].arg = form[c]
  /\ \/ snapshot[c][challenge[c].version] = form[c]
     \/ snapshot[c][challenge[c].version] = None /\ \E q \in Requests : Keeping(q, c)
     \/ /\ snapshot[c][challenge[c].version] = None /\ challenge[c].status # "PUBLISHED"
        /\ \A q \in Requests : Opening(q, c) => request[q].seen = challenge[c].version

NoneAhead(c) == \A v \in 1 .. MaxVersion : snapshot[c][v] # None => v <= challenge[c].version /\ Exists(c)

Kept(c) == NoneAhead(c) /\ (c \in loose \/ (\E q \in Requests : Bumping(q, c)) \/ Held(c))

IsChallenge(row) == row = [status |-> row.status, version |-> row.version, accepts |-> row.accepts]

FormsRight ==
  /\ challenge = [c \in Tests |-> challenge[c]]
  /\ \A c \in Tests : /\ IsChallenge(challenge[c]) /\ challenge[c].status \in ChallengeStatus
                      /\ challenge[c].version \in 1 .. MaxVersion
  /\ form = [c \in Tests |-> form[c]]
  /\ snapshot = [c \in Tests |-> [v \in 1 .. MaxVersion |-> snapshot[c][v]]]

VersionsInv ==
  RequestsRight /\ FormsRight /\ (\A q \in Requests : Knows(q)) /\ (\A c \in Tests : Kept(c))

\* When nobody is at work, what is kept as the version is the form.
LEMMA VersionsCurrent == VersionsInv => SnapshotCurrent
<1> SUFFICES ASSUME VersionsInv, NEW c \in Tests, Quiet, challenge[c].status = "PUBLISHED", c \notin loose
             PROVE  snapshot[c][challenge[c].version] = form[c]
  BY DEF SnapshotCurrent
<1>1. \A q \in Requests : request[q].at = "idle"
  BY DEF Quiet, Free
<1> QED
  BY <1>1 DEF VersionsInv, Kept, Bumping, Held, Keeping

\* A request that stays as it is still knows what it knew: versions only grow, and what
\* exists goes on to.
LEMMA KnowsStill ==
  ASSUME VersionsInv, FormsRight', NEW q \in Requests, request'[q] = request[q],
         \A c \in Tests : Exists(c) => Exists(c)' /\ challenge[c].version <= challenge'[c].version
  PROVE  Knows(q)'
<1> DEFINE c == request[q].on
<1>1. request'[q].on = c
  OBVIOUS
<1>2. Knows(q)
  BY DEF VersionsInv
<1>3. ASSUME c \in Tests, Exists(c), request[q].seen \in 1 .. challenge[c].version
      PROVE  request[q].seen \in 1 .. challenge'[c].version
  <2>1. challenge[c].version \in Nat /\ challenge'[c].version \in Nat /\ challenge[c].version <= challenge'[c].version
    BY <1>3 DEF VersionsInv, FormsRight
  <2> QED
    BY <1>3, <2>1
<1> HIDE DEF c
<1>4. \/ request[q].at \in {"field", "bump", "read", "save"}
      \/ Publishes(q)
      \/ request[q].op = "duplicate" /\ request[q].at = "copy"
      => c \in Tests /\ Exists(c) /\ Exists(c)'
  BY <1>2 DEF Knows, c
<1>5. request[q].at \in {"read", "save"} \/ Publishes(q) => request[q].seen \in 1 .. challenge'[c].version
  BY <1>2, <1>3, <1>4 DEF Knows, c
<1>6. Publishes(q)' <=> Publishes(q)
  BY DEF Publishes
<1> QED
  BY <1>1, <1>2, <1>4, <1>5, <1>6 DEF Knows, c

\* A challenge nobody touched is kept as it was.
LEMMA KeptElsewhere ==
  ASSUME VersionsInv, NEW c \in Tests,
         challenge'[c].status = challenge[c].status, challenge'[c].version = challenge[c].version,
         form'[c] = form[c], snapshot'[c] = snapshot[c], c \in loose => c \in loose',
         \A q \in Requests : \/ request'[q] = request[q]
                             \/ ~Bumping(q, c) /\ ~Keeping(q, c) /\ ~Keeping(q, c)' /\ ~Opening(q, c)'
  PROVE  Kept(c)'
<1>1. NoneAhead(c)'
  BY DEF VersionsInv, Kept, NoneAhead, Exists
<1>2. ASSUME NEW q \in Requests
      PROVE  /\ Bumping(q, c) => Bumping(q, c)'
             /\ Keeping(q, c)' <=> Keeping(q, c)
             /\ Opening(q, c)' => Opening(q, c) /\ request'[q] = request[q]
             /\ Keeping(q, c)' => request'[q] = request[q]
  BY DEF Bumping, Keeping, Opening
<1>3. CASE c \in loose
  BY <1>1, <1>3 DEF Kept
<1>4. CASE \E q \in Requests : Bumping(q, c)
  BY <1>1, <1>2, <1>4 DEF Kept
<1>5. CASE Held(c)
  <2>1. \A q \in Requests : request'[q].at = "save" /\ Keeping(q, c)' => request'[q].arg = form'[c]
    BY <1>2, <1>5 DEF Held
  <2>2. CASE snapshot[c][challenge[c].version] = form[c]
    BY <2>1, <2>2, <1>1 DEF Held, Kept
  <2>3. CASE snapshot[c][challenge[c].version] = None /\ \E q \in Requests : Keeping(q, c)
    BY <1>1, <1>2, <2>1, <2>3 DEF Held, Kept
  <2>4. CASE /\ snapshot[c][challenge[c].version] = None /\ challenge[c].status # "PUBLISHED"
             /\ \A q \in Requests : Opening(q, c) => request[q].seen = challenge[c].version
    BY <1>1, <1>2, <2>1, <2>4 DEF Held, Kept
  <2> QED
    BY <1>5, <2>2, <2>3, <2>4 DEF Held
<1> QED
  BY <1>3, <1>4, <1>5 DEF VersionsInv, Kept

\* A change of the form that keeps no version, by a request that has none to keep.
LEMMA KeptLoosely ==
  ASSUME VersionsInv, NEW r \in Requests, Others(r), NEW c \in Tests, NEW d \in Tests, UNCHANGED <<challenge, snapshot>>,
         d # c => form'[d] = form[d], loose' = IF BeingKept(c) THEN loose \cup {c} ELSE loose,
         request[r].at \notin {"bump", "read", "save"},
         request'[r].at \notin {"read", "save"}, ~Publishes(r)'
  PROVE  Kept(d)'
<1>1. CASE d # c
  BY <1>1, KeptElsewhere DEF Others, Bumping, Keeping, Opening, Publishes
<1>2. CASE d = c /\ BeingKept(c)
  <2>1. NoneAhead(c)'
    BY DEF VersionsInv, Kept, NoneAhead, Exists
  <2> QED
    BY <1>2, <2>1 DEF Kept
<1>3. CASE d = c /\ ~BeingKept(c)
  <2>1. NoneAhead(c)'
    BY DEF VersionsInv, Kept, NoneAhead, Exists
  <2>2. /\ challenge'[c].status # "PUBLISHED" /\ snapshot'[c][challenge'[c].version] = None
        /\ \A q \in Requests : request[q].on = c => request[q].at \notin {"status", "read", "save"}
    BY <1>3 DEF BeingKept
  <2>3. \A q \in Requests : ~Keeping(q, c)' /\ ~Opening(q, c)'
    BY <2>2 DEF Others, Keeping, Opening, Publishes
  <2>4. Held(c)'
    BY <2>2, <2>3 DEF Held
  <2> QED
    BY <1>3, <2>1, <2>4 DEF Kept
<1> QED
  BY <1>1, <1>2, <1>3

\* What the writes to the table of challenges leave.
LEMMA WrittenChallenge ==
  ASSUME FormsRight, NEW c \in Tests, NEW row, IsChallenge(row), row.status \in ChallengeStatus,
         row.version \in 1 .. MaxVersion, challenge' = [challenge EXCEPT ![c] = row], UNCHANGED <<form, snapshot>>
  PROVE  FormsRight' /\ \A d \in Tests : challenge'[d] = IF d = c THEN row ELSE challenge[d]
<1>1. /\ challenge' = [d \in Tests |-> challenge'[d]]
      /\ \A d \in Tests : challenge'[d] = IF d = c THEN row ELSE challenge[d]
  BY DEF FormsRight
<1> QED
  BY <1>1 DEF FormsRight

\* A challenge that is written in one field keeps the others.
LEMMA ChallengeRows ==
  ASSUME NEW row, IsChallenge(row), NEW value
  PROVE  /\ LET new == [row EXCEPT !.status = value]
            IN IsChallenge(new) /\ new.status = value /\ new.version = row.version
         /\ LET new == [row EXCEPT !.version = value]
            IN IsChallenge(new) /\ new.status = row.status /\ new.version = value
         /\ LET new == [row EXCEPT !.accepts = value]
            IN IsChallenge(new) /\ new.status = row.status /\ new.version = row.version
<1> DEFINE a == [row EXCEPT !.status = value]
           b == [row EXCEPT !.version = value]
           d == [row EXCEPT !.accepts = value]
<1>1. /\ a = [status |-> value, version |-> row.version, accepts |-> row.accepts]
      /\ b = [status |-> row.status, version |-> value, accepts |-> row.accepts]
      /\ d = [status |-> row.status, version |-> row.version, accepts |-> value]
  BY DEF IsChallenge
<1> HIDE DEF a, b, d
<1>2. /\ IsChallenge(a) /\ a.status = value /\ a.version = row.version
      /\ IsChallenge(b) /\ b.status = row.status /\ b.version = value
      /\ IsChallenge(d) /\ d.status = row.status /\ d.version = row.version
  BY <1>1 DEF IsChallenge
<1> QED
  BY <1>2 DEF a, b, d

\* A status is written.
LEMMA SetsStatus ==
  ASSUME FormsRight, NEW c \in Tests, NEW target \in ChallengeStatus,
         challenge' = [challenge EXCEPT ![c].status = target], UNCHANGED <<form, snapshot>>
  PROVE  /\ FormsRight' /\ \A d \in Tests \ {c} : challenge'[d] = challenge[d]
         /\ challenge'[c].status = target /\ challenge'[c].version = challenge[c].version
<1> DEFINE row == [challenge[c] EXCEPT !.status = target]
<1>1. IsChallenge(row) /\ row.status = target /\ row.version = challenge[c].version
  BY ChallengeRows DEF FormsRight
<1>2. challenge' = [challenge EXCEPT ![c] = row]
  OBVIOUS
<1> HIDE DEF row
<1> QED
  BY <1>1, <1>2, WrittenChallenge DEF FormsRight

\* A version is written.
LEMMA SetsVersion ==
  ASSUME FormsRight, NEW c \in Tests, NEW next \in 1 .. MaxVersion,
         challenge' = [challenge EXCEPT ![c].version = next], UNCHANGED <<form, snapshot>>
  PROVE  /\ FormsRight' /\ \A d \in Tests \ {c} : challenge'[d] = challenge[d]
         /\ challenge'[c].status = challenge[c].status /\ challenge'[c].version = next
<1> DEFINE row == [challenge[c] EXCEPT !.version = next]
<1>1. IsChallenge(row) /\ row.status = challenge[c].status /\ row.version = next
  BY ChallengeRows DEF FormsRight
<1>2. challenge' = [challenge EXCEPT ![c] = row]
  OBVIOUS
<1> HIDE DEF row
<1> QED
  BY <1>1, <1>2, WrittenChallenge DEF FormsRight

\* The kinds of answers are written.
LEMMA SetsAccepts ==
  ASSUME FormsRight, NEW c \in Tests, NEW accepts,
         challenge' = [challenge EXCEPT ![c].accepts = accepts], UNCHANGED <<form, snapshot>>
  PROVE  /\ FormsRight'
         /\ \A d \in Tests : challenge'[d].status = challenge[d].status /\ challenge'[d].version = challenge[d].version
<1> DEFINE row == [challenge[c] EXCEPT !.accepts = accepts]
<1>1. IsChallenge(row) /\ row.status = challenge[c].status /\ row.version = challenge[c].version
  BY ChallengeRows DEF FormsRight
<1>2. challenge' = [challenge EXCEPT ![c] = row]
  OBVIOUS
<1> HIDE DEF row
<1> QED
  BY <1>1, <1>2, WrittenChallenge DEF FormsRight

\* A challenge is created: a DRAFT that nobody knew.
LEMMA CreatedKept ==
  ASSUME VersionsInv, RequestsRight', NEW c \in Tests, ~Exists(c), NEW accepts,
         challenge' = [challenge EXCEPT ![c] = [status |-> "DRAFT", version |-> 1, accepts |-> accepts]],
         UNCHANGED <<form, snapshot, loose>>,
         \A q \in Requests :
           \/ request'[q] = request[q]
           \/ request[q].op = "duplicate" /\ request[q].at = "create" /\ request'[q].op = "duplicate"
              /\ request'[q].at = "copy" /\ request'[q].on = c
  PROVE  VersionsInv'
<1> DEFINE row == [status |-> "DRAFT", version |-> 1, accepts |-> accepts]
<1>1. IsChallenge(row) /\ row.status = "DRAFT" /\ row.version = 1 /\ 1 \in 1 .. MaxVersion
  BY MaxVersionPos DEF IsChallenge
<1> HIDE DEF row
<1>2. FormsRight' /\ \A d \in Tests : challenge'[d] = IF d = c THEN row ELSE challenge[d]
  BY <1>1, WrittenChallenge DEF VersionsInv, ChallengeStatus, row
<1>3. \A d \in Tests : Exists(d) => Exists(d)' /\ challenge[d].version <= challenge'[d].version
  BY <1>2 DEF Exists, VersionsInv, FormsRight
<1>4. ASSUME NEW q \in Requests PROVE Knows(q)'
  <2>1. CASE request'[q] = request[q]
    BY <1>2, <1>3, <2>1, KnowsStill
  <2>2. CASE request'[q].op = "duplicate" /\ request'[q].at = "copy" /\ request'[q].on = c
    BY <1>1, <1>2, <2>2 DEF Knows, Publishes, Exists
  <2> QED
    BY <2>1, <2>2
<1>5. ASSUME NEW d \in Tests \ {c} PROVE Kept(d)'
  <2>1. challenge'[d] = challenge[d]
    BY <1>2
  <2>2. \A q \in Requests : \/ request'[q] = request[q]
                            \/ ~Bumping(q, d) /\ ~Keeping(q, d) /\ ~Keeping(q, d)' /\ ~Opening(q, d)'
    BY DEF Bumping, Keeping, Opening
  <2> QED
    BY <2>1, <2>2, KeptElsewhere
<1>6. ASSUME NEW q \in Requests PROVE ~Keeping(q, c)' /\ ~Opening(q, c)'
  <2>1. Knows(q)
    BY DEF VersionsInv
  <2> QED
    BY <2>1 DEF Knows, Publishes, Keeping, Opening
<1>7. \A v \in 1 .. MaxVersion : snapshot'[c][v] = None
  BY DEF VersionsInv, Kept, NoneAhead
<1>8. Kept(c)'
  BY <1>1, <1>2, <1>6, <1>7 DEF Kept, NoneAhead, Held
<1> QED
  BY <1>2, <1>4, <1>5, <1>8 DEF VersionsInv

\* A step in which the challenges and what is kept of them stay as they are.
LEMMA VersionsFrame ==
  ASSUME VersionsInv, RequestsRight', UNCHANGED <<challenge, form, snapshot>>, loose \subseteq loose',
         \A q \in Requests :
           \/ request'[q] = request[q]
           \/ /\ Knows(q)'
              /\ \A c \in Tests \ loose' : ~Bumping(q, c) /\ ~Keeping(q, c) /\ ~Keeping(q, c)' /\ ~Opening(q, c)'
  PROVE  VersionsInv'
<1>1. FormsRight'
  BY DEF VersionsInv, FormsRight
<1>2. \A c \in Tests : Exists(c) => Exists(c)' /\ challenge[c].version <= challenge'[c].version
  BY DEF Exists, VersionsInv, FormsRight
<1>3. \A q \in Requests : Knows(q)'
  BY <1>1, <1>2, KnowsStill
<1>4. ASSUME NEW c \in Tests PROVE Kept(c)'
  <2>1. CASE c \in loose'
    BY <2>1 DEF VersionsInv, Kept, NoneAhead, Exists
  <2>2. CASE c \notin loose'
    BY <2>2, KeptElsewhere
  <2> QED
    BY <2>1, <2>2
<1> QED
  BY <1>1, <1>3, <1>4 DEF VersionsInv

\* A field is written: whoever edits a published form has a version still to keep.
LEMMA EditKeeps ==
  ASSUME VersionsInv, RequestsRight', NEW r \in Requests, WriteField(r)
  PROVE  VersionsInv'
<1>c. PICK c : c = request[r].on
  OBVIOUS
<1>0. RequestsRight
  BY DEF VersionsInv
<1>1. request[r].at = "field" /\ Others(r)
  BY <1>0, <1>c, FormTurns DEF Ends, Turns
<1>2. c \in Tests /\ Exists(c)
  BY <1>1, <1>c DEF VersionsInv, Knows
<1>3. PICK fields : form' = [form EXCEPT ![c] = fields]
  BY <1>c, Zenon DEF WriteField, WriteVersioning
<1>4. /\ UNCHANGED <<challenge, snapshot>>
      /\ loose' = IF request[r].seen # "PUBLISHED" /\ BeingKept(c) THEN loose \cup {c} ELSE loose
  BY <1>c, Zenon DEF WriteField, WriteVersioning
<1>5. FormsRight' /\ \A d \in Tests \ {c} : form'[d] = form[d]
  BY <1>3, <1>4 DEF VersionsInv, FormsRight
<1>6. \A d \in Tests : Exists(d) => Exists(d)' /\ challenge[d].version <= challenge'[d].version
  BY <1>4 DEF Exists, VersionsInv, FormsRight
<1>7. ASSUME NEW q \in Requests \ {r} PROVE Knows(q)'
  BY <1>1, <1>5, <1>6, KnowsStill DEF Others
<1>8. CASE request[r].seen = "PUBLISHED"
  <2>1. request'[r].op = "edit" /\ request'[r].at = "bump" /\ request'[r].on = c
    BY <1>0, <1>8, <1>c, FormTurns DEF Turns
  <2>2. Knows(r)'
    BY <1>2, <1>6, <2>1 DEF Knows, Publishes
  <2>3. ASSUME NEW d \in Tests \ {c} PROVE Kept(d)'
    BY <1>1, <1>4, <1>5, <1>8, <1>c, <2>1, KeptElsewhere DEF Others, Bumping, Keeping, Opening
  <2>4. Kept(c)'
    <3>1. NoneAhead(c)'
      BY <1>2, <1>4 DEF VersionsInv, Kept, NoneAhead, Exists
    <3> QED
      BY <2>1, <3>1 DEF Kept, Bumping
  <2> QED
    BY <1>5, <1>7, <2>2, <2>3, <2>4 DEF VersionsInv
<1>9. CASE request[r].seen # "PUBLISHED"
  <2>1. request'[r].op = "none" /\ request'[r].at = "idle"
    BY <1>0, <1>9, FormTurns DEF Ends, Turns
  <2>2. Knows(r)'
    BY <2>1 DEF Knows, Publishes
  <2>3. ~Publishes(r)'
    BY <2>1 DEF Publishes
  <2>4. ASSUME NEW d \in Tests PROVE Kept(d)'
    BY <1>1, <1>2, <1>4, <1>5, <1>9, <2>1, <2>3, KeptLoosely
  <2> QED
    BY <1>5, <1>7, <2>2, <2>4 DEF VersionsInv
<1> QED
  BY <1>8, <1>9

\* The version is raised before its snapshot is there; the request that raised it will keep it.
LEMMA BumpKeeps ==
  ASSUME VersionsInv, RequestsRight', NEW r \in Requests, BumpSchemaVersion(r)
  PROVE  VersionsInv'
<1>c. PICK c : c = request[r].on
  OBVIOUS
<1> DEFINE next == challenge[c].version + 1
<1>0. RequestsRight
  BY DEF VersionsInv
<1>1. /\ request[r].op = "edit" /\ request[r].at = "bump" /\ Others(r)
      /\ request'[r].op = "edit" /\ request'[r].at = "read" /\ request'[r].on = c /\ request'[r].seen = next
  BY <1>0, <1>c, FormTurns DEF Turns
<1>2. c \in Tests /\ Exists(c)
  BY <1>1, <1>c DEF VersionsInv, Knows
<1>3. /\ next <= MaxVersion /\ challenge' = [challenge EXCEPT ![c].version = next]
      /\ UNCHANGED <<form, snapshot>> /\ loose' = loose \ {c}
  BY <1>c, Zenon DEF BumpSchemaVersion
<1>4. challenge[c].version \in 1 .. MaxVersion /\ next \in 1 .. MaxVersion /\ next > challenge[c].version
  BY <1>2, <1>3, MaxVersionPos DEF VersionsInv, FormsRight
<1>5. FormsRight
  BY DEF VersionsInv
<1> HIDE DEF next
<1>6. /\ FormsRight' /\ \A d \in Tests \ {c} : challenge'[d] = challenge[d]
      /\ challenge'[c].status = challenge[c].status /\ challenge'[c].version = next
  BY <1>2, <1>3, <1>4, <1>5, SetsVersion
<1>7. \A d \in Tests : Exists(d) => Exists(d)' /\ challenge[d].version <= challenge'[d].version
  <2> TAKE d \in Tests
  <2>1. CASE d = c
    BY <1>4, <1>6, <2>1 DEF Exists
  <2>2. CASE d # c
    BY <1>5, <1>6, <2>2 DEF Exists, FormsRight
  <2> QED
    BY <2>1, <2>2
<1>8. ASSUME NEW q \in Requests \ {r} PROVE Knows(q)'
  BY <1>1, <1>6, <1>7, KnowsStill DEF Others
<1>9. Knows(r)'
  BY <1>1, <1>2, <1>4, <1>6, <1>7 DEF Knows, Publishes
<1>10. ASSUME NEW d \in Tests \ {c} PROVE Kept(d)'
  <2>1. \A q \in Requests : \/ request'[q] = request[q]
                            \/ ~Bumping(q, d) /\ ~Keeping(q, d) /\ ~Keeping(q, d)' /\ ~Opening(q, d)'
    BY <1>1, <1>c DEF Others, Bumping, Keeping, Opening
  <2> QED
    BY <1>3, <1>6, <2>1, KeptElsewhere
<1>11. snapshot[c][next] = None
  BY <1>2, <1>4 DEF VersionsInv, Kept, NoneAhead
<1>12. NoneAhead(c)'
  <2>1. ASSUME NEW v \in 1 .. MaxVersion, snapshot[c][v] # None PROVE v <= next
    BY <1>2, <1>4, <2>1 DEF VersionsInv, Kept, NoneAhead
  <2> QED
    BY <1>2, <1>3, <1>6, <1>7, <2>1 DEF NoneAhead
<1>13. ASSUME NEW q \in Requests, request'[q].at = "save", Keeping(q, c)' PROVE FALSE
  <2>1. q # r /\ request'[q] = request[q]
    BY <1>1, <1>13 DEF Others
  <2>2. request[q].at = "save" /\ request[q].on = c /\ request[q].seen = next
    BY <1>6, <1>13, <2>1 DEF Keeping
  <2>3. next \in 1 .. challenge[c].version
    BY <2>2 DEF VersionsInv, Knows
  <2> QED
    BY <1>4, <2>3
<1>14. Keeping(r, c)'
  BY <1>1, <1>6 DEF Keeping
<1>15. Held(c)'
  BY <1>3, <1>6, <1>11, <1>13, <1>14 DEF Held
<1> QED
  BY <1>6, <1>8, <1>9, <1>10, <1>12, <1>15 DEF VersionsInv, Kept

\* The form is read for a snapshot.
LEMMA ReadKeeps ==
  ASSUME VersionsInv, RequestsRight', NEW r \in Requests, SchemaJSON(r)
  PROVE  VersionsInv'
<1>c. PICK c : c = request[r].on
  OBVIOUS
<1>0. RequestsRight
  BY DEF VersionsInv
<1>1. /\ request[r].at = "read" /\ Others(r) /\ request'[r].op = request[r].op /\ request'[r].at = "save"
      /\ request[r].op \in {"edit", "challenge"}
      /\ request'[r].on = c /\ request'[r].seen = request[r].seen /\ request'[r].arg = form[c]
  BY <1>0, <1>c, FormTurns DEF Turns
<1>2. c \in Tests /\ Exists(c) /\ request[r].seen \in 1 .. challenge[c].version
  BY <1>1, <1>c DEF VersionsInv, Knows
<1>3. UNCHANGED <<challenge, form, snapshot, loose>>
  BY DEF SchemaJSON, challengeVars
<1>4. FormsRight'
  BY <1>3 DEF VersionsInv, FormsRight
<1>5. \A d \in Tests : Exists(d) => Exists(d)' /\ challenge[d].version <= challenge'[d].version
  BY <1>3 DEF Exists, VersionsInv, FormsRight
<1>6. ASSUME NEW q \in Requests \ {r} PROVE Knows(q)'
  BY <1>1, <1>4, <1>5, KnowsStill DEF Others
<1>7. Knows(r)'
  BY <1>1, <1>2, <1>3, <1>5 DEF Knows, Publishes
<1>8. ASSUME NEW d \in Tests \ {c} PROVE Kept(d)'
  <2>1. \A q \in Requests : \/ request'[q] = request[q]
                            \/ ~Bumping(q, d) /\ ~Keeping(q, d) /\ ~Keeping(q, d)' /\ ~Opening(q, d)'
    BY <1>1, <1>c DEF Others, Bumping, Keeping, Opening
  <2> QED
    BY <1>3, <2>1, KeptElsewhere
<1>9. Kept(c)'
  <2>1. NoneAhead(c)'
    BY <1>2, <1>3 DEF VersionsInv, Kept, NoneAhead, Exists
  <2>2. ASSUME NEW q \in Requests
        PROVE  /\ Bumping(q, c) => Bumping(q, c)'
               /\ Keeping(q, c)' <=> Keeping(q, c)
               /\ Opening(q, c)' => Opening(q, c) /\ request'[q] = request[q]
               /\ q # r => request'[q] = request[q]
    BY <1>1, <1>3, <1>c DEF Others, Bumping, Keeping, Opening
  <2>3. CASE c \in loose \/ \E q \in Requests : Bumping(q, c)
    BY <1>3, <2>1, <2>2, <2>3 DEF Kept
  <2>4. CASE Held(c)
    <3>1. \A q \in Requests : request'[q].at = "save" /\ Keeping(q, c)' => request'[q].arg = form'[c]
      BY <1>1, <1>3, <2>2, <2>4 DEF Held
    <3>2. CASE snapshot[c][challenge[c].version] = form[c]
      BY <1>3, <2>1, <3>1, <3>2 DEF Held, Kept
    <3>3. CASE snapshot[c][challenge[c].version] = None /\ \E q \in Requests : Keeping(q, c)
      BY <1>3, <2>1, <2>2, <3>1, <3>3 DEF Held, Kept
    <3>4. CASE /\ snapshot[c][challenge[c].version] = None /\ challenge[c].status # "PUBLISHED"
               /\ \A q \in Requests : Opening(q, c) => request[q].seen = challenge[c].version
      BY <1>3, <2>1, <2>2, <3>1, <3>4 DEF Held, Kept
    <3> QED
      BY <2>4, <3>2, <3>3, <3>4 DEF Held
  <2> QED
    BY <1>2, <2>3, <2>4 DEF VersionsInv, Kept
<1> QED
  BY <1>4, <1>6, <1>7, <1>8, <1>9 DEF VersionsInv

\* A snapshot is stored unless the version has one.
LEMMA SaveKeeps ==
  ASSUME VersionsInv, RequestsRight', NEW r \in Requests, SaveSnapshot(r)
  PROVE  VersionsInv'
<1>c. PICK c : c = request[r].on
  OBVIOUS
<1>v. PICK v : v = request[r].seen
  OBVIOUS
<1>w. PICK arg : arg = request[r].arg
  OBVIOUS
<1>0. RequestsRight
  BY DEF VersionsInv
<1>1. request[r].at = "save" /\ Others(r) /\ request'[r].op = "none" /\ request'[r].at = "idle"
  BY <1>0, FormTurns DEF Ends, Turns
<1>2. c \in Tests /\ Exists(c) /\ v \in 1 .. challenge[c].version
  BY <1>1, <1>c, <1>v DEF VersionsInv, Knows
<1>3. /\ snapshot' = IF snapshot[c][v] = None THEN [snapshot EXCEPT ![c][v] = arg] ELSE snapshot
      /\ UNCHANGED <<challenge, form, loose>>
  BY <1>c, <1>v, <1>w DEF SaveSnapshot
<1>4. /\ snapshot' = [d \in Tests |-> [x \in 1 .. MaxVersion |-> snapshot'[d][x]]]
      /\ \A d \in Tests, x \in 1 .. MaxVersion :
           snapshot'[d][x] = IF d = c /\ x = v /\ snapshot[c][v] = None THEN arg ELSE snapshot[d][x]
      /\ \A d \in Tests \ {c} : snapshot'[d] = snapshot[d]
  <2>1. CASE snapshot[c][v] = None
    BY <1>2, <1>3, <2>1 DEF VersionsInv, FormsRight
  <2>2. CASE snapshot[c][v] # None
    BY <1>2, <1>3, <2>2 DEF VersionsInv, FormsRight
  <2> QED
    BY <2>1, <2>2
<1>5. FormsRight'
  BY <1>3, <1>4 DEF VersionsInv, FormsRight
<1>6. \A d \in Tests : Exists(d) => Exists(d)' /\ challenge[d].version <= challenge'[d].version
  BY <1>3 DEF Exists, VersionsInv, FormsRight
<1>7. ASSUME NEW q \in Requests \ {r} PROVE Knows(q)'
  BY <1>1, <1>5, <1>6, KnowsStill DEF Others
<1>8. Knows(r)'
  BY <1>1 DEF Knows, Publishes
<1>9. ASSUME NEW d \in Tests \ {c} PROVE Kept(d)'
  <2>1. \A q \in Requests : \/ request'[q] = request[q]
                            \/ ~Bumping(q, d) /\ ~Keeping(q, d) /\ ~Keeping(q, d)' /\ ~Opening(q, d)'
    BY <1>1, <1>c DEF Others, Bumping, Keeping, Opening
  <2> QED
    BY <1>3, <1>4, <2>1, KeptElsewhere
<1>10. challenge[c].version \in 1 .. MaxVersion /\ challenge'[c].version = challenge[c].version
  BY <1>2, <1>3 DEF VersionsInv, FormsRight
<1>11. NoneAhead(c)'
  <2>1. ASSUME NEW x \in 1 .. MaxVersion, snapshot'[c][x] # None PROVE x <= challenge[c].version
    <3>1. CASE x = v
      BY <1>2, <1>10, <3>1
    <3>2. CASE x # v
      BY <1>2, <1>4, <2>1, <3>2 DEF VersionsInv, Kept, NoneAhead
    <3> QED
      BY <3>1, <3>2
  <2> QED
    BY <1>2, <1>6, <1>10, <2>1 DEF NoneAhead
<1>12. ASSUME NEW q \in Requests
       PROVE  /\ Bumping(q, c) => Bumping(q, c)'
              /\ Keeping(q, c)' => Keeping(q, c)
              /\ (q # r /\ Keeping(q, c)) => Keeping(q, c)'
              /\ Opening(q, c)' => Opening(q, c)
              /\ q # r => request'[q] = request[q]
  BY <1>1, <1>10 DEF Others, Bumping, Keeping, Opening
<1>13. ASSUME c \in loose \/ \E q \in Requests : Bumping(q, c) PROVE Kept(c)'
  BY <1>3, <1>11, <1>12, <1>13 DEF Kept
<1>14. ASSUME Held(c) PROVE Kept(c)'
  <2> DEFINE n == challenge[c].version
  <2>1. \A q \in Requests : request'[q].at = "save" /\ Keeping(q, c)' => request'[q].arg = form'[c]
    BY <1>1, <1>3, <1>12, <1>14 DEF Held
  <2>2. ASSUME v = n PROVE Held(c)'
    <3>1. Keeping(r, c)
      BY <1>1, <1>c, <1>v, <2>2 DEF Keeping
    <3>2. arg = form[c]
      BY <1>1, <1>14, <1>w, <3>1 DEF Held
    <3>3. snapshot[c][n] \in {form[c], None}
      BY <1>14 DEF Held
    <3>4. snapshot'[c][n] = form[c]
      BY <1>2, <1>4, <1>10, <2>2, <3>2, <3>3
    <3> QED
      BY <1>3, <1>10, <2>1, <3>4 DEF Held
  <2>3. ASSUME v # n PROVE Held(c)'
    <3>1. ~Keeping(r, c) /\ snapshot'[c][n] = snapshot[c][n]
      BY <1>2, <1>4, <1>10, <1>v, <2>3 DEF Keeping
    <3>2. CASE snapshot[c][n] = form[c]
      BY <1>3, <1>10, <2>1, <3>1, <3>2 DEF Held
    <3>3. CASE snapshot[c][n] = None /\ \E q \in Requests : Keeping(q, c)
      BY <1>10, <1>12, <2>1, <3>1, <3>3 DEF Held
    <3>4. CASE /\ snapshot[c][n] = None /\ challenge[c].status # "PUBLISHED"
               /\ \A q \in Requests : Opening(q, c) => request[q].seen = n
      <4>1. \A q \in Requests : Opening(q, c)' => request'[q].seen = n
        BY <1>1, <1>12, <3>4 DEF Opening
      <4> QED
        BY <1>3, <1>10, <2>1, <3>1, <3>4, <4>1 DEF Held
    <3> QED
      BY <1>14, <3>2, <3>3, <3>4 DEF Held
  <2>4. Held(c)'
    BY <2>2, <2>3
  <2> QED
    BY <1>11, <2>4 DEF Kept
<1>15. Kept(c)'
  BY <1>2, <1>13, <1>14 DEF VersionsInv, Kept
<1> QED
  BY <1>5, <1>7, <1>8, <1>9, <1>15 DEF VersionsInv

\* A change of status begins.
LEMMA BeginStatusKeeps ==
  ASSUME VersionsInv, RequestsRight', NEW r \in Requests, NEW c \in Tests, NEW target \in ChallengeStatus,
         BeginStatus(r, c, target)
  PROVE  VersionsInv'
<1>0. RequestsRight
  BY DEF VersionsInv
<1>1. /\ request[r].op = "none" /\ request[r].at = "idle" /\ Others(r)
      /\ request'[r].op = "challenge" /\ request'[r].at = "status" /\ request'[r].on = c
      /\ request'[r].seen = challenge[c].version /\ request'[r].arg = target
  BY <1>0, FormTurns DEF Turns, BeginStatus, Free
<1>2. Exists(c) /\ target # "NONE"
  <2>1. challenge[c].status \in ChallengeStatus /\ target \in allowedStatus[challenge[c].status]
    BY DEF BeginStatus, VersionsInv, FormsRight
  <2> QED
    BY <2>1 DEF allowedStatus, ChallengeStatus, Exists
<1>3. UNCHANGED <<challenge, form, snapshot, loose>>
  BY DEF BeginStatus, challengeVars
<1>4. FormsRight'
  BY <1>3 DEF VersionsInv, FormsRight
<1>5. \A d \in Tests : Exists(d) => Exists(d)' /\ challenge[d].version <= challenge'[d].version
  BY <1>3 DEF Exists, VersionsInv, FormsRight
<1>6. ASSUME NEW q \in Requests \ {r} PROVE Knows(q)'
  BY <1>1, <1>4, <1>5, KnowsStill DEF Others
<1>7. challenge[c].version \in 1 .. challenge[c].version
  BY DEF VersionsInv, FormsRight
<1>8. Knows(r)'
  BY <1>1, <1>2, <1>3, <1>5, <1>7 DEF Knows, Publishes
<1>9. ASSUME NEW d \in Tests \ {c} PROVE Kept(d)'
  <2>1. \A q \in Requests : \/ request'[q] = request[q]
                            \/ ~Bumping(q, d) /\ ~Keeping(q, d) /\ ~Keeping(q, d)' /\ ~Opening(q, d)'
    BY <1>1 DEF Others, Bumping, Keeping, Opening
  <2> QED
    BY <1>3, <2>1, KeptElsewhere
<1>10. ASSUME NEW q \in Requests
       PROVE  /\ Bumping(q, c) => Bumping(q, c)'
              /\ Keeping(q, c)' <=> Keeping(q, c)
              /\ Keeping(q, c) => request'[q] = request[q]
              /\ Opening(q, c)' => (Opening(q, c) /\ request'[q] = request[q]) \/ request'[q].seen = challenge[c].version
  BY <1>1, <1>3 DEF Others, Bumping, Keeping, Opening
<1>11. NoneAhead(c)'
  BY <1>3 DEF VersionsInv, Kept, NoneAhead, Exists
<1>12. ASSUME c \in loose \/ \E q \in Requests : Bumping(q, c) PROVE Kept(c)'
  BY <1>3, <1>10, <1>11, <1>12 DEF Kept
<1>13. ASSUME Held(c) PROVE Kept(c)'
  <2>1. \A q \in Requests : request'[q].at = "save" /\ Keeping(q, c)' => request'[q].arg = form'[c]
    BY <1>3, <1>10, <1>13 DEF Held
  <2>2. CASE snapshot[c][challenge[c].version] = form[c]
    BY <1>3, <1>11, <2>1, <2>2 DEF Held, Kept
  <2>3. CASE snapshot[c][challenge[c].version] = None /\ \E q \in Requests : Keeping(q, c)
    BY <1>3, <1>10, <1>11, <2>1, <2>3 DEF Held, Kept
  <2>4. CASE /\ snapshot[c][challenge[c].version] = None /\ challenge[c].status # "PUBLISHED"
             /\ \A q \in Requests : Opening(q, c) => request[q].seen = challenge[c].version
    BY <1>3, <1>10, <1>11, <2>1, <2>4 DEF Held, Kept
  <2> QED
    BY <1>13, <2>2, <2>3, <2>4 DEF Held
<1>14. Kept(c)'
  BY <1>12, <1>13 DEF VersionsInv, Kept
<1> QED
  BY <1>4, <1>6, <1>8, <1>9, <1>14 DEF VersionsInv

\* The status is written; a publication has its snapshot still to keep.
LEMMA SetStatusKeeps ==
  ASSUME VersionsInv, RequestsRight', NEW r \in Requests, SetChallengeStatus(r)
  PROVE  VersionsInv'
<1>c. PICK c : c = request[r].on
  OBVIOUS
<1>t. PICK target : target = request[r].arg
  OBVIOUS
<1>0. RequestsRight
  BY DEF VersionsInv
<1>1. request[r].op = "challenge" /\ request[r].at = "status" /\ Others(r)
  BY <1>0, FormTurns DEF Ends, Turns
<1>2. /\ c \in Tests /\ Exists(c) /\ request[r].seen \in 1 .. challenge[c].version
      /\ target \in ChallengeStatus \ {"NONE"}
  BY <1>1, <1>c, <1>t DEF VersionsInv, Knows, Publishes
<1>3. challenge' = [challenge EXCEPT ![c].status = target] /\ UNCHANGED <<form, snapshot, loose>>
  BY <1>c, <1>t DEF SetChallengeStatus
<1>4. /\ FormsRight' /\ \A d \in Tests \ {c} : challenge'[d] = challenge[d]
      /\ challenge'[c].status = target /\ challenge'[c].version = challenge[c].version
  BY <1>2, <1>3, SetsStatus DEF VersionsInv
<1>5. \A d \in Tests : Exists(d) => Exists(d)' /\ challenge[d].version <= challenge'[d].version
  <2>1. \A d \in Tests : challenge[d].version \in Nat
    BY DEF VersionsInv, FormsRight
  <2> QED
    BY <1>2, <1>4, <2>1 DEF Exists
<1>6. ASSUME NEW q \in Requests \ {r} PROVE Knows(q)'
  BY <1>1, <1>4, <1>5, KnowsStill DEF Others
<1>7. /\ target = "PUBLISHED" =>
           /\ request'[r].op = "challenge" /\ request'[r].at = "read" /\ request'[r].on = c
           /\ request'[r].seen = request[r].seen
      /\ target # "PUBLISHED" => request'[r].op = "none" /\ request'[r].at = "idle"
  BY <1>0, <1>c, <1>t, FormTurns DEF Ends, Turns
<1>8. Knows(r)'
  BY <1>2, <1>4, <1>5, <1>7 DEF Knows, Publishes
<1>9. ASSUME NEW d \in Tests \ {c} PROVE Kept(d)'
  <2>1. \A q \in Requests : \/ request'[q] = request[q]
                            \/ ~Bumping(q, d) /\ ~Keeping(q, d) /\ ~Keeping(q, d)' /\ ~Opening(q, d)'
    BY <1>1, <1>7, <1>c DEF Others, Bumping, Keeping, Opening
  <2> QED
    BY <1>3, <1>4, <2>1, KeptElsewhere
<1>10. ASSUME NEW q \in Requests
       PROVE  /\ Bumping(q, c) => Bumping(q, c)'
              /\ Keeping(q, c) => Keeping(q, c)'
              /\ request'[q].at = "save" => request'[q] = request[q]
              /\ Opening(q, c)' => Opening(q, c) /\ request'[q] = request[q]
  BY <1>1, <1>4, <1>7 DEF Others, Bumping, Keeping, Opening
<1>11. NoneAhead(c)'
  BY <1>2, <1>3, <1>4, <1>5 DEF VersionsInv, Kept, NoneAhead
<1>12. ASSUME c \in loose \/ \E q \in Requests : Bumping(q, c) PROVE Kept(c)'
  BY <1>3, <1>10, <1>11, <1>12 DEF Kept
<1>13. ASSUME Held(c) PROVE Kept(c)'
  <2> DEFINE n == challenge[c].version
  <2>1. \A q \in Requests : request'[q].at = "save" /\ Keeping(q, c)' => request'[q].arg = form'[c]
    BY <1>3, <1>4, <1>10, <1>13 DEF Held, Keeping
  <2>2. CASE snapshot[c][n] = form[c]
    BY <1>3, <1>4, <1>11, <2>1, <2>2 DEF Held, Kept
  <2>3. CASE snapshot[c][n] = None /\ \E q \in Requests : Keeping(q, c)
    BY <1>3, <1>4, <1>10, <1>11, <2>1, <2>3 DEF Held, Kept
  <2>4. CASE /\ snapshot[c][n] = None /\ challenge[c].status # "PUBLISHED"
             /\ \A q \in Requests : Opening(q, c) => request[q].seen = n
    <3>1. CASE target = "PUBLISHED"
      <4>1. Opening(r, c)
        BY <1>1, <1>c, <1>t, <3>1 DEF Opening
      <4>2. Keeping(r, c)'
        BY <1>4, <1>7, <2>4, <3>1, <4>1 DEF Keeping
      <4> QED
        BY <1>3, <1>4, <1>11, <2>1, <2>4, <4>2 DEF Held, Kept
    <3>2. CASE target # "PUBLISHED"
      BY <1>3, <1>4, <1>10, <1>11, <2>1, <2>4, <3>2 DEF Held, Kept
    <3> QED
      BY <3>1, <3>2
  <2> QED
    BY <1>13, <2>2, <2>3, <2>4 DEF Held
<1>14. Kept(c)'
  BY <1>2, <1>12, <1>13 DEF VersionsInv, Kept
<1> QED
  BY <1>4, <1>6, <1>8, <1>9, <1>14 DEF VersionsInv

\* A field is copied into a draft.
LEMMA CopyKeeps ==
  ASSUME VersionsInv, RequestsRight', NEW r \in Requests, CopyField(r)
  PROVE  VersionsInv'
<1>c. PICK c : c = request[r].on
  OBVIOUS
<1>0. RequestsRight
  BY DEF VersionsInv
<1>1. /\ request[r].op = "duplicate" /\ request[r].at = "copy" /\ Others(r)
      /\ \/ request'[r].op = "none" /\ request'[r].at = "idle"
         \/ request'[r].op = "duplicate" /\ request'[r].at = "copy" /\ request'[r].on = c
      /\ form' = form \/ \E fields : form' = [form EXCEPT ![c] = fields]
  BY <1>0, <1>c, CopyTurns DEF Ends, Turns
<1>2. c \in Tests /\ Exists(c)
  BY <1>1, <1>c DEF VersionsInv, Knows
<1>3. /\ UNCHANGED <<challenge, snapshot>>
      /\ loose' = IF BeingKept(c) THEN loose \cup {c} ELSE loose
  BY <1>c, Zenon DEF CopyField
<1>4. FormsRight' /\ \A d \in Tests \ {c} : form'[d] = form[d]
  <2>1. CASE form' = form
    BY <1>3, <2>1 DEF VersionsInv, FormsRight
  <2>2. CASE \E fields : form' = [form EXCEPT ![c] = fields]
    <3>1. PICK fields : form' = [form EXCEPT ![c] = fields]
      BY <2>2
    <3> QED
      BY <1>3, <3>1 DEF VersionsInv, FormsRight
  <2> QED
    BY <1>1, <2>1, <2>2
<1>5. \A d \in Tests : Exists(d) => Exists(d)' /\ challenge[d].version <= challenge'[d].version
  BY <1>3 DEF Exists, VersionsInv, FormsRight
<1>6. ASSUME NEW q \in Requests \ {r} PROVE Knows(q)'
  BY <1>1, <1>4, <1>5, KnowsStill DEF Others
<1>7. Knows(r)' /\ ~Publishes(r)'
  BY <1>1, <1>2, <1>5 DEF Knows, Publishes
<1>8. ASSUME NEW d \in Tests PROVE Kept(d)'
  BY <1>1, <1>2, <1>3, <1>4, <1>7, KeptLoosely
<1> QED
  BY <1>4, <1>6, <1>7, <1>8 DEF VersionsInv

\* There are no challenges at first.
LEMMA VersionsStart == EventInit => VersionsInv
<1> SUFFICES ASSUME EventInit PROVE VersionsInv
  OBVIOUS
<1>1. RequestsRight /\ \A q \in Requests : request[q].op = "none" /\ request[q].at = "idle"
  BY RequestsStart, IdleIs DEF EventInit
<1>2. PICK fields \in {f \in Forms : KeysOf(f) = Fields} :
        /\ challenge \in {[c \in Tests |-> [status |-> IF c = d THEN "PUBLISHED" ELSE "NONE",
                                            version |-> 1, accepts |-> TRUE]] : d \in Tests}
        /\ form = [c \in Tests |-> IF Exists(c) THEN fields ELSE <<>>]
        /\ snapshot = [c \in Tests |-> [v \in 1 .. MaxVersion |->
                         IF Exists(c) /\ v = 1 THEN fields ELSE None]]
  BY DEF EventInit, ChallengesInit
<1>3. PICK d \in Tests : challenge = [c \in Tests |-> [status |-> IF c = d THEN "PUBLISHED" ELSE "NONE",
                                                       version |-> 1, accepts |-> TRUE]]
  BY <1>2
<1>4. \A c \in Tests : /\ challenge[c].status = (IF c = d THEN "PUBLISHED" ELSE "NONE") /\ challenge[c].version = 1
                       /\ IsChallenge(challenge[c])
  BY <1>3 DEF IsChallenge
<1>5. 1 \in 1 .. MaxVersion
  BY MaxVersionPos
<1>6. FormsRight
  BY <1>2, <1>3, <1>4, <1>5 DEF FormsRight, ChallengeStatus
<1>7. \A q \in Requests : Knows(q)
  BY <1>1 DEF Knows, Publishes
<1>8. ASSUME NEW c \in Tests PROVE Kept(c)
  <2>1. \A v \in 1 .. MaxVersion : snapshot[c][v] = IF Exists(c) /\ v = 1 THEN fields ELSE None
    BY <1>2
  <2>2. NoneAhead(c)
    BY <1>4, <2>1 DEF NoneAhead
  <2>3. CASE Exists(c)
    <3>1. form[c] = fields /\ snapshot[c][challenge[c].version] = fields
      BY <1>2, <1>4, <1>5, <2>1, <2>3
    <3>2. Held(c)
      BY <1>1, <3>1 DEF Held
    <3> QED
      BY <2>2, <3>2 DEF Kept
  <2>4. CASE ~Exists(c)
    <3>1. snapshot[c][challenge[c].version] = None /\ challenge[c].status # "PUBLISHED"
      BY <1>4, <1>5, <2>1, <2>4 DEF Exists
    <3>2. Held(c)
      BY <1>1, <3>1 DEF Held, Opening
    <3> QED
      BY <2>2, <3>2 DEF Kept
  <2> QED
    BY <2>3, <2>4
<1> QED
  BY <1>1, <1>6, <1>7, <1>8 DEF VersionsInv

\* A step of requests that are not about forms.
LEMMA VersionsUntouched ==
  ASSUME VersionsInv, RequestsRight', UNCHANGED formVars,
         NEW kinds, OnlyOf(kinds), kinds \cap {"edit", "challenge", "duplicate"} = {}
  PROVE  VersionsInv'
<1>1. ASSUME NEW q \in Requests, request'[q] # request[q]
      PROVE  Knows(q)' /\ \A c \in Tests : ~Bumping(q, c) /\ ~Keeping(q, c) /\ ~Keeping(q, c)' /\ ~Opening(q, c)'
  <2>1. /\ request[q].op \notin {"edit", "challenge", "duplicate"}
        /\ request'[q].op \notin {"edit", "challenge", "duplicate"}
    BY <1>1 DEF OnlyOf
  <2>2. Placed(q) /\ Placed(q)'
    BY DEF VersionsInv, RequestsRight
  <2>3. /\ request[q].at \notin {"field", "bump", "read", "save"}
        /\ request'[q].at \notin {"field", "bump", "read", "save"}
    BY <2>1, <2>2 DEF Placed
  <2> QED
    BY <2>1, <2>3 DEF Knows, Publishes, Bumping, Keeping, Opening
<1> QED
  BY <1>1, VersionsFrame DEF formVars

\* Every step of the composition keeps versions known.
LEMMA VersionsStep == VersionsInv /\ [EventNext]_eventVars => VersionsInv'
<1> SUFFICES ASSUME VersionsInv, [EventNext]_eventVars PROVE VersionsInv'
  OBVIOUS
<1>1. RequestsRight /\ RequestsRight'
  BY RequestsKeep DEF VersionsInv
<1>2. CASE ContestNext
  BY <1>1, <1>2, ContestRequests, VersionsUntouched DEF challengeVars, formVars
<1>3. CASE ParticipantsNext /\ UNCHANGED challengeVars
  BY <1>1, <1>3, ParticipantRequests, VersionsUntouched DEF PeopleKinds, challengeVars, formVars
<1>4. CASE BriefingNext
  BY <1>1, <1>4, BriefingRequests, VersionsUntouched DEF BriefingKinds
<1>5. CASE Tick \/ UNCHANGED eventVars
  <2>1. UNCHANGED request /\ UNCHANGED formVars
    BY <1>5 DEF Tick, eventVars, contestVars, challengeVars, formVars
  <2>2. OnlyOf({}) /\ {} \cap {"edit", "challenge", "duplicate"} = {}
    BY <1>1, <2>1, Unmoved
  <2> QED
    BY <1>1, <2>1, <2>2, VersionsUntouched
<1>6. ASSUME NEW r \in Requests, StopChallenge(r) PROVE VersionsInv'
  <2>1. /\ Stop(r) /\ UNCHANGED <<challenge, form, snapshot>>
        /\ loose' = IF request[r].at \in {"bump", "read", "save"} THEN loose \cup {request[r].on} ELSE loose
    BY <1>6, Zenon DEF StopChallenge
  <2>2. Others(r) /\ request'[r].op = "none" /\ request'[r].at = "idle"
    BY <1>1, <2>1, StopTurns DEF Turns
  <2>3. Knows(r)' /\ \A c \in Tests \ loose' : ~Bumping(r, c) /\ ~Keeping(r, c) /\ ~Keeping(r, c)' /\ ~Opening(r, c)'
    BY <2>1, <2>2 DEF Knows, Publishes, Bumping, Keeping, Opening
  <2> QED
    BY <1>1, <2>1, <2>2, <2>3, VersionsFrame DEF Others
<1>7. CASE FormNext
  <2>1. PICK r \in Requests :
          \/ \E c \in Tests : Create(c) \/ Update(c) \/ BeginEdit(r, c) \/ BeginDuplicate(r, c) \/ CreateCopy(r, c)
          \/ \E c \in Tests, target \in ChallengeStatus : BeginStatus(r, c, target)
          \/ WriteField(r) \/ BumpSchemaVersion(r) \/ SchemaJSON(r) \/ SaveSnapshot(r)
          \/ SetChallengeStatus(r) \/ CopyField(r) \/ EndCopy(r)
    BY <1>7 DEF FormNext
  <2>2. ASSUME NEW c \in Tests, Create(c) PROVE VersionsInv'
    <3>1. PICK accepts \in BOOLEAN :
            challenge' = [challenge EXCEPT ![c] = [status |-> "DRAFT", version |-> 1, accepts |-> accepts]]
      BY <2>2 DEF Create
    <3>2. ~Exists(c) /\ UNCHANGED <<request, form, snapshot, loose>>
      BY <2>2 DEF Create
    <3> QED
      BY <1>1, <3>1, <3>2, CreatedKept
  <2>3. ASSUME NEW c \in Tests, Update(c) PROVE VersionsInv'
    <3>1. PICK accepts \in BOOLEAN : challenge' = [challenge EXCEPT ![c].accepts = accepts]
      BY <2>3 DEF Update
    <3>2. UNCHANGED <<request, form, snapshot, loose>>
      BY <2>3 DEF Update
    <3>3. /\ FormsRight'
          /\ \A d \in Tests : challenge'[d].status = challenge[d].status /\ challenge'[d].version = challenge[d].version
      BY <3>1, <3>2, SetsAccepts DEF VersionsInv
    <3>4. \A d \in Tests : Exists(d) => Exists(d)' /\ challenge[d].version <= challenge'[d].version
      BY <3>3 DEF Exists, VersionsInv, FormsRight
    <3>5. \A q \in Requests : Knows(q)'
      BY <3>2, <3>3, <3>4, KnowsStill
    <3>6. \A d \in Tests : Kept(d)'
      BY <3>2, <3>3, KeptElsewhere
    <3> QED
      BY <1>1, <3>3, <3>5, <3>6 DEF VersionsInv
  <2>4. ASSUME NEW c \in Tests, BeginEdit(r, c) \/ BeginDuplicate(r, c) PROVE VersionsInv'
    <3>1. /\ request[r].op = "none" /\ request[r].at = "idle" /\ Others(r) /\ request'[r].on = c
          /\ \/ request'[r].op = "edit" /\ request'[r].at = "field"
             \/ request'[r].op = "duplicate" /\ request'[r].at = "create"
      BY <1>1, <2>4, FormTurns, CopyTurns DEF Turns, BeginEdit, BeginDuplicate, Free
    <3>2. UNCHANGED <<challenge, form, snapshot, loose>> /\ Exists(c)
      BY <2>4 DEF BeginEdit, BeginDuplicate, challengeVars
    <3>3. Knows(r)' /\ \A d \in Tests : ~Bumping(r, d) /\ ~Keeping(r, d) /\ ~Keeping(r, d)' /\ ~Opening(r, d)'
      BY <3>1, <3>2 DEF Knows, Publishes, Exists, Bumping, Keeping, Opening
    <3> QED
      BY <1>1, <3>1, <3>2, <3>3, VersionsFrame DEF Others
  <2>5. ASSUME NEW c \in Tests, CreateCopy(r, c) PROVE VersionsInv'
    <3>1. /\ request[r].op = "duplicate" /\ request[r].at = "create" /\ Others(r)
          /\ request'[r].op = "duplicate" /\ request'[r].at = "copy" /\ request'[r].on = c
      BY <1>1, <2>5, CopyTurns DEF Turns
    <3>2. /\ ~Exists(c) /\ UNCHANGED <<form, snapshot, loose>>
          /\ challenge' = [challenge EXCEPT ![c] = [status |-> "DRAFT", version |-> 1, accepts |-> request[r].seen]]
      BY <2>5 DEF CreateCopy
    <3> QED
      BY <1>1, <3>1, <3>2, CreatedKept DEF Others
  <2>6. ASSUME EndCopy(r) PROVE VersionsInv'
    <3>1. /\ request[r].op = "duplicate" /\ request[r].at = "copy" /\ Others(r)
          /\ request'[r].op = "none" /\ request'[r].at = "idle"
      BY <1>1, <2>6, CopyTurns DEF Ends, Turns
    <3>2. UNCHANGED <<challenge, form, snapshot, loose>>
      BY <2>6 DEF EndCopy, challengeVars
    <3>3. Knows(r)' /\ \A d \in Tests : ~Bumping(r, d) /\ ~Keeping(r, d) /\ ~Keeping(r, d)' /\ ~Opening(r, d)'
      BY <3>1 DEF Knows, Publishes, Bumping, Keeping, Opening
    <3> QED
      BY <1>1, <3>1, <3>2, <3>3, VersionsFrame DEF Others
  <2> QED
    BY <1>1, <2>1, <2>2, <2>3, <2>4, <2>5, <2>6, EditKeeps, BumpKeeps, ReadKeeps, SaveKeeps, BeginStatusKeeps,
       SetStatusKeeps, CopyKeeps
<1> QED
  BY <1>2, <1>3, <1>4, <1>5, <1>6, <1>7 DEF EventNext, ChallengesNext

\* Once nobody is at work on it, a published challenge's current version is the form its
\* contestants fill in, unless a request that keeps no version changed the form.
THEOREM VersionsAreCurrent == EventSpec => []SnapshotCurrent
  BY VersionsStart, VersionsStep, VersionsCurrent, PTL DEF EventSpec
=============================================================================
