---------------------------- MODULE Participants ----------------------------
(***************************************************************************)
(* The participants of a contest: the administrator's list and its import, *)
(* signing in by name, card or VK account, and the sessions this gives     *)
(* (backend/internal/modules/eventparticipants).                           *)
(*                                                                         *)
(* An import row, an edit and a login each read the participant in one     *)
(* statement and write in a later one.  Only the change of a status with   *)
(* the revocation of the sessions is a transaction.                        *)
(***************************************************************************)
EXTENDS Contest

CONSTANTS
  People,       \* rows of event_participants
  Names,        \* a full name with a date of birth
  Cards,        \* union card numbers, and barcodes of the other kind of card alike
  Accounts,     \* VK accounts; a link in a profile names one
  Directions,
  Tokens        \* participant session tokens, each given out once

VARIABLES
  person,       \* event_participants: status, name, card, VK link and id, direction
  direction,    \* event_directions
  session       \* participant_sessions: whose, and whether it is live

participantVars == <<person, direction, session>>

Status == {"ACTIVE", "BLOCKED", "ARCHIVED"}

NoPerson == [status |-> "NONE", name |-> None, card |-> None, vk |-> None, bound |-> None, direction |-> None]
NoSession == [of |-> None, state |-> "NONE"]

ParticipantsTypeOK ==
  /\ person \in [People -> [status: Status \cup {"NONE"}, name: Names \cup {None}, card: Cards \cup {None},
                            vk: Accounts \cup {None}, bound: Accounts \cup {None},
                            direction: Directions \cup {None}]]
  /\ direction \subseteq Directions
  /\ session \in [Tokens -> [of: People \cup {None}, state: {"NONE", "LIVE", "ENDED"}]]

Listed(p) == person[p].status # "NONE"

\* what the unique indexes and the foreign key allow a row to be
Storable(p, row) ==
  /\ row.direction \in direction \cup {None}
  /\ \A q \in People \ {p} : Listed(q) =>
       /\ row.card = None \/ person[q].card # row.card
       /\ row.bound = None \/ person[q].bound # row.bound

\* one INSERT or UPDATE; a violated constraint writes nothing and the request fails
Store(p, row) == person' = IF Storable(p, row) THEN [person EXCEPT ![p] = row] ELSE person

----------------------------------------------------------------------------
(* The administrator's list                                                 *)

\* the columns an administrator gives; the direction is one of the contest's
Inputs == [name: Names, card: Cards \cup {None}, vk: Accounts \cup {None}, direction: direction \cup {None}]

\* what the numeric id of the VK profile may become: the id known for an unchanged link, the
\* answer of VK's API, or nothing when it does not answer
fillVKUserID(vk, previous) ==
  LET unchanged == previous.vk = vk
  IN IF vk = None THEN {None}
     ELSE IF unchanged /\ previous.bound # None THEN {previous.bound}
     ELSE {vk, IF unchanged THEN previous.bound ELSE None}

CreatePerson(p) ==
  /\ ~Listed(p) /\ Accepted
  /\ \E input \in Inputs : \E bound \in fillVKUserID(input.vk, NoPerson) :
       Store(p, [status |-> "ACTIVE", name |-> input.name, card |-> input.card, vk |-> input.vk,
                 bound |-> bound, direction |-> input.direction])
  /\ UNCHANGED <<contest, request, direction, session>>

\* an edit begins: the direction is checked and the participant is read
BeginUpdatePerson(r, p) ==
  /\ Free(r) /\ Listed(p) /\ Accepted
  /\ \E input \in Inputs :
       Becomes(r, Doing("person", "write", p, person[p], [input EXCEPT !.direction = @]))
  /\ UNCHANGED <<contest, participantVars>>

\* every column an administrator gives is written, with the VK id of what was read
UpdatePerson(r) ==
  LET p == request[r].on
      input == request[r].arg
  IN /\ At(r, "person", "write")
     /\ \E bound \in fillVKUserID(input.vk, request[r].seen) :
          Store(p, [person[p] EXCEPT !.name = input.name, !.card = input.card, !.vk = input.vk,
                                     !.bound = bound, !.direction = input.direction])
     /\ Done(r)
     /\ UNCHANGED <<contest, changes, direction, session>>

\* the status is read: an archived participant stays archived, the same status changes nothing
BeginPersonStatus(r, p, target) ==
  /\ Free(r) /\ Listed(p) /\ Accepted
  /\ person[p].status \notin {"ARCHIVED", target}
  /\ Becomes(r, Doing("person", "status", p, person[p].status, target))
  /\ UNCHANGED <<contest, participantVars>>

sessionsEnded(p) ==
  [t \in Tokens |-> IF session[t].of = p THEN [session[t] EXCEPT !.state = "ENDED"] ELSE session[t]]

\* a mutant: only archiving revokes the sessions
SetPersonStatusRevokingLess(r) ==
  LET p == request[r].on
      target == request[r].arg
  IN /\ At(r, "person", "status")
     /\ person' = [person EXCEPT ![p].status = target]
     /\ session' = IF target = "ARCHIVED" THEN sessionsEnded(p) ELSE session
     /\ Done(r)
     /\ UNCHANGED <<contest, changes, direction>>

\* one transaction: the status, and unless it is ACTIVE every session is revoked
SetPersonStatus(r) ==
  LET p == request[r].on
      target == request[r].arg
  IN /\ At(r, "person", "status")
     /\ person' = [person EXCEPT ![p].status = target]
     /\ session' = IF target # "ACTIVE" THEN sessionsEnded(p) ELSE session
     /\ Done(r)
     /\ UNCHANGED <<contest, changes, direction>>

CreateDirection(d) ==
  /\ d \notin direction /\ Accepted
  /\ direction' = direction \cup {d}
  /\ UNCHANGED <<contest, request, person, session>>

\* the foreign key keeps a direction somebody is in
DeleteDirection(d) ==
  /\ d \in direction /\ Accepted
  /\ \A p \in People : person[p].direction # d
  /\ direction' = direction \ {d}
  /\ UNCHANGED <<contest, request, person, session>>

----------------------------------------------------------------------------
(* Import                                                                   *)

FindByCard(card) == {p \in People : Listed(p) /\ card # None /\ person[p].card = card}
FindByNameBirth(name) == {p \in People : Listed(p) /\ person[p].name = name}

\* whom a row is about: the owner of the card, else the only one of that name and birth
importMatches(row) ==
  IF FindByCard(row.card) # {} THEN FindByCard(row.card) ELSE FindByNameBirth(row.name)

\* a row of the file: its direction is made if there is none of that name, then the
\* participant is looked for; an archived one, or several of one name, end the row
BeginImport(r, row) ==
  LET matches == importMatches(row)
      found == CHOOSE p \in matches : TRUE
  IN /\ Free(r) /\ Accepted
     /\ direction' = direction \cup ({row.direction} \ {None})
     /\ IF matches = {}
          THEN \E p \in People : ~Listed(p) /\ Becomes(r, Doing("import", "create", p, NoPerson, row))
          ELSE IF Cardinality(matches) > 1 \/ person[found].status = "ARCHIVED"
            THEN UNCHANGED request
            ELSE Becomes(r, Doing("import", "update", found, person[found], row))
     /\ UNCHANGED <<contest, person, session>>

CreateImported(r) ==
  LET row == request[r].arg
      p == request[r].on
  IN /\ At(r, "import", "create")
     /\ IF Listed(p) THEN UNCHANGED person
        ELSE \E bound \in fillVKUserID(row.vk, NoPerson) :
               Store(p, [status |-> "ACTIVE", name |-> row.name, card |-> row.card, vk |-> row.vk,
                         bound |-> bound, direction |-> row.direction])
     /\ Done(r)
     /\ UNCHANGED <<contest, changes, direction, session>>

\* a mutant: an empty cell of the file is written as it is
keepKnownNothing(row, read) == row

\* an empty cell does not clear what is known
keepKnown(row, read) ==
  [row EXCEPT !.card = IF @ = None THEN read.card ELSE @,
              !.vk = IF @ = None THEN read.vk ELSE @,
              !.direction = IF @ = None THEN read.direction ELSE @]

UpdateImported(r) ==
  LET p == request[r].on
      read == request[r].seen
      row == keepKnown(request[r].arg, read)
  IN /\ At(r, "import", "update")
     /\ \E bound \in fillVKUserID(row.vk, read) :
          Store(p, [person[p] EXCEPT !.name = row.name, !.card = row.card, !.vk = row.vk,
                                     !.bound = bound, !.direction = row.direction])
     /\ Done(r)
     /\ UNCHANGED <<contest, changes, direction, session>>

----------------------------------------------------------------------------
(* Signing in                                                               *)

Admitted(p) == person[p].status = "ACTIVE" /\ contest = "ACTIVE"

\* the contest a participant signs in to is ACTIVE as read
loginEvent == contest = "ACTIVE"

\* a session is issued to a participant who is ACTIVE as read
IssueSession(r, p) == person[p].status = "ACTIVE" /\ Becomes(r, Doing("login", "issue", p, None, None))

\* by a name and birth that is one participant's
LoginByName(r, name) ==
  /\ Free(r) /\ loginEvent
  /\ Cardinality(FindByNameBirth(name)) = 1
  /\ \E p \in FindByNameBirth(name) : IssueSession(r, p)
  /\ UNCHANGED <<contest, changes, participantVars>>

LoginByIdentifier(r, card) ==
  /\ Free(r) /\ loginEvent
  /\ \E p \in FindByCard(card) : IssueSession(r, p)
  /\ UNCHANGED <<contest, changes, participantVars>>

\* the participants the account is bound to, else those whose link names it
ListActiveByVKUserID(a) == {p \in People : Admitted(p) /\ person[p].bound = a}
ListActiveByVKIdentity(a) == {p \in People : Admitted(p) /\ person[p].vk = a}
matchesOf(a) ==
  IF ListActiveByVKUserID(a) # {} THEN ListActiveByVKUserID(a) ELSE ListActiveByVKIdentity(a)

\* one of the contest's matches is taken, and the account is to be bound to it
LoginByVK(r, a) ==
  /\ Free(r)
  /\ \E p \in matchesOf(a) : Becomes(r, Doing("login", "bind", p, None, a))
  /\ UNCHANGED <<contest, changes, participantVars>>

\* the account is bound to the participant; a failure is dropped
BindVK(r) ==
  LET p == request[r].on
      a == request[r].arg
  IN /\ At(r, "login", "bind")
     /\ Store(p, [person[p] EXCEPT !.bound = a, !.vk = IF @ = None THEN a ELSE @])
     /\ Becomes(r, [request[r] EXCEPT !.at = "issue", !.arg = None])
     /\ UNCHANGED <<contest, changes, direction, session>>

\* the session is inserted, whatever the participant has become
CreateSession(r, t) ==
  /\ At(r, "login", "issue") /\ session[t] = NoSession
  /\ session' = [session EXCEPT ![t] = [of |-> request[r].on, state |-> "LIVE"]]
  /\ Done(r)
  /\ UNCHANGED <<contest, changes, person, direction>>

Logout(t) ==
  /\ session[t].state = "LIVE"
  /\ session' = [session EXCEPT ![t].state = "ENDED"]
  /\ UNCHANGED <<contestVars, person, direction>>

\* its time is up
SessionExpires(t) == Logout(t)

AuthenticateSession(t) == session[t].state = "LIVE" /\ Admitted(session[t].of)

StopParticipant(r) ==
  /\ request[r].op \in {"person", "import", "login"}
  /\ Stop(r)
  /\ UNCHANGED participantVars

ParticipantsInit ==
  /\ \E first \in People, name \in Names :
       person = [p \in People |-> IF p = first THEN [NoPerson EXCEPT !.status = "ACTIVE", !.name = name] ELSE NoPerson]
  /\ direction = {}
  /\ session = [t \in Tokens |-> NoSession]

Rows == [name: Names, card: Cards \cup {None}, vk: Accounts \cup {None}, direction: Directions \cup {None}]

ListNext ==
  \/ \E p \in People : CreatePerson(p)
  \/ \E d \in Directions : CreateDirection(d) \/ DeleteDirection(d)
  \/ \E r \in Requests :
       \/ \E p \in People : BeginUpdatePerson(r, p) \/ \E target \in Status : BeginPersonStatus(r, p, target)
       \/ UpdatePerson(r) \/ SetPersonStatus(r)
       \/ \E row \in Rows : BeginImport(r, row)
       \/ CreateImported(r) \/ UpdateImported(r)

LoginNext ==
  \/ \E r \in Requests :
       \/ \E name \in Names : LoginByName(r, name)
       \/ \E card \in Cards : LoginByIdentifier(r, card)
       \/ \E a \in Accounts : LoginByVK(r, a)
       \/ BindVK(r)
       \/ \E t \in Tokens : CreateSession(r, t)
  \/ \E t \in Tokens : Logout(t) \/ SessionExpires(t)

ParticipantsNext == ListNext \/ LoginNext \/ \E r \in Requests : StopParticipant(r)

----------------------------------------------------------------------------
\* A session a participant had when they were blocked or archived is of no use afterwards, not
\* even when the block is lifted: what was revoked never signs anybody in again (repo.go
\* SetStatus with repo_sessions.go AuthenticateSession).
BlockedStartsOver ==
  [][\A t \in Tokens :
       LET p == session[t].of IN
       /\ (session[t].state = "LIVE" /\ person[p].status = "ACTIVE" /\ person'[p].status # "ACTIVE")
            => session'[t].state = "ENDED"
       /\ session[t].state = "ENDED" => ~AuthenticateSession(t)']_<<person, session>>

Clears(p, read) ==
  \/ read.card # None /\ person'[p].card = None
  \/ read.vk # None /\ person'[p].vk = None
  \/ read.direction # None /\ person'[p].direction = None

\* a step in which a row of the file is written over a participant
Imports(r) == At(r, "import", "update") /\ person' # person /\ request'[r] # request[r]

\* An empty cell of an imported file clears no card, link or direction the row found, whoever
\* else is at work (service_import.go importOne).
ImportKeepsKnown ==
  [][\A r \in Requests : Imports(r) => ~Clears(request[r].on, request[r].seen)]_<<person, request>>

\* The comment at service_import.go:158 read as it stands: an empty cell does not clear what is
\* known of the participant.
ImportClearsNothing ==
  [][\A r \in Requests : Imports(r) =>
       LET row == request[r].arg IN
       /\ row.card = None => person'[request[r].on].card = person[request[r].on].card
       /\ row.vk = None => person'[request[r].on].vk = person[request[r].on].vk]_<<person, request>>
=============================================================================
