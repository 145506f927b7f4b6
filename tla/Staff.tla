------------------------------- MODULE Staff --------------------------------
(***************************************************************************)
(* What organisers do with accounts: creation, roles, permissions at an    *)
(* event, blocking and new passwords (backend/internal/modules/useradmin,  *)
(* eventpermissions), and who belongs to a contest                         *)
(* (backend/internal/modules/contests).                                    *)
(*                                                                         *)
(* Every operation checks first and writes later, in statements of its     *)
(* own; those that change what an account may do then revoke its sessions  *)
(* in one more statement, whose failure they drop.  A MEGA_ADMIN may do    *)
(* anything; a SUPER_ADMIN acts on contests they own and accounts they     *)
(* created.  Organisers' own sessions are not modelled.                    *)
(***************************************************************************)
EXTENDS Sessions

CONSTANTS
  Mega,      \* MEGA_ADMIN users
  Supers,    \* SUPER_ADMIN users
  Grantable, \* the roles organisers give in an instance, with scope and level
  Permissions,
  MaxChanges \* bound on the operations organisers begin

ASSUME OrganisersDisjoint == Mega \cap Supers = {} /\ None \notin Mega \cup Supers
ASSUME GrantableEntries == \A g \in Grantable : [code |-> g.code, scope |-> g.scope, level |-> g.level,
                                                 mega |-> FALSE] \in Entries
ASSUME MaxChangesNat == MaxChanges \in Nat

VARIABLES
  owner,     \* contests.owner_user_id
  enrolled,  \* contest_participants who have not left
  permits,   \* event_staff_permissions, and whether a MEGA_ADMIN granted the row
  changes    \* operations organisers have begun

sessionVars == <<account, roles, session, token, access, dropped, juryVars>>
staffVars == <<owner, enrolled, permits>>
vars == <<account, roles, session, token, access, dropped, juryVars, request, owner, enrolled, permits, changes>>

Organisers == Mega \cup Supers
Rows == [user: Accounts, contest: Contests, permission: Permissions, mega: BOOLEAN]

TypeOK ==
  /\ account \in [Accounts -> [exists: BOOLEAN, by: Organisers \cup {None},
                    status: {"ACTIVE", "BLOCKED"}, failed: 0 .. MaxFailed, locked: BOOLEAN]]
  /\ roles \in [Accounts -> SUBSET Entries]
  /\ session \in [SessionIds -> [user: Accounts \cup {None}, revoked: BOOLEAN, expired: BOOLEAN]]
  /\ token \in [TokenIds -> [session: SessionIds \cup {None}, used: BOOLEAN, revoked: BOOLEAN]]
  /\ access \in [SessionIds -> SUBSET Codes]
  /\ dropped \subseteq Accounts
  /\ remoteJury \subseteq Accounts /\ unsure \subseteq SessionIds
  /\ owner \in [Contests -> Organisers \cup {None}]
  /\ enrolled \subseteq Accounts \X Contests
  /\ permits \subseteq Rows
  /\ changes \in 0 .. MaxChanges

Init ==
  /\ account = [u \in Accounts |-> NoAccount]
  /\ roles = [u \in Accounts |-> {}]
  /\ session = [s \in SessionIds |-> NoSession]
  /\ token = [t \in TokenIds |-> NoToken]
  /\ access = [s \in SessionIds |-> {}]
  /\ dropped = {}
  /\ remoteJury = {} /\ unsure = {}
  /\ request = [r \in Requests |-> Idle]
  /\ owner = [c \in Contests |-> None]
  /\ enrolled = {}
  /\ permits = {}
  /\ changes = 0

Begin == changes < MaxChanges /\ changes' = changes + 1

-----------------------------------------------------------------------------
(* Who may do what *)

ContestantOnly(codes) == codes \subseteq {"CONTESTANT"}

\* an active participant of a contest the organiser owns
OwnsContestant(a, u) == \E c \in Contests : owner[c] = a /\ <<u, c>> \in enrolled

\* a mutant: granting roles is managing like any other
CanManageAnyAction(a, u, action) ==
  \/ a \in Mega
  \/ /\ a \in Supers
     /\ \A code \in CodesOf(roles[u]) : Rank(code) < Rank("SUPER_ADMIN")
     /\ \/ account[u].by = a
        \/ OwnsContestant(a, u) /\ ContestantOnly(CodesOf(roles[u]))

CanManageUser(a, u, action) ==
  \/ a \in Mega
  \/ /\ a \in Supers
     /\ \A code \in CodesOf(roles[u]) : Rank(code) < Rank("SUPER_ADMIN")
     /\ \/ account[u].by = a
        \/ action # "grant" /\ OwnsContestant(a, u) /\ ContestantOnly(CodesOf(roles[u]))

EnsureManage(a, u, action) == account[u].exists /\ CanManageUser(a, u, action)

\* roles that exist everywhere, and roles that exist in one contest
ValidScope(entry) ==
  IF entry.scope = Global
  THEN entry.code \notin {"ADMIN", "JURY", "REMOTE_JURY"} /\ entry.level = "none"
  ELSE /\ entry.code # "STAFF"
       /\ (entry.code = "ADMIN") = (entry.level # "none")

CanCreateRole(a, code) ==
  a \in Mega \/ code \in {"ADMIN", "STAFF", "JURY", "REMOTE_JURY", "CONTESTANT"}

EnsureCanGrant(a, entry) ==
  \/ a \in Mega
  \/ /\ CanCreateRole(a, entry.code)
     /\ entry.scope # Global => owner[entry.scope] = a

Grant(a, g) == [code |-> g.code, scope |-> g.scope, level |-> g.level, mega |-> a \in Mega]

-----------------------------------------------------------------------------
(* Accounts *)

\* one transaction, after checks of what never changes: the creator and the owner
CreateUser(a, u, entries) ==
  /\ Begin
  /\ ~account[u].exists
  /\ \A entry \in entries : ValidScope(entry) /\ EnsureCanGrant(a, entry)
  /\ account' = [account EXCEPT ![u] = [NoAccount EXCEPT !.exists = TRUE, !.by = a]]
  /\ roles' = [roles EXCEPT ![u] = entries]
  /\ UNCHANGED <<session, token, access, dropped, juryVars, request, staffVars>>

AdminCreateUser(a, u) ==
  \/ CreateUser(a, u, {})
  \/ \E g \in Grantable : CreateUser(a, u, {Grant(a, g)})

\* the part of an operation before its first write
Manage(r, a, u, op, entries) ==
  /\ Begin
  /\ At(r, "idle")
  /\ request' = [request EXCEPT ![r] = [Running(r, op, "write", u) EXCEPT !.entries = entries]]
  /\ UNCHANGED <<sessionVars, staffVars>>

ResetPassword(r, a, u) == EnsureManage(a, u, "reset") /\ Manage(r, a, u, "reset", {})
SetStatus(r, a, u, status) == EnsureManage(a, u, "status") /\ Manage(r, a, u, status, {})

AssignRole(r, a, u, entry) ==
  /\ ValidScope(entry) /\ EnsureManage(a, u, "grant") /\ EnsureCanGrant(a, entry)
  /\ Manage(r, a, u, "assign", {entry})

RemoveRole(r, a, u, entry) ==
  /\ ValidScope(entry) /\ EnsureManage(a, u, "grant") /\ EnsureCanGrant(a, entry)
  /\ Manage(r, a, u, "remove", {entry})

\* the row of the same role and scope
SameRow(entry, entries) == {e \in entries : \E x \in entry : e.code = x.code /\ e.scope = x.scope}

SetPassword(r) ==
  LET u == request[r].user IN
  /\ At(r, "write") /\ request[r].op = "reset"
  /\ account' = [account EXCEPT ![u].failed = 0, ![u].locked = FALSE]
  /\ Goto(r, "revoke")
  /\ UNCHANGED <<roles, session, token, access, dropped, juryVars, staffVars, changes>>

\* sessions are revoked when the account is blocked, not when it is unblocked
StoreStatus(r) ==
  LET u == request[r].user IN
  /\ At(r, "write") /\ request[r].op \in {"ACTIVE", "BLOCKED"}
  /\ account' = [account EXCEPT ![u].status = request[r].op]
  /\ IF request[r].op = "BLOCKED" THEN Goto(r, "revoke") ELSE Done(r)
  /\ UNCHANGED <<roles, session, token, access, dropped, juryVars, staffVars, changes>>

StoreRole(r) ==
  LET u == request[r].user
      entry == request[r].entries IN
  /\ At(r, "write") /\ request[r].op = "assign"
  /\ roles' = [roles EXCEPT ![u] = (@ \ SameRow(entry, @)) \cup entry]
  /\ Goto(r, "revoke")
  /\ UNCHANGED <<account, session, token, access, dropped, juryVars, staffVars, changes>>

\* a mutant: sessions live on with the role
DeleteRoleOnly(r) ==
  LET u == request[r].user IN
  /\ At(r, "write") /\ request[r].op = "remove"
  /\ roles' = [roles EXCEPT ![u] = @ \ SameRow(request[r].entries, @)]
  /\ Done(r)
  /\ UNCHANGED <<account, session, token, access, dropped, juryVars, staffVars, changes>>

DeleteRole(r) ==
  LET u == request[r].user IN
  /\ At(r, "write") /\ request[r].op = "remove"
  /\ roles' = [roles EXCEPT ![u] = @ \ SameRow(request[r].entries, @)]
  /\ Goto(r, "revoke")
  /\ UNCHANGED <<account, session, token, access, dropped, juryVars, staffVars, changes>>

\* the evaluation module assigns the account as jury of a challenge marked remotely, ends
\* the assignment, or changes the challenge's scheme: no session is revoked
ChangeRemoteJury(u) ==
  /\ Begin
  /\ account[u].exists
  /\ remoteJury' = IF u \in remoteJury THEN remoteJury \ {u} ELSE remoteJury \cup {u}
  /\ unsure' = unsure \cup {s \in SessionIds : session[s].user = u}
  /\ UNCHANGED <<account, roles, session, token, access, dropped, request, staffVars>>

-----------------------------------------------------------------------------
(* Permissions of STAFF at a contest *)

EnsureCanPermit(a, u, c) ==
  /\ account[u].exists
  /\ CodesOf(roles[u]) \cap {"MEGA_ADMIN", "SUPER_ADMIN"} = {} /\ "STAFF" \in CodesOf(roles[u])
  /\ a \in Mega \/ (owner[c] = a /\ account[u].by = a)

RowsOf(u, c) == {row \in permits : row.user = u /\ row.contest = c}
Wanted(r) == {[user |-> request[r].user, contest |-> request[r].contest, permission |-> entry,
               mega |-> request[r].mega] : entry \in request[r].entries}

ReplacePermissions(r, a, u, c, wanted) ==
  /\ Begin
  /\ At(r, "idle")
  /\ EnsureCanPermit(a, u, c)
  /\ request' = [request EXCEPT ![r] = [Running(r, "permit", "delete", u) EXCEPT
                   !.contest = c, !.entries = wanted, !.mega = a \in Mega]]
  /\ UNCHANGED <<sessionVars, staffVars>>

\* no permission is left: one statement
ClearPermissions(r) ==
  /\ At(r, "delete") /\ request[r].entries = {}
  /\ permits' = permits \ RowsOf(request[r].user, request[r].contest)
  /\ Done(r)
  /\ UNCHANGED <<sessionVars, owner, enrolled, changes>>

\* the transaction's first statement: the rows it sees are the rows it deletes
DeletePermissions(r) ==
  /\ At(r, "delete") /\ request[r].entries # {}
  /\ request' = [request EXCEPT ![r].at = "insert",
                   ![r].rows = RowsOf(request[r].user, request[r].contest)]
  /\ UNCHANGED <<sessionVars, staffVars, changes>>

\* its commit, refused when another request inserted one of the rows meanwhile
InsertPermissions(r) ==
  LET kept == permits \ request[r].rows
      clash == \E row \in kept, new \in Wanted(r) :
                 row.user = new.user /\ row.contest = new.contest /\ row.permission = new.permission IN
  /\ At(r, "insert")
  /\ permits' = IF clash THEN permits ELSE kept \cup Wanted(r)
  /\ Done(r)
  /\ UNCHANGED <<sessionVars, owner, enrolled, changes>>

-----------------------------------------------------------------------------
(* Contests and their contestants *)

CreateContest(a, c) ==
  /\ owner[c] = None
  /\ owner' = [owner EXCEPT ![c] = a]
  /\ UNCHANGED <<sessionVars, request, enrolled, permits, changes>>

IsOwnerOrMega(a, c) == owner[c] # None /\ (a \in Mega \/ owner[c] = a)

CanAttachExisting(a, u) == ContestantOnly(CodesOf(roles[u])) /\ (a \in Mega \/ account[u].by = a)

\* a login that is taken is attached when it may be, otherwise a user is made for it
AddContestant(r, a, u, c) ==
  /\ Begin
  /\ At(r, "idle") /\ IsOwnerOrMega(a, c)
  /\ \/ account[u].exists /\ CanAttachExisting(a, u) /\ UNCHANGED account
     \/ /\ ~account[u].exists
        /\ account' = [account EXCEPT ![u] = [NoAccount EXCEPT !.exists = TRUE, !.by = a]]
  /\ request' = [request EXCEPT ![r] = [Running(r, "attach", "attach", u) EXCEPT
                   !.contest = c, !.mega = a \in Mega]]
  /\ UNCHANGED <<roles, session, token, access, dropped, juryVars, staffVars>>

AttachContestant(r) ==
  LET u == request[r].user
      c == request[r].contest
      entry == [code |-> "CONTESTANT", scope |-> c, level |-> "none", mega |-> request[r].mega] IN
  /\ At(r, "attach")
  /\ roles' = [roles EXCEPT ![u] = IF SameRow({entry}, @) = {} THEN @ \cup {entry} ELSE @]
  /\ enrolled' = enrolled \cup {<<u, c>>}
  /\ Done(r)
  /\ UNCHANGED <<account, session, token, access, dropped, juryVars, owner, permits, changes>>

\* the second transaction of the request fails: a user who belongs to no contest is left
AttachFails(r) == At(r, "attach") /\ Done(r) /\ UNCHANGED <<sessionVars, staffVars, changes>>

RemoveContestant(a, u, c) ==
  /\ IsOwnerOrMega(a, c) /\ <<u, c>> \in enrolled
  /\ enrolled' = enrolled \ {<<u, c>>}
  /\ UNCHANGED <<sessionVars, request, owner, permits, changes>>

-----------------------------------------------------------------------------
StaffNext ==
  \/ \E a \in Organisers, u \in Accounts :
       \/ AdminCreateUser(a, u)
       \/ \E r \in Requests :
            \/ ResetPassword(r, a, u)
            \/ \E status \in {"ACTIVE", "BLOCKED"} : SetStatus(r, a, u, status)
            \/ \E g \in Grantable : AssignRole(r, a, u, Grant(a, g)) \/ RemoveRole(r, a, u, Grant(a, g))
            \/ \E c \in Contests : \/ AddContestant(r, a, u, c)
                                   \/ \E wanted \in SUBSET Permissions : ReplacePermissions(r, a, u, c, wanted)
       \/ \E c \in Contests : RemoveContestant(a, u, c)
  \/ \E a \in Organisers, c \in Contests : CreateContest(a, c)
  \/ \E u \in Accounts : ChangeRemoteJury(u)
  \/ \E r \in Requests :
       \/ SetPassword(r) \/ StoreStatus(r) \/ StoreRole(r) \/ DeleteRole(r)
       \/ ClearPermissions(r) \/ DeletePermissions(r) \/ InsertPermissions(r)
       \/ AttachContestant(r) \/ AttachFails(r)

Next == (SessionNext /\ UNCHANGED <<staffVars, changes>>) \/ StaffNext

Spec == Init /\ [][Next]_vars

-----------------------------------------------------------------------------
(* A session that has been revoked or has expired never gets another token, although a  *)
(* revocation does not see a token that a rotation adds while it waits (the checks of   *)
(* Repo.RotateRefreshAtomically under the session's lock).                              *)
OverStaysOver ==
  [][\A s \in SessionIds :
       (session[s].revoked \/ session[s].expired) => TokensOf(s)' = TokensOf(s)]_vars

(* A session's chain of refresh tokens has one live end: however many requests present  *)
(* its links, at most one token can still be rotated (Repo.RotateRefreshAtomically).    *)
OneLiveToken ==
  \A s \in SessionIds : \A t1, t2 \in TokensOf(s) : Live(t1) /\ Live(t2) => t1 = t2

(* A token signed by a refresh carries the role its account has now, unless an          *)
(* organiser's request has written the roles and has yet to revoke the sessions, or     *)
(* that revocation failed: the roles are read after the rotation, and sessions are      *)
(* revoked after the roles are written (Service.Refresh, Service.RemoveRole).  One      *)
(* exception is of the code's making: of a failed read of the roles the rows it got are *)
(* taken for all, a failed look for a remote jury for none (primaryRole, hasRemoteJury),*)
(* and a change of the remote jury revokes nothing.  A session such a thing happened to *)
(* (unsure) may carry another role of the account's rows, CONTESTANT or JURY, and none  *)
(* else.                                                                                *)
RefreshedRoleCurrent ==
  \A s \in SessionIds : \A role \in access[s] :
    LET u == session[s].user IN
    Active(s) =>
      \/ role \in RolesOnRefresh(u)
      \/ s \in unsure /\ role \in RolesHeld(u)
      \/ u \in dropped
      \/ \E r \in Requests : /\ request[r].user = u /\ request[r].op \in {"assign", "remove"}
                             /\ request[r].at \in {"revoke", "revoking"}

(* Organisers' realms stay apart: whatever a SUPER_ADMIN granted in a contest, to an    *)
(* account, is granted by the one who owns the contest and created the account          *)
(* (useradmin, eventpermissions and contests check it each in their own way).           *)
RealmsApart ==
  \A u \in Accounts :
    /\ \A entry \in roles[u] :
         (~entry.mega /\ entry.scope # Global) => account[u].by = owner[entry.scope]
    /\ \A row \in permits : (row.user = u /\ ~row.mega) => account[u].by = owner[row.contest]
=============================================================================
