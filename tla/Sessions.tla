------------------------------ MODULE Sessions ------------------------------
(***************************************************************************)
(* Accounts, sessions and refresh tokens of the portal's users             *)
(* (backend/internal/modules/auth) behind the middleware that admits       *)
(* requests by session and role (backend/internal/middleware).             *)
(*                                                                         *)
(* A login, a change of password and a revocation are requests of several  *)
(* statements, each committed alone, and requests interleave between them. *)
(* A rotation is one transaction that holds the rows of the token and of   *)
(* its session.  The statement that revokes sees the tokens that existed   *)
(* when it began and takes effect later, after the rotations it waited     *)
(* for.  Staff gives the steps administrators take and the specification.  *)
(***************************************************************************)
EXTENDS Naturals, FiniteSets

CONSTANTS
  Accounts,      \* users who log in
  Contests,
  SessionIds, TokenIds,   \* rows auth_sessions and refresh_tokens can have in an instance
  Requests,      \* requests that can be in progress at the same time
  None, Global,
  MaxFailed      \* failed logins that lock an account

ASSUME NoneFresh == None \notin Accounts \cup Contests \cup SessionIds \cup TokenIds
ASSUME GlobalFresh == Global \notin Contests
ASSUME MaxFailedPositive == MaxFailed \in Nat \ {0}

VARIABLES
  account,   \* users: who created it, status, failed logins, lock
  roles,     \* user_roles with scope and access level, and whether a MEGA_ADMIN granted it
  session,   \* auth_sessions
  token,     \* refresh_tokens
  access,    \* roles in the access tokens that refreshes of a session signed
  dropped,   \* accounts some revocation failed for, which is logged nowhere
  remoteJury, \* accounts the evaluation module assigns to a challenge marked remotely
  unsure,    \* sessions that signed after a failed read, or outlived a change of remoteJury (a history)
  request    \* what each request is doing

juryVars == <<remoteJury, unsure>>

Codes == {"MEGA_ADMIN", "SUPER_ADMIN", "ADMIN", "STAFF", "JURY", "REMOTE_JURY", "CONTESTANT"}
Levels == {"EDIT", "VIEW", "none"}
Scopes == Contests \cup {Global}
Entries == [code: Codes, scope: Scopes, level: Levels, mega: BOOLEAN]

NoAccount == [exists |-> FALSE, by |-> None, status |-> "ACTIVE", failed |-> 0, locked |-> FALSE]
NoSession == [user |-> None, revoked |-> FALSE, expired |-> FALSE]
NoToken == [session |-> None, used |-> FALSE, revoked |-> FALSE]
Idle == [op |-> "none", at |-> "idle", user |-> None, mega |-> FALSE, session |-> None,
         sees |-> {}, tokens |-> {}, entries |-> {}, rows |-> {}, contest |-> None]

Running(r, op, stage, u) == [Idle EXCEPT !.op = op, !.at = stage, !.user = u]
Goto(r, stage) == request' = [request EXCEPT ![r].at = stage]
Done(r) == request' = [request EXCEPT ![r] = Idle]
At(r, stage) == request[r].at = stage

CodesOf(entries) == {entry.code : entry \in entries}

-----------------------------------------------------------------------------
(* Roles and the tokens that carry them *)

Rank(code) ==
  CASE code = "MEGA_ADMIN" -> 5
    [] code = "SUPER_ADMIN" -> 4
    [] code = "ADMIN" -> 3
    [] code \in {"STAFF", "JURY", "REMOTE_JURY"} -> 2
    [] code = "CONTESTANT" -> 1
    [] OTHER -> 0

\* the role of a remote jury, or an assignment to a challenge marked remotely
HasRemoteJury(u) == "REMOTE_JURY" \in CodesOf(roles[u]) \/ u \in remoteJury

\* what the check answers: its error counts as a no
JuryAnswers(u) == {HasRemoteJury(u), FALSE}

\* what the read of the roles returns when it fails, after some of the rows or none
RowsRead(u) == SUBSET roles[u]

\* roles of the highest rank; rows come in no order, so any of several may be first
PrimaryRoles(codes) ==
  LET best == {code \in codes \cup {"CONTESTANT"} :
                 \A other \in codes : Rank(other) <= Rank(code)}
  IN  {IF code = "REMOTE_JURY" THEN "JURY" ELSE code : code \in best}

\* the remote jury's JURY comes after the rows: any other role of its rank wins
RolesSigned(codes, jury) ==
  IF jury /\ \A code \in codes : Rank(code) < Rank("JURY") THEN {"JURY"} ELSE PrimaryRoles(codes)

\* roles a refresh without an error can find for the account
RolesOnRefresh(u) == RolesSigned(CodesOf(roles[u]), HasRemoteJury(u))

\* roles it can find with one: any the account has, or those it takes for none
RolesHeld(u) == CodesOf(roles[u]) \cup {"CONTESTANT", "JURY"}

Audiences == {"none", "admin", "contestant", "jury"}

RoleAllowed(audience, codes) ==
  CASE audience = "none" -> TRUE
    [] audience = "admin" -> codes \cap {"MEGA_ADMIN", "SUPER_ADMIN", "ADMIN", "STAFF"} # {}
    [] audience = "contestant" -> "CONTESTANT" \in codes
    [] OTHER -> codes \cap {"JURY", "REMOTE_JURY"} # {}

AudienceAllowed(audience, codes, jury) == RoleAllowed(audience, codes) \/ (audience = "jury" /\ jury)

-----------------------------------------------------------------------------
(* Rows of sessions and tokens *)

Active(s) == session[s].user # None /\ ~session[s].revoked /\ ~session[s].expired
ActiveSessions(u) == {s \in SessionIds : session[s].user = u /\ Active(s)}
Live(t) == token[t].session # None /\ ~token[t].used /\ ~token[t].revoked
TokensOf(s) == {t \in TokenIds : token[t].session = s}

\* a session and the first link of its chain of tokens, in one transaction
CreateSession(s, t, u) ==
  /\ session[s] = NoSession /\ token[t] = NoToken
  /\ session' = [session EXCEPT ![s].user = u]
  /\ token' = [token EXCEPT ![t].session = s]

RevokeFamily(s) ==
  /\ session' = [session EXCEPT ![s].revoked = TRUE]
  /\ token' = [t \in TokenIds |-> [token[t] EXCEPT !.revoked = @ \/ token[t].session = s]]

\* a mutant: only a revocation is noticed
ReusedUnnoticed(t) == token[t].revoked

\* a link that was used or revoked before is presented again
Reused(t) == token[t].used \/ token[t].revoked

\* a mutant: only the token is looked at
SessionForgotten(s) == FALSE

SessionOver(s) == session[s].revoked \/ session[s].expired

\* consumes a link of the chain and adds the next
Rotate(old, new) ==
  /\ token[new] = NoToken
  /\ token' = [token EXCEPT ![old].used = TRUE, ![new].session = token[old].session]
  /\ UNCHANGED session

\* nothing is written when the session is over
RotateRefreshAtomically(r, old) ==
  LET s == token[old].session IN
  /\ s # None
  /\ \/ Reused(old) /\ RevokeFamily(s) /\ UNCHANGED request
     \/ /\ ~Reused(old) /\ ~SessionOver(s)
        /\ \E new \in TokenIds : Rotate(old, new)
        /\ request' = [request EXCEPT ![r] =
             [Running(r, "refresh", "read", session[s].user) EXCEPT !.session = s]]

\* the statement that revokes begins: the sessions it will look at, and the tokens it can see
SeeSessions(r, sessions) ==
  request' = [request EXCEPT ![r].at = "revoking", ![r].sees = sessions,
                             ![r].tokens = UNION {TokensOf(s) : s \in sessions}]

\* a request revokes the one session it names, or every session of the account
RevokeSession(r) == SeeSessions(r, {request[r].session} \ {None})
RevokeAllSessions(r) ==
  SeeSessions(r, {s \in SessionIds : session[s].user = request[r].user /\ ~session[s].revoked})

\* the statement has the rows it waited for: those revoked meanwhile it leaves alone
RevokedNow(r) == {s \in request[r].sees : session[s].user = request[r].user /\ ~session[s].revoked}
FinishRevoking(r) ==
  /\ At(r, "revoking")
  /\ session' = [s \in SessionIds |-> [session[s] EXCEPT !.revoked = @ \/ s \in RevokedNow(r)]]
  /\ token' = [t \in TokenIds |-> [token[t] EXCEPT !.revoked = @ \/
                 (t \in request[r].tokens /\ token[t].session \in RevokedNow(r))]]
  /\ Done(r)
  /\ UNCHANGED <<account, roles, access, dropped, juryVars>>

BeginRevoking(r) ==
  /\ At(r, "revoke")
  /\ IF request[r].session = None THEN RevokeAllSessions(r) ELSE RevokeSession(r)
  /\ UNCHANGED <<account, roles, session, token, access, dropped, juryVars>>

\* the statement fails: the administrator's request has succeeded all the same
RevokeFails(r) ==
  /\ At(r, "revoke")
  /\ dropped' = dropped \cup {request[r].user}
  /\ Done(r)
  /\ UNCHANGED <<account, roles, session, token, access, juryVars>>

-----------------------------------------------------------------------------
(* Logging in *)

\* the account is read and, unless it is blocked or locked, the password is compared
Login(r, u, right) ==
  /\ At(r, "idle")
  /\ account[u].exists /\ account[u].status # "BLOCKED" /\ ~account[u].locked
  /\ request' = [request EXCEPT ![r] = Running(r, "login", IF right THEN "roles" ELSE "failure", u)]
  /\ UNCHANGED <<account, roles, session, token, access, dropped, juryVars>>

RecordLoginFailure(r) ==
  LET u == request[r].user IN
  /\ At(r, "failure")
  /\ account' = [account EXCEPT ![u].failed = IF @ < MaxFailed THEN @ + 1 ELSE @,
                                ![u].locked = @ \/ account[u].failed + 1 >= MaxFailed]
  /\ Done(r)
  /\ UNCHANGED <<roles, session, token, access, dropped, juryVars>>

\* whether the account may sign in where it asks to: the error of the read is dropped, what it
\* returned are the roles
Admissions(u) == {AudienceAllowed(audience, CodesOf(rows), jury) :
                    audience \in Audiences, rows \in RowsRead(u), jury \in JuryAnswers(u)}

RolesByUser(r) ==
  /\ At(r, "roles")
  /\ \E allowed \in Admissions(request[r].user) : IF allowed THEN Goto(r, "issue") ELSE Done(r)
  /\ UNCHANGED <<account, roles, session, token, access, dropped, juryVars>>

IssueSession(r, s, t) ==
  /\ At(r, "issue")
  /\ CreateSession(s, t, request[r].user)
  /\ Goto(r, "success")
  /\ UNCHANGED <<account, roles, access, dropped, juryVars>>

RecordLoginSuccess(r) ==
  /\ At(r, "success")
  /\ account' = [account EXCEPT ![request[r].user].failed = 0, ![request[r].user].locked = FALSE]
  /\ Done(r)
  /\ UNCHANGED <<roles, session, token, access, dropped, juryVars>>

\* locked_until passes
LockPasses(u) ==
  /\ account[u].locked
  /\ account' = [account EXCEPT ![u].locked = FALSE]
  /\ UNCHANGED <<roles, session, token, access, dropped, request, juryVars>>

\* expires_at passes
SessionExpires(s) ==
  /\ Active(s)
  /\ session' = [session EXCEPT ![s].expired = TRUE]
  /\ UNCHANGED <<account, roles, token, access, dropped, request, juryVars>>

-----------------------------------------------------------------------------
(* A session's life *)

\* the cookie may hold any token that was ever given out: two tabs share it, and an
\* answer with the next one can be lost
Refresh(r, old) ==
  /\ At(r, "idle")
  /\ RotateRefreshAtomically(r, old)
  /\ UNCHANGED <<account, roles, access, dropped, juryVars>>

\* the roles are read after the rotation is committed; of an error only the rows are kept
PrimaryRole(r) ==
  LET u == request[r].user IN
  /\ At(r, "read")
  /\ \E rows \in RowsRead(u) :
       /\ request' = [request EXCEPT ![r].at = "mint", ![r].entries = rows]
       /\ unsure' = IF rows = roles[u] THEN unsure ELSE unsure \cup {request[r].session}
  /\ UNCHANGED <<account, roles, session, token, access, dropped, remoteJury>>

\* the jury is asked for, and the token is signed
MintTokenPair(r) ==
  LET u == request[r].user
      s == request[r].session IN
  /\ At(r, "mint")
  /\ \E jury \in JuryAnswers(u) :
       /\ \E role \in RolesSigned(CodesOf(request[r].entries), jury) :
            access' = [access EXCEPT ![s] = @ \cup {role}]
       /\ unsure' = IF jury = HasRemoteJury(u) THEN unsure ELSE unsure \cup {s}
  /\ Done(r)
  /\ UNCHANGED <<account, roles, session, token, dropped, remoteJury>>

\* a request passes with an access token whose session is active
Require(s) == Active(s)

Logout(r, s) ==
  /\ At(r, "idle") /\ Require(s)
  /\ request' = [request EXCEPT ![r] =
       [Running(r, "logout", "revoke", session[s].user) EXCEPT !.session = s]]
  /\ UNCHANGED <<account, roles, session, token, access, dropped, juryVars>>

LogoutAll(r, s) ==
  /\ At(r, "idle") /\ Require(s)
  /\ request' = [request EXCEPT ![r] = Running(r, "logout", "revoke", session[s].user)]
  /\ UNCHANGED <<account, roles, session, token, access, dropped, juryVars>>

\* one of the user's sessions, named in the path; another user's is not found by the statement
RevokeOneSession(r, mine, s) ==
  /\ At(r, "idle") /\ Require(mine)
  /\ request' = [request EXCEPT ![r] =
       [Running(r, "logout", "revoke", session[mine].user) EXCEPT !.session = s]]
  /\ UNCHANGED <<account, roles, session, token, access, dropped, juryVars>>

\* the old password was right when it was compared
ChangePassword(r, s) ==
  /\ At(r, "idle") /\ Require(s)
  /\ request' = [request EXCEPT ![r] = Running(r, "password", "password", session[s].user)]
  /\ UNCHANGED <<account, roles, session, token, access, dropped, juryVars>>

\* which password is right is not modelled: a login says whether its password was
UpdatePassword(r) ==
  /\ At(r, "password")
  /\ request' = [request EXCEPT ![r] = Running(r, "logout", "revoke", request[r].user)]
  /\ UNCHANGED <<account, roles, session, token, access, dropped, juryVars>>

SessionNext ==
  \/ \E r \in Requests :
       \/ \E u \in Accounts, right \in BOOLEAN : Login(r, u, right)
       \/ RecordLoginFailure(r)
       \/ RolesByUser(r)
       \/ \E s \in SessionIds, t \in TokenIds : IssueSession(r, s, t)
       \/ RecordLoginSuccess(r)
       \/ \E old \in TokenIds : Refresh(r, old)
       \/ PrimaryRole(r) \/ MintTokenPair(r)
       \/ \E s \in SessionIds : Logout(r, s) \/ LogoutAll(r, s) \/ ChangePassword(r, s)
       \/ \E mine, s \in SessionIds : RevokeOneSession(r, mine, s)
       \/ UpdatePassword(r)
       \/ BeginRevoking(r) \/ FinishRevoking(r) \/ RevokeFails(r)
  \/ \E u \in Accounts : LockPasses(u)
  \/ \E s \in SessionIds : SessionExpires(s)
=============================================================================
