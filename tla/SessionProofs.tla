---------------------------- MODULE SessionProofs ----------------------------
(***************************************************************************)
(* Sessions, roles and organisers for any number of accounts, contests,    *)
(* sessions and requests: proofs about Staff, checked by TLAPS.            *)
(*                                                                         *)
(* The inductive invariant StaffInv says what a request in progress may    *)
(* rely on while others run: the account it names exists and will not      *)
(* change hands, what it is about to grant is its organiser's to grant,    *)
(* and a session whose tokens tell old roles is one that a revocation in   *)
(* progress has seen, or will see when it begins.                          *)
(***************************************************************************)
EXTENDS Staff, TLAPS

RequestRow ==
  [op: {"none", "login", "refresh", "logout", "password", "reset", "ACTIVE", "BLOCKED",
        "assign", "remove", "permit", "attach"},
   at: {"idle", "failure", "roles", "issue", "success", "read", "mint", "revoke", "revoking", "password",
        "write", "delete", "insert", "attach"},
   user: Accounts \cup {None}, mega: BOOLEAN, session: SessionIds \cup {None},
   sees: SUBSET SessionIds, tokens: SUBSET TokenIds, entries: SUBSET (Entries \cup Permissions),
   rows: SUBSET Rows, contest: Contests \cup {None}]

\* what a request works on at its stage
Staged(q) ==
  /\ q.at # "idle" => q.user \in Accounts /\ account[q.user].exists
  /\ q.at \in {"read", "mint"} => q.session \in SessionIds /\ session[q.session].user = q.user
  /\ q.at = "mint" => q.entries \subseteq Entries
  /\ q.op \in {"assign", "remove"} => q.entries \subseteq Entries /\ q.session = None
  /\ q.at \in {"delete", "insert"} => q.entries \subseteq Permissions
  /\ q.at \in {"delete", "insert", "attach"} => q.contest \in Contests

\* what a request is about to grant is granted inside one realm
Granted(entry, u) == ~entry.mega /\ entry.scope # Global => account[u].by = owner[entry.scope]
Realm(q) ==
  /\ q.at = "write" /\ q.op = "assign" => \A entry \in q.entries : Granted(entry, q.user)
  /\ q.at \in {"delete", "insert", "attach"} /\ ~q.mega => account[q.user].by = owner[q.contest]

RequestsRight == request \in [Requests -> RequestRow] /\ \A r \in Requests : Staged(request[r]) /\ Realm(request[r])

\* nothing is known of an account that was not created, and one that was has a creator
AccountsFirst ==
  /\ \A u \in Accounts : account[u].exists => account[u].by \in Organisers
  /\ \A u \in Accounts : ~account[u].exists => roles[u] = {} /\ \A row \in permits : row.user # u
  /\ \A s \in SessionIds : session[s].user # None => account[session[s].user].exists

\* nothing is known of a session that was not created
SessionsFirst ==
  /\ \A t \in TokenIds : token[t].session # None => session[token[t].session].user # None
  /\ \A s \in SessionIds : session[s].user = None => access[s] = {} /\ ~session[s].revoked /\ ~session[s].expired

\* request q changed the roles of the session's account, and will revoke the session
Awaits(q, s) ==
  /\ q.op \in {"assign", "remove"} /\ q.user = session[s].user
  /\ q.at = "revoke" \/ (q.at = "revoking" /\ s \in q.sees)

\* a revocation will end the session, or one failed
Excused(s) == session[s].user \in dropped \/ \E r \in Requests : Awaits(request[r], s)

\* but for the role every contestant has, which is of the lowest rank
SameCodes(entries, rows) == CodesOf(entries) \cup {"CONTESTANT"} = CodesOf(rows) \cup {"CONTESTANT"}

\* what the session's tokens say, and what a request that is about to sign one has read
RoleTold(s, role) ==
  role \in RolesOnRefresh(session[s].user) \/ (s \in unsure /\ role \in RolesHeld(session[s].user))
RowsTold(s, entries) ==
  \/ SameCodes(entries, roles[session[s].user])
  \/ s \in unsure /\ CodesOf(entries) \subseteq RolesHeld(session[s].user)

Told(s) ==
  /\ \A role \in access[s] : RoleTold(s, role)
  /\ \A r \in Requests : request[r].at = "mint" /\ request[r].session = s => RowsTold(s, request[r].entries)

RolesFollow == \A s \in SessionIds : Active(s) => Told(s) \/ Excused(s)

StaffInv ==
  /\ TypeOK /\ RequestsRight /\ AccountsFirst /\ SessionsFirst
  /\ OneLiveToken /\ RolesFollow /\ RealmsApart

\* what OverStaysOver says of a step
NoMoreTokens == \A s \in SessionIds : (session[s].revoked \/ session[s].expired) => TokensOf(s)' = TokensOf(s)

-----------------------------------------------------------------------------
(* Steps that leave roles, sessions and permissions alone. *)

\* An idle request is well typed and awaits nothing.
LEMMA IdleRow == /\ Idle \in RequestRow /\ Staged(Idle) /\ Realm(Idle) /\ Idle.at = "idle"
                 /\ Idle.op = "none" /\ \A s : ~Awaits(Idle, s)
  BY DEF Idle, RequestRow, Staged, Realm, Awaits

\* No accounts, sessions or requests.
LEMMA StaffInit == Init => StaffInv
<1> SUFFICES ASSUME Init PROVE StaffInv
  OBVIOUS
<1>0. /\ NoAccount \in [exists: BOOLEAN, by: Organisers \cup {None}, status: {"ACTIVE", "BLOCKED"},
                         failed: 0 .. MaxFailed, locked: BOOLEAN]
      /\ NoSession \in [user: Accounts \cup {None}, revoked: BOOLEAN, expired: BOOLEAN]
      /\ NoToken \in [session: SessionIds \cup {None}, used: BOOLEAN, revoked: BOOLEAN]
  BY MaxFailedPositive DEF NoAccount, NoSession, NoToken
<1>1. TypeOK /\ RequestsRight
  BY <1>0, IdleRow, MaxChangesNat DEF Init, TypeOK, RequestsRight
<1>2. AccountsFirst /\ SessionsFirst
  BY DEF Init, AccountsFirst, SessionsFirst, NoAccount, NoSession, NoToken
<1>3. OneLiveToken /\ RolesFollow /\ RealmsApart
  BY DEF Init, OneLiveToken, TokensOf, Live, NoToken, RolesFollow, Active, NoSession, RealmsApart
<1> QED
  BY <1>1, <1>2, <1>3 DEF StaffInv

\* A session whose account keeps its roles goes on telling them.
LEMMA ToldStays ==
  ASSUME NEW s \in SessionIds, Told(s), UNCHANGED access,
         session'[s].user = session[s].user, roles'[session[s].user] = roles[session[s].user], UNCHANGED juryVars,
         \A q \in Requests : request'[q] = request[q] \/ request'[q].at # "mint"
  PROVE  Told(s)'
<1>1. RolesOnRefresh(session[s].user)' = RolesOnRefresh(session[s].user)
  BY DEF RolesOnRefresh, HasRemoteJury, juryVars
<1>2. RolesHeld(session[s].user)' = RolesHeld(session[s].user)
  BY DEF RolesHeld
<1> QED
  BY <1>1, <1>2 DEF Told, RoleTold, RowsTold, juryVars

\* Requests go on and accounts change, but whose they are does not.
LEMMA StaffMove ==
  ASSUME StaffInv, UNCHANGED <<roles, session, token, access, juryVars, owner, permits>>, TypeOK', dropped \subseteq dropped',
         \A u \in Accounts : account'[u].exists = account[u].exists /\ account'[u].by = account[u].by,
         request' \in [Requests -> RequestRow],
         \A q \in Requests :
           \/ request'[q] = request[q]
           \/ /\ Staged(request'[q]) /\ Realm(request'[q]) /\ request'[q].at # "mint"
              /\ \A s \in SessionIds : Awaits(request[q], s) /\ Active(s) =>
                   session[s].user \in dropped' \/ Awaits(request'[q], s)
  PROVE  StaffInv' /\ NoMoreTokens
<1> USE DEF StaffInv
<1>1. RequestsRight'
  BY DEF RequestsRight, Staged, Realm, Granted, RequestRow, Entries, TypeOK
<1>2. AccountsFirst' /\ SessionsFirst'
  BY DEF AccountsFirst, SessionsFirst, TypeOK
<1>3. OneLiveToken' /\ NoMoreTokens
  BY DEF OneLiveToken, TokensOf, Live, NoMoreTokens
<1>4. RolesFollow'
  <2>1. \A s \in SessionIds : Active(s) /\ Excused(s) => Excused(s)'
    BY DEF Excused, Active, Awaits
  <2>2. \A s \in SessionIds : Told(s) => Told(s)'
    BY ToldStays
  <2> QED
    BY <2>1, <2>2 DEF RolesFollow, Active
<1>5. RealmsApart'
  BY DEF RealmsApart, TypeOK
<1> QED
  BY <1>1, <1>2, <1>3, <1>4, <1>5

\* Request r goes on as x.
LEMMA StaffGo ==
  ASSUME StaffInv, UNCHANGED <<roles, session, token, access, juryVars, owner, permits>>, TypeOK', dropped \subseteq dropped',
         \A u \in Accounts : account'[u].exists = account[u].exists /\ account'[u].by = account[u].by,
         NEW r \in Requests, NEW x \in RequestRow, request' = [request EXCEPT ![r] = x], Staged(x), Realm(x), x.at # "mint",
         \A s \in SessionIds : Awaits(request[r], s) /\ Active(s) =>
           session[s].user \in dropped' \/ Awaits(x, s)
  PROVE  StaffInv' /\ NoMoreTokens
<1>1. /\ request' \in [Requests -> RequestRow] /\ request'[r] = x
      /\ \A q \in Requests : q # r => request'[q] = request[q]
  BY DEF StaffInv, RequestsRight
<1> QED
  BY <1>1, StaffMove

\* A request begins: Running's row, and what the operations add to it.
Begun(x, op, stage, u) ==
  /\ x \in RequestRow /\ x.op = op /\ x.at = stage /\ x.user = u
  /\ x.session = None /\ x.contest = None /\ x.entries = {}

\* A request that has begun is a row.
LEMMA RunningRow ==
  ASSUME NEW r, NEW u \in Accounts,
         NEW op \in {"login", "refresh", "logout", "password", "reset", "ACTIVE", "BLOCKED",
                     "assign", "remove", "permit", "attach"},
         NEW stage \in {"failure", "roles", "read", "revoke", "password", "write", "delete", "attach"}
  PROVE  Begun(Running(r, op, stage, u), op, stage, u)
  BY DEF Begun, Running, Idle, RequestRow

\* A request of an organiser begins, with what its checks have found.
LEMMA StaffBegins ==
  ASSUME StaffInv, NEW r \in Requests, request[r].at = "idle",
         UNCHANGED <<sessionVars, staffVars>>, changes' \in 0 .. MaxChanges,
         NEW x \in RequestRow, request' = [request EXCEPT ![r] = x], Staged(x), Realm(x), x.at # "mint"
  PROVE  StaffInv' /\ NoMoreTokens
<1>1. TypeOK'
  BY DEF StaffInv, TypeOK, sessionVars, juryVars, staffVars
<1>2. \A s : ~Awaits(request[r], s)
  BY DEF Awaits
<1> QED
  BY <1>1, <1>2, StaffGo DEF sessionVars, staffVars

\* A request of a user begins.
LEMMA UsersBegin ==
  ASSUME StaffInv, NEW r \in Requests, UNCHANGED <<staffVars, changes>>,
         \/ \E u \in Accounts, right \in BOOLEAN : Login(r, u, right)
         \/ \E s \in SessionIds : Logout(r, s) \/ LogoutAll(r, s) \/ ChangePassword(r, s)
         \/ \E mine, s \in SessionIds : RevokeOneSession(r, mine, s)
  PROVE  StaffInv' /\ NoMoreTokens
<1>0. request[r].at = "idle" /\ UNCHANGED <<sessionVars, staffVars>> /\ changes' \in 0 .. MaxChanges
  BY DEF Login, Logout, LogoutAll, ChangePassword, RevokeOneSession, At, sessionVars, StaffInv, TypeOK
<1>1. CASE \E u \in Accounts, right \in BOOLEAN : Login(r, u, right)
  <2>1. PICK u \in Accounts, right \in BOOLEAN : Login(r, u, right)
    BY <1>1
  <2> DEFINE stage == IF right THEN "roles" ELSE "failure"
             x == Running(r, "login", stage, u)
  <2>2. x \in RequestRow /\ x.op = "login" /\ x.at \in {"roles", "failure"} /\ x.user = u
    <3>1. stage \in {"roles", "failure"}
      OBVIOUS
    <3> HIDE DEF stage
    <3> QED
      BY <3>1, RunningRow DEF Begun
  <2>3. account[u].exists /\ request' = [request EXCEPT ![r] = x]
    BY <2>1 DEF Login
  <2> HIDE DEF x
  <2>4. Staged(x) /\ Realm(x)
    BY <2>2, <2>3 DEF Staged, Realm
  <2> QED
    BY <1>0, <2>2, <2>3, <2>4, StaffBegins
<1>2. ASSUME NEW mine \in SessionIds, Require(mine), NEW s \in SessionIds \cup {None},
             \/ request' = [request EXCEPT ![r] =
                  [Running(r, "logout", "revoke", session[mine].user) EXCEPT !.session = s]]
             \/ request' = [request EXCEPT ![r] = Running(r, "logout", "revoke", session[mine].user)]
             \/ request' = [request EXCEPT ![r] = Running(r, "password", "password", session[mine].user)]
      PROVE  StaffInv' /\ NoMoreTokens
  <2> DEFINE u == session[mine].user
  <2>1. u \in Accounts /\ account[u].exists
    BY <1>2 DEF Require, Active, StaffInv, TypeOK, AccountsFirst
  <2> HIDE DEF u
  <2> DEFINE x == Running(r, "logout", "revoke", u)
             y == Running(r, "password", "password", u)
  <2>2. /\ x \in RequestRow /\ x.op = "logout" /\ x.at = "revoke" /\ x.user = u
        /\ y \in RequestRow /\ y.op = "password" /\ y.at = "password" /\ y.user = u
    BY <2>1, RunningRow DEF Begun
  <2> HIDE DEF x, y
  <2> DEFINE z == [x EXCEPT !.session = s]
  <2>3. z \in RequestRow /\ z.op = "logout" /\ z.at = "revoke" /\ z.user = u
    BY <1>2, <2>2 DEF RequestRow
  <2>4. \E w \in {x, y, z} : request' = [request EXCEPT ![r] = w]
    BY <1>2 DEF x, y, u
  <2> HIDE DEF z
  <2>5. \A w \in {x, y, z} : w \in RequestRow /\ Staged(w) /\ Realm(w) /\ w.at # "mint"
    BY <2>1, <2>2, <2>3 DEF Staged, Realm
  <2> QED
    BY <1>0, <2>4, <2>5, StaffBegins
<1> QED
  BY <1>1, <1>2 DEF Logout, LogoutAll, ChangePassword, RevokeOneSession

\* What an organiser begins is theirs to do.
LEMMA OrganisersBegin ==
  ASSUME StaffInv, NEW r \in Requests, NEW a \in Organisers, NEW u \in Accounts,
         \/ ResetPassword(r, a, u)
         \/ \E status \in {"ACTIVE", "BLOCKED"} : SetStatus(r, a, u, status)
         \/ \E g \in Grantable : AssignRole(r, a, u, Grant(a, g)) \/ RemoveRole(r, a, u, Grant(a, g))
  PROVE  StaffInv' /\ NoMoreTokens
<1>1. PICK op \in {"reset", "ACTIVE", "BLOCKED", "assign", "remove"}, entries \in SUBSET Entries :
        /\ EnsureManage(a, u, IF op \in {"assign", "remove"} THEN "grant" ELSE op)
        /\ \A entry \in entries : EnsureCanGrant(a, entry) /\ (entry.mega <=> a \in Mega)
        /\ Manage(r, a, u, op, entries)
  <2>1. ASSUME NEW g \in Grantable
        PROVE  Grant(a, g) \in Entries /\ (Grant(a, g).mega <=> a \in Mega)
    <3>1. [code |-> g.code, scope |-> g.scope, level |-> g.level, mega |-> FALSE] \in Entries
      BY GrantableEntries
    <3>2. g.code \in Codes /\ g.scope \in Scopes /\ g.level \in Levels
      BY <3>1 DEF Entries
    <3>3. (a \in Mega) \in BOOLEAN
      OBVIOUS
    <3> QED
      BY <3>2, <3>3 DEF Grant, Entries
  <2> QED
    BY <2>1 DEF ResetPassword, SetStatus, AssignRole, RemoveRole, EnsureManage, CanManageUser
<1> DEFINE b == Running(r, op, "write", u)
           x == [b EXCEPT !.entries = entries]
<1>2. b \in RequestRow /\ b.op = op /\ b.at = "write" /\ b.user = u /\ b.session = None
  BY RunningRow DEF Begun
<1>3. /\ request[r].at = "idle" /\ request' = [request EXCEPT ![r] = x] /\ account[u].exists
      /\ UNCHANGED <<sessionVars, staffVars>> /\ changes' \in 0 .. MaxChanges
  BY <1>1, MaxChangesNat DEF Manage, At, EnsureManage, Begin, StaffInv, TypeOK
<1> HIDE DEF b
<1>4. x \in RequestRow /\ x.op = op /\ x.at = "write" /\ x.user = u /\ x.session = None /\ x.entries = entries
  BY <1>2 DEF RequestRow
<1> HIDE DEF x
<1>5. Staged(x)
  BY <1>3, <1>4 DEF Staged
<1>6. Realm(x)
  BY <1>1, <1>4 DEF Realm, Granted, EnsureManage, CanManageUser, EnsureCanGrant
<1> QED
  BY <1>3, <1>4, <1>5, <1>6, StaffBegins

\* A replacement of permissions begins, within the organiser's realm.
LEMMA PermitBegins ==
  ASSUME StaffInv, NEW r \in Requests, NEW a \in Organisers, NEW u \in Accounts, NEW c \in Contests,
         NEW wanted \in SUBSET Permissions, ReplacePermissions(r, a, u, c, wanted)
  PROVE  StaffInv' /\ NoMoreTokens
<1> DEFINE b == Running(r, "permit", "delete", u)
           mega == a \in Mega
           x == [b EXCEPT !.contest = c, !.entries = wanted, !.mega = mega]
<1>0. mega \in BOOLEAN /\ (mega <=> a \in Mega)
  OBVIOUS
<1>1. b \in RequestRow /\ b.op = "permit" /\ b.at = "delete" /\ b.user = u
  BY RunningRow DEF Begun
<1>2. /\ request[r].at = "idle" /\ request' = [request EXCEPT ![r] = x]
      /\ UNCHANGED <<sessionVars, staffVars>> /\ changes' \in 0 .. MaxChanges
  BY MaxChangesNat DEF ReplacePermissions, At, Begin, StaffInv, TypeOK
<1>3. account[u].exists /\ (a \in Mega \/ (owner[c] = a /\ account[u].by = a))
  BY DEF ReplacePermissions, EnsureCanPermit
<1> HIDE DEF b, mega
<1>4. /\ x \in RequestRow /\ x.op = "permit" /\ x.at = "delete" /\ x.user = u
      /\ x.contest = c /\ x.entries = wanted /\ (x.mega <=> a \in Mega)
  BY <1>0, <1>1 DEF RequestRow
<1> HIDE DEF x
<1>5. Staged(x) /\ Realm(x)
  BY <1>3, <1>4 DEF Staged, Realm
<1> QED
  BY <1>2, <1>4, <1>5, StaffBegins

\* An account is made, with roles its maker may give.
LEMMA StaffCreate ==
  ASSUME StaffInv, NEW a \in Organisers, NEW u \in Accounts, ~account[u].exists,
         account' = [account EXCEPT ![u] = [NoAccount EXCEPT !.exists = TRUE, !.by = a]],
         NEW entries \in SUBSET Entries, roles' = [roles EXCEPT ![u] = entries],
         \A entry \in entries : ~entry.mega /\ entry.scope # Global => owner[entry.scope] = a,
         UNCHANGED <<session, token, access, dropped, juryVars, owner, enrolled, permits>>, changes' \in 0 .. MaxChanges,
         \/ UNCHANGED request
         \/ \E r \in Requests, x \in RequestRow :
              request[r].at = "idle" /\ request' = [request EXCEPT ![r] = x] /\ Staged(x)' /\ Realm(x)' /\ x.at # "mint"
  PROVE  StaffInv' /\ NoMoreTokens
<1> USE DEF StaffInv
<1> DEFINE row == [NoAccount EXCEPT !.exists = TRUE, !.by = a]
<1>0. NoAccount \in [exists: BOOLEAN, by: Organisers \cup {None}, status: {"ACTIVE", "BLOCKED"},
                    failed: 0 .. MaxFailed, locked: BOOLEAN]
  BY MaxFailedPositive DEF NoAccount
<1>1. /\ row.exists /\ row.by = a
      /\ row \in [exists: BOOLEAN, by: Organisers \cup {None}, status: {"ACTIVE", "BLOCKED"},
                  failed: 0 .. MaxFailed, locked: BOOLEAN]
  <2> HIDE DEF NoAccount
  <2> QED
    BY <1>0
<1>2. account' = [account EXCEPT ![u] = row]
  OBVIOUS
<1> HIDE DEF row
<1>3. account'[u] = row /\ \A v \in Accounts : v # u => account'[v] = account[v] /\ roles'[v] = roles[v]
  BY <1>2 DEF TypeOK
<1>4. TypeOK'
  <2>1. account' \in [Accounts -> [exists: BOOLEAN, by: Organisers \cup {None}, status: {"ACTIVE", "BLOCKED"},
                                 failed: 0 .. MaxFailed, locked: BOOLEAN]]
    BY <1>1, <1>2 DEF TypeOK
  <2>2. roles' \in [Accounts -> SUBSET Entries]
    BY DEF TypeOK
  <2> QED
    BY <2>1, <2>2 DEF TypeOK, juryVars
<1>5. RequestsRight'
  <2>1. \A q \in Requests : request[q].at # "idle" => request[q].user # u /\ request[q].user \in Accounts
    BY DEF RequestsRight, Staged
  <2>2. ASSUME NEW q \in Requests, request'[q] = request[q]
        PROVE  (Staged(request[q]) /\ Realm(request[q]))'
    BY <1>3, <2>1, <2>2 DEF RequestsRight, Staged, Realm, Granted
  <2>3. CASE UNCHANGED request
    BY <2>2, <2>3 DEF RequestsRight
  <2>4. ASSUME NEW r \in Requests, NEW x \in RequestRow, request[r].at = "idle",
               request' = [request EXCEPT ![r] = x], Staged(x)', Realm(x)', x.at # "mint"
        PROVE  RequestsRight'
    <3>1. /\ request' \in [Requests -> RequestRow] /\ request'[r] = x
          /\ \A q \in Requests : q # r => request'[q] = request[q]
      BY <2>4 DEF RequestsRight
    <3> QED
      BY <2>2, <2>4, <3>1 DEF RequestsRight
  <2> QED
    BY <2>3, <2>4
<1>6. AccountsFirst' /\ SessionsFirst'
  BY <1>1, <1>3 DEF AccountsFirst, SessionsFirst, TypeOK
<1>7. OneLiveToken' /\ NoMoreTokens
  BY DEF OneLiveToken, TokensOf, Live, NoMoreTokens
<1>8. RolesFollow'
  <2> SUFFICES ASSUME NEW s \in SessionIds, Active(s)
               PROVE  Told(s)' \/ Excused(s)'
    BY DEF RolesFollow, Active
  <2>1. session[s].user \in Accounts /\ session[s].user # u
    BY DEF Active, AccountsFirst, TypeOK
  <2>2. \A r \in Requests : Awaits(request[r], s) => request'[r] = request[r]
    BY DEF Awaits, RequestsRight
  <2>3. \A r \in Requests : request'[r] = request[r] \/ request'[r].at # "mint"
    BY DEF RequestsRight
  <2>4. Told(s) => Told(s)'
    BY <1>3, <2>1, <2>3, ToldStays
  <2>5. Excused(s) => Excused(s)'
    BY <2>2 DEF Excused, Awaits
  <2> QED
    BY <2>4, <2>5 DEF RolesFollow
<1>9. RealmsApart'
  BY <1>1, <1>3 DEF RealmsApart, AccountsFirst, TypeOK
<1> QED
  BY <1>4, <1>5, <1>6, <1>7, <1>8, <1>9

\* An account is created, of which nothing was known.
LEMMA CreationStep ==
  ASSUME StaffInv, NEW a \in Organisers, NEW u \in Accounts, AdminCreateUser(a, u)
  PROVE  StaffInv' /\ NoMoreTokens
<1>1. PICK entries \in SUBSET Entries : CreateUser(a, u, entries) /\ \A entry \in entries : entry.mega <=> a \in Mega
  <2>1. CASE CreateUser(a, u, {})
    BY <2>1
  <2>2. ASSUME NEW g \in Grantable, CreateUser(a, u, {Grant(a, g)})
        PROVE  \E entries \in SUBSET Entries :
                 CreateUser(a, u, entries) /\ \A entry \in entries : entry.mega <=> a \in Mega
    <3>1. [code |-> g.code, scope |-> g.scope, level |-> g.level, mega |-> FALSE] \in Entries
      BY GrantableEntries
    <3>2. g.code \in Codes /\ g.scope \in Scopes /\ g.level \in Levels /\ (a \in Mega) \in BOOLEAN
      BY <3>1 DEF Entries
    <3>3. Grant(a, g) \in Entries /\ (Grant(a, g).mega <=> a \in Mega)
      BY <3>2 DEF Grant, Entries
    <3> QED
      BY <2>2, <3>3
  <2> QED
    BY <2>1, <2>2 DEF AdminCreateUser
<1>2. \A entry \in entries : ~entry.mega /\ entry.scope # Global => owner[entry.scope] = a
  BY <1>1 DEF CreateUser, EnsureCanGrant
<1>3. /\ ~account[u].exists /\ changes' \in 0 .. MaxChanges
      /\ account' = [account EXCEPT ![u] = [NoAccount EXCEPT !.exists = TRUE, !.by = a]]
      /\ roles' = [roles EXCEPT ![u] = entries]
      /\ UNCHANGED <<session, token, access, dropped, juryVars, owner, enrolled, permits>> /\ UNCHANGED request
  BY <1>1, MaxChangesNat DEF CreateUser, Begin, staffVars, StaffInv, TypeOK
<1> QED
  BY <1>2, <1>3, StaffCreate

\* Somebody is to be added to a contest.
LEMMA ContestantBegins ==
  ASSUME StaffInv, NEW r \in Requests, NEW a \in Organisers, NEW u \in Accounts, NEW c \in Contests,
         AddContestant(r, a, u, c)
  PROVE  StaffInv' /\ NoMoreTokens
<1> DEFINE b == Running(r, "attach", "attach", u)
           mega == a \in Mega
           x == [b EXCEPT !.contest = c, !.mega = mega]
<1>0. mega \in BOOLEAN /\ (mega <=> a \in Mega)
  OBVIOUS
<1>1. b \in RequestRow /\ b.op = "attach" /\ b.at = "attach" /\ b.user = u
  BY RunningRow DEF Begun
<1>2. /\ request[r].at = "idle" /\ request' = [request EXCEPT ![r] = x] /\ (a \in Mega \/ owner[c] = a)
      /\ UNCHANGED <<roles, session, token, access, dropped, juryVars, staffVars>> /\ changes' \in 0 .. MaxChanges
  BY MaxChangesNat DEF AddContestant, IsOwnerOrMega, At, Begin, StaffInv, TypeOK
<1>3. \/ account[u].exists /\ CanAttachExisting(a, u) /\ UNCHANGED account
      \/ /\ ~account[u].exists
         /\ account' = [account EXCEPT ![u] = [NoAccount EXCEPT !.exists = TRUE, !.by = a]]
  BY DEF AddContestant
<1> HIDE DEF b, mega
<1>4. /\ x \in RequestRow /\ x.op = "attach" /\ x.at = "attach" /\ x.user = u
      /\ x.contest = c /\ (x.mega <=> a \in Mega)
  BY <1>0, <1>1 DEF RequestRow
<1> HIDE DEF x
<1>5. CASE account[u].exists /\ CanAttachExisting(a, u) /\ UNCHANGED account
  <2>1. Staged(x) /\ Realm(x)
    BY <1>2, <1>4, <1>5 DEF Staged, Realm, CanAttachExisting
  <2> QED
    BY <1>2, <1>4, <1>5, <2>1, StaffBegins DEF sessionVars
<1>6. CASE ~account[u].exists /\ account' = [account EXCEPT ![u] = [NoAccount EXCEPT !.exists = TRUE, !.by = a]]
  <2>1. account'[u].exists /\ account'[u].by = a
    BY <1>6 DEF NoAccount, StaffInv, TypeOK
  <2>2. Staged(x)' /\ Realm(x)'
    BY <1>2, <1>4, <2>1 DEF Staged, Realm, staffVars
  <2>3. UNCHANGED <<session, token, access, dropped, juryVars, owner, enrolled, permits>>
    BY <1>2 DEF staffVars
  <2>4. roles' = [roles EXCEPT ![u] = {}]
    BY <1>2, <1>6 DEF StaffInv, AccountsFirst, TypeOK
  <2>5. \E q \in Requests, y \in RequestRow :
          request[q].at = "idle" /\ request' = [request EXCEPT ![q] = y] /\ Staged(y)' /\ Realm(y)' /\ y.at # "mint"
    BY <1>2, <1>4, <2>2
  <2> QED
    BY <1>2, <1>6, <2>3, <2>4, <2>5, StaffCreate
<1> QED
  BY <1>3, <1>5, <1>6

\* A request that waits for nobody's roles goes on to a stage without a grant, or ends.
LEMMA StaffGoto ==
  ASSUME StaffInv, UNCHANGED <<roles, session, token, access, juryVars, owner, permits>>, TypeOK', dropped \subseteq dropped',
         \A u \in Accounts : account'[u].exists = account[u].exists /\ account'[u].by = account[u].by,
         NEW r \in Requests, request[r].at # "idle",
         \/ Done(r) /\ \A s \in SessionIds : Awaits(request[r], s) /\ Active(s) => session[s].user \in dropped'
         \/ request[r].at \notin {"revoke", "revoking"} /\ (Goto(r, "issue") \/ Goto(r, "revoke"))
  PROVE  StaffInv' /\ NoMoreTokens
<1>1. CASE Done(r) /\ \A s \in SessionIds : Awaits(request[r], s) /\ Active(s) => session[s].user \in dropped'
  BY <1>1, IdleRow, StaffGo DEF Done
<1>2. ASSUME NEW stage \in {"issue", "revoke"}, Goto(r, stage), request[r].at \notin {"revoke", "revoking"}
      PROVE  StaffInv' /\ NoMoreTokens
  <2> DEFINE x == [request[r] EXCEPT !.at = stage]
  <2>1. request[r] \in RequestRow /\ Staged(request[r])
    BY DEF StaffInv, RequestsRight
  <2>2. x \in RequestRow /\ Staged(x) /\ Realm(x) /\ x.at # "mint"
    BY <2>1 DEF RequestRow, Staged, Realm
  <2>3. request' = [request EXCEPT ![r] = x] /\ \A s : ~Awaits(request[r], s)
    BY <1>2 DEF Goto, Awaits
  <2> HIDE DEF x
  <2> QED
    BY <2>2, <2>3, StaffGo
<1> QED
  BY <1>1, <1>2

\* A statement that writes the row of an account.
LEMMA AccountsMove ==
  ASSUME StaffInv, NEW r \in Requests,
         \/ RecordLoginFailure(r) \/ RecordLoginSuccess(r) \/ SetPassword(r) \/ StoreStatus(r),
         UNCHANGED <<staffVars, changes>>
  PROVE  StaffInv' /\ NoMoreTokens
<1> DEFINE u == request[r].user
<1>1. /\ u \in Accounts /\ request[r].at \in {"failure", "success", "write"}
      /\ UNCHANGED <<roles, session, token, access, dropped, juryVars, owner, enrolled, permits, changes>>
  BY DEF RecordLoginFailure, RecordLoginSuccess, SetPassword, StoreStatus, At, StaffInv, RequestsRight, Staged, staffVars
<1>2. account[u] \in [exists: BOOLEAN, by: Organisers \cup {None}, status: {"ACTIVE", "BLOCKED"},
                     failed: 0 .. MaxFailed, locked: BOOLEAN]
  BY <1>1 DEF StaffInv, TypeOK, juryVars
<1>3. PICK row : /\ account' = [account EXCEPT ![u] = row]
                 /\ row \in [exists: BOOLEAN, by: Organisers \cup {None}, status: {"ACTIVE", "BLOCKED"},
                             failed: 0 .. MaxFailed, locked: BOOLEAN]
                 /\ row.exists = account[u].exists /\ row.by = account[u].by
  <2> HIDE DEF u
  <2>1. CASE RecordLoginFailure(r)
    <3> DEFINE failed == IF account[u].failed < MaxFailed THEN account[u].failed + 1 ELSE account[u].failed
               locked == account[u].locked \/ account[u].failed + 1 >= MaxFailed
               row == [account[u] EXCEPT !.failed = failed, !.locked = locked]
    <3>1. failed \in 0 .. MaxFailed /\ locked \in BOOLEAN
      BY <1>2, MaxFailedPositive
    <3>2. account' = [account EXCEPT ![u] = row]
      BY <1>1, <2>1 DEF RecordLoginFailure, StaffInv, TypeOK, u
    <3> HIDE DEF failed, locked
    <3>3. /\ row \in [exists: BOOLEAN, by: Organisers \cup {None}, status: {"ACTIVE", "BLOCKED"},
                      failed: 0 .. MaxFailed, locked: BOOLEAN]
          /\ row.exists = account[u].exists /\ row.by = account[u].by
      BY <1>2, <3>1
    <3> HIDE DEF row
    <3> QED
      BY <3>2, <3>3
  <2>2. CASE RecordLoginSuccess(r) \/ SetPassword(r)
    <3> DEFINE row == [account[u] EXCEPT !.failed = 0, !.locked = FALSE]
    <3>1. account' = [account EXCEPT ![u] = row]
      BY <1>1, <2>2 DEF RecordLoginSuccess, SetPassword, StaffInv, TypeOK, u
    <3>2. 0 \in 0 .. MaxFailed
      BY MaxFailedPositive
    <3>3. /\ row \in [exists: BOOLEAN, by: Organisers \cup {None}, status: {"ACTIVE", "BLOCKED"},
                      failed: 0 .. MaxFailed, locked: BOOLEAN]
          /\ row.exists = account[u].exists /\ row.by = account[u].by
      BY <1>2, <3>2
    <3> HIDE DEF row
    <3> QED
      BY <3>1, <3>3
  <2>3. CASE StoreStatus(r)
    <3> DEFINE row == [account[u] EXCEPT !.status = request[r].op]
    <3>1. account' = [account EXCEPT ![u] = row] /\ request[r].op \in {"ACTIVE", "BLOCKED"}
      BY <2>3 DEF StoreStatus, u
    <3>3. /\ row \in [exists: BOOLEAN, by: Organisers \cup {None}, status: {"ACTIVE", "BLOCKED"},
                      failed: 0 .. MaxFailed, locked: BOOLEAN]
          /\ row.exists = account[u].exists /\ row.by = account[u].by
      BY <1>2, <3>1
    <3> HIDE DEF row
    <3> QED
      BY <3>1, <3>3
  <2> QED
    BY <2>1, <2>2, <2>3
<1>4. /\ account' \in [Accounts -> [exists: BOOLEAN, by: Organisers \cup {None}, status: {"ACTIVE", "BLOCKED"},
                                 failed: 0 .. MaxFailed, locked: BOOLEAN]]
      /\ \A v \in Accounts : account'[v].exists = account[v].exists /\ account'[v].by = account[v].by
  BY <1>1, <1>3 DEF StaffInv, TypeOK, juryVars
<1>5. TypeOK'
  BY <1>1, <1>4 DEF StaffInv, TypeOK, juryVars
<1>6. (Done(r) \/ Goto(r, "revoke")) /\ \A s : ~Awaits(request[r], s)
  BY <1>1 DEF RecordLoginFailure, RecordLoginSuccess, SetPassword, StoreStatus, Awaits
<1> QED
  BY <1>1, <1>4, <1>5, <1>6, StaffGoto

\* A statement that only takes its request on.
LEMMA RequestsMove ==
  ASSUME StaffInv, NEW r \in Requests, UNCHANGED <<staffVars, changes>>,
         \/ RolesByUser(r)
         \/ RevokeFails(r) \/ AttachFails(r) \/ UpdatePassword(r) \/ BeginRevoking(r) \/ DeletePermissions(r)
  PROVE  StaffInv' /\ NoMoreTokens
<1>0. /\ request[r] \in RequestRow /\ Staged(request[r]) /\ Realm(request[r])
      /\ request[r].at # "idle" => request[r].user \in Accounts
      /\ UNCHANGED <<account, roles, session, token, access, juryVars, owner, enrolled, permits, changes>>
  BY DEF StaffInv, RequestsRight, Staged, RolesByUser, RevokeFails, AttachFails, UpdatePassword, BeginRevoking,
         DeletePermissions, staffVars, sessionVars
<1>1. TypeOK' /\ dropped \subseteq dropped'
  BY <1>0 DEF StaffInv, TypeOK, RolesByUser, RevokeFails, AttachFails, UpdatePassword, BeginRevoking,
              DeletePermissions, staffVars, sessionVars, juryVars, At
<1>2. CASE \/ RolesByUser(r)
           \/ RevokeFails(r) \/ AttachFails(r)
  <2>1. request[r].at # "idle"
    BY <1>2 DEF RolesByUser, RevokeFails, AttachFails, At
  <2>2. \/ Done(r) /\ \A s \in SessionIds : Awaits(request[r], s) => session[s].user \in dropped'
        \/ request[r].at \notin {"revoke", "revoking"} /\ Goto(r, "issue")
    BY <1>0, <1>2 DEF RolesByUser, RevokeFails, AttachFails, At, Awaits
  <2> QED
    BY <1>0, <1>1, <2>1, <2>2, StaffGoto
<1>3. CASE UpdatePassword(r)
  <2> DEFINE x == Running(r, "logout", "revoke", request[r].user)
  <2>1. request' = [request EXCEPT ![r] = x] /\ request[r].at = "password"
    BY <1>3 DEF UpdatePassword, At
  <2>2. x \in RequestRow /\ x.op = "logout" /\ x.at = "revoke" /\ x.user = request[r].user
    BY <1>0, <2>1, RunningRow DEF Begun
  <2> HIDE DEF x
  <2>3. Staged(x) /\ Realm(x) /\ \A s : ~Awaits(request[r], s)
    BY <1>0, <2>1, <2>2 DEF Staged, Realm, Awaits
  <2> QED
    BY <1>0, <1>1, <2>1, <2>2, <2>3, StaffGo
<1>4. CASE BeginRevoking(r)
  <2>1. PICK sees \in SUBSET SessionIds :
          /\ SeeSessions(r, sees)
          /\ request[r].session = None => \A s \in SessionIds :
               session[s].user = request[r].user /\ ~session[s].revoked => s \in sees
    BY <1>0, <1>4 DEF BeginRevoking, RevokeAllSessions, RevokeSession, RequestRow
  <2> DEFINE tokens == UNION {TokensOf(s) : s \in sees}
             x == [request[r] EXCEPT !.at = "revoking", !.sees = sees, !.tokens = tokens]
  <2>2. tokens \subseteq TokenIds
    BY DEF TokensOf
  <2>3. request' = [request EXCEPT ![r] = x]
    BY <2>1 DEF SeeSessions, StaffInv, RequestsRight
  <2> HIDE DEF tokens
  <2>4. /\ x \in RequestRow /\ x.op = request[r].op /\ x.at = "revoking" /\ x.user = request[r].user
        /\ x.sees = sees /\ x.entries = request[r].entries /\ x.session = request[r].session
    BY <1>0, <2>2 DEF RequestRow
  <2> HIDE DEF x
  <2>5. request[r].at = "revoke"
    BY <1>4 DEF BeginRevoking, At
  <2>6. Staged(x) /\ Realm(x)
    BY <1>0, <2>4, <2>5 DEF Staged, Realm
  <2>7. \A s \in SessionIds : Awaits(request[r], s) /\ Active(s) => Awaits(x, s)
    BY <1>0, <2>1, <2>4, <2>5 DEF Awaits, Active, Staged
  <2> QED
    BY <1>0, <1>1, <2>3, <2>4, <2>6, <2>7, StaffGo
<1>5. CASE DeletePermissions(r)
  <2> DEFINE seen == RowsOf(request[r].user, request[r].contest)
             x == [request[r] EXCEPT !.at = "insert", !.rows = seen]
  <2>1. seen \subseteq Rows /\ request[r].at = "delete"
    BY <1>5 DEF DeletePermissions, At, RowsOf, StaffInv, TypeOK
  <2>2. request' = [request EXCEPT ![r] = x]
    BY <1>5 DEF DeletePermissions, StaffInv, RequestsRight
  <2> HIDE DEF seen
  <2>3. x \in RequestRow /\ Staged(x) /\ Realm(x) /\ x.at # "mint"
    BY <1>0, <2>1 DEF RequestRow, Staged, Realm
  <2>4. \A s : ~Awaits(request[r], s)
    BY <2>1 DEF Awaits
  <2> QED
    BY <1>0, <1>1, <2>2, <2>3, <2>4, StaffGo
<1> QED
  BY <1>2, <1>3, <1>4, <1>5

-----------------------------------------------------------------------------
(* Steps that write sessions and tokens. *)

SessionRow == [user: Accounts \cup {None}, revoked: BOOLEAN, expired: BOOLEAN]
TokenRow == [session: SessionIds \cup {None}, used: BOOLEAN, revoked: BOOLEAN]

\* sessions begin and end, and a token is added only to one that goes on
SessionsGoOn ==
  /\ session' \in [SessionIds -> SessionRow] /\ token' \in [TokenIds -> TokenRow]
  /\ \A s \in SessionIds :
       /\ session'[s].user # session[s].user =>
            session[s].user = None /\ session'[s].user \in Accounts /\ account[session'[s].user].exists
       /\ session[s].revoked => session'[s].revoked
       /\ session[s].expired => session'[s].expired
       /\ session'[s].user = None => ~session'[s].revoked /\ ~session'[s].expired
  /\ \A t \in TokenIds : token'[t].session # token[t].session =>
       LET s == token'[t].session IN
       token[t].session = None /\ s \in SessionIds /\ session'[s].user # None /\ ~session[s].revoked /\ ~session[s].expired

\* A statement that ends sessions or tokens.
LEMMA SessionsMove ==
  ASSUME StaffInv, UNCHANGED <<account, roles, access, dropped, juryVars, owner, enrolled, permits, changes>>,
         SessionsGoOn, OneLiveToken',
         \/ UNCHANGED request
         \/ \E r \in Requests, x \in RequestRow :
              /\ request' = [request EXCEPT ![r] = x] /\ Staged(x)' /\ Realm(x) /\ x.at # "mint"
              /\ \A s \in SessionIds : Awaits(request[r], s) => ~Active(s)'
  PROVE  StaffInv' /\ NoMoreTokens
<1> USE DEF StaffInv, SessionsGoOn
<1>1. TypeOK'
  BY DEF TypeOK, SessionRow, TokenRow, juryVars
<1>2. \A q \in Requests : (Staged(request[q]) /\ Realm(request[q]))' \/ request'[q] # request[q]
  BY NoneFresh DEF RequestsRight, Staged, Realm, Granted
<1>3. RequestsRight'
  <2>1. CASE UNCHANGED request
    BY <1>2, <2>1 DEF RequestsRight
  <2>2. ASSUME NEW r \in Requests, NEW x \in RequestRow,
               request' = [request EXCEPT ![r] = x], Staged(x)', Realm(x)
        PROVE  RequestsRight'
    <3>1. /\ request' \in [Requests -> RequestRow] /\ request'[r] = x
          /\ \A q \in Requests : q # r => request'[q] = request[q]
      BY <2>2 DEF RequestsRight
    <3>2. Realm(x)'
      BY <2>2 DEF Realm, Granted
    <3> QED
      BY <1>2, <2>2, <3>1, <3>2 DEF RequestsRight
  <2> QED
    BY <2>1, <2>2
<1>4. AccountsFirst' /\ SessionsFirst'
  BY NoneFresh DEF AccountsFirst, SessionsFirst, TypeOK
<1>5. NoMoreTokens
  BY NoneFresh DEF NoMoreTokens, TokensOf, TypeOK
<1>6. RolesFollow'
  <2> SUFFICES ASSUME NEW s \in SessionIds, Active(s)'
               PROVE  Told(s)' \/ Excused(s)'
    BY DEF RolesFollow
  <2>1. \A r \in Requests : request'[r] = request[r] \/ request'[r].at # "mint"
    BY DEF RequestsRight
  <2>2. CASE session[s].user = None
    <3>1. \A r \in Requests : request[r].at = "mint" => request[r].session # s
      BY <2>2, NoneFresh DEF RequestsRight, Staged
    <3>2. access[s] = {}
      BY <2>2 DEF SessionsFirst
    <3> QED
      BY <2>1, <3>1, <3>2 DEF Told
  <2>3. CASE session[s].user # None
    <3>1. session'[s].user = session[s].user /\ Active(s)
      BY <2>3 DEF Active, TypeOK, SessionRow
    <3>2. ASSUME NEW q \in Requests, Awaits(request[q], s)
          PROVE  Awaits(request[q], s)'
      <4>1. request'[q] = request[q]
        BY <3>2 DEF RequestsRight
      <4> QED
        BY <3>1, <3>2, <4>1 DEF Awaits
    <3>3. Told(s) => Told(s)'
      BY <2>1, <3>1, ToldStays
    <3>4. Excused(s) => Excused(s)'
      BY <3>1, <3>2 DEF Excused
    <3> QED
      BY <3>1, <3>3, <3>4 DEF RolesFollow
  <2> QED
    BY <2>2, <2>3
<1>7. RealmsApart'
  BY DEF RealmsApart, TypeOK
<1> QED
  BY <1>1, <1>3, <1>4, <1>5, <1>6, <1>7

\* A login issues a session with its first token.
LEMMA IssueStep ==
  ASSUME StaffInv, NEW r \in Requests, NEW s \in SessionIds, NEW t \in TokenIds, IssueSession(r, s, t),
         UNCHANGED <<staffVars, changes>>
  PROVE  StaffInv' /\ NoMoreTokens
<1> DEFINE u == request[r].user
<1>1. /\ request[r] \in RequestRow /\ Staged(request[r]) /\ request[r].at = "issue"
      /\ u \in Accounts /\ account[u].exists /\ u # None
  BY NoneFresh DEF StaffInv, RequestsRight, IssueSession, At, Staged
<1>2. /\ session[s].user = None /\ ~session[s].revoked /\ ~session[s].expired
      /\ token[t].session = None /\ ~token[t].used /\ ~token[t].revoked
      /\ session' = [session EXCEPT ![s].user = u] /\ token' = [token EXCEPT ![t].session = s]
      /\ UNCHANGED <<account, roles, access, dropped, juryVars, owner, enrolled, permits, changes>>
  BY DEF IssueSession, CreateSession, NoSession, NoToken, staffVars
<1>3. PICK x \in RequestRow :
        /\ request' = [request EXCEPT ![r] = x] /\ x.at = "success" /\ x.op = request[r].op
        /\ x.user = u /\ x.session = request[r].session /\ x.entries = request[r].entries
  <2> DEFINE y == [request[r] EXCEPT !.at = "success"]
  <2>1. y \in RequestRow /\ y.at = "success" /\ y.op = request[r].op /\ y.user = u
        /\ y.session = request[r].session /\ y.entries = request[r].entries
    BY <1>1 DEF RequestRow
  <2>2. request' = [request EXCEPT ![r] = y]
    BY DEF IssueSession, Goto
  <2> HIDE DEF y
  <2> QED
    BY <2>1, <2>2
<1> HIDE DEF u
<1>4. /\ session' \in [SessionIds -> SessionRow] /\ token' \in [TokenIds -> TokenRow]
      /\ session'[s].user = u /\ ~session'[s].revoked /\ ~session'[s].expired
      /\ token'[t].session = s /\ ~token'[t].used /\ ~token'[t].revoked
      /\ \A z \in SessionIds : z # s => session'[z] = session[z]
      /\ \A z \in TokenIds : z # t => token'[z] = token[z]
  BY <1>1, <1>2 DEF StaffInv, TypeOK, SessionRow, TokenRow
<1>5. SessionsGoOn
  BY <1>1, <1>2, <1>4 DEF SessionsGoOn, StaffInv, SessionsFirst
<1>6. OneLiveToken'
  BY <1>2, <1>4 DEF StaffInv, OneLiveToken, TokensOf, Live, SessionsFirst, TypeOK
<1>7. Staged(x)' /\ Realm(x) /\ \A z \in SessionIds : ~Awaits(request[r], z)
  BY <1>1, <1>2, <1>3 DEF Staged, Realm, Awaits, u
<1> QED
  BY <1>2, <1>3, <1>5, <1>6, <1>7, SessionsMove

\* A refresh uses a token up and issues the next of the chain.
LEMMA RefreshStep ==
  ASSUME StaffInv, NEW r \in Requests, NEW old \in TokenIds, Refresh(r, old),
         UNCHANGED <<staffVars, changes>>
  PROVE  StaffInv' /\ NoMoreTokens
<1> DEFINE s == token[old].session
<1>0. /\ request[r].at = "idle" /\ s \in SessionIds /\ s # None
      /\ session[s].user \in Accounts /\ account[session[s].user].exists
      /\ UNCHANGED <<account, roles, access, dropped, juryVars, owner, enrolled, permits, changes>>
  BY NoneFresh DEF Refresh, RotateRefreshAtomically, At, StaffInv, TypeOK, SessionsFirst, AccountsFirst, staffVars
<1> HIDE DEF s
<1>1. CASE RevokeFamily(s) /\ UNCHANGED request
  <2>1. /\ session' = [session EXCEPT ![s].revoked = TRUE]
        /\ token' = [t \in TokenIds |-> [token[t] EXCEPT !.revoked = token[t].revoked \/ token[t].session = s]]
    BY <1>1 DEF RevokeFamily
  <2>2. /\ session' \in [SessionIds -> SessionRow] /\ session'[s].user = session[s].user
        /\ session'[s].revoked /\ session'[s].expired = session[s].expired
        /\ \A z \in SessionIds : z # s => session'[z] = session[z]
    BY <1>0, <2>1 DEF StaffInv, TypeOK, SessionRow
  <2>3. ASSUME NEW t \in TokenIds
        PROVE  /\ token'[t] \in TokenRow /\ token'[t].session = token[t].session
               /\ token'[t].used = token[t].used
               /\ token[t].revoked => token'[t].revoked
    <3> DEFINE b == token[t].revoked \/ token[t].session = s
    <3>1. token[t] \in TokenRow /\ b \in BOOLEAN /\ (token[t].revoked => b)
      BY DEF StaffInv, TypeOK, TokenRow
    <3>2. token'[t] = [token[t] EXCEPT !.revoked = b]
      BY <2>1
    <3> HIDE DEF b
    <3> QED
      BY <3>1, <3>2 DEF TokenRow
  <2>4. token' \in [TokenIds -> TokenRow]
    BY <2>1, <2>3
  <2>5. SessionsGoOn
    BY <1>0, <2>2, <2>3, <2>4, NoneFresh DEF SessionsGoOn, StaffInv, SessionsFirst
  <2>6. OneLiveToken'
    BY <2>3 DEF StaffInv, OneLiveToken, TokensOf, Live
  <2> QED
    BY <1>0, <1>1, <2>5, <2>6, SessionsMove
<1>2. CASE /\ ~Reused(old) /\ ~SessionOver(s) /\ \E new \in TokenIds : Rotate(old, new)
           /\ request' = [request EXCEPT ![r] = [Running(r, "refresh", "read", session[s].user) EXCEPT !.session = s]]
  <2>1. PICK x \in RequestRow :
          /\ request' = [request EXCEPT ![r] = x] /\ x.op = "refresh" /\ x.at = "read"
          /\ x.user = session[s].user /\ x.session = s
    <3> DEFINE b == Running(r, "refresh", "read", session[s].user)
               y == [b EXCEPT !.session = s]
    <3>1. b \in RequestRow /\ b.op = "refresh" /\ b.at = "read" /\ b.user = session[s].user
      BY <1>0, RunningRow DEF Begun
    <3>2. request' = [request EXCEPT ![r] = y]
      BY <1>2
    <3> HIDE DEF b
    <3>3. y \in RequestRow /\ y.op = "refresh" /\ y.at = "read" /\ y.user = session[s].user /\ y.session = s
      BY <1>0, <3>1 DEF RequestRow
    <3> HIDE DEF y
    <3> QED
      BY <3>2, <3>3
  <2>2. PICK new \in TokenIds : Rotate(old, new)
    BY <1>2
  <2>3. ~Reused(old) /\ ~SessionOver(s)
    BY <1>2
  <2>4. /\ new # old /\ token[new].session = None /\ ~token[new].used /\ ~token[new].revoked
        /\ UNCHANGED session /\ ~session[s].revoked /\ ~session[s].expired
        /\ ~token[old].used /\ ~token[old].revoked
        /\ token' = [token EXCEPT ![old].used = TRUE, ![new].session = s]
    BY <1>0, <2>2, <2>3 DEF Rotate, NoToken, Reused, SessionOver, s
  <2>5. /\ token' \in [TokenIds -> TokenRow] /\ token'[new].session = s
        /\ token'[old].session = s /\ token'[old].used
        /\ \A z \in TokenIds : z # old /\ z # new => token'[z] = token[z]
    <3> DEFINE used == [token EXCEPT ![old].used = TRUE]
    <3>1. token \in [TokenIds -> TokenRow] /\ token[old].session = s
      BY DEF StaffInv, TypeOK, TokenRow, s
    <3>2. /\ used \in [TokenIds -> TokenRow] /\ used[old].session = s /\ used[old].used
          /\ \A z \in TokenIds : z # old => used[z] = token[z]
      BY <3>1 DEF TokenRow
    <3>3. token' = [used EXCEPT ![new].session = s]
      BY <2>4
    <3> HIDE DEF used
    <3>4. [used[new] EXCEPT !.session = s] \in TokenRow /\ [used[new] EXCEPT !.session = s].session = s
      BY <1>0, <3>2 DEF TokenRow
    <3> QED
      BY <2>4, <3>2, <3>3, <3>4
  <2>6. SessionsGoOn
    BY <1>0, <2>4, <2>5, NoneFresh DEF SessionsGoOn, StaffInv, TypeOK, SessionRow, SessionsFirst, s
  <2>7. OneLiveToken'
    <3>1. \A z \in TokenIds : token[z].session = s /\ z # old => token[z].used \/ token[z].revoked
      BY <1>0, <2>4 DEF StaffInv, OneLiveToken, TokensOf, Live, s
    <3> QED
      BY <1>0, <2>5, <3>1 DEF StaffInv, OneLiveToken, TokensOf, Live, s
  <2>8. Staged(x)' /\ Realm(x) /\ \A z \in SessionIds : ~Awaits(request[r], z)
    BY <1>0, <2>1, <2>4 DEF Staged, Realm, Awaits
  <2> QED
    BY <1>0, <2>1, <2>6, <2>7, <2>8, SessionsMove
<1> QED
  BY <1>1, <1>2 DEF Refresh, RotateRefreshAtomically, s

\* A revocation takes effect on what it saw.
LEMMA RevokingStep ==
  ASSUME StaffInv, NEW r \in Requests, FinishRevoking(r), UNCHANGED <<staffVars, changes>>
  PROVE  StaffInv' /\ NoMoreTokens
<1> DEFINE over == RevokedNow(r)
<1>1. /\ request[r].at = "revoking" /\ request' = [request EXCEPT ![r] = Idle]
      /\ session' = [s \in SessionIds |-> [session[s] EXCEPT !.revoked = session[s].revoked \/ s \in over]]
      /\ token' = [t \in TokenIds |-> [token[t] EXCEPT !.revoked = token[t].revoked \/
                     (t \in request[r].tokens /\ token[t].session \in over)]]
      /\ UNCHANGED <<account, roles, access, dropped, juryVars, owner, enrolled, permits, changes>>
  BY DEF FinishRevoking, At, Done, staffVars
<1>2. \A s \in over : session[s].user = request[r].user /\ session[s].user # None
  BY NoneFresh, <1>1 DEF RevokedNow, StaffInv, RequestsRight, Staged
<1>3. \A s \in SessionIds : Awaits(request[r], s) => s \in over \/ session[s].revoked
  BY <1>1 DEF Awaits, RevokedNow
<1> HIDE DEF over
<1>4. ASSUME NEW s \in SessionIds
      PROVE  /\ session'[s] \in SessionRow /\ session'[s].user = session[s].user
             /\ session'[s].expired = session[s].expired
             /\ session'[s].revoked <=> session[s].revoked \/ s \in over
  <2> DEFINE b == session[s].revoked \/ s \in over
  <2>1. session[s] \in SessionRow /\ b \in BOOLEAN /\ (b <=> session[s].revoked \/ s \in over)
    BY DEF StaffInv, TypeOK, SessionRow
  <2>2. session'[s] = [session[s] EXCEPT !.revoked = b]
    BY <1>1
  <2> HIDE DEF b
  <2> QED
    BY <2>1, <2>2 DEF SessionRow
<1>5. ASSUME NEW t \in TokenIds
      PROVE  /\ token'[t] \in TokenRow /\ token'[t].session = token[t].session
             /\ token'[t].used = token[t].used
             /\ token[t].revoked => token'[t].revoked
  <2> DEFINE b == token[t].revoked \/ (t \in request[r].tokens /\ token[t].session \in over)
  <2>1. token[t] \in TokenRow /\ b \in BOOLEAN /\ (token[t].revoked => b)
    BY DEF StaffInv, TypeOK, TokenRow
  <2>2. token'[t] = [token[t] EXCEPT !.revoked = b]
    BY <1>1
  <2> HIDE DEF b
  <2> QED
    BY <2>1, <2>2 DEF TokenRow
<1>6. session' \in [SessionIds -> SessionRow] /\ token' \in [TokenIds -> TokenRow]
  BY <1>1, <1>4, <1>5
<1>7. SessionsGoOn
  BY <1>2, <1>4, <1>5, <1>6 DEF SessionsGoOn, StaffInv, SessionsFirst
<1>8. OneLiveToken'
  BY <1>5 DEF StaffInv, OneLiveToken, TokensOf, Live
<1>9. /\ Idle \in RequestRow /\ Staged(Idle)' /\ Realm(Idle)
      /\ \A s \in SessionIds : Awaits(request[r], s) => ~Active(s)'
      /\ Idle.at # "mint"
  BY <1>3, <1>4, IdleRow DEF Active, Idle, Staged
<1> QED
  BY <1>1, <1>7, <1>8, <1>9, SessionsMove

\* A session runs out.
LEMMA ExpiryStep ==
  ASSUME StaffInv, NEW s \in SessionIds, SessionExpires(s), UNCHANGED <<staffVars, changes>>
  PROVE  StaffInv' /\ NoMoreTokens
<1>1. /\ session' = [session EXCEPT ![s].expired = TRUE] /\ session[s].user # None
      /\ UNCHANGED <<account, roles, token, access, dropped, juryVars, request, owner, enrolled, permits, changes>>
  BY DEF SessionExpires, Active, staffVars
<1>2. /\ session' \in [SessionIds -> SessionRow] /\ session'[s].user = session[s].user
      /\ session'[s].expired /\ session'[s].revoked = session[s].revoked
      /\ \A z \in SessionIds : z # s => session'[z] = session[z]
  BY <1>1 DEF StaffInv, TypeOK, SessionRow
<1>3. SessionsGoOn
  BY <1>1, <1>2 DEF SessionsGoOn, StaffInv, TypeOK, TokenRow, SessionsFirst
<1>4. OneLiveToken'
  BY <1>1 DEF StaffInv, OneLiveToken, TokensOf, Live
<1> QED
  BY <1>1, <1>3, <1>4, SessionsMove

\* The lock of an account runs out.
LEMMA LockStep ==
  ASSUME StaffInv, NEW u \in Accounts, LockPasses(u), UNCHANGED <<staffVars, changes>>
  PROVE  StaffInv' /\ NoMoreTokens
<1>1. /\ account' = [account EXCEPT ![u].locked = FALSE]
      /\ UNCHANGED <<roles, session, token, access, dropped, juryVars, request, owner, enrolled, permits, changes>>
  BY DEF LockPasses, staffVars
<1>2. /\ account' \in [Accounts -> [exists: BOOLEAN, by: Organisers \cup {None}, status: {"ACTIVE", "BLOCKED"},
                                 failed: 0 .. MaxFailed, locked: BOOLEAN]]
      /\ \A v \in Accounts : account'[v].exists = account[v].exists /\ account'[v].by = account[v].by
  BY <1>1 DEF StaffInv, TypeOK, juryVars
<1>3. TypeOK'
  BY <1>1, <1>2 DEF StaffInv, TypeOK, juryVars
<1> QED
  BY <1>1, <1>2, <1>3, StaffMove DEF StaffInv, RequestsRight

\* The role a refresh signs is one it read, or one it takes for none.
LEMMA SignedIsHeld ==
  ASSUME NEW codes, NEW jury
  PROVE  RolesSigned(codes, jury) \subseteq codes \cup {"CONTESTANT", "JURY"}
  BY DEF RolesSigned, PrimaryRoles

\* The role every contestant has is of the lowest rank: with it a refresh finds the same.
LEMMA ContestantIsLowest ==
  ASSUME NEW codes \in SUBSET Codes, NEW jury
  PROVE  RolesSigned(codes \cup {"CONTESTANT"}, jury) = RolesSigned(codes, jury)
<1>1. \A code \in Codes : Rank(code) \in Nat /\ Rank(code) >= 1 /\ Rank("CONTESTANT") = 1 /\ Rank("JURY") = 2
  BY DEF Codes, Rank
<1> DEFINE best(set) == {code \in set \cup {"CONTESTANT"} : \A other \in set : Rank(other) <= Rank(code)}
           low(set) == \A code \in set : Rank(code) < Rank("JURY")
<1>2. best(codes \cup {"CONTESTANT"}) = best(codes)
  <2>1. \A code \in codes \cup {"CONTESTANT"} : Rank("CONTESTANT") <= Rank(code)
    BY <1>1 DEF Codes
  <2> QED
    BY <2>1
<1>3. low(codes \cup {"CONTESTANT"}) <=> low(codes)
  BY <1>1 DEF Codes
<1>4. PrimaryRoles(codes \cup {"CONTESTANT"}) = PrimaryRoles(codes)
  BY <1>2 DEF PrimaryRoles
<1> QED
  BY <1>3, <1>4 DEF RolesSigned

\* The roles are read after the rotation: of a failed read the rows it got.
LEMMA ReadStep ==
  ASSUME StaffInv, NEW r \in Requests, PrimaryRole(r), UNCHANGED <<staffVars, changes>>
  PROVE  StaffInv' /\ NoMoreTokens
<1> DEFINE own == request[r].session
           u == request[r].user
<1>1. /\ request[r] \in RequestRow /\ Staged(request[r]) /\ request[r].at = "read"
      /\ own \in SessionIds /\ u \in Accounts /\ session[own].user = u /\ account[u].exists
      /\ UNCHANGED <<account, roles, session, token, access, dropped, remoteJury, owner, enrolled, permits, changes>>
  BY DEF PrimaryRole, At, StaffInv, RequestsRight, Staged, staffVars
<1>2. PICK rows \in SUBSET roles[u] :
        /\ request' = [request EXCEPT ![r] = [request[r] EXCEPT !.at = "mint", !.entries = rows]]
        /\ unsure' = IF rows = roles[u] THEN unsure ELSE unsure \cup {own}
  BY DEF PrimaryRole, RowsRead, StaffInv, RequestsRight
<1>3. rows \subseteq Entries /\ roles[u] \subseteq Entries
  BY <1>1, <1>2 DEF StaffInv, TypeOK, juryVars
<1>4. PICK x \in RequestRow :
        /\ request' = [request EXCEPT ![r] = x] /\ x.at = "mint" /\ x.entries = rows
        /\ x.session = own /\ x.user = u /\ x.op = request[r].op
  <2> DEFINE y == [request[r] EXCEPT !.at = "mint", !.entries = rows]
  <2>1. /\ y \in RequestRow /\ y.at = "mint" /\ y.entries = rows /\ y.session = own /\ y.user = u
        /\ y.op = request[r].op
    BY <1>1, <1>3 DEF RequestRow
  <2>2. request' = [request EXCEPT ![r] = y]
    BY <1>2
  <2> HIDE DEF y
  <2> QED
    BY <2>1, <2>2
<1>5. u = request[r].user /\ own = request[r].session
  OBVIOUS
<1>6. request' = [request EXCEPT ![r] = x]
  BY <1>4
<1> HIDE DEF own, u
<1>7. /\ request' \in [Requests -> RequestRow] /\ request'[r] = x
      /\ \A q \in Requests : q # r => request'[q] = request[q]
  BY <1>4, <1>6 DEF StaffInv, RequestsRight
<1>8. Staged(x)' /\ Realm(x)'
  <2>1. x.op \notin {"assign", "remove"}
    BY <1>1, <1>4, <1>5, NoneFresh DEF Staged
  <2> QED
    BY <1>1, <1>3, <1>4, <2>1 DEF Staged, Realm
<1>9. TypeOK'
  BY <1>1, <1>2 DEF StaffInv, TypeOK, juryVars
<1>10. RequestsRight'
  <2>1. \A q \in Requests : q # r => Staged(request[q])' /\ Realm(request[q])'
    BY <1>1, <1>7 DEF StaffInv, RequestsRight, Staged, Realm, Granted
  <2> QED
    BY <1>7, <1>8, <2>1 DEF RequestsRight
<1>11. AccountsFirst' /\ SessionsFirst' /\ OneLiveToken' /\ NoMoreTokens /\ RealmsApart'
  BY <1>1 DEF StaffInv, AccountsFirst, SessionsFirst, OneLiveToken, TokensOf, Live, NoMoreTokens, RealmsApart
<1>12. RolesFollow'
  <2> SUFFICES ASSUME NEW s \in SessionIds, Active(s)
               PROVE  Told(s)' \/ Excused(s)'
    BY <1>1 DEF RolesFollow, Active
  <2>1. Excused(s) => Excused(s)'
    BY <1>1, <1>7 DEF Excused, Awaits
  <2>2. ASSUME Told(s)
        PROVE  Told(s)'
    <3>1. RolesOnRefresh(session[s].user)' = RolesOnRefresh(session[s].user)
      BY <1>1 DEF RolesOnRefresh, HasRemoteJury
    <3>2. RolesHeld(session[s].user)' = RolesHeld(session[s].user) /\ unsure \subseteq unsure'
      BY <1>1, <1>2 DEF RolesHeld
    <3>3. s = own => RowsTold(s, rows)'
      BY <1>1, <1>2 DEF RowsTold, SameCodes, RolesHeld, CodesOf
    <3> QED
      BY <1>1, <1>4, <1>7, <2>2, <3>1, <3>2, <3>3 DEF Told, RoleTold, RowsTold
  <2> QED
    BY <2>1, <2>2 DEF StaffInv, RolesFollow
<1> QED
  BY <1>9, <1>10, <1>11, <1>12 DEF StaffInv

\* The role is signed after the jury is asked for.
LEMMA MintStep ==
  ASSUME StaffInv, NEW r \in Requests, MintTokenPair(r), UNCHANGED <<staffVars, changes>>
  PROVE  StaffInv' /\ NoMoreTokens
<1> DEFINE s == request[r].session
           u == request[r].user
           rows == request[r].entries
<1>1. /\ request[r].at = "mint" /\ s \in SessionIds /\ u \in Accounts /\ session[s].user = u /\ rows \subseteq Entries
      /\ UNCHANGED <<account, roles, session, token, dropped, remoteJury, owner, enrolled, permits, changes>>
      /\ request' = [request EXCEPT ![r] = Idle]
  BY DEF MintTokenPair, At, Done, StaffInv, RequestsRight, Staged, staffVars
<1>0. PICK jury \in JuryAnswers(u) :
        /\ \E code \in RolesSigned(CodesOf(rows), jury) : access' = [access EXCEPT ![s] = access[s] \cup {code}]
        /\ unsure' = IF jury = HasRemoteJury(u) THEN unsure ELSE unsure \cup {s}
  BY DEF MintTokenPair
<1>2. PICK role \in RolesSigned(CodesOf(rows), jury) :
        /\ access' = [access EXCEPT ![s] = access[s] \cup {role}]
        /\ unsure' = IF jury = HasRemoteJury(u) THEN unsure ELSE unsure \cup {s}
  BY <1>0
<1>3. role \in CodesOf(rows) \cup {"CONTESTANT", "JURY"} /\ CodesOf(rows) \subseteq Codes /\ role \in Codes
  <2>1. CodesOf(rows) \subseteq Codes
    BY <1>1 DEF CodesOf, Entries
  <2>2. role \in CodesOf(rows) \cup {"CONTESTANT", "JURY"}
    BY <1>2, SignedIsHeld
  <2> QED
    BY <2>1, <2>2 DEF Codes
<1>4. request[r].session = s /\ request[r].entries = rows
  OBVIOUS
<1> HIDE DEF s, u, rows
<1>5. access' \in [SessionIds -> SUBSET Codes] /\ access'[s] = access[s] \cup {role}
      /\ \A z \in SessionIds : z # s => access'[z] = access[z]
  BY <1>1, <1>2, <1>3 DEF StaffInv, TypeOK, juryVars
<1>6. TypeOK'
  BY <1>1, <1>2, <1>5 DEF StaffInv, TypeOK, juryVars
<1>7. /\ request' \in [Requests -> RequestRow] /\ request'[r] = Idle
      /\ \A q \in Requests : q # r => request'[q] = request[q]
  BY <1>1, IdleRow DEF StaffInv, RequestsRight
<1>8. RequestsRight'
  BY <1>1, <1>7, IdleRow DEF StaffInv, RequestsRight, Staged, Realm, Granted, Idle
<1>9. AccountsFirst' /\ SessionsFirst'
  BY <1>1, <1>5, NoneFresh DEF StaffInv, AccountsFirst, SessionsFirst
<1>10. OneLiveToken' /\ NoMoreTokens /\ RealmsApart'
  BY <1>1 DEF StaffInv, OneLiveToken, TokensOf, Live, NoMoreTokens, RealmsApart
<1>11. RolesFollow'
  <2> SUFFICES ASSUME NEW z \in SessionIds, Active(z)
               PROVE  Told(z)' \/ Excused(z)'
    BY <1>1 DEF RolesFollow, Active
  <2>1. Excused(z) => Excused(z)'
    BY <1>1, <1>7 DEF Excused, Awaits
  <2>2. ASSUME Told(z)
        PROVE  Told(z)'
    <3>1. RolesOnRefresh(session[z].user)' = RolesOnRefresh(session[z].user)
      BY <1>1 DEF RolesOnRefresh, HasRemoteJury
    <3>2. RolesHeld(session[z].user)' = RolesHeld(session[z].user) /\ unsure \subseteq unsure'
      BY <1>1, <1>2 DEF RolesHeld
    <3>3. ASSUME z = s
          PROVE  RoleTold(z, role)'
      <4>1. RowsTold(s, rows)
        BY <1>1, <1>4, <2>2, <3>3 DEF Told
      <4>2. CASE s \in unsure' /\ CodesOf(rows) \subseteq RolesHeld(u)
        BY <1>1, <1>3, <3>2, <3>3, <4>2 DEF RoleTold, RolesHeld
      <4>3. CASE SameCodes(rows, roles[u]) /\ jury = HasRemoteJury(u)
        <5>1. CodesOf(roles[u]) \subseteq Codes
          BY <1>1 DEF StaffInv, TypeOK, CodesOf, Entries
        <5>2. RolesSigned(CodesOf(rows), jury) = RolesSigned(CodesOf(roles[u]), jury)
          BY <1>3, <4>3, <5>1, ContestantIsLowest DEF SameCodes
        <5>3. role \in RolesOnRefresh(u)
          BY <1>2, <4>3, <5>2 DEF RolesOnRefresh
        <5> QED
          BY <1>1, <3>1, <3>3, <5>3 DEF RoleTold
      <4>4. SameCodes(rows, roles[u]) => CodesOf(rows) \subseteq RolesHeld(u)
        BY DEF SameCodes, RolesHeld
      <4> QED
        BY <1>1, <1>2, <4>1, <4>2, <4>3, <4>4 DEF RowsTold
    <3> QED
      BY <1>1, <1>5, <1>7, <2>2, <3>1, <3>2, <3>3, IdleRow DEF Told, RoleTold, RowsTold
  <2> QED
    BY <2>1, <2>2 DEF StaffInv, RolesFollow
<1> QED
  BY <1>6, <1>8, <1>9, <1>10, <1>11 DEF StaffInv

\* Who is jury of a challenge marked remotely changes: no session is revoked.
LEMMA JuryStep ==
  ASSUME StaffInv, NEW u \in Accounts, ChangeRemoteJury(u)
  PROVE  StaffInv' /\ NoMoreTokens
<1>1. /\ UNCHANGED <<account, roles, session, token, access, dropped, request, owner, enrolled, permits>>
      /\ changes' \in 0 .. MaxChanges /\ remoteJury' \subseteq Accounts
      /\ unsure' = unsure \cup {s \in SessionIds : session[s].user = u}
      /\ \A v \in Accounts : v # u => (v \in remoteJury' <=> v \in remoteJury)
  BY MaxChangesNat DEF ChangeRemoteJury, Begin, StaffInv, TypeOK, staffVars
<1>2. TypeOK' /\ RequestsRight'
  BY <1>1 DEF StaffInv, TypeOK, RequestsRight, Staged, Realm, Granted
<1>3. AccountsFirst' /\ SessionsFirst' /\ OneLiveToken' /\ NoMoreTokens /\ RealmsApart'
  BY <1>1 DEF StaffInv, AccountsFirst, SessionsFirst, OneLiveToken, TokensOf, Live, NoMoreTokens, RealmsApart
<1>4. RolesFollow'
  <2> SUFFICES ASSUME NEW s \in SessionIds, Active(s)
               PROVE  Told(s)' \/ Excused(s)'
    BY <1>1 DEF RolesFollow, Active
  <2>1. Excused(s) => Excused(s)'
    BY <1>1 DEF Excused, Awaits
  <2>2. ASSUME Told(s)
        PROVE  Told(s)'
    <3>1. session[s].user \in Accounts
      BY DEF Active, StaffInv, TypeOK
    <3>2. RolesHeld(session[s].user)' = RolesHeld(session[s].user) /\ unsure \subseteq unsure'
      BY <1>1 DEF RolesHeld
    <3>3. session[s].user # u => RolesOnRefresh(session[s].user)' = RolesOnRefresh(session[s].user)
      BY <1>1, <3>1 DEF RolesOnRefresh, HasRemoteJury
    <3>4. session[s].user = u => s \in unsure'
      BY <1>1
    <3>5. RolesOnRefresh(session[s].user) \subseteq RolesHeld(session[s].user)
      BY SignedIsHeld DEF RolesOnRefresh, RolesHeld
    <3> QED
      BY <1>1, <2>2, <3>2, <3>3, <3>4, <3>5 DEF Told, RoleTold, RowsTold
  <2> QED
    BY <2>1, <2>2 DEF StaffInv, RolesFollow
<1> QED
  BY <1>2, <1>3, <1>4 DEF StaffInv

-----------------------------------------------------------------------------
(* Steps that write roles, permissions and contests. *)

\* Roles are written by a request that goes on to revoke the sessions.
LEMMA RolesMove ==
  ASSUME StaffInv, NEW r \in Requests, StoreRole(r) \/ DeleteRole(r)
  PROVE  StaffInv' /\ NoMoreTokens
<1> DEFINE u == request[r].user
<1>1. /\ request[r] \in RequestRow /\ Staged(request[r]) /\ Realm(request[r])
      /\ request[r].at = "write" /\ request[r].op \in {"assign", "remove"}
      /\ u \in Accounts /\ account[u].exists /\ request[r].entries \subseteq Entries
      /\ UNCHANGED <<account, session, token, access, dropped, juryVars, owner, enrolled, permits, changes>>
  BY DEF StoreRole, DeleteRole, At, StaffInv, RequestsRight, Staged, staffVars
<1>2. PICK entries \in SUBSET Entries :
        /\ roles' = [roles EXCEPT ![u] = entries]
        /\ \A entry \in entries : entry \in roles[u] \/ Granted(entry, u)
  <2> DEFINE stored == (roles[u] \ SameRow(request[r].entries, roles[u])) \cup request[r].entries
             removed == roles[u] \ SameRow(request[r].entries, roles[u])
  <2>1. roles[u] \subseteq Entries
    BY <1>1 DEF StaffInv, TypeOK, juryVars
  <2>2. CASE StoreRole(r)
    <3>1. roles' = [roles EXCEPT ![u] = stored] /\ request[r].op = "assign"
      BY <2>2 DEF StoreRole
    <3>2. stored \subseteq Entries /\ \A entry \in stored : entry \in roles[u] \/ Granted(entry, u)
      BY <1>1, <2>1, <3>1 DEF Realm
    <3> QED
      BY <3>1, <3>2
  <2>3. CASE DeleteRole(r)
    <3>1. roles' = [roles EXCEPT ![u] = removed] /\ removed \subseteq roles[u]
      BY <2>3 DEF DeleteRole
    <3> QED
      BY <2>1, <3>1
  <2> QED
    BY <2>2, <2>3
<1>3. PICK x \in RequestRow :
        /\ request' = [request EXCEPT ![r] = x] /\ x.at = "revoke" /\ x.op = request[r].op
        /\ x.user = u /\ x.session = request[r].session /\ x.entries = request[r].entries
  <2> DEFINE y == [request[r] EXCEPT !.at = "revoke"]
  <2>1. y \in RequestRow /\ y.at = "revoke" /\ y.op = request[r].op /\ y.user = u
        /\ y.session = request[r].session /\ y.entries = request[r].entries
    BY <1>1 DEF RequestRow
  <2>2. request' = [request EXCEPT ![r] = y]
    BY DEF StoreRole, DeleteRole, Goto
  <2> HIDE DEF y
  <2> QED
    BY <2>1, <2>2
<1>4. u \in Accounts /\ account[u].exists /\ u = request[r].user
  BY <1>1
<1> HIDE DEF u
<1>5. /\ request' \in [Requests -> RequestRow] /\ request'[r] = x
      /\ \A q \in Requests : q # r => request'[q] = request[q]
      /\ roles' \in [Accounts -> SUBSET Entries] /\ roles'[u] = entries
      /\ \A v \in Accounts : v # u => roles'[v] = roles[v]
  BY <1>2, <1>3, <1>4 DEF StaffInv, RequestsRight, TypeOK
<1>6. TypeOK'
  BY <1>1, <1>5 DEF StaffInv, TypeOK, juryVars
<1>7. RequestsRight'
  <2>1. Staged(x)' /\ Realm(x)'
    BY <1>1, <1>3, <1>4 DEF Staged, Realm
  <2> QED
    BY <1>1, <1>5, <2>1 DEF StaffInv, RequestsRight, Staged, Realm, Granted
<1>8. AccountsFirst' /\ SessionsFirst'
  BY <1>1, <1>4, <1>5 DEF StaffInv, AccountsFirst, SessionsFirst
<1>9. OneLiveToken' /\ NoMoreTokens
  BY <1>1 DEF StaffInv, OneLiveToken, TokensOf, Live, NoMoreTokens
<1>10. RolesFollow'
  <2> SUFFICES ASSUME NEW s \in SessionIds, Active(s)
               PROVE  Told(s)' \/ Excused(s)'
    BY <1>1 DEF RolesFollow, Active
  <2>1. CASE session[s].user = u
    BY <1>1, <1>3, <1>5, <2>1 DEF Excused, Awaits
  <2>2. CASE session[s].user # u
    <3>1. session[s].user \in Accounts
      BY DEF Active, StaffInv, TypeOK
    <3>2. ~Awaits(request[r], s)
      BY <1>4, <2>2 DEF Awaits
    <3>3. Excused(s) => Excused(s)'
      BY <1>1, <1>5, <3>2 DEF Excused, Awaits
    <3>4. \A q \in Requests : request'[q] = request[q] \/ request'[q].at # "mint"
      BY <1>3, <1>5
    <3>5. Told(s) => Told(s)'
      BY <1>1, <1>5, <2>2, <3>1, <3>4, ToldStays
    <3> QED
      BY <3>3, <3>5 DEF StaffInv, RolesFollow
  <2> QED
    BY <2>1, <2>2
<1>11. RealmsApart'
  BY <1>1, <1>2, <1>4, <1>5 DEF StaffInv, RealmsApart, Granted
<1> QED
  BY <1>6, <1>7, <1>8, <1>9, <1>10, <1>11 DEF StaffInv

\* The role CONTESTANT is added, and nothing is revoked.
LEMMA AttachStep ==
  ASSUME StaffInv, NEW r \in Requests, AttachContestant(r)
  PROVE  StaffInv' /\ NoMoreTokens
<1> DEFINE u == request[r].user
           c == request[r].contest
           entry == [code |-> "CONTESTANT", scope |-> c, level |-> "none", mega |-> request[r].mega]
<1>1. /\ request[r] \in RequestRow /\ Realm(request[r]) /\ request[r].at = "attach"
      /\ u \in Accounts /\ account[u].exists /\ c \in Contests
      /\ UNCHANGED <<account, session, token, access, dropped, juryVars, owner, permits, changes>>
      /\ request' = [request EXCEPT ![r] = Idle] /\ enrolled' = enrolled \cup {<<u, c>>}
  BY DEF AttachContestant, At, Done, StaffInv, RequestsRight, Staged
<1>2. entry \in Entries /\ entry.code = "CONTESTANT" /\ Granted(entry, u)
  <2>1. entry \in Entries /\ entry.code = "CONTESTANT" /\ entry.scope = c /\ entry.mega = request[r].mega
    BY <1>1 DEF Entries, Codes, Levels, Scopes, RequestRow
  <2> QED
    BY <1>1, <2>1 DEF Granted, Realm
<1>3. roles' = [roles EXCEPT ![u] = roles[u] \cup {entry}] \/ roles' = [roles EXCEPT ![u] = roles[u]]
  BY DEF AttachContestant
<1>4. u = request[r].user
  OBVIOUS
<1> HIDE DEF u, c, entry
<1>5. PICK entries \in {roles[u], roles[u] \cup {entry}} :
        /\ roles' \in [Accounts -> SUBSET Entries] /\ roles'[u] = entries
        /\ \A v \in Accounts : v # u => roles'[v] = roles[v]
  <2>1. roles[u] \subseteq Entries /\ roles[u] \cup {entry} \subseteq Entries
    BY <1>1, <1>2 DEF StaffInv, TypeOK, juryVars
  <2>2. ASSUME NEW entries \in {roles[u], roles[u] \cup {entry}}, roles' = [roles EXCEPT ![u] = entries]
        PROVE  /\ roles' \in [Accounts -> SUBSET Entries] /\ roles'[u] = entries
               /\ \A v \in Accounts : v # u => roles'[v] = roles[v]
    BY <1>1, <2>1, <2>2 DEF StaffInv, TypeOK, juryVars
  <2> QED
    BY <1>3, <2>2
<1>6. TypeOK'
  <2>1. enrolled' \subseteq Accounts \X Contests
    BY <1>1 DEF StaffInv, TypeOK, juryVars
  <2> QED
    BY <1>1, <1>5, <2>1 DEF StaffInv, TypeOK, juryVars
<1>7. /\ request' \in [Requests -> RequestRow] /\ request'[r] = Idle
      /\ \A q \in Requests : q # r => request'[q] = request[q]
  BY <1>1, IdleRow DEF StaffInv, RequestsRight
<1>8. RequestsRight'
  BY <1>1, <1>7, IdleRow DEF StaffInv, RequestsRight, Staged, Realm, Granted, Idle
<1>9. AccountsFirst' /\ SessionsFirst'
  BY <1>1, <1>5 DEF StaffInv, AccountsFirst, SessionsFirst
<1>10. OneLiveToken' /\ NoMoreTokens
  BY <1>1 DEF StaffInv, OneLiveToken, TokensOf, Live, NoMoreTokens
<1>11. ASSUME NEW v \in Accounts
       PROVE  /\ RolesOnRefresh(v)' = RolesOnRefresh(v) /\ RolesHeld(v)' = RolesHeld(v)
              /\ CodesOf(roles'[v]) \cup {"CONTESTANT"} = CodesOf(roles[v]) \cup {"CONTESTANT"}
  <2>1. CodesOf(roles[v]) \subseteq Codes
    BY DEF StaffInv, TypeOK, CodesOf, Entries
  <2>2. CodesOf(roles'[v]) = CodesOf(roles[v]) \/ CodesOf(roles'[v]) = CodesOf(roles[v]) \cup {"CONTESTANT"}
    <3>1. CodesOf(roles[u] \cup {entry}) = CodesOf(roles[u]) \cup {"CONTESTANT"}
      BY <1>2 DEF CodesOf
    <3>2. roles'[v] = roles[v] \/ (v = u /\ roles'[v] = roles[u] \cup {entry})
      BY <1>5
    <3> QED
      BY <3>1, <3>2
  <2>3. HasRemoteJury(v)' = HasRemoteJury(v)
    BY <1>1, <2>2 DEF HasRemoteJury, juryVars
  <2>4. RolesSigned(CodesOf(roles'[v]), HasRemoteJury(v)) = RolesSigned(CodesOf(roles[v]), HasRemoteJury(v))
    BY <2>1, <2>2, ContestantIsLowest
  <2>5. RolesOnRefresh(v)' = RolesOnRefresh(v)
    BY <2>3, <2>4 DEF RolesOnRefresh
  <2> QED
    BY <2>2, <2>5 DEF RolesHeld
<1>12. RolesFollow'
  <2> SUFFICES ASSUME NEW s \in SessionIds, Active(s)
               PROVE  Told(s)' \/ Excused(s)'
    BY <1>1 DEF RolesFollow, Active
  <2>1. session[s].user \in Accounts /\ ~Awaits(request[r], s)
    BY <1>1 DEF Active, StaffInv, TypeOK, Awaits
  <2>2. Excused(s) => Excused(s)'
    BY <1>1, <1>7, <2>1 DEF Excused, Awaits
  <2>3. Told(s) => Told(s)'
    BY <1>1, <1>7, <1>11, <2>1, IdleRow DEF Told, RoleTold, RowsTold, SameCodes, juryVars
  <2> QED
    BY <2>2, <2>3 DEF StaffInv, RolesFollow
<1>13. RealmsApart'
  BY <1>1, <1>2, <1>5 DEF StaffInv, RealmsApart, Granted
<1> QED
  BY <1>6, <1>8, <1>9, <1>10, <1>12, <1>13 DEF StaffInv

\* Permissions are deleted, then inserted.
LEMMA PermitsStep ==
  ASSUME StaffInv, NEW r \in Requests, ClearPermissions(r) \/ InsertPermissions(r)
  PROVE  StaffInv' /\ NoMoreTokens
<1> DEFINE u == request[r].user
           c == request[r].contest
<1>1. /\ request[r] \in RequestRow /\ Realm(request[r]) /\ request[r].at \in {"delete", "insert"}
      /\ u \in Accounts /\ account[u].exists /\ c \in Contests /\ request[r].entries \subseteq Permissions
      /\ UNCHANGED <<account, roles, session, token, access, dropped, juryVars, owner, enrolled, changes>>
      /\ request' = [request EXCEPT ![r] = Idle]
  BY DEF ClearPermissions, InsertPermissions, At, Done, StaffInv, RequestsRight, Staged, sessionVars
<1>2. Wanted(r) \subseteq Rows /\ \A row \in Wanted(r) : row.user = u /\ row.contest = c /\ row.mega = request[r].mega
  BY <1>1 DEF Wanted, Rows, RequestRow
<1>3. \A row \in permits' : row \in permits \/ row \in Wanted(r)
  BY DEF ClearPermissions, InsertPermissions
<1>4. u = request[r].user /\ c = request[r].contest
  OBVIOUS
<1> HIDE DEF u, c
<1>5. TypeOK'
  BY <1>1, <1>2, <1>3 DEF StaffInv, TypeOK, juryVars
<1>6. /\ request' \in [Requests -> RequestRow] /\ request'[r] = Idle
      /\ \A q \in Requests : q # r => request'[q] = request[q]
  BY <1>1, IdleRow DEF StaffInv, RequestsRight
<1>7. RequestsRight'
  BY <1>1, <1>6, IdleRow DEF StaffInv, RequestsRight, Staged, Realm, Granted, Idle
<1>8. AccountsFirst' /\ SessionsFirst'
  BY <1>1, <1>2, <1>3 DEF StaffInv, AccountsFirst, SessionsFirst
<1>9. OneLiveToken' /\ NoMoreTokens
  BY <1>1 DEF StaffInv, OneLiveToken, TokensOf, Live, NoMoreTokens
<1>10. RolesFollow'
  <2>1. \A s \in SessionIds : Excused(s) => Excused(s)'
    BY <1>1, <1>6 DEF Excused, Awaits
  <2>2. \A q \in Requests : request'[q] = request[q] \/ request'[q].at # "mint"
    BY <1>6, IdleRow
  <2>3. \A s \in SessionIds : Told(s) => Told(s)'
    BY <1>1, <2>2, ToldStays
  <2> QED
    BY <1>1, <2>1, <2>3 DEF StaffInv, RolesFollow, Active
<1>11. RealmsApart'
  BY <1>1, <1>2, <1>3, <1>4 DEF StaffInv, RealmsApart, Realm
<1> QED
  BY <1>5, <1>7, <1>8, <1>9, <1>10, <1>11 DEF StaffInv

\* A contest nobody owned has an owner: what was granted there was granted by a MEGA_ADMIN.
LEMMA ContestStep ==
  ASSUME StaffInv, NEW a \in Organisers, NEW c \in Contests,
         CreateContest(a, c) \/ \E u \in Accounts : RemoveContestant(a, u, c)
  PROVE  StaffInv' /\ NoMoreTokens
<1>1. UNCHANGED <<account, roles, session, token, access, dropped, juryVars, request, permits, changes>>
  BY DEF CreateContest, RemoveContestant, sessionVars
<1>2. CASE CreateContest(a, c)
  <2>1. /\ owner' \in [Contests -> Organisers \cup {None}] /\ UNCHANGED enrolled
        /\ \A d \in Contests : owner[d] # None => owner'[d] = owner[d]
    BY <1>2 DEF CreateContest, StaffInv, TypeOK
  <2>2. TypeOK'
    BY <1>1, <2>1 DEF StaffInv, TypeOK, juryVars
  <2>3. \A u \in Accounts, d \in Contests : account[u].exists /\ account[u].by = owner[d] => owner'[d] = owner[d]
    BY <2>1, OrganisersDisjoint DEF StaffInv, AccountsFirst, Organisers
  <2>4. RequestsRight'
    <3> SUFFICES ASSUME NEW q \in Requests
                 PROVE  Staged(request[q])' /\ Realm(request[q])'
      BY <1>1 DEF StaffInv, RequestsRight
    <3>1. request[q] \in RequestRow /\ Staged(request[q]) /\ Realm(request[q])
      BY DEF StaffInv, RequestsRight
    <3>2. Staged(request[q])'
      BY <1>1, <3>1 DEF Staged
    <3>3. \A entry \in Entries, v \in Accounts : account[v].exists /\ Granted(entry, v) => Granted(entry, v)'
      BY <1>1, <2>3 DEF Granted, Entries, Scopes
    <3>4. Realm(request[q])'
      BY <1>1, <2>3, <3>1, <3>3 DEF Realm, Staged
    <3> QED
      BY <3>2, <3>4
  <2>5. RealmsApart'
    <3> SUFFICES ASSUME NEW u \in Accounts
                 PROVE  /\ \A entry \in roles[u] : ~entry.mega /\ entry.scope # Global => account[u].by = owner'[entry.scope]
                        /\ \A row \in permits : row.user = u /\ ~row.mega => account[u].by = owner'[row.contest]
      BY <1>1 DEF RealmsApart
    <3>1. roles[u] \subseteq Entries /\ permits \subseteq Rows
      BY DEF StaffInv, TypeOK, juryVars
    <3>2. \A entry \in roles[u] : entry.scope # Global => entry.scope \in Contests
      BY <3>1 DEF Entries, Scopes
    <3>3. \A row \in permits : row.contest \in Contests
      BY <3>1 DEF Rows
    <3>4. roles[u] # {} \/ (\E row \in permits : row.user = u) => account[u].exists
      BY DEF StaffInv, AccountsFirst
    <3> QED
      BY <2>3, <3>2, <3>3, <3>4 DEF StaffInv, RealmsApart
  <2>6. RolesFollow'
    <3>1. \A s \in SessionIds : Told(s) => Told(s)'
      BY <1>1, ToldStays
    <3> QED
      BY <1>1, <3>1 DEF StaffInv, RolesFollow, Active, Excused, Awaits
  <2> QED
    BY <1>1, <2>2, <2>4, <2>5, <2>6 DEF StaffInv, AccountsFirst, SessionsFirst, OneLiveToken, TokensOf, Live, NoMoreTokens
<1>3. CASE \E u \in Accounts : RemoveContestant(a, u, c)
  <2>1. TypeOK' /\ UNCHANGED owner
    BY <1>1, <1>3 DEF RemoveContestant, StaffInv, TypeOK, juryVars, sessionVars
  <2> QED
    BY <1>1, <2>1, StaffMove DEF StaffInv, RequestsRight
<1> QED
  BY <1>2, <1>3

\* Every step keeps the invariant, and what is over gets no token.
LEMMA StaffStep ==
  ASSUME StaffInv, [Next]_vars
  PROVE  StaffInv' /\ NoMoreTokens
<1>1. CASE SessionNext /\ UNCHANGED <<staffVars, changes>>
  BY <1>1, UsersBegin, AccountsMove, RequestsMove, IssueStep, RefreshStep, RevokingStep, ReadStep, MintStep, LockStep, ExpiryStep
     DEF SessionNext
<1>2. CASE StaffNext
  <2>1. CASE \E a \in Organisers, u \in Accounts, r \in Requests :
               \/ ResetPassword(r, a, u)
               \/ \E status \in {"ACTIVE", "BLOCKED"} : SetStatus(r, a, u, status)
               \/ \E g \in Grantable : AssignRole(r, a, u, Grant(a, g)) \/ RemoveRole(r, a, u, Grant(a, g))
    BY <2>1, OrganisersBegin
  <2>2. CASE \E a \in Organisers, u \in Accounts, r \in Requests, c \in Contests :
               \/ AddContestant(r, a, u, c)
               \/ \E wanted \in SUBSET Permissions : ReplacePermissions(r, a, u, c, wanted)
    BY <2>2, ContestantBegins, PermitBegins
  <2>3. CASE \E a \in Organisers, u \in Accounts : AdminCreateUser(a, u)
    BY <2>3, CreationStep
  <2>4. CASE \E a \in Organisers, c \in Contests : CreateContest(a, c) \/ \E u \in Accounts : RemoveContestant(a, u, c)
    BY <2>4, ContestStep
  <2>8. CASE \E u \in Accounts : ChangeRemoteJury(u)
    BY <2>8, JuryStep
  <2>5. CASE \E r \in Requests : SetPassword(r) \/ StoreStatus(r)
    BY <2>5, AccountsMove DEF SetPassword, StoreStatus
  <2>6. CASE \E r \in Requests : DeletePermissions(r) \/ AttachFails(r)
    BY <2>6, RequestsMove DEF DeletePermissions, AttachFails
  <2>7. CASE \E r \in Requests : \/ StoreRole(r) \/ DeleteRole(r) \/ AttachContestant(r)
                                \/ ClearPermissions(r) \/ InsertPermissions(r)
    BY <2>7, RolesMove, AttachStep, PermitsStep
  <2> QED
    BY <1>2, <2>1, <2>2, <2>3, <2>4, <2>5, <2>6, <2>7, <2>8 DEF StaffNext
<1>3. CASE UNCHANGED vars
  <2>1. UNCHANGED <<account, roles, session, token, access, dropped, juryVars, request, owner, enrolled, permits, changes>>
    BY <1>3 DEF vars
  <2>2. TypeOK'
    BY <2>1 DEF StaffInv, TypeOK, juryVars
  <2> QED
    BY <2>1, <2>2, StaffMove DEF StaffInv, RequestsRight
<1> QED
  BY <1>1, <1>2, <1>3 DEF Next

-----------------------------------------------------------------------------
(* Theorems. *)

\* Requests in progress may rely on what they read: the inductive invariant.
THEOREM StaffCorrect == Spec => []StaffInv
<1>1. StaffInv /\ [Next]_vars => StaffInv'
  BY StaffStep
<1> QED
  BY StaffInit, <1>1, PTL DEF Spec

\* Accounts, sessions, tokens and grants are always of the declared type.
THEOREM StaffTyped == Spec => []TypeOK
<1>1. StaffInv => TypeOK
  BY DEF StaffInv
<1> QED
  BY StaffCorrect, <1>1, PTL

\* However many requests present the links of a session's chain, it has one live end.
THEOREM ChainSafe == Spec => []OneLiveToken
<1>1. StaffInv => OneLiveToken
  BY DEF StaffInv
<1> QED
  BY StaffCorrect, <1>1, PTL

\* What was granted in a contest was granted by its owner to an account of theirs, or by a
\* MEGA_ADMIN.
THEOREM RealmsSafe == Spec => []RealmsApart
<1>1. StaffInv => RealmsApart
  BY DEF StaffInv
<1> QED
  BY StaffCorrect, <1>1, PTL

\* A session that goes on tells the roles its account has, or a revocation is under way or
\* has failed.
THEOREM RolesSafe == Spec => []RefreshedRoleCurrent
<1>1. StaffInv => RefreshedRoleCurrent
  BY DEF StaffInv, RolesFollow, Told, RoleTold, Excused, Awaits, RefreshedRoleCurrent
<1> QED
  BY StaffCorrect, <1>1, PTL

\* A session that is over never gets a token.
THEOREM OverSafe == Spec => OverStaysOver
<1>1. StaffInv /\ [Next]_vars => [NoMoreTokens]_vars
  BY StaffStep
<1>2. [NoMoreTokens]_vars <=>
        [\A s \in SessionIds : (session[s].revoked \/ session[s].expired) => TokensOf(s)' = TokensOf(s)]_vars
  BY DEF NoMoreTokens
<1> QED
  BY StaffCorrect, <1>1, <1>2, PTL DEF Spec, OverStaysOver
==============================================================================
