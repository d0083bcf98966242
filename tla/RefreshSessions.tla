-------------------------- MODULE RefreshSessions --------------------------
(***************************************************************************)
(* Accounts and refresh-token sessions: registration, login, rotation with *)
(* reuse detection, logout, password change and profile update             *)
(* (app/services/auth_service.py, app/api/v1/endpoints/auth.py), user      *)
(* administration (app/api/v1/endpoints/users.py), and the housekeeping    *)
(* every replica runs when it starts (app/main.py).                        *)
(*                                                                         *)
(* A handler serves one request after another.  Each of its actions is one *)
(* read, or the writes and the commit that make them visible; a request    *)
(* that answers an error without writing anything simply ends (Abandon).   *)
(* Passwords, access tokens and request metadata are left out: a caller is *)
(* any account, a client may present any refresh token it was ever given.  *)
(***************************************************************************)
EXTENDS Integers, FiniteSets

CONSTANTS
    Handler,       \* request handlers at work at once, over all replicas
    Email,
    MaxUsers,      \* bound: accounts ever created; ids are never reused
    MaxTokens,     \* bound: refresh tokens ever issued
    MaxRows,       \* bound: both together
    MaxExpired,    \* bound: tokens whose lifetime ends
    FirstAdmin,    \* the values of FIRST_ADMIN_EMAIL, None where it is not configured
    Serial,        \* the kinds of request that never overlap their own kind
    None

ASSUME SessionBounds ==
    /\ MaxUsers \in Nat \ {0} /\ MaxTokens \in Nat \ {0}
    /\ MaxRows \in Nat /\ MaxExpired \in 0 .. MaxTokens
ASSUME FirstAdminIsAnEmail == FirstAdmin \subseteq Email \cup {None}
ASSUME SerialKinds == Serial \subseteq {"token", "admin", "setup"}

User  == 1 .. MaxUsers      \* in the order of their ids
Token == 1 .. MaxTokens     \* in the order of issue, hence of expiry

VARIABLES
    users,       \* the users table
    tokens,      \* the refresh_tokens table
    registered,  \* accounts created so far
    issued,      \* tokens issued so far
    expired,     \* tokens 1 .. expired are past their expires_at
    pc,          \* where each handler stands
    call,        \* the locals of the request it serves
    \* History, read by properties only:
    selfMade,    \* accounts that became administrator because the table was empty
    voided,      \* tokens of the sessions that a sign-out of the account ended
    overtaken,   \* handlers about to issue a token when such a sign-out committed
    escaped      \* the tokens these handlers issued, and their successors

tables  == <<users, tokens>>
clock   == <<registered, issued, expired>>
ghosts  == <<selfMade, voided, overtaken, escaped>>
vars    == <<tables, clock, pc, call, ghosts>>

Role == {"user", "admin"}

UserRow == [email : Email, role : Role, active : BOOLEAN]
NoUser  == [email |-> None, role |-> "user", active |-> FALSE]

Reason   == {"rotated", "logout", "password_change", "security", "admin"}
ASSUME NoneIsNull ==
    /\ None \notin Handler /\ None \notin Email
    /\ None \notin Role /\ None \notin Reason /\ None \notin BOOLEAN

\* parent is the token this one was exchanged for: not a column, but a history.
TokenRow == [owner : User, reason : Reason \cup {None}, parent : Token \cup {0}]
NoToken  == [owner |-> 0, reason |-> None, parent |-> 0]

\* user: the account the request is about; token: the one it is about to revoke;
\* email, role, active: what it will write; why: it signs the account out.
NoCall == [user |-> 0, token |-> 0, email |-> None, role |-> None, active |-> None, why |-> None]
Call   == [user : User \cup {0}, token : Token \cup {0}, email : Email \cup {None},
           role : Role \cup {None}, active : BOOLEAN \cup {None}, why : Reason \cup {None}]

\* What a request has found out, or was given, when it begins.
WithEmail(e)       == [NoCall EXCEPT !.email = e]
WithAccount(u)     == [NoCall EXCEPT !.user = u]
WithToken(u, t)    == [NoCall EXCEPT !.user = u, !.token = t]
WithReason(u, why) == [NoCall EXCEPT !.user = u, !.why = why]
WithRename(u, e)   == [NoCall EXCEPT !.user = u, !.email = e]
WithFirstAdmin(e)  == [NoCall EXCEPT !.email = e, !.role = "admin"]
WithEdit(u, role, active, why) ==
    [NoCall EXCEPT !.user = u, !.role = role, !.active = active, !.why = why]

Setup   == {"counting", "creating", "housekeeping"}
Issuing == {"issuing", "checking", "rotating"}
Admin   == {"authorised", "editing", "deleting"}
Pc == {"idle", "revoking", "signing_out", "renaming", "updating"}
          \cup Setup \cup Issuing \cup Admin

TypeOK ==
    /\ users \in [User -> UserRow \cup {NoUser}]
    /\ tokens \in [Token -> TokenRow \cup {NoToken}]
    /\ registered \in 0 .. MaxUsers /\ issued \in 0 .. MaxTokens /\ expired \in 0 .. issued
    /\ pc \in [Handler -> Pc] /\ call \in [Handler -> Call]
    /\ selfMade \subseteq User /\ voided \subseteq Token /\ escaped \subseteq Token
    /\ overtaken \subseteq Handler

Init ==
    /\ users = [u \in User |-> NoUser]
    /\ tokens = [t \in Token |-> NoToken]
    /\ registered = 0 /\ issued = 0 /\ expired = 0
    /\ pc = [h \in Handler |-> "idle"]
    /\ call = [h \in Handler |-> NoCall]
    /\ selfMade = {} /\ voided = {} /\ overtaken = {} /\ escaped = {}

-----------------------------------------------------------------------------
Known(u)   == u # 0 /\ users[u] # NoUser
Stored(t)  == t # 0 /\ tokens[t] # NoToken
Revoked(t) == tokens[t].reason # None
Accounts   == {u \in User : users[u] # NoUser}
EmailTaken(e, except) == \E u \in Accounts \ except : users[u].email = e

\* list_active_for_user: unrevoked and unexpired.
Live(t) == Stored(t) /\ ~Revoked(t) /\ t > expired

\* get_current_active_user and get_current_admin read the row on every request.
ActiveUser(u)  == Known(u) /\ users[u].active
ActiveAdmin(u) == ActiveUser(u) /\ users[u].role = "admin"

\* Kinds of request an instance may keep from overlapping: exchanges and logouts of
\* one refresh token, administrators at work, and the creation of a first account.
SerialToken(t) == "token" \in Serial => \A g \in Handler : call[g].token # t
SerialAdmin    == "admin" \in Serial => \A g \in Handler : pc[g] \notin Admin
SerialSetup    == "setup" \in Serial /\ Accounts = {} => \A g \in Handler : pc[g] \notin Setup

Goto(h, at)  == pc' = [pc EXCEPT ![h] = at]
Begin(h, at, locals) ==
    /\ pc[h] = "idle"
    /\ Goto(h, at)
    /\ call' = [call EXCEPT ![h] = locals]
Finish(h) == Goto(h, "idle") /\ call' = [call EXCEPT ![h] = NoCall]

\* revoke_all_for_user: one bulk UPDATE of the live rows.
RevokeAll(u, why) ==
    tokens' = [t \in Token |->
        IF tokens[t].owner = u /\ ~Revoked(t)
        THEN [tokens[t] EXCEPT !.reason = why] ELSE tokens[t]]

\* What such a sign-out means to end: every session the account has, and the
\* ones that handlers are about to continue or to open for it.
SignOut(h, u) ==
    /\ voided' = voided \cup {t \in Token : tokens[t].owner = u}
    /\ overtaken' = (overtaken \cup {g \in Handler : pc[g] \in Issuing /\ call[g].user = u}) \ {h}
    /\ UNCHANGED <<selfMade, escaped>>

\* create of the token repository; the caller says what becomes of the parent.
Issue(h, u, parent, table) ==
    LET n == issued + 1 IN
    /\ issued < MaxTokens /\ registered + issued < MaxRows
    /\ issued' = n
    /\ tokens' = [table EXCEPT ![n] = [owner |-> u, reason |-> None, parent |-> parent]]
    /\ voided' = IF h \in overtaken \/ parent \in voided THEN voided \cup {n} ELSE voided
    /\ escaped' = IF h \in overtaken \/ parent \in escaped THEN escaped \cup {n} ELSE escaped
    /\ overtaken' = overtaken \ {h}

\* An answer without an effect, an error, a rollback, a cancelled request or a
\* crash of the replica: the transaction leaves nothing behind.
Abandon(h) ==
    /\ pc[h] # "idle"
    /\ Finish(h)
    /\ overtaken' = overtaken \ {h}
    /\ UNCHANGED <<tables, clock, selfMade, voided, escaped>>

----------------------------------------------------------------- (* register *)
\* email_exists, then count, then the insert: three statements.
Register(h, e) ==
    /\ SerialSetup
    /\ ~EmailTaken(e, {})
    /\ Begin(h, "counting", WithEmail(e))
    /\ UNCHANGED <<tables, clock, ghosts>>

RoleForNew_Unset == IF Accounts = {} THEN "admin" ELSE None

RoleForNew == IF Accounts = {} THEN "admin" ELSE "user"

CountUsers(h) ==
    /\ pc[h] = "counting"
    /\ Goto(h, "creating")
    /\ call' = [call EXCEPT ![h].role = RoleForNew]
    /\ UNCHANGED <<tables, clock, ghosts>>

InsertUser_Unchecked(h) ==
    LET n == registered + 1  c == call[h] IN
    /\ registered < MaxUsers /\ registered + issued < MaxRows
    /\ registered' = n
    /\ users' = [users EXCEPT ![n] = [email |-> c.email, role |-> c.role, active |-> TRUE]]
    /\ selfMade' = IF c.role = "admin" THEN selfMade \cup {n} ELSE selfMade
    /\ UNCHANGED <<voided, overtaken, escaped>>

\* The unique index on the email is the arbiter: 409 after a rollback.
InsertUser(h) ==
    LET n == registered + 1  c == call[h] IN
    /\ ~EmailTaken(c.email, {})
    /\ registered < MaxUsers /\ registered + issued < MaxRows
    /\ registered' = n
    /\ users' = [users EXCEPT ![n] = [email |-> c.email, role |-> c.role, active |-> TRUE]]
    /\ selfMade' = IF c.role = "admin" THEN selfMade \cup {n} ELSE selfMade
    /\ UNCHANGED <<voided, overtaken, escaped>>

CreateUser(h) ==
    /\ pc[h] = "creating"
    /\ InsertUser(h)
    /\ Finish(h)
    /\ UNCHANGED <<tokens, issued, expired>>

-------------------------------------------------------------------- (* login *)
Authenticate_AnyAccount(h, u) ==
    /\ Known(u)
    /\ Begin(h, "issuing", WithAccount(u))
    /\ UNCHANGED <<tables, clock, ghosts>>

\* The right password of an active account; every other attempt is refused.
Authenticate(h, u) ==
    /\ ActiveUser(u)
    /\ Begin(h, "issuing", WithAccount(u))
    /\ UNCHANGED <<tables, clock, ghosts>>

IssueForLogin_NoForeignKey(h) ==
    /\ pc[h] = "issuing"
    /\ Issue(h, call[h].user, 0, tokens)
    /\ Finish(h)
    /\ UNCHANGED <<users, registered, expired, selfMade>>

\* Nothing is checked again but the foreign key: an account deleted since the
\* password was verified refuses the row (500).
IssueForLogin(h) ==
    /\ pc[h] = "issuing"
    /\ Known(call[h].user)
    /\ Issue(h, call[h].user, 0, tokens)
    /\ Finish(h)
    /\ UNCHANGED <<users, registered, expired, selfMade>>

------------------------------------------------------------------ (* refresh *)
\* decode_token refuses an expired token before its row is looked up.  A live one
\* goes on; one revoked by anything but a rotation fails this call only.
PresentForRefresh(h, t) ==
    /\ SerialToken(t)
    /\ Stored(t) /\ t > expired /\ ~Revoked(t)
    /\ Begin(h, "checking", WithToken(tokens[t].owner, t))
    /\ UNCHANGED <<tables, clock, ghosts>>

\* One that was spent on a rotation is a replay.
PresentSpent(h, t) ==
    /\ Stored(t) /\ t > expired /\ tokens[t].reason = "rotated"
    /\ Begin(h, "signing_out", WithReason(tokens[t].owner, "security"))
    /\ UNCHANGED <<tables, clock, ghosts>>

\* The row of the account, read after the row of the token.
CheckOwner(h) ==
    /\ pc[h] = "checking"
    /\ ActiveUser(call[h].user)
    /\ Goto(h, "rotating")
    /\ UNCHANGED <<tables, clock, call, ghosts>>

Rotate_IssueOnly(h) ==
    LET c == call[h] IN
    /\ pc[h] = "rotating"
    /\ Stored(c.token)
    /\ Issue(h, c.user, c.token, tokens)
    /\ Finish(h)
    /\ UNCHANGED <<users, registered, expired, selfMade>>

\* The row was read as live; the UPDATE that revokes it names its id and nothing
\* else, so it overwrites what was written since.  A row that was pruned or
\* deleted meanwhile matches no UPDATE: StaleDataError, 500.
Rotate(h) ==
    LET c == call[h] IN
    /\ pc[h] = "rotating"
    /\ Stored(c.token)
    /\ Issue(h, c.user, c.token, [tokens EXCEPT ![c.token].reason = "rotated"])
    /\ Finish(h)
    /\ UNCHANGED <<users, registered, expired, selfMade>>

------------------------------------------------------------------- (* logout *)
\* Unknown, undecodable and (for one session) revoked tokens answer success and
\* change nothing.
PresentForLogout_Any(h, t) ==
    /\ SerialToken(t)
    /\ Stored(t) /\ t > expired
    /\ Begin(h, "revoking", WithToken(tokens[t].owner, t))
    /\ UNCHANGED <<tables, clock, ghosts>>

PresentForLogout(h, t) ==
    /\ SerialToken(t)
    /\ Stored(t) /\ t > expired /\ ~Revoked(t)
    /\ Begin(h, "revoking", WithToken(tokens[t].owner, t))
    /\ UNCHANGED <<tables, clock, ghosts>>

Logout(h) ==
    LET t == call[h].token IN
    /\ pc[h] = "revoking"
    /\ Stored(t)
    /\ tokens' = [tokens EXCEPT ![t].reason = "logout"]
    /\ Finish(h)
    /\ UNCHANGED <<users, clock, ghosts>>

\* all_sessions does not ask whether the presented token is still live; DELETE
\* /users/me/sessions needs no refresh token.
PresentForLogoutAll(h, t) ==
    /\ Stored(t) /\ t > expired
    /\ Begin(h, "signing_out", WithReason(tokens[t].owner, "logout"))
    /\ UNCHANGED <<tables, clock, ghosts>>

RevokeMySessions(h, u) ==
    /\ ActiveUser(u)
    /\ Begin(h, "signing_out", WithReason(u, "logout"))
    /\ UNCHANGED <<tables, clock, ghosts>>

------------------------------------------------------------------ (* profile *)
\* change_password, once both passwords have been compared with the row as read.
VerifyPasswords(h, u) ==
    /\ ActiveUser(u)
    /\ Begin(h, "signing_out", WithReason(u, "password_change"))
    /\ UNCHANGED <<tables, clock, ghosts>>

\* The replay is answered 401, so get_db rolls back what is not yet committed.
CommitSignOut_RolledBack(h) ==
    LET c == call[h] IN
    /\ pc[h] = "signing_out"
    /\ Known(c.user)
    /\ IF c.why = "security" THEN UNCHANGED tokens ELSE RevokeAll(c.user, c.why)
    /\ SignOut(h, c.user)
    /\ Finish(h)
    /\ UNCHANGED <<users, clock>>

\* The new password commits with the sign-out, and after a replay the sign-out is
\* committed although the request fails.  An account deleted meanwhile has no rows.
CommitSignOut(h) ==
    LET c == call[h] IN
    /\ pc[h] = "signing_out"
    /\ Known(c.user)
    /\ RevokeAll(c.user, c.why)
    /\ SignOut(h, c.user)
    /\ Finish(h)
    /\ UNCHANGED <<users, clock>>

\* A uniqueness query only when the email changes ...
UpdateMe(h, u, e) ==
    /\ ActiveUser(u) /\ users[u].email # e
    /\ Begin(h, "renaming", WithRename(u, e))
    /\ UNCHANGED <<tables, clock, ghosts>>

CheckEmail(h) ==
    /\ pc[h] = "renaming"
    /\ ~EmailTaken(call[h].email, {call[h].user})
    /\ Goto(h, "updating")
    /\ UNCHANGED <<tables, clock, call, ghosts>>

\* ... and again the unique index decides, here with a 500.
UpdateProfile(h) ==
    LET c == call[h] IN
    /\ pc[h] = "updating"
    /\ Known(c.user) /\ ~EmailTaken(c.email, {c.user})
    /\ users' = [users EXCEPT ![c.user].email = c.email]
    /\ Finish(h)
    /\ UNCHANGED <<tokens, clock, ghosts>>

----------------------------------------------------------- (* administration *)
Authorise(h, a) ==
    /\ SerialAdmin
    /\ ActiveAdmin(a)
    /\ Begin(h, "authorised", WithAccount(a))
    /\ UNCHANGED <<tables, clock, ghosts>>

\* Of the payload, the columns that differ from the row as loaded are written.
LoadForEdit_AnyAccount(h, u, role, active) ==
    /\ pc[h] = "authorised"
    /\ Known(u)
    /\ Goto(h, "editing")
    /\ call' = [call EXCEPT ![h] =
           WithEdit(u, IF role = users[u].role THEN None ELSE role,
                    IF active = users[u].active THEN None ELSE active,
                    IF active = FALSE THEN "admin" ELSE None)]
    /\ UNCHANGED <<tables, clock, ghosts>>

LoadForEdit(h, u, role, active) ==
    /\ pc[h] = "authorised"
    /\ Known(u) /\ u # call[h].user
    /\ Goto(h, "editing")
    /\ call' = [call EXCEPT ![h] =
           WithEdit(u, IF role = users[u].role THEN None ELSE role,
                    IF active = users[u].active THEN None ELSE active,
                    IF active = FALSE THEN "admin" ELSE None)]
    /\ UNCHANGED <<tables, clock, ghosts>>

OrElse(new, old) == IF new = None THEN old ELSE new

\* Deactivation signs the account out in the same transaction.
EditUser(h) ==
    LET c == call[h] IN
    /\ pc[h] = "editing"
    /\ Known(c.user)
    /\ users' = [users EXCEPT ![c.user].role = OrElse(c.role, @),
                              ![c.user].active = OrElse(c.active, @)]
    /\ IF c.why = "admin"
       THEN RevokeAll(c.user, c.why) /\ SignOut(h, c.user)
       ELSE UNCHANGED <<tokens, ghosts>>
    /\ Finish(h)
    /\ UNCHANGED clock

LoadForDelete(h, u) ==
    /\ pc[h] = "authorised"
    /\ Known(u) /\ u # call[h].user
    /\ Goto(h, "deleting")
    /\ call' = [call EXCEPT ![h] = WithAccount(u)]
    /\ UNCHANGED <<tables, clock, ghosts>>

\* ON DELETE CASCADE takes the sessions (and the documents) along.
DeleteUser(h) ==
    LET u == call[h].user IN
    /\ pc[h] = "deleting"
    /\ users' = [users EXCEPT ![u] = NoUser]
    /\ tokens' = [t \in Token |-> IF tokens[t].owner = u THEN NoToken ELSE tokens[t]]
    /\ Finish(h)
    /\ UNCHANGED <<clock, ghosts>>

------------------------------------------------------------------ (* start-up *)
Start_Always(h, first) ==
    /\ SerialSetup
    /\ Begin(h, "housekeeping",
             IF first # None THEN WithFirstAdmin(first) ELSE NoCall)
    /\ UNCHANGED <<tables, clock, ghosts>>

\* bootstrap_first_admin counts only when an account is configured.
Start(h, first) ==
    /\ SerialSetup
    /\ Begin(h, "housekeeping",
             IF first # None /\ Accounts = {}
             THEN WithFirstAdmin(first) ELSE NoCall)
    /\ UNCHANGED <<tables, clock, ghosts>>

\* It shares its transaction with delete_expired: when the configured account
\* cannot be inserted, nothing is pruned either.
Housekeep(h) ==
    /\ pc[h] = "housekeeping"
    /\ IF call[h].role = "admin"
       THEN InsertUser(h)
       ELSE UNCHANGED <<users, registered, ghosts>>
    /\ tokens' = [t \in Token |-> IF t <= expired THEN NoToken ELSE tokens[t]]
    /\ Finish(h)
    /\ UNCHANGED <<issued, expired>>

\* Time passes.
Expire ==
    /\ expired < issued /\ expired < MaxExpired
    /\ expired' = expired + 1
    /\ UNCHANGED <<tables, registered, issued, pc, call, ghosts>>

-----------------------------------------------------------------------------
Arrive(h) ==
    \/ \E e \in Email : Register(h, e)
    \/ \E first \in FirstAdmin : Start(h, first)
    \/ \E t \in Token : \/ PresentForRefresh(h, t) \/ PresentSpent(h, t)
                       \/ PresentForLogout(h, t) \/ PresentForLogoutAll(h, t)
    \/ \E u \in User : \/ Authenticate(h, u) \/ Authorise(h, u)
                      \/ RevokeMySessions(h, u) \/ VerifyPasswords(h, u)
                      \/ \E e \in Email : UpdateMe(h, u, e)

Proceed(h) ==
    \/ CountUsers(h) \/ CreateUser(h) \/ IssueForLogin(h)
    \/ CheckOwner(h) \/ Rotate(h) \/ Logout(h) \/ CommitSignOut(h)
    \/ CheckEmail(h) \/ UpdateProfile(h)
    \/ EditUser(h) \/ DeleteUser(h) \/ Housekeep(h) \/ Abandon(h)
    \/ \E u \in User :
          \/ LoadForDelete(h, u)
          \/ \E role \in Role \cup {None}, active \in BOOLEAN \cup {None} :
                LoadForEdit(h, u, role, active)

Next ==
    \/ Expire
    \/ \E h \in Handler : Arrive(h) \/ Proceed(h)

Spec == Init /\ [][Next]_vars

-----------------------------------------------------------------------------
(* Properties under every interleaving of requests, starts and failures.     *)

\* register_user: "the unique index is the real arbiter" - between a check of the
\* email and the write that relies on it, other requests take the address.
OneAccountPerEmail ==
    \A u, v \in Accounts : users[u].email = users[v].email => u = v

\* A session outlives neither its account nor the deletion of it by another
\* request while a login or a rotation is about to add one.
EverySessionHasOwner ==
    \A t \in Token : Stored(t) => Known(tokens[t].owner)

\* change_password, "sign out everywhere"; rotate_tokens, "every session is
\* revoked"; admin_update_user, "must not keep refreshing its way back in": once a
\* sign-out of the account has committed, no session it was to end is usable, nor
\* any token obtained from one.  The exception is a request that had read the
\* token, or verified the password, before: its token escapes (auth_service.py:180).
SignOutIsComplete ==
    \A t \in Token : Live(t) /\ t \in voided => t \in escaped

\* A deactivated account has no usable session, with the same exception.
InactiveHasNoSession ==
    \A t \in Token : Live(t) /\ ~users[tokens[t].owner].active => t \in escaped

-----------------------------------------------------------------------------
(* Properties of clients that present a token in one request at a time.      *)

\* "Refresh tokens are single-use": a token is exchanged at most once.
SingleUse ==
    \A t, s \in Token :
        Stored(t) /\ Stored(s) /\ tokens[t].parent = tokens[s].parent /\ tokens[t].parent # 0
            => t = s

\* What reuse detection relies on: a token that was exchanged says so for as long
\* as it could be presented again, whatever else is revoked around it.
SpentTokenIsRemembered ==
    \A t \in Token : Stored(t) /\ tokens[t].parent # 0 =>
        LET p == tokens[t].parent IN Stored(p) => tokens[p].reason = "rotated"

(* Properties of administrators who act one at a time.                       *)

\* "the easiest way to lock the last administrator out of the system": as long as
\* there are accounts, one of them is an active administrator.
AdminRemains == Accounts # {} => \E a \in Accounts : ActiveAdmin(a)

(* Properties of installations whose first account has no rival.             *)

\* register: "The first account created on a fresh installation is granted the
\* admin role automatically; every subsequent account is a regular user".
OneSelfMadeAdmin == Cardinality(selfMade) <= 1
=============================================================================
