----------------------- MODULE RefreshSessionsProofs -----------------------
(***************************************************************************)
(* Theorems about RefreshSessions, for any number of handlers, addresses,  *)
(* accounts and tokens.                                                    *)
(***************************************************************************)
EXTENDS RefreshSessions, TLAPS

-----------------------------------------------------------------------------
\* Where a handler has read the row of a token.
Holding == {"checking", "rotating", "revoking"}

\* What the locals of a request hold at each point of its handler.
LocalOK(at, c) ==
    /\ at \in {"counting", "creating", "renaming", "updating"} => c.email \in Email
    /\ at = "creating" => c.role \in Role
    /\ at = "housekeeping" => c.role = None \/ (c.role = "admin" /\ c.email \in Email)
    /\ at \in Issuing \cup Admin \cup {"signing_out", "renaming", "updating"} => c.user \in User
    /\ IF at \in Holding THEN c.token \in Token ELSE c.token = 0
    /\ at = "signing_out" => c.why \in Reason
    /\ at = "editing" => /\ c.why \in {None, "admin"}
                         /\ c.active = FALSE => c.why = "admin"

LocalsOK == \A h \in Handler : LocalOK(pc[h], call[h])

TypeInv == TypeOK /\ LocalsOK

Fits(at, c) == at \in Pc /\ c \in Call /\ LocalOK(at, c)

-----------------------------------------------------------------------------
\* Steps that read and go on, or end without an effect, by where they lead and what
\* has been read.
Opens(h, at, c) ==
    \/ at = "idle" /\ c = NoCall
    \/ at = "counting" /\ SerialSetup /\ c.role = None
    \/ at = "creating" /\ pc[h] = "counting" /\ c.role = RoleForNew
    \/ at = "housekeeping" /\ SerialSetup /\ (c.role = None \/ Accounts = {})
    \/ at = "issuing" /\ ActiveUser(c.user)
    \/ /\ at \in {"checking", "revoking"}
       /\ SerialToken(c.token) /\ Live(c.token) /\ c.user = tokens[c.token].owner
    \/ at = "rotating" /\ pc[h] = "checking" /\ c = call[h] /\ ActiveUser(c.user)
    \/ at = "authorised" /\ SerialAdmin /\ ActiveAdmin(c.user)
    \/ at \in {"editing", "deleting"} /\ pc[h] = "authorised" /\ c.user # call[h].user
    \/ at \in {"signing_out", "renaming", "updating"}

Moves(h, at, c) ==
    /\ pc' = [pc EXCEPT ![h] = at] /\ call' = [call EXCEPT ![h] = c]
    /\ UNCHANGED <<users, tokens, registered, issued, expired, selfMade, voided, escaped>>
    /\ overtaken' = IF at = "idle" THEN overtaken \ {h} ELSE overtaken

Reads(h) ==
    \E at \in Pc, c \in Call : LocalOK(at, c) /\ Opens(h, at, c) /\ Moves(h, at, c)

Writes(h) ==
    \/ CreateUser(h) \/ IssueForLogin(h) \/ Rotate(h) \/ Logout(h) \/ CommitSignOut(h)
    \/ UpdateProfile(h) \/ EditUser(h) \/ DeleteUser(h) \/ Housekeep(h)

LEMMA Locals ==
    /\ NoCall \in Call /\ NoCall.role = None /\ NoCall.token = 0
    /\ \A e \in Email : LET c == WithEmail(e)
                        IN  c \in Call /\ c.email = e /\ c.role = None /\ c.token = 0
    /\ \A e \in Email : LET c == WithFirstAdmin(e)
                        IN  c \in Call /\ c.email = e /\ c.role = "admin" /\ c.token = 0
    /\ \A u \in User : LET c == WithAccount(u) IN c \in Call /\ c.user = u /\ c.token = 0
    /\ \A u \in User, t \in Token : LET c == WithToken(u, t)
                                    IN  c \in Call /\ c.user = u /\ c.token = t
    /\ \A u \in User, why \in Reason : LET c == WithReason(u, why)
                                       IN  c \in Call /\ c.user = u /\ c.why = why /\ c.token = 0
    /\ \A u \in User, e \in Email : LET c == WithRename(u, e)
                                    IN  c \in Call /\ c.user = u /\ c.email = e /\ c.token = 0
BY DEF NoCall, Call, Role, WithEmail, WithFirstAdmin, WithAccount, WithToken, WithReason, WithRename

LEMMA LocalsFit ==
    /\ Fits("housekeeping", NoCall) /\ Fits("idle", NoCall)
    /\ \A e \in Email : Fits("counting", WithEmail(e)) /\ Fits("housekeeping", WithFirstAdmin(e))
    /\ \A u \in User : Fits("issuing", WithAccount(u)) /\ Fits("authorised", WithAccount(u))
                       /\ Fits("deleting", WithAccount(u))
    /\ \A u \in User, t \in Token : Fits("checking", WithToken(u, t)) /\ Fits("revoking", WithToken(u, t))
    /\ \A u \in User, why \in Reason : Fits("signing_out", WithReason(u, why))
    /\ \A u \in User, e \in Email : Fits("renaming", WithRename(u, e))
BY Locals DEF Fits, LocalOK, Pc, Setup, Issuing, Admin, Holding

LEMMA BeginReads ==
    ASSUME NEW h \in Handler, NEW at \in Pc \ {"idle"}, NEW c,
           Begin(h, at, c), UNCHANGED <<tables, clock, ghosts>>, Fits(at, c), Opens(h, at, c)
    PROVE  Reads(h)
<1>1. Moves(h, at, c)
  BY DEF Begin, Goto, Moves, tables, clock, ghosts
<1> QED BY <1>1 DEF Fits, Reads

LEMMA ArriveReads ==
    ASSUME TypeInv, NEW h \in Handler, Arrive(h)
    PROVE  Reads(h)
<1>0. {"counting", "housekeeping", "checking", "signing_out", "revoking", "issuing", "authorised",
       "renaming"} \subseteq Pc \ {"idle"}
  BY DEF Pc, Setup, Issuing, Admin
<1>1. ASSUME NEW e \in Email, Register(h, e) PROVE Reads(h)
  <2>1. Opens(h, "counting", WithEmail(e))
    BY <1>1, Locals DEF Register, Opens
  <2> QED BY <1>0, <1>1, <2>1, BeginReads, LocalsFit DEF Register
<1>2. ASSUME NEW first \in FirstAdmin, Start(h, first) PROVE Reads(h)
  <2>1. CASE first # None /\ Accounts = {}
    <3>1. Opens(h, "housekeeping", WithFirstAdmin(first))
      BY <1>2, <2>1 DEF Start, Opens
    <3> QED BY <1>0, <1>2, <2>1, <3>1, BeginReads, LocalsFit, FirstAdminIsAnEmail DEF Start
  <2>2. CASE ~(first # None /\ Accounts = {})
    <3>1. Opens(h, "housekeeping", NoCall)
      BY <1>2, <2>2, Locals DEF Start, Opens
    <3> QED BY <1>0, <1>2, <2>2, <3>1, BeginReads, LocalsFit DEF Start
  <2> QED BY <2>1, <2>2
<1>3. ASSUME NEW t \in Token, Stored(t) PROVE tokens[t].owner \in User
  BY <1>3 DEF Stored, TypeInv, TypeOK, TokenRow
<1>4. ASSUME NEW t \in Token, Stored(t), t > expired, ~Revoked(t), SerialToken(t)
      PROVE  LET c == WithToken(tokens[t].owner, t) IN Opens(h, "checking", c) /\ Opens(h, "revoking", c)
  BY <1>3, <1>4, Locals DEF Opens, Live
<1>5. ASSUME NEW c PROVE Opens(h, "signing_out", c) /\ Opens(h, "renaming", c)
  BY DEF Opens
<1>6. ASSUME NEW t \in Token, PresentForRefresh(h, t) PROVE Reads(h)
  BY <1>0, <1>3, <1>4, <1>6, BeginReads, LocalsFit DEF PresentForRefresh
<1>7. ASSUME NEW t \in Token, PresentSpent(h, t) PROVE Reads(h)
  BY <1>0, <1>3, <1>5, <1>7, BeginReads, LocalsFit DEF PresentSpent, Reason
<1>8. ASSUME NEW t \in Token, PresentForLogout(h, t) PROVE Reads(h)
  BY <1>0, <1>3, <1>4, <1>8, BeginReads, LocalsFit DEF PresentForLogout
<1>9. ASSUME NEW t \in Token, PresentForLogoutAll(h, t) PROVE Reads(h)
  BY <1>0, <1>3, <1>5, <1>9, BeginReads, LocalsFit DEF PresentForLogoutAll, Reason
<1>10. ASSUME NEW u \in User, Authenticate(h, u) PROVE Reads(h)
  <2>1. Opens(h, "issuing", WithAccount(u))
    BY <1>10, Locals DEF Authenticate, Opens
  <2> QED BY <1>0, <1>10, <2>1, BeginReads, LocalsFit DEF Authenticate
<1>11. ASSUME NEW u \in User, Authorise(h, u) PROVE Reads(h)
  <2>1. Opens(h, "authorised", WithAccount(u))
    BY <1>11, Locals DEF Authorise, Opens
  <2> QED BY <1>0, <1>11, <2>1, BeginReads, LocalsFit DEF Authorise
<1>12. ASSUME NEW u \in User, RevokeMySessions(h, u) PROVE Reads(h)
  BY <1>0, <1>5, <1>12, BeginReads, LocalsFit DEF RevokeMySessions, Reason
<1>13. ASSUME NEW u \in User, VerifyPasswords(h, u) PROVE Reads(h)
  BY <1>0, <1>5, <1>13, BeginReads, LocalsFit DEF VerifyPasswords, Reason
<1>14. ASSUME NEW u \in User, NEW e \in Email, UpdateMe(h, u, e) PROVE Reads(h)
  BY <1>0, <1>5, <1>14, BeginReads, LocalsFit DEF UpdateMe
<1> QED BY <1>1, <1>2, <1>6, <1>7, <1>8, <1>9, <1>10, <1>11, <1>12, <1>13, <1>14 DEF Arrive

LEMMA ProceedKinds ==
    ASSUME TypeInv, NEW h \in Handler, Proceed(h)
    PROVE  Reads(h) \/ Writes(h)
<1>a. LocalOK(pc[h], call[h]) /\ call[h] \in Call
  BY DEF TypeInv, TypeOK, LocalsOK
<1> USE DEF Goto, Moves, tables, clock, ghosts
<1>1. CASE CountUsers(h)
  <2> DEFINE c == [call[h] EXCEPT !.role = RoleForNew]
  <2>1. RoleForNew \in Role
    BY DEF RoleForNew, Role
  <2>2. c \in Call /\ c.role = RoleForNew /\ c.email = call[h].email /\ c.token = call[h].token
    BY <1>a, <2>1 DEF Call
  <2>3. LocalOK("creating", c) /\ "creating" \in Pc
    BY <1>1, <1>a, <2>1, <2>2 DEF LocalOK, CountUsers, Issuing, Admin, Pc, Setup, Holding
  <2>4. Moves(h, "creating", c)
    BY <1>1 DEF CountUsers
  <2>5. Opens(h, "creating", c)
    BY <1>1, <2>2 DEF CountUsers, Opens
  <2> QED BY <2>2, <2>3, <2>4, <2>5 DEF Reads
<1>2. CASE CheckOwner(h)
  <2>1. Moves(h, "rotating", call[h]) /\ pc[h] = "checking"
    BY <1>2 DEF CheckOwner, TypeInv, TypeOK
  <2>2. LocalOK("rotating", call[h]) /\ "rotating" \in Pc
    BY <1>a, <2>1 DEF LocalOK, Issuing, Admin, Pc, Setup, Holding
  <2>3. Opens(h, "rotating", call[h])
    BY <1>2 DEF CheckOwner, Opens
  <2> QED BY <1>a, <2>1, <2>2, <2>3 DEF Reads
<1>3. CASE CheckEmail(h)
  <2>1. Moves(h, "updating", call[h]) /\ pc[h] = "renaming"
    BY <1>3 DEF CheckEmail, TypeInv, TypeOK
  <2>2. LocalOK("updating", call[h]) /\ "updating" \in Pc
    BY <1>a, <2>1 DEF LocalOK, Issuing, Admin, Pc, Setup, Holding
  <2>3. Opens(h, "updating", call[h])
    BY DEF Opens
  <2> QED BY <1>a, <2>1, <2>2, <2>3 DEF Reads
<1>4. ASSUME NEW u \in User, LoadForDelete(h, u) PROVE Reads(h)
  <2>1. Moves(h, "deleting", WithAccount(u))
    BY <1>4 DEF LoadForDelete
  <2>2. Opens(h, "deleting", WithAccount(u))
    BY <1>4, Locals DEF LoadForDelete, Opens
  <2> QED BY <2>1, <2>2, LocalsFit DEF Fits, Reads
<1>5. ASSUME NEW u \in User, NEW role \in Role \cup {None}, NEW active \in BOOLEAN \cup {None},
             LoadForEdit(h, u, role, active)
      PROVE Reads(h)
  <2> DEFINE r == IF role = users[u].role THEN None ELSE role
             a == IF active = users[u].active THEN None ELSE active
             w == IF active = FALSE THEN "admin" ELSE None
             c == WithEdit(u, r, a, w)
  <2>1. Moves(h, "editing", c)
    BY <1>5 DEF LoadForEdit
  <2>2. r \in Role \cup {None} /\ a \in BOOLEAN \cup {None} /\ w \in {"admin", None}
    OBVIOUS
  <2>3. a = FALSE => w = "admin"
    BY NoneIsNull
  <2>4. c \in Call /\ c.user = u /\ c.active = a /\ c.why = w /\ c.token = 0
    BY <2>2 DEF WithEdit, NoCall, Call, Reason
  <2>5. LocalOK("editing", c) /\ "editing" \in Pc
    BY <2>2, <2>3, <2>4 DEF LocalOK, Issuing, Admin, Pc, Setup, Holding
  <2>6. Opens(h, "editing", c)
    BY <1>5, <2>4 DEF LoadForEdit, Opens
  <2> QED BY <2>1, <2>4, <2>5, <2>6 DEF Reads
<1>6. CASE Abandon(h)
  <2>1. Moves(h, "idle", NoCall)
    BY <1>6 DEF Abandon, Finish
  <2>2. Opens(h, "idle", NoCall)
    BY DEF Opens
  <2> QED BY <2>1, <2>2, LocalsFit DEF Fits, Reads
<1> QED BY <1>1, <1>2, <1>3, <1>4, <1>5, <1>6 DEF Proceed, Writes

LEMMA Kinds ==
    ASSUME TypeInv, [Next]_vars
    PROVE  \/ UNCHANGED vars
           \/ Expire
           \/ \E h \in Handler : Reads(h) \/ Writes(h)
BY ArriveReads, ProceedKinds DEF Next

-----------------------------------------------------------------------------
LEMMA ReadTypes ==
    ASSUME TypeInv, NEW h \in Handler, Reads(h)
    PROVE  TypeInv'
<1> PICK at \in Pc, c \in Call : LocalOK(at, c) /\ Moves(h, at, c)
  BY DEF Reads
<1>1. TypeOK'
  BY DEF TypeInv, TypeOK, Moves
<1>2. LocalsOK'
  <2> SUFFICES ASSUME NEW g \in Handler PROVE LocalOK(pc'[g], call'[g])
    BY DEF LocalsOK, LocalOK
  <2>1. CASE g = h
    BY <2>1 DEF Moves, TypeInv, TypeOK
  <2>2. CASE g # h
    BY <2>2 DEF Moves, TypeInv, TypeOK, LocalsOK
  <2> QED BY <2>1, <2>2
<1> QED BY <1>1, <1>2 DEF TypeInv

\* A request that ends; the tables are the caller's business.
TablesOK ==
    /\ users \in [User -> UserRow \cup {NoUser}] /\ tokens \in [Token -> TokenRow \cup {NoToken}]
    /\ registered \in 0 .. MaxUsers /\ issued \in 0 .. MaxTokens /\ expired \in 0 .. issued
    /\ selfMade \subseteq User /\ voided \subseteq Token /\ escaped \subseteq Token
    /\ overtaken \subseteq Handler

LEMMA FinishTypes ==
    ASSUME TypeInv, NEW h \in Handler, Finish(h), TablesOK'
    PROVE  TypeInv'
<1>1. /\ pc' = [pc EXCEPT ![h] = "idle"] /\ call' = [call EXCEPT ![h] = NoCall]
      /\ Fits("idle", NoCall)
  BY LocalsFit DEF Finish, Goto
<1>2. TypeOK'
  BY <1>1 DEF TypeInv, TypeOK, TablesOK, Fits
<1>3. LocalsOK'
  BY <1>1 DEF TypeInv, TypeOK, LocalsOK, LocalOK, Fits
<1> QED BY <1>2, <1>3 DEF TypeInv

LEMMA RevokeTypes ==
    ASSUME TypeInv, NEW h \in Handler, NEW u \in User, NEW why \in Reason,
           RevokeAll(u, why), SignOut(h, u)
    PROVE  /\ tokens' \in [Token -> TokenRow \cup {NoToken}]
           /\ selfMade' \subseteq User /\ voided' \subseteq Token /\ escaped' \subseteq Token
           /\ overtaken' \subseteq Handler
<1>1. ASSUME NEW t \in Token PROVE tokens'[t] \in TokenRow \cup {NoToken}
  <2>1. CASE tokens[t].owner = u /\ ~Revoked(t)
    <3>1. tokens[t] # NoToken
      BY <2>1 DEF NoToken, User
    <3> QED BY <3>1, <2>1 DEF RevokeAll, TypeInv, TypeOK, TokenRow
  <2>2. CASE ~(tokens[t].owner = u /\ ~Revoked(t))
    BY <2>2 DEF RevokeAll, TypeInv, TypeOK
  <2> QED BY <2>1, <2>2
<1> QED BY <1>1 DEF RevokeAll, SignOut, TypeInv, TypeOK

LEMMA IssueTypes ==
    ASSUME TypeInv, NEW h \in Handler, NEW u \in User, NEW parent \in Token \cup {0},
           NEW table \in [Token -> TokenRow \cup {NoToken}], Issue(h, u, parent, table)
    PROVE  /\ tokens' \in [Token -> TokenRow \cup {NoToken}]
           /\ issued' \in 0 .. MaxTokens /\ expired \in 0 .. issued'
           /\ voided' \subseteq Token /\ escaped' \subseteq Token /\ overtaken' \subseteq Handler
<1>1. issued + 1 \in Token
  BY SessionBounds DEF Issue, TypeInv, TypeOK, Token
<1>2. [owner |-> u, reason |-> None, parent |-> parent] \in TokenRow
  BY DEF TokenRow
<1>3. tokens' \in [Token -> TokenRow \cup {NoToken}]
  BY <1>1, <1>2 DEF Issue
<1>4. issued' \in 0 .. MaxTokens /\ expired \in 0 .. issued'
  BY <1>1 DEF Issue, TypeInv, TypeOK, Token
<1> QED BY <1>1, <1>3, <1>4 DEF Issue, TypeInv, TypeOK

LEMMA InsertTypes ==
    ASSUME TypeInv, NEW h \in Handler, InsertUser(h), call[h].email \in Email, call[h].role \in Role
    PROVE  /\ users' \in [User -> UserRow \cup {NoUser}] /\ registered' \in 0 .. MaxUsers
           /\ selfMade' \subseteq User /\ UNCHANGED <<voided, overtaken, escaped>>
<1>1. registered + 1 \in User
  BY SessionBounds DEF InsertUser, TypeInv, TypeOK, User
<1>2. [email |-> call[h].email, role |-> call[h].role, active |-> TRUE] \in UserRow
  BY DEF UserRow
<1> QED BY <1>1, <1>2 DEF InsertUser, TypeInv, TypeOK, User

LEMMA WriteTypes ==
    ASSUME TypeInv, NEW h \in Handler, Writes(h)
    PROVE  TypeInv'
<1> USE DEF TypeInv
<1>a. TablesOK /\ LocalOK(pc[h], call[h]) /\ call[h] \in Call
  BY DEF TypeOK, TablesOK, LocalsOK
<1>1. CASE CreateUser(h)
  <2>1. call[h].email \in Email /\ call[h].role \in Role
    BY <1>1, <1>a DEF CreateUser, LocalOK
  <2>2. TablesOK'
    BY <1>1, <1>a, <2>1, InsertTypes DEF CreateUser, TablesOK
  <2> QED BY <1>1, <2>2, FinishTypes DEF CreateUser
<1>2. CASE IssueForLogin(h)
  <2>1. call[h].user \in User
    BY <1>2, <1>a DEF IssueForLogin, LocalOK, Issuing
  <2>2. TablesOK'
    BY <1>2, <1>a, <2>1, IssueTypes DEF IssueForLogin, TablesOK
  <2> QED BY <1>2, <2>2, FinishTypes DEF IssueForLogin
<1>3. CASE Rotate(h)
  <2>1. call[h].user \in User /\ call[h].token \in Token
    BY <1>3, <1>a DEF Rotate, LocalOK, Issuing, Holding
  <2>2. [tokens EXCEPT ![call[h].token].reason = "rotated"] \in [Token -> TokenRow \cup {NoToken}]
    BY <1>3, <2>1 DEF Rotate, Stored, TypeOK, TokenRow, Reason
  <2>3. TablesOK'
    BY <1>3, <1>a, <2>1, <2>2, IssueTypes DEF Rotate, TablesOK
  <2> QED BY <1>3, <2>3, FinishTypes DEF Rotate
<1>4. CASE Logout(h)
  <2>1. call[h].token \in Token
    BY <1>4, <1>a DEF Logout, LocalOK, Holding
  <2>2. tokens' \in [Token -> TokenRow \cup {NoToken}]
    BY <1>4, <2>1 DEF Logout, Stored, TypeOK, TokenRow, Reason
  <2>3. TablesOK'
    BY <1>4, <1>a, <2>2 DEF Logout, TablesOK, clock, ghosts
  <2> QED BY <1>4, <2>3, FinishTypes DEF Logout
<1>5. CASE CommitSignOut(h)
  <2>1. call[h].user \in User /\ call[h].why \in Reason
    BY <1>5, <1>a DEF CommitSignOut, LocalOK
  <2>2. TablesOK'
    BY <1>5, <1>a, <2>1, RevokeTypes DEF CommitSignOut, TablesOK, clock
  <2> QED BY <1>5, <2>2, FinishTypes DEF CommitSignOut
<1>6. CASE UpdateProfile(h)
  <2>1. call[h].user \in User /\ call[h].email \in Email
    BY <1>6, <1>a DEF UpdateProfile, LocalOK
  <2>2. users' \in [User -> UserRow \cup {NoUser}]
    BY <1>6, <2>1 DEF UpdateProfile, Known, TypeOK, UserRow
  <2>3. TablesOK'
    BY <1>6, <1>a, <2>2 DEF UpdateProfile, TablesOK, clock, ghosts
  <2> QED BY <1>6, <2>3, FinishTypes DEF UpdateProfile
<1>7. CASE EditUser(h)
  <2>1. call[h].user \in User /\ call[h].why \in {None, "admin"}
    BY <1>7, <1>a DEF EditUser, LocalOK, Admin
  <2>2. users' \in [User -> UserRow \cup {NoUser}]
    <3> DEFINE u == call[h].user
    <3>1. users[u] \in UserRow
      BY <1>7, <2>1 DEF EditUser, Known, TypeOK
    <3>2. /\ OrElse(call[h].role, users[u].role) \in Role
          /\ OrElse(call[h].active, users[u].active) \in BOOLEAN
      BY <1>a, <3>1 DEF OrElse, Call, UserRow
    <3> QED BY <1>7, <2>1, <3>1, <3>2 DEF EditUser, TypeOK, UserRow
  <2>3. CASE call[h].why = "admin"
    <3>1. TablesOK'
      BY <1>7, <1>a, <2>1, <2>2, <2>3, RevokeTypes DEF EditUser, TablesOK, clock, Reason
    <3> QED BY <1>7, <3>1, FinishTypes DEF EditUser
  <2>4. CASE call[h].why # "admin"
    <3>1. TablesOK'
      BY <1>7, <1>a, <2>2, <2>4 DEF EditUser, TablesOK, clock, ghosts
    <3> QED BY <1>7, <3>1, FinishTypes DEF EditUser
  <2> QED BY <2>3, <2>4
<1>8. CASE DeleteUser(h)
  <2>1. TablesOK'
    BY <1>8, <1>a DEF DeleteUser, TablesOK, clock, ghosts
  <2> QED BY <1>8, <2>1, FinishTypes DEF DeleteUser
<1>9. CASE Housekeep(h)
  <2>1. tokens' \in [Token -> TokenRow \cup {NoToken}]
    BY <1>9 DEF Housekeep, TypeOK
  <2>2. CASE call[h].role = "admin"
    <3>1. call[h].email \in Email /\ call[h].role \in Role
      BY <1>9, <1>a, <2>2, NoneIsNull DEF Housekeep, LocalOK, Role
    <3>2. TablesOK'
      BY <1>9, <1>a, <2>1, <2>2, <3>1, InsertTypes DEF Housekeep, TablesOK
    <3> QED BY <1>9, <3>2, FinishTypes DEF Housekeep
  <2>3. CASE call[h].role # "admin"
    <3>1. TablesOK'
      BY <1>9, <1>a, <2>1, <2>3 DEF Housekeep, TablesOK, ghosts
    <3> QED BY <1>9, <3>1, FinishTypes DEF Housekeep
  <2> QED BY <2>2, <2>3
<1> QED BY <1>1, <1>2, <1>3, <1>4, <1>5, <1>6, <1>7, <1>8, <1>9 DEF Writes

LEMMA InitTypes == ASSUME Init PROVE TypeInv
BY SessionBounds, LocalsFit DEF Init, TypeInv, TypeOK, LocalsOK, Fits, User, Token

LEMMA StepTypes == ASSUME TypeInv, [Next]_vars PROVE TypeInv'
<1>1. CASE UNCHANGED vars
  BY <1>1 DEF vars, tables, clock, ghosts, TypeInv, TypeOK, LocalsOK, LocalOK
<1>2. CASE Expire
  BY <1>2 DEF Expire, tables, ghosts, TypeInv, TypeOK, LocalsOK, LocalOK
<1> QED BY <1>1, <1>2, Kinds, ReadTypes, WriteTypes

\* Every variable keeps its type, and a request knows at each point of its handler
\* what the next statement needs.
THEOREM TypeCorrect == Spec => []TypeOK
<1>1. Spec => []TypeInv
  BY InitTypes, StepTypes, PTL DEF Spec
<1>2. TypeInv => TypeOK
  BY DEF TypeInv
<1> QED BY <1>1, <1>2, PTL

-----------------------------------------------------------------------------
\* Ids are given out in order, and a request that read the row of a token knows whose
\* it is.
FreshIds ==
    /\ \A u \in User : u > registered => users[u] = NoUser
    /\ \A t \in Token : t > issued => tokens[t] = NoToken /\ t \notin voided
    /\ \A t \in Token : tokens[t].parent <= issued

HeldOK(at, c) ==
    at \in Holding =>
        c.token <= issued /\ (Stored(c.token) => tokens[c.token].owner = c.user)

Held == \A h \in Handler : HeldOK(pc[h], call[h])

TableInv == TypeInv /\ FreshIds /\ Held /\ OneAccountPerEmail /\ EverySessionHasOwner

\* What the writes do to the tables, one lemma for each kind.
LEMMA Rows ==
    ASSUME TypeInv
    PROVE  /\ \A u \in User : users[u] = NoUser \/ users[u] \in UserRow
           /\ \A u \in User : users[u] \in UserRow => users[u] # NoUser
           /\ \A t \in Token : tokens[t] = NoToken \/ tokens[t] \in TokenRow
           /\ \A t \in Token : tokens[t] \in TokenRow => tokens[t] # NoToken /\ Stored(t)
           /\ NoToken.owner = 0 /\ NoToken.parent = 0 /\ 0 \notin User /\ 0 \notin Token
BY NoneIsNull DEF TypeInv, TypeOK, UserRow, NoUser, TokenRow, NoToken, User, Token, Stored

LEMMA Ended ==
    ASSUME TypeInv, NEW h \in Handler, Finish(h), NEW g \in Handler
    PROVE  /\ g = h => /\ pc'[g] = "idle" /\ call'[g] = NoCall
           /\ g # h => /\ pc'[g] = pc[g] /\ call'[g] = call[g]
BY DEF Finish, Goto, TypeInv, TypeOK

LEMMA Inserted ==
    ASSUME TypeInv, FreshIds, NEW h \in Handler, InsertUser(h),
           call[h].email \in Email, call[h].role \in Role
    PROVE  LET n == registered + 1 IN
           /\ n \in User /\ users[n] = NoUser /\ registered' = n
           /\ users'[n] = [email |-> call[h].email, role |-> call[h].role, active |-> TRUE]
           /\ users'[n] # NoUser /\ users'[n].active
           /\ \A u \in User \ {n} : users'[u] = users[u]
           /\ ~EmailTaken(call[h].email, {})
           /\ selfMade' = IF call[h].role = "admin" THEN selfMade \cup {n} ELSE selfMade
           /\ UNCHANGED <<voided, overtaken, escaped>>
<1>1. registered + 1 \in User /\ registered + 1 > registered
  BY SessionBounds DEF InsertUser, TypeInv, TypeOK, User
<1>2. [email |-> call[h].email, role |-> call[h].role, active |-> TRUE] # NoUser
  BY NoneIsNull DEF NoUser
<1> QED BY <1>1, <1>2 DEF InsertUser, FreshIds, TypeInv, TypeOK

LEMMA Issued ==
    ASSUME TypeInv, FreshIds, NEW h \in Handler, NEW u \in User, NEW parent \in Token \cup {0},
           NEW table \in [Token -> TokenRow \cup {NoToken}], Issue(h, u, parent, table)
    PROVE  LET n == issued + 1 IN
           /\ n \in Token /\ tokens[n] = NoToken /\ n \notin voided /\ issued' = n
           /\ tokens'[n] = [owner |-> u, reason |-> None, parent |-> parent]
           /\ \A t \in Token \ {n} : tokens'[t] = table[t]
           /\ voided' = IF h \in overtaken \/ parent \in voided THEN voided \cup {n} ELSE voided
           /\ escaped' = IF h \in overtaken \/ parent \in escaped THEN escaped \cup {n} ELSE escaped
           /\ overtaken' = overtaken \ {h}
<1>1. issued + 1 \in Token /\ issued + 1 > issued
  BY SessionBounds DEF Issue, TypeInv, TypeOK, Token
<1> QED BY <1>1 DEF Issue, FreshIds

\* The session opened by a login, and the ones a rotation leaves behind.
LEMMA Logins ==
    ASSUME TypeInv, FreshIds, NEW h \in Handler, IssueForLogin(h)
    PROVE  LET n == issued + 1  u == call[h].user IN
           /\ u \in User /\ Known(u) /\ n \in Token /\ tokens[n] = NoToken /\ n \notin voided /\ issued' = n
           /\ tokens'[n] = [owner |-> u, reason |-> None, parent |-> 0]
           /\ \A t \in Token \ {n} : tokens'[t] = tokens[t]
           /\ voided' = (IF h \in overtaken THEN voided \cup {n} ELSE voided)
           /\ escaped' = (IF h \in overtaken THEN escaped \cup {n} ELSE escaped)
           /\ overtaken' = overtaken \ {h}
<1>1. call[h].user \in User /\ Known(call[h].user)
  BY DEF IssueForLogin, TypeInv, LocalsOK, LocalOK, Issuing
<1>2. tokens \in [Token -> TokenRow \cup {NoToken}] /\ 0 \notin voided /\ 0 \notin escaped
  BY DEF TypeInv, TypeOK, Token
<1> QED BY <1>1, <1>2, Issued DEF IssueForLogin

LEMMA Rotations ==
    ASSUME TypeInv, FreshIds, Held, EverySessionHasOwner, NEW h \in Handler, Rotate(h)
    PROVE  LET n == issued + 1  c == call[h] IN
           /\ c.user \in User /\ Known(c.user) /\ n \in Token /\ tokens[n] = NoToken /\ n \notin voided
           /\ c.token \in Token /\ c.token # n /\ Stored(c.token) /\ tokens[c.token].owner = c.user
           /\ issued' = n /\ tokens'[n] = [owner |-> c.user, reason |-> None, parent |-> c.token]
           /\ tokens'[c.token] = [tokens[c.token] EXCEPT !.reason = "rotated"]
           /\ \A t \in Token \ {n, c.token} : tokens'[t] = tokens[t]
           /\ voided' = (IF h \in overtaken \/ c.token \in voided THEN voided \cup {n} ELSE voided)
           /\ escaped' = (IF h \in overtaken \/ c.token \in escaped THEN escaped \cup {n} ELSE escaped)
           /\ overtaken' = overtaken \ {h}
<1> DEFINE c == call[h]
           table == [tokens EXCEPT ![c.token].reason = "rotated"]
<1>1. /\ c.user \in User /\ c.token \in Token /\ c.token <= issued /\ Stored(c.token)
      /\ tokens[c.token].owner = c.user
  BY DEF Rotate, TypeInv, LocalsOK, LocalOK, Issuing, Holding, Held, HeldOK
<1>2. table \in [Token -> TokenRow \cup {NoToken}]
  BY <1>1 DEF Stored, TypeInv, TypeOK, TokenRow, Reason
<1>3. Known(c.user)
  BY <1>1 DEF EverySessionHasOwner
<1>4. table[c.token] = [tokens[c.token] EXCEPT !.reason = "rotated"]
      /\ \A t \in Token \ {c.token} : table[t] = tokens[t]
  BY <1>1 DEF TypeInv, TypeOK
<1>5. Issue(h, c.user, c.token, table)
  BY DEF Rotate
<1>6. c.token # issued + 1
  BY <1>1 DEF TypeInv, TypeOK, Token
<1> HIDE DEF table
<1> QED BY <1>1, <1>2, <1>3, <1>4, <1>5, <1>6, Issued

\* A sign-out: rows keep owner and parent, and those of the account are revoked.
LEMMA Revokes ==
    ASSUME TypeInv, NEW u \in User, NEW why \in Reason, RevokeAll(u, why)
    PROVE  \A t \in Token :
              /\ tokens'[t].owner = tokens[t].owner /\ tokens'[t].parent = tokens[t].parent
              /\ tokens'[t] = NoToken <=> tokens[t] = NoToken
              /\ tokens'[t].reason # None <=> (tokens[t].reason # None \/ tokens[t].owner = u)
              /\ tokens[t].reason # None => tokens'[t] = tokens[t]
<1> SUFFICES ASSUME NEW t \in Token
    PROVE  /\ tokens'[t].owner = tokens[t].owner /\ tokens'[t].parent = tokens[t].parent
           /\ tokens'[t] = NoToken <=> tokens[t] = NoToken
           /\ tokens'[t].reason # None <=> (tokens[t].reason # None \/ tokens[t].owner = u)
           /\ tokens[t].reason # None => tokens'[t] = tokens[t]
  OBVIOUS
<1>1. CASE tokens[t].owner = u /\ ~Revoked(t)
  <2>1. tokens[t] \in TokenRow
    BY <1>1, Rows
  <2>2. tokens'[t] = [tokens[t] EXCEPT !.reason = why]
    BY <1>1 DEF RevokeAll
  <2>3. tokens'[t] \in TokenRow /\ tokens'[t].reason = why
    BY <2>1, <2>2 DEF TokenRow
  <2>4. tokens'[t] # NoToken /\ tokens[t] # NoToken
    BY <2>1, <2>3, Rows DEF TokenRow
  <2> QED BY <1>1, <2>1, <2>2, <2>3, <2>4, NoneIsNull DEF Revoked, TokenRow
<1>2. CASE ~(tokens[t].owner = u /\ ~Revoked(t))
  BY <1>2 DEF RevokeAll, Revoked
<1> QED BY <1>1, <1>2

LEMMA HeldKept ==
    ASSUME TypeInv, Held, NEW h \in Handler, Finish(h), issued' \in Nat, issued <= issued',
           \A t \in Token : t <= issued /\ tokens'[t] # NoToken =>
                              tokens[t] # NoToken /\ tokens'[t].owner = tokens[t].owner
    PROVE  Held'
<1> SUFFICES ASSUME NEW g \in Handler PROVE HeldOK(pc[g], call[g])'
  BY DEF Held
<1>1. CASE g = h
  BY <1>1, Ended DEF HeldOK, Holding
<1>2. CASE g # h
  <2>1. pc'[g] = pc[g] /\ call'[g] = call[g] /\ HeldOK(pc[g], call[g])
    BY <1>2, Ended DEF Held
  <2>2. pc[g] \in Holding => call[g].token \in Token
    BY DEF TypeInv, LocalsOK, LocalOK
  <2>3. issued \in Nat
    BY DEF TypeInv, TypeOK
  <2> QED BY <2>1, <2>2, <2>3 DEF HeldOK, Stored, Token
<1> QED BY <1>1, <1>2

LEMMA OwnersKept ==
    ASSUME TypeInv, EverySessionHasOwner,
           \A u \in User : users[u] # NoUser => users'[u] # NoUser,
           \A t \in Token : tokens'[t] # NoToken =>
               \/ tokens[t] # NoToken /\ tokens'[t].owner = tokens[t].owner
               \/ tokens'[t].owner \in User /\ users'[tokens'[t].owner] # NoUser
    PROVE  EverySessionHasOwner'
<1> SUFFICES ASSUME NEW t \in Token, tokens'[t] # NoToken
             PROVE  tokens'[t].owner # 0 /\ users'[tokens'[t].owner] # NoUser
  BY DEF EverySessionHasOwner, Stored, Known
<1>1. CASE tokens[t] # NoToken /\ tokens'[t].owner = tokens[t].owner
  <2>1. tokens[t].owner \in User /\ users[tokens[t].owner] # NoUser
    BY <1>1, Rows DEF TokenRow, EverySessionHasOwner, Stored, Known
  <2> QED BY <1>1, <2>1, Rows
<1>2. CASE tokens'[t].owner \in User /\ users'[tokens'[t].owner] # NoUser
  BY <1>2, Rows
<1> QED BY <1>1, <1>2

LEMMA ReadTables ==
    ASSUME TableInv, NEW h \in Handler, Reads(h)
    PROVE  TableInv'
<1> PICK at \in Pc, c \in Call : LocalOK(at, c) /\ Opens(h, at, c) /\ Moves(h, at, c)
  BY DEF Reads
<1>1. TypeInv'
  BY ReadTypes DEF TableInv
<1>2. FreshIds' /\ OneAccountPerEmail' /\ EverySessionHasOwner'
  BY DEF TableInv, FreshIds, OneAccountPerEmail, EverySessionHasOwner, Moves, Accounts, Stored, Known
<1>3. Held'
  <2> SUFFICES ASSUME NEW g \in Handler PROVE HeldOK(pc[g], call[g])'
    BY DEF Held
  <2>1. CASE g # h
    BY <2>1 DEF TableInv, TypeInv, TypeOK, Held, HeldOK, Moves, Stored
  <2>2. CASE g = h
    <3>1. pc'[g] = at /\ call'[g] = c
      BY <2>2 DEF Moves, TableInv, TypeInv, TypeOK
    <3>2. CASE at \in {"checking", "revoking"}
      <4>1. c.token \in Token /\ Stored(c.token) /\ c.user = tokens[c.token].owner
        BY <3>2 DEF Opens, LocalOK, Holding, Live
      <4>2. c.token <= issued
        BY <4>1 DEF TableInv, FreshIds, Stored, TypeInv, TypeOK, Token
      <4> QED BY <3>1, <4>1, <4>2 DEF HeldOK, Moves, Stored
    <3>3. CASE at = "rotating"
      <4>1. pc[h] = "checking" /\ c = call[h]
        BY <3>3 DEF Opens
      <4> QED BY <3>1, <4>1 DEF TableInv, Held, HeldOK, Holding, Moves, Stored
    <3>4. CASE at \notin Holding
      BY <3>1, <3>4 DEF HeldOK
    <3> QED BY <3>2, <3>3, <3>4 DEF Holding
  <2> QED BY <2>1, <2>2
<1> QED BY <1>1, <1>2, <1>3 DEF TableInv

LEMMA InsertTables ==
    ASSUME TableInv, NEW h \in Handler, InsertUser(h), Finish(h),
           call[h].email \in Email, call[h].role \in Role, UNCHANGED issued,
           \A t \in Token : tokens'[t] = tokens[t] \/ tokens'[t] = NoToken
    PROVE  FreshIds' /\ Held' /\ OneAccountPerEmail' /\ EverySessionHasOwner'
<1> DEFINE n == registered + 1
<1> USE DEF TableInv
<1>1. /\ n \in User /\ users[n] = NoUser /\ registered' = n /\ users'[n] # NoUser
      /\ users'[n].email = call[h].email /\ ~EmailTaken(call[h].email, {})
      /\ \A u \in User \ {n} : users'[u] = users[u]
      /\ voided' = voided
  <2> HIDE DEF TableInv
  <2>1. TypeInv /\ FreshIds
    BY DEF TableInv
  <2>2. users'[n] = [email |-> call[h].email, role |-> call[h].role, active |-> TRUE]
    BY <2>1, Inserted
  <2>3. users'[n].email = call[h].email
    BY <2>2
  <2> QED BY <2>1, <2>3, Inserted
<1>2. FreshIds'
  BY <1>1, Rows DEF FreshIds, TypeInv, TypeOK, User
<1>3. Held'
  BY HeldKept DEF TypeInv, TypeOK
<1>4. OneAccountPerEmail'
  BY <1>1 DEF OneAccountPerEmail, Accounts, EmailTaken
<1>5. EverySessionHasOwner'
  BY <1>1, OwnersKept
<1> QED BY <1>2, <1>3, <1>4, <1>5

LEMMA SignOutTables ==
    ASSUME TableInv, NEW h \in Handler, NEW u \in User, NEW why \in Reason,
           RevokeAll(u, why), SignOut(h, u), Finish(h), UNCHANGED <<registered, issued>>,
           \A v \in User : /\ users'[v] = NoUser <=> users[v] = NoUser
                           /\ users'[v].email = users[v].email
    PROVE  FreshIds' /\ Held' /\ OneAccountPerEmail' /\ EverySessionHasOwner'
<1> USE DEF TableInv
<1>1. \A t \in Token :
         /\ tokens'[t].owner = tokens[t].owner /\ tokens'[t].parent = tokens[t].parent
         /\ tokens'[t] = NoToken <=> tokens[t] = NoToken
  BY Revokes
<1>2. \A t \in Token : t \in voided' => t \in voided \/ tokens[t] # NoToken
  BY Rows DEF SignOut
<1>3. FreshIds'
  BY <1>1, <1>2 DEF FreshIds
<1>4. Held'
  BY <1>1, HeldKept DEF TypeInv, TypeOK
<1>5. OneAccountPerEmail'
  BY DEF OneAccountPerEmail, Accounts
<1>6. EverySessionHasOwner'
  BY <1>1, OwnersKept
<1> QED BY <1>3, <1>4, <1>5, <1>6

\* An edit writes role and activity of one existing account.
LEMMA Edits ==
    ASSUME TypeInv, NEW h \in Handler, EditUser(h)
    PROVE  LET u == call[h].user  c == call[h] IN
           /\ u \in User /\ users[u] # NoUser /\ users'[u] # NoUser
           /\ users'[u].email = users[u].email
           /\ users'[u].role = OrElse(c.role, users[u].role)
           /\ users'[u].active = OrElse(c.active, users[u].active)
           /\ users'[u].active \in BOOLEAN
           /\ \A v \in User \ {u} : users'[v] = users[v]
           /\ UNCHANGED <<registered, issued, expired>> /\ Finish(h)
<1> DEFINE u == call[h].user
<1>1. u \in User /\ users[u] \in UserRow /\ call[h] \in Call
  BY Rows DEF EditUser, Known, TypeInv, TypeOK, LocalsOK, LocalOK, Admin
<1>2. /\ OrElse(call[h].role, users[u].role) \in Role
      /\ OrElse(call[h].active, users[u].active) \in BOOLEAN
  BY <1>1 DEF OrElse, Call, UserRow
<1>3. users'[u] = [users[u] EXCEPT !.role = OrElse(call[h].role, users[u].role),
                                   !.active = OrElse(call[h].active, users[u].active)]
      /\ \A v \in User \ {u} : users'[v] = users[v]
  BY <1>1 DEF EditUser, TypeInv, TypeOK, UserRow
<1>4. /\ users'[u] \in UserRow /\ users'[u].email = users[u].email
      /\ users'[u].role = OrElse(call[h].role, users[u].role)
      /\ users'[u].active = OrElse(call[h].active, users[u].active)
  BY <1>1, <1>2, <1>3 DEF UserRow
<1>5. users'[u] # NoUser
  BY <1>4, NoneIsNull DEF UserRow, NoUser
<1> QED BY <1>1, <1>2, <1>3, <1>4, <1>5, Rows DEF EditUser, clock

LEMMA WriteTables ==
    ASSUME TableInv, NEW h \in Handler, Writes(h)
    PROVE  TableInv'
<1> USE DEF TableInv
<1>0. TypeInv'
  BY WriteTypes
<1>a. /\ LocalOK(pc[h], call[h]) /\ issued \in Nat
      /\ tokens \in [Token -> TokenRow \cup {NoToken}]
  BY DEF TypeInv, TypeOK, LocalsOK
<1> SUFFICES FreshIds' /\ Held' /\ OneAccountPerEmail' /\ EverySessionHasOwner'
  BY <1>0
<1>1. CASE CreateUser(h)
  <2>1. call[h].email \in Email /\ call[h].role \in Role
    BY <1>1, <1>a DEF CreateUser, LocalOK
  <2> QED BY <1>1, <2>1, InsertTables DEF CreateUser
<1>2. CASE IssueForLogin(h)
  <2> DEFINE n == issued + 1  u == call[h].user
  <2>1. /\ u \in User /\ Known(u) /\ n \in Token /\ tokens[n] = NoToken /\ issued' = n
        /\ tokens'[n] = [owner |-> u, reason |-> None, parent |-> 0]
        /\ \A t \in Token \ {n} : tokens'[t] = tokens[t]
        /\ voided' \subseteq voided \cup {n}
        /\ UNCHANGED <<users, registered>> /\ Finish(h)
    BY <1>2, Logins DEF IssueForLogin
  <2>2. FreshIds'
    <3>1. \A t \in Token : t > n => tokens'[t] = NoToken /\ t \notin voided'
      BY <2>1, <1>a DEF FreshIds, Token
    <3>2. ASSUME NEW t \in Token PROVE tokens'[t].parent <= n
      BY <2>1, <1>a, Rows DEF FreshIds, Token, TokenRow
    <3> QED BY <2>1, <3>1, <3>2 DEF FreshIds
  <2>3. Held'
    BY <2>1, <1>a, HeldKept DEF Token
  <2>4. OneAccountPerEmail'
    BY <2>1 DEF OneAccountPerEmail, Accounts
  <2>5. EverySessionHasOwner'
    BY <2>1, OwnersKept DEF Known
  <2> QED BY <2>2, <2>3, <2>4, <2>5
<1>3. CASE Rotate(h)
  <2> DEFINE n == issued + 1  u == call[h].user  p == call[h].token
  <2>1. /\ u \in User /\ Known(u) /\ n \in Token /\ tokens[n] = NoToken /\ issued' = n
        /\ p \in Token /\ p # n /\ Stored(p) /\ tokens[p].owner = u
        /\ tokens'[n] = [owner |-> u, reason |-> None, parent |-> p]
        /\ \A t \in Token \ {n, p} : tokens'[t] = tokens[t]
        /\ voided' \subseteq voided \cup {n}
        /\ UNCHANGED <<users, registered>> /\ Finish(h)
    BY <1>3, Rotations DEF Rotate
  <2>2. /\ tokens[p] \in TokenRow /\ p <= issued
        /\ tokens'[p].owner = u /\ tokens'[p].parent = tokens[p].parent
    <3>1. tokens'[p] = [tokens[p] EXCEPT !.reason = "rotated"]
      BY <1>3, Rotations
    <3> QED BY <2>1, <3>1, <1>a, Rows DEF Stored, TokenRow, FreshIds, Token
  <2>3. FreshIds'
    <3>1. \A t \in Token : t > n => tokens'[t] = NoToken /\ t \notin voided'
      BY <2>1, <2>2, <1>a DEF FreshIds, Token
    <3>2. \A t \in Token : tokens'[t].parent <= n
      <4>0. tokens'[n].parent <= n /\ tokens'[p].parent <= n
        BY <2>1, <2>2, <1>a DEF FreshIds, Token, TokenRow
      <4>1. ASSUME NEW t \in Token \ {n, p} PROVE tokens'[t].parent <= n
        BY <2>1, <1>a, Rows DEF FreshIds, Token, TokenRow
      <4> QED BY <4>0, <4>1
    <3> QED BY <2>1, <3>1, <3>2 DEF FreshIds
  <2>4. Held'
    <3>1. \A t \in Token : t <= issued =>
             tokens'[t].owner = tokens[t].owner /\ (tokens'[t] # NoToken => tokens[t] # NoToken)
      BY <2>1, <2>2, <1>a DEF Token, Stored
    <3> QED BY <2>1, <3>1, <1>a, HeldKept
  <2>5. OneAccountPerEmail'
    BY <2>1 DEF OneAccountPerEmail, Accounts
  <2>6. EverySessionHasOwner'
    <3>1. tokens'[n].owner = u /\ users'[u] # NoUser /\ tokens[p] # NoToken
      BY <2>1 DEF Known, Stored
    <3>2. \A t \in Token : t # n => tokens'[t].owner = tokens[t].owner
      BY <2>1, <2>2
    <3>3. \A t \in Token \ {n} : tokens'[t] # NoToken => tokens[t] # NoToken
      BY <2>1, <3>1
    <3> QED BY <2>1, <3>1, <3>2, <3>3, OwnersKept
  <2> QED BY <2>3, <2>4, <2>5, <2>6
<1>4. CASE Logout(h)
  <2> DEFINE p == call[h].token
  <2>1. /\ p \in Token /\ tokens[p] \in TokenRow /\ Stored(p)
        /\ \A t \in Token \ {p} : tokens'[t] = tokens[t]
        /\ UNCHANGED <<users, registered, issued, voided>> /\ Finish(h)
    BY <1>4, <1>a, Rows DEF Logout, LocalOK, Holding, Stored, clock, ghosts
  <2>2. tokens'[p].owner = tokens[p].owner /\ tokens'[p].parent = tokens[p].parent /\ tokens[p] # NoToken
    <3>1. tokens'[p] = [tokens[p] EXCEPT !.reason = "logout"]
      BY <1>4, <2>1, <1>a DEF Logout
    <3> QED BY <2>1, <3>1, Rows DEF TokenRow
  <2>3. FreshIds'
    BY <2>1, <2>2 DEF FreshIds
  <2>4. \A t \in Token : tokens'[t].owner = tokens[t].owner /\ (tokens'[t] # NoToken => tokens[t] # NoToken)
    BY <2>1, <2>2
  <2>5. Held'
    BY <2>1, <2>4, <1>a, HeldKept
  <2>6. OneAccountPerEmail'
    BY <2>1 DEF OneAccountPerEmail, Accounts
  <2>7. EverySessionHasOwner'
    BY <2>1, <2>4, OwnersKept
  <2> QED BY <2>3, <2>5, <2>6, <2>7
<1>5. CASE CommitSignOut(h)
  <2> DEFINE u == call[h].user
  <2>1. /\ u \in User /\ call[h].why \in Reason /\ RevokeAll(u, call[h].why) /\ SignOut(h, u)
        /\ UNCHANGED <<users, registered, issued>> /\ Finish(h)
    BY <1>5, <1>a DEF CommitSignOut, LocalOK, clock
  <2> QED BY <2>1, <1>a, SignOutTables
<1>6. CASE UpdateProfile(h)
  <2> DEFINE u == call[h].user
  <2>1. /\ u \in User /\ users[u] \in UserRow /\ call[h].email \in Email
        /\ ~EmailTaken(call[h].email, {u})
        /\ \A v \in User \ {u} : users'[v] = users[v]
        /\ UNCHANGED <<tokens, registered, issued, voided>> /\ Finish(h)
    BY <1>6, <1>a, Rows DEF UpdateProfile, LocalOK, Known, clock, ghosts, TypeInv, TypeOK
  <2>2. users'[u] # NoUser /\ users[u] # NoUser /\ users'[u].email = call[h].email
    <3>1. users'[u] = [users[u] EXCEPT !.email = call[h].email]
      BY <1>6, <2>1 DEF UpdateProfile, TypeInv, TypeOK
    <3> QED BY <2>1, <3>1, NoneIsNull DEF UserRow, NoUser
  <2>3. FreshIds'
    BY <2>1, <2>2 DEF FreshIds
  <2>4. Held'
    BY <2>1, <1>a, HeldKept
  <2>5. OneAccountPerEmail'
    <3>1. \A v \in User \ {u} : users[v] # NoUser => users[v].email # call[h].email
      BY <2>1 DEF EmailTaken, Accounts
    <3> QED BY <2>1, <2>2, <3>1 DEF OneAccountPerEmail, Accounts
  <2>6. EverySessionHasOwner'
    BY <2>1, <2>2, OwnersKept
  <2> QED BY <2>3, <2>4, <2>5, <2>6
<1>7. CASE EditUser(h)
  <2> DEFINE u == call[h].user
  <2>1. /\ u \in User /\ users[u] # NoUser /\ users'[u] # NoUser /\ users'[u].email = users[u].email
        /\ \A v \in User \ {u} : users'[v] = users[v]
        /\ UNCHANGED <<registered, issued>> /\ Finish(h)
    BY <1>7, Edits
  <2>2. OneAccountPerEmail'
    BY <2>1 DEF OneAccountPerEmail, Accounts
  <2>3. CASE call[h].why = "admin"
    <3>1. RevokeAll(u, "admin") /\ SignOut(h, u) /\ "admin" \in Reason
      BY <1>7, <2>3 DEF EditUser, Reason
    <3> QED BY <2>1, <2>2, <3>1, <1>a, SignOutTables
  <2>4. CASE call[h].why # "admin"
    <3>1. UNCHANGED <<tokens, voided>>
      BY <1>7, <2>4 DEF EditUser, ghosts
    <3>2. Held'
      BY <2>1, <3>1, <1>a, HeldKept
    <3>3. EverySessionHasOwner'
      BY <2>1, <3>1, OwnersKept
    <3> QED BY <2>1, <2>2, <3>1, <3>2, <3>3 DEF FreshIds
  <2> QED BY <2>3, <2>4
<1>8. CASE DeleteUser(h)
  <2> DEFINE u == call[h].user
  <2>1. /\ u \in User /\ users'[u] = NoUser
        /\ \A v \in User \ {u} : users'[v] = users[v]
        /\ \A t \in Token : tokens'[t] = IF tokens[t].owner = u THEN NoToken ELSE tokens[t]
        /\ UNCHANGED <<registered, issued, voided>> /\ Finish(h)
    BY <1>8, <1>a DEF DeleteUser, LocalOK, Admin, clock, ghosts, TypeInv, TypeOK
  <2>2. FreshIds'
    BY <2>1, <1>a, Rows DEF FreshIds
  <2>3. Held'
    BY <2>1, <1>a, HeldKept
  <2>4. OneAccountPerEmail'
    BY <2>1 DEF OneAccountPerEmail, Accounts
  <2>5. EverySessionHasOwner'
    <3> SUFFICES ASSUME NEW t \in Token, tokens'[t] # NoToken
                 PROVE  tokens'[t].owner # 0 /\ users'[tokens'[t].owner] # NoUser
      BY DEF EverySessionHasOwner, Stored, Known
    <3>1. tokens'[t] = tokens[t] /\ tokens[t].owner # u
      BY <2>1
    <3>2. tokens[t].owner \in User /\ users[tokens[t].owner] # NoUser
      BY <3>1, Rows DEF TokenRow, EverySessionHasOwner, Stored, Known
    <3> QED BY <2>1, <3>1, <3>2, Rows
  <2> QED BY <2>2, <2>3, <2>4, <2>5
<1>9. CASE Housekeep(h)
  <2>1. /\ \A t \in Token : tokens'[t] = tokens[t] \/ tokens'[t] = NoToken
        /\ UNCHANGED issued /\ Finish(h)
    BY <1>9 DEF Housekeep
  <2>2. CASE call[h].role = "admin"
    <3>1. call[h].email \in Email /\ call[h].role \in Role
      BY <1>9, <1>a, <2>2, NoneIsNull DEF Housekeep, LocalOK, Role
    <3> QED BY <1>9, <2>1, <2>2, <3>1, InsertTables DEF Housekeep
  <2>3. CASE call[h].role # "admin"
    <3>1. UNCHANGED <<users, registered, voided>>
      BY <1>9, <2>3 DEF Housekeep, ghosts
    <3>2. Held'
      BY <2>1, <1>a, HeldKept
    <3> QED BY <2>1, <3>1, <3>2, <1>a, Rows
            DEF FreshIds, OneAccountPerEmail, EverySessionHasOwner, Accounts, Stored, Known
  <2> QED BY <2>2, <2>3
<1> QED BY <1>1, <1>2, <1>3, <1>4, <1>5, <1>6, <1>7, <1>8, <1>9 DEF Writes

LEMMA InitTables == ASSUME Init PROVE TableInv
<1>1. TypeInv
  BY InitTypes
<1>2. FreshIds
  BY Rows, <1>1 DEF Init, FreshIds
<1>3. Held /\ OneAccountPerEmail /\ EverySessionHasOwner
  BY DEF Init, Held, HeldOK, Holding, OneAccountPerEmail, Accounts, EverySessionHasOwner, Stored, NoToken
<1> QED BY <1>1, <1>2, <1>3 DEF TableInv

LEMMA StepTables == ASSUME TableInv, [Next]_vars PROVE TableInv'
<1>0. TypeInv'
  BY StepTypes DEF TableInv
<1>1. CASE UNCHANGED vars \/ Expire
  BY <1>0, <1>1 DEF vars, Expire, tables, clock, ghosts, TableInv, FreshIds, Held, HeldOK,
     OneAccountPerEmail, Accounts, EverySessionHasOwner, Stored, Known
<1> QED BY <1>1, Kinds, ReadTables, WriteTables DEF TableInv

\* No two accounts share an address, whatever registrations, renamings and starts
\* race: the unique index decides.
THEOREM EmailsAreUnique == Spec => []OneAccountPerEmail
<1>1. Spec => []TableInv
  BY InitTables, StepTables, PTL DEF Spec
<1>2. TableInv => OneAccountPerEmail
  BY DEF TableInv
<1> QED BY <1>1, <1>2, PTL

\* Every stored session belongs to an account, although an account may be deleted
\* while a login or a rotation is about to add one.
THEOREM SessionsAreOwned == Spec => []EverySessionHasOwner
<1>1. Spec => []TableInv
  BY InitTables, StepTables, PTL DEF Spec
<1>2. TableInv => EverySessionHasOwner
  BY DEF TableInv
<1> QED BY <1>1, <1>2, PTL

-----------------------------------------------------------------------------
\* Signing out.  A handler that is about to issue a token has been overtaken if the
\* token it read is void, or the account is not active any more; or that token had
\* escaped before.
Excused(g) == g \in overtaken \/ call[g].token \in escaped

EscapeOK(g) ==
    /\ pc[g] \in {"checking", "rotating"} /\ call[g].token \in voided => Excused(g)
    /\ pc[g] \in Issuing /\ Known(call[g].user) /\ ~users[call[g].user].active => Excused(g)

SignedOut == SignOutIsComplete /\ InactiveHasNoSession /\ \A g \in Handler : EscapeOK(g)

SignOutInv == TableInv /\ SignedOut

LEMMA ReadSignOut ==
    ASSUME SignOutInv, NEW h \in Handler, Reads(h)
    PROVE  SignedOut'
<1> PICK at \in Pc, c \in Call : LocalOK(at, c) /\ Opens(h, at, c) /\ Moves(h, at, c)
  BY DEF Reads
<1> USE DEF SignOutInv, TableInv
<1>1. SignOutIsComplete' /\ InactiveHasNoSession'
  BY DEF SignedOut, SignOutIsComplete, InactiveHasNoSession, Live, Stored, Revoked, Moves
<1>2. ASSUME NEW g \in Handler PROVE EscapeOK(g)'
  <2>1. CASE g # h
    BY <2>1 DEF TypeInv, TypeOK, SignedOut, EscapeOK, Excused, Moves, Known
  <2>2. CASE g = h
    <3>1. pc'[h] = at /\ call'[h] = c
      BY DEF Moves, TypeInv, TypeOK
    <3>2. CASE at = "checking"
      <4>1. /\ Live(c.token) /\ c.user = tokens[c.token].owner /\ c.token \in Token
        BY <3>2 DEF Opens, LocalOK, Holding
      <4>2. c.token \in voided => c.token \in escaped
        BY <4>1 DEF SignedOut, SignOutIsComplete
      <4>3. ~users[c.user].active => c.token \in escaped
        BY <4>1 DEF SignedOut, InactiveHasNoSession
      <4> QED BY <2>2, <3>1, <3>2, <4>2, <4>3 DEF EscapeOK, Excused, Moves, Known
    <3>3. CASE at = "rotating"
      <4>1. pc[h] = "checking" /\ c = call[h] /\ ActiveUser(c.user)
        BY <3>3 DEF Opens
      <4>2. c.token \in voided => Excused(h)
        BY <4>1 DEF SignedOut, EscapeOK
      <4> QED BY <2>2, <3>1, <3>3, <4>1, <4>2 DEF EscapeOK, Excused, Moves, Known, ActiveUser
    <3>4. CASE at = "issuing"
      <4>1. ActiveUser(c.user)
        BY <3>4 DEF Opens
      <4> QED BY <2>2, <3>1, <3>4, <4>1 DEF EscapeOK, Moves, Known, ActiveUser
    <3>5. CASE at \notin Issuing
      BY <2>2, <3>1, <3>5 DEF EscapeOK, Issuing
    <3> QED BY <3>2, <3>3, <3>4, <3>5 DEF Issuing
  <2> QED BY <2>1, <2>2
<1> QED BY <1>1, <1>2 DEF SignedOut

\* Writes that void no token known to a handler and deactivate no account.
LEMMA EscapesKept ==
    ASSUME SignOutInv, NEW h \in Handler, Finish(h),
           \A t \in Token : t <= issued /\ t \in voided' => t \in voided,
           escaped \subseteq escaped', overtaken \ {h} \subseteq overtaken',
           \A u \in User : users'[u] # NoUser /\ ~users'[u].active =>
                              users[u] # NoUser /\ ~users[u].active
    PROVE  \A g \in Handler : EscapeOK(g)'
<1> SUFFICES ASSUME NEW g \in Handler PROVE EscapeOK(g)'
  OBVIOUS
<1> USE DEF SignOutInv, TableInv
<1>1. CASE g = h
  BY <1>1, Ended DEF EscapeOK, Issuing
<1>2. CASE g # h
  <2>1. pc'[g] = pc[g] /\ call'[g] = call[g] /\ EscapeOK(g) /\ (Excused(g) => Excused(g)')
    BY <1>2, Ended DEF SignedOut, Excused
  <2>2. pc[g] \in {"checking", "rotating"} => call[g].token \in Token /\ call[g].token <= issued
    BY DEF TypeInv, LocalsOK, LocalOK, Held, HeldOK, Holding
  <2>3. pc[g] \in Issuing => call[g].user \in User
    BY DEF TypeInv, LocalsOK, LocalOK
  <2> QED BY <2>1, <2>2, <2>3 DEF EscapeOK, Known
<1> QED BY <1>1, <1>2

\* ... and bring no session to life.
LEMMA SignedOutKept ==
    ASSUME SignOutInv, NEW h \in Handler, Finish(h),
           UNCHANGED <<expired, voided, escaped>>, overtaken \ {h} \subseteq overtaken',
           \A t \in Token : tokens'[t] = NoToken \/ tokens'[t] = tokens[t]
                            \/ tokens'[t].reason # None,
           \A u \in User : users'[u] # NoUser /\ ~users'[u].active =>
                              users[u] # NoUser /\ ~users[u].active,
           EverySessionHasOwner'
    PROVE  SignedOut'
<1> USE DEF SignOutInv, TableInv
<1>1. \A g \in Handler : EscapeOK(g)'
  BY EscapesKept
<1>2. ASSUME NEW t \in Token, Live(t)'
      PROVE  /\ Live(t) /\ tokens'[t] = tokens[t] /\ tokens[t].owner \in User
             /\ users'[tokens[t].owner] # NoUser
  <2>1. Live(t) /\ tokens'[t] = tokens[t] /\ tokens[t] # NoToken
    BY <1>2 DEF Live, Stored, Revoked
  <2> QED BY <1>2, <2>1, Rows DEF TokenRow, EverySessionHasOwner, Live, Known, Stored
<1>3. SignOutIsComplete'
  BY <1>2 DEF SignedOut, SignOutIsComplete
<1>4. InactiveHasNoSession'
  BY <1>2 DEF SignedOut, InactiveHasNoSession
<1> QED BY <1>1, <1>3, <1>4 DEF SignedOut

\* A sign-out voids the sessions of one account, and overtakes whoever is about to
\* issue another one for it.
LEMMA SignOutEnds ==
    ASSUME SignOutInv, NEW h \in Handler, NEW u \in User, NEW why \in Reason,
           RevokeAll(u, why), SignOut(h, u), Finish(h), UNCHANGED expired,
           \A v \in User \ {u} : users'[v] = users[v]
    PROVE  SignedOut'
<1> USE DEF SignOutInv, TableInv
<1>1. /\ \A t \in Token : t \in voided' <=> t \in voided \/ tokens[t].owner = u
      /\ escaped' = escaped
      /\ \A g \in Handler \ {h} :
            g \in overtaken' <=> g \in overtaken \/ (pc[g] \in Issuing /\ call[g].user = u)
  BY DEF SignOut
<1>2. ASSUME NEW t \in Token, Live(t)'
      PROVE  /\ Live(t) /\ tokens[t].owner \in User \ {u} /\ tokens'[t].owner = tokens[t].owner
  <2>1. /\ tokens'[t].owner = tokens[t].owner /\ tokens[t] # NoToken
        /\ tokens[t].reason = None /\ tokens[t].owner # u
    BY <1>2, Revokes DEF Live, Stored, Revoked
  <2> QED BY <1>2, <2>1, Rows DEF TokenRow, Live, Stored, Revoked
<1>3. SignOutIsComplete'
  BY <1>1, <1>2 DEF SignedOut, SignOutIsComplete
<1>4. InactiveHasNoSession'
  BY <1>1, <1>2 DEF SignedOut, InactiveHasNoSession
<1>5. ASSUME NEW g \in Handler PROVE EscapeOK(g)'
  <2>1. CASE g = h
    BY <2>1, Ended DEF EscapeOK, Issuing
  <2>2. CASE g # h /\ pc[g] \notin Issuing
    BY <2>2, Ended DEF EscapeOK, Issuing
  <2>3. CASE g # h /\ pc[g] \in Issuing /\ call[g].user = u
    BY <1>1, <2>3 DEF EscapeOK, Excused
  <2>4. CASE g # h /\ pc[g] \in Issuing /\ call[g].user # u
    <3>1. /\ pc'[g] = pc[g] /\ call'[g] = call[g] /\ EscapeOK(g) /\ (Excused(g) => Excused(g)')
          /\ call[g].user \in User /\ users'[call[g].user] = users[call[g].user]
      BY <1>1, <2>4, Ended DEF SignedOut, Excused, TypeInv, LocalsOK, LocalOK
    <3>2. ASSUME pc[g] \in {"checking", "rotating"}
          PROVE  call[g].token \in Token /\ tokens[call[g].token].owner # u
      <4>1. call[g].token \in Token /\ HeldOK(pc[g], call[g])
        BY <3>2 DEF TypeInv, LocalsOK, LocalOK, Holding, Held
      <4> QED BY <2>4, <3>2, <4>1, Rows DEF HeldOK, Holding, Stored
    <3> QED BY <1>1, <3>1, <3>2 DEF EscapeOK, Known
  <2> QED BY <2>1, <2>2, <2>3, <2>4
<1> QED BY <1>3, <1>4, <1>5 DEF SignedOut

\* A login that was overtaken opens a session that escapes.
LEMMA LoginSignOut ==
    ASSUME SignOutInv, NEW h \in Handler, IssueForLogin(h)
    PROVE  SignedOut'
<1> USE DEF SignOutInv, TableInv
<1> DEFINE n == issued + 1  u == call[h].user
<1>1. /\ u \in User /\ Known(u) /\ n \in Token /\ n \notin voided
      /\ tokens'[n] = [owner |-> u, reason |-> None, parent |-> 0]
      /\ \A t \in Token \ {n} : tokens'[t] = tokens[t]
      /\ voided' = (IF h \in overtaken THEN voided \cup {n} ELSE voided)
      /\ escaped' = (IF h \in overtaken THEN escaped \cup {n} ELSE escaped)
      /\ overtaken' = overtaken \ {h}
      /\ UNCHANGED <<users, expired>> /\ Finish(h)
  BY Logins DEF IssueForLogin
<1>2. ~users[u].active => n \in escaped'
  <2>1. pc[h] = "issuing" /\ call[h].token \notin escaped
    BY DEF IssueForLogin, TypeInv, TypeOK, LocalsOK, LocalOK, Holding, Token
  <2> QED BY <1>1, <2>1 DEF SignedOut, EscapeOK, Excused, Issuing
<1>3. \A t \in Token \ {n} : Live(t)' <=> Live(t)
  BY <1>1 DEF Live, Stored, Revoked
<1>4. SignOutIsComplete'
  BY <1>1, <1>3 DEF SignedOut, SignOutIsComplete
<1>5. InactiveHasNoSession'
  BY <1>1, <1>2, <1>3 DEF SignedOut, InactiveHasNoSession
<1>6. \A t \in Token : t <= issued /\ t \in voided' => t \in voided
  <2>1. issued \in Nat
    BY DEF TypeInv, TypeOK
  <2> QED BY <1>1, <2>1 DEF Token
<1>7. \A g \in Handler : EscapeOK(g)'
  BY <1>1, <1>6, EscapesKept
<1> QED BY <1>4, <1>5, <1>7 DEF SignedOut

\* So does the successor of a token that was void, or of an account that was not
\* active, when it was exchanged.
LEMMA RotateSignOut ==
    ASSUME SignOutInv, NEW h \in Handler, Rotate(h)
    PROVE  SignedOut'
<1> USE DEF SignOutInv, TableInv
<1> DEFINE n == issued + 1  u == call[h].user  p == call[h].token
<1>1. /\ u \in User /\ Known(u) /\ n \in Token /\ n \notin voided
      /\ p \in Token /\ p # n /\ Stored(p) /\ tokens[p].owner = u
      /\ tokens'[n] = [owner |-> u, reason |-> None, parent |-> p]
      /\ \A t \in Token \ {n, p} : tokens'[t] = tokens[t]
      /\ voided' = (IF h \in overtaken \/ p \in voided THEN voided \cup {n} ELSE voided)
      /\ escaped' = (IF h \in overtaken \/ p \in escaped THEN escaped \cup {n} ELSE escaped)
      /\ overtaken' = overtaken \ {h}
      /\ UNCHANGED <<users, expired>> /\ Finish(h)
  BY Rotations DEF Rotate
<1>2. tokens'[p].reason # None
  <2>1. tokens'[p] = [tokens[p] EXCEPT !.reason = "rotated"] /\ tokens[p] \in TokenRow
    BY <1>1, Rotations, Rows DEF Stored
  <2> QED BY <2>1, NoneIsNull DEF TokenRow, Reason
<1>3. n \in voided' \/ ~users[u].active => n \in escaped'
  <2>1. pc[h] = "rotating"
    BY DEF Rotate
  <2>2. p \in voided \/ ~users[u].active => Excused(h)
    BY <1>1, <2>1 DEF SignedOut, EscapeOK, Issuing
  <2> QED BY <1>1, <2>2 DEF Excused
<1>4. \A t \in Token \ {n} : Live(t)' => Live(t) /\ tokens'[t] = tokens[t]
  BY <1>1, <1>2 DEF Live, Stored, Revoked
<1>5. SignOutIsComplete'
  BY <1>1, <1>3, <1>4 DEF SignedOut, SignOutIsComplete
<1>6. InactiveHasNoSession'
  BY <1>1, <1>3, <1>4 DEF SignedOut, InactiveHasNoSession
<1>7. \A t \in Token : t <= issued /\ t \in voided' => t \in voided
  <2>1. issued \in Nat
    BY DEF TypeInv, TypeOK
  <2> QED BY <1>1, <2>1 DEF Token
<1>8. \A g \in Handler : EscapeOK(g)'
  BY <1>1, <1>7, EscapesKept
<1> QED BY <1>5, <1>6, <1>8 DEF SignedOut

LEMMA WriteSignOut ==
    ASSUME SignOutInv, NEW h \in Handler, Writes(h)
    PROVE  SignOutInv'
<1> USE DEF SignOutInv, TableInv
<1>0. TableInv'
  BY WriteTables
<1>a. LocalOK(pc[h], call[h]) /\ tokens \in [Token -> TokenRow \cup {NoToken}]
  BY DEF TypeInv, TypeOK, LocalsOK
<1> SUFFICES SignedOut'
  BY <1>0
<1>1. CASE CreateUser(h)
  <2>1. call[h].email \in Email /\ call[h].role \in Role
    BY <1>1, <1>a DEF CreateUser, LocalOK
  <2>2. /\ users'[registered + 1].active
        /\ \A u \in User \ {registered + 1} : users'[u] = users[u]
        /\ UNCHANGED <<voided, overtaken, escaped>>
    BY <1>1, <2>1, Inserted DEF CreateUser
  <2> QED BY <1>0, <1>1, <2>2, SignedOutKept DEF CreateUser
<1>2. CASE IssueForLogin(h)
  BY <1>2, LoginSignOut
<1>3. CASE Rotate(h)
  BY <1>3, RotateSignOut
<1>4. CASE Logout(h)
  <2> DEFINE p == call[h].token
  <2>1. /\ p \in Token /\ tokens[p] \in TokenRow
        /\ \A t \in Token \ {p} : tokens'[t] = tokens[t]
        /\ UNCHANGED <<users, expired, voided, overtaken, escaped>> /\ Finish(h)
    BY <1>4, <1>a, Rows DEF Logout, LocalOK, Holding, Stored, clock, ghosts
  <2>2. tokens'[p].reason # None
    <3>1. tokens'[p] = [tokens[p] EXCEPT !.reason = "logout"]
      BY <1>4, <2>1, <1>a DEF Logout
    <3> QED BY <2>1, <3>1, NoneIsNull DEF TokenRow, Reason
  <2> QED BY <1>0, <2>1, <2>2, SignedOutKept
<1>5. CASE CommitSignOut(h)
  <2> DEFINE u == call[h].user
  <2>1. /\ u \in User /\ call[h].why \in Reason /\ RevokeAll(u, call[h].why) /\ SignOut(h, u)
        /\ UNCHANGED <<users, expired>> /\ Finish(h)
    BY <1>5, <1>a DEF CommitSignOut, LocalOK, clock
  <2> QED BY <2>1, SignOutEnds
<1>6. CASE UpdateProfile(h)
  <2> DEFINE u == call[h].user
  <2>1. /\ u \in User /\ users[u] \in UserRow
        /\ \A v \in User \ {u} : users'[v] = users[v]
        /\ UNCHANGED <<tokens, expired, voided, overtaken, escaped>> /\ Finish(h)
    BY <1>6, <1>a, Rows DEF UpdateProfile, LocalOK, Known, clock, ghosts, TypeInv, TypeOK
  <2>2. users'[u].active = users[u].active /\ users[u] # NoUser
    <3>1. users'[u] = [users[u] EXCEPT !.email = call[h].email]
      BY <1>6, <2>1 DEF UpdateProfile, TypeInv, TypeOK
    <3> QED BY <2>1, <3>1, Rows DEF UserRow
  <2> QED BY <1>0, <2>1, <2>2, SignedOutKept
<1>7. CASE EditUser(h)
  <2> DEFINE u == call[h].user
  <2>1. /\ u \in User /\ users[u] # NoUser /\ \A v \in User \ {u} : users'[v] = users[v]
        /\ users'[u].active = OrElse(call[h].active, users[u].active)
        /\ UNCHANGED expired /\ Finish(h)
    BY <1>7, Edits
  <2>2. CASE call[h].why = "admin"
    <3>1. RevokeAll(u, "admin") /\ SignOut(h, u) /\ "admin" \in Reason
      BY <1>7, <2>2 DEF EditUser, Reason
    <3> QED BY <2>1, <3>1, SignOutEnds
  <2>3. CASE call[h].why # "admin"
    <3>1. UNCHANGED <<tokens, voided, overtaken, escaped>>
      BY <1>7, <2>3 DEF EditUser, ghosts
    <3>2. call[h].active # FALSE /\ call[h].active \in BOOLEAN \cup {None}
      BY <1>7, <1>a, <2>3 DEF EditUser, LocalOK, TypeInv, TypeOK, Call
    <3>3. ~users'[u].active => ~users[u].active
      BY <2>1, <3>2 DEF OrElse
    <3> QED BY <1>0, <2>1, <3>1, <3>3, SignedOutKept
  <2> QED BY <2>2, <2>3
<1>8. CASE DeleteUser(h)
  <2> DEFINE u == call[h].user
  <2>1. /\ u \in User /\ users'[u] = NoUser
        /\ \A v \in User \ {u} : users'[v] = users[v]
        /\ \A t \in Token : tokens'[t] = IF tokens[t].owner = u THEN NoToken ELSE tokens[t]
        /\ UNCHANGED <<expired, voided, overtaken, escaped>> /\ Finish(h)
    BY <1>8, <1>a DEF DeleteUser, LocalOK, Admin, clock, ghosts, TypeInv, TypeOK
  <2> QED BY <1>0, <2>1, SignedOutKept
<1>9. CASE Housekeep(h)
  <2>1. /\ \A t \in Token : tokens'[t] = tokens[t] \/ tokens'[t] = NoToken
        /\ UNCHANGED expired /\ Finish(h)
    BY <1>9 DEF Housekeep
  <2>2. CASE call[h].role = "admin"
    <3>1. call[h].email \in Email /\ call[h].role \in Role
      BY <1>9, <1>a, <2>2, NoneIsNull DEF Housekeep, LocalOK, Role
    <3>2. /\ users'[registered + 1].active
          /\ \A u \in User \ {registered + 1} : users'[u] = users[u]
          /\ UNCHANGED <<voided, overtaken, escaped>>
      BY <1>9, <2>2, <3>1, Inserted DEF Housekeep
    <3> QED BY <1>0, <2>1, <3>2, SignedOutKept
  <2>3. CASE call[h].role # "admin"
    <3>1. UNCHANGED <<users, voided, overtaken, escaped>>
      BY <1>9, <2>3 DEF Housekeep, ghosts
    <3> QED BY <1>0, <2>1, <3>1, SignedOutKept
  <2> QED BY <2>2, <2>3
<1> QED BY <1>1, <1>2, <1>3, <1>4, <1>5, <1>6, <1>7, <1>8, <1>9 DEF Writes

LEMMA InitSignOut == ASSUME Init PROVE SignOutInv
BY InitTables DEF Init, SignOutInv, SignedOut, SignOutIsComplete, InactiveHasNoSession, Live, Stored,
   EscapeOK, Issuing

LEMMA StepSignOut == ASSUME SignOutInv, [Next]_vars PROVE SignOutInv'
<1>0. TableInv'
  BY StepTables DEF SignOutInv
<1>1. CASE UNCHANGED vars
  BY <1>0, <1>1 DEF vars, tables, clock, ghosts, SignOutInv, SignedOut, SignOutIsComplete,
     InactiveHasNoSession, Live, Stored, Revoked, EscapeOK, Excused, Known
<1>2. CASE Expire
  <2>1. \A t \in Token : Live(t)' => Live(t)
    BY <1>2 DEF Expire, tables, Live, Stored, Revoked, Token, SignOutInv, TableInv, TypeInv, TypeOK
  <2>2. \A g \in Handler : EscapeOK(g)'
    BY <1>2 DEF Expire, tables, ghosts, SignOutInv, SignedOut, EscapeOK, Excused, Known
  <2> QED BY <1>0, <1>2, <2>1, <2>2
          DEF Expire, tables, ghosts, SignOutInv, SignedOut, SignOutIsComplete, InactiveHasNoSession
<1> QED BY <1>0, <1>1, <1>2, Kinds, ReadSignOut, WriteSignOut DEF SignOutInv, TableInv

\* Once a sign-out of an account has committed - a changed password, a replayed token,
\* a deactivation, "sign out everywhere" - no session it was to end is usable, nor any
\* obtained from one, except by way of a request that had begun before it.
THEOREM SignOutsAreComplete == Spec => []SignOutIsComplete
<1>1. Spec => []SignOutInv
  BY InitSignOut, StepSignOut, PTL DEF Spec
<1>2. SignOutInv => SignOutIsComplete
  BY DEF SignOutInv, SignedOut
<1> QED BY <1>1, <1>2, PTL

\* A deactivated account has no usable session, with the same exception.
THEOREM InactiveAccountsAreOut == Spec => []InactiveHasNoSession
<1>1. Spec => []SignOutInv
  BY InitSignOut, StepSignOut, PTL DEF Spec
<1>2. SignOutInv => InactiveHasNoSession
  BY DEF SignOutInv, SignedOut
<1> QED BY <1>1, <1>2, PTL
=============================================================================
