------------------------ MODULE RefreshSerialProofs ------------------------
(***************************************************************************)
(* What holds of RefreshSessions when some kinds of request do not overlap *)
(* their own kind: tokens are spent once, an administrator remains, and    *)
(* the installation makes at most one by itself.  The restrictions are     *)
(* needed: the code enforces none of them.                                 *)
(***************************************************************************)
EXTENDS RefreshSessionsProofs, FiniteSetTheorems

-----------------------------------------------------------------------------
\* Tokens.  Clients present a token in one request at a time, so whoever has read a
\* live token holds it alone, and nothing has been issued for it.
OneHolder ==
    \A g, f \in Handler : call[g].token # 0 /\ call[g].token = call[f].token => g = f

NoSuccessor ==
    \A g \in Handler, t \in Token :
        call[g].token # 0 /\ Stored(t) => tokens[t].parent # call[g].token

Spent == SingleUse /\ SpentTokenIsRemembered /\ OneHolder /\ NoSuccessor

TokenInv == TableInv /\ Spent

LEMMA ReadSpent ==
    ASSUME "token" \in Serial, TokenInv, NEW h \in Handler, Reads(h)
    PROVE  Spent'
<1> PICK at \in Pc, c \in Call : LocalOK(at, c) /\ Opens(h, at, c) /\ Moves(h, at, c)
  BY DEF Reads
<1> USE DEF TokenInv, TableInv
<1>1. SingleUse' /\ SpentTokenIsRemembered'
  BY DEF Spent, SingleUse, SpentTokenIsRemembered, Stored, Moves
<1>2. call'[h] = c /\ \A g \in Handler \ {h} : call'[g] = call[g]
  BY DEF Moves, TypeInv, TypeOK
<1>3. CASE at \notin Holding
  <2>1. c.token = 0
    BY <1>3 DEF LocalOK
  <2>2. OneHolder'
    BY <1>2, <2>1 DEF Spent, OneHolder
  <2>3. NoSuccessor'
    BY <1>2, <2>1 DEF Spent, NoSuccessor, Moves, Stored
  <2> QED BY <1>1, <2>2, <2>3 DEF Spent
<1>4. CASE at \in {"checking", "revoking"}
  <2>1. /\ \A g \in Handler : call[g].token # c.token
        /\ c.token \in Token /\ Stored(c.token) /\ tokens[c.token].reason = None
    BY <1>4 DEF Opens, SerialToken, LocalOK, Holding, Live, Revoked
  <2>2. OneHolder'
    BY <1>2, <2>1 DEF Spent, OneHolder
  <2>3. ASSUME NEW t \in Token, Stored(t) PROVE tokens[t].parent # c.token
    BY <2>1, <2>3, NoneIsNull DEF Spent, SpentTokenIsRemembered, Reason, Token
  <2>4. NoSuccessor'
    BY <1>2, <2>3 DEF Spent, NoSuccessor, Moves, Stored
  <2> QED BY <1>1, <2>2, <2>4 DEF Spent
<1>5. CASE at = "rotating"
  <2>1. c = call[h]
    BY <1>5 DEF Opens
  <2>2. \A g \in Handler : call'[g] = call[g]
    BY <1>2, <2>1
  <2>3. OneHolder' /\ NoSuccessor'
    BY <2>2 DEF Spent, OneHolder, NoSuccessor, Moves, Stored
  <2> QED BY <1>1, <2>3 DEF Spent
<1> QED BY <1>3, <1>4, <1>5 DEF Holding

\* Writes that issue nothing, and leave the mark of a token that has a successor.
LEMMA SpentKept ==
    ASSUME TokenInv, NEW h \in Handler, Finish(h),
           \A t \in Token : tokens'[t] # NoToken =>
               /\ tokens[t] # NoToken /\ tokens'[t].parent = tokens[t].parent
               /\ \/ tokens'[t].reason = tokens[t].reason
                  \/ tokens[t].reason = None
                  \/ \A s \in Token : Stored(s) => tokens[s].parent # t
    PROVE  Spent'
<1> USE DEF TokenInv, TableInv
<1>1. SingleUse'
  BY DEF Spent, SingleUse, Stored
<1>2. SpentTokenIsRemembered'
  <2> SUFFICES ASSUME NEW t \in Token, tokens'[t] # NoToken, tokens'[t].parent # 0,
                      tokens'[tokens'[t].parent] # NoToken
               PROVE  tokens'[tokens'[t].parent].reason = "rotated"
    BY DEF SpentTokenIsRemembered, Stored
  <2> DEFINE p == tokens[t].parent
  <2>1. tokens[t] # NoToken /\ tokens'[t].parent = p
    OBVIOUS
  <2>2. p \in Token
    BY <2>1, Rows DEF TokenRow
  <2>3. tokens[p] # NoToken /\ Stored(t)
    BY <2>1, <2>2, Rows DEF Stored
  <2>4. tokens[p].reason = "rotated"
    BY <2>1, <2>2, <2>3, Rows DEF Spent, SpentTokenIsRemembered, Stored
  <2> QED BY <2>1, <2>2, <2>3, <2>4, NoneIsNull DEF Reason
<1>3. \A g \in Handler : call'[g].token # 0 => g # h /\ call'[g] = call[g]
  BY Ended, Locals
<1>4. OneHolder'
  BY <1>3 DEF Spent, OneHolder
<1>5. NoSuccessor'
  BY <1>3 DEF Spent, NoSuccessor, Stored
<1> QED BY <1>1, <1>2, <1>4, <1>5 DEF Spent

LEMMA LoginSpent ==
    ASSUME TokenInv, NEW h \in Handler, IssueForLogin(h)
    PROVE  Spent'
<1> USE DEF TokenInv, TableInv
<1> DEFINE n == issued + 1
<1>1. /\ n \in Token /\ tokens[n] = NoToken
      /\ tokens'[n] = [owner |-> call[h].user, reason |-> None, parent |-> 0]
      /\ \A t \in Token \ {n} : tokens'[t] = tokens[t]
      /\ Finish(h)
  BY Logins DEF IssueForLogin
<1>2. tokens'[n].parent = 0
  BY <1>1
<1>3. \A t \in Token : tokens[t].parent # n
  BY DEF FreshIds, TypeInv, TypeOK
<1>4. SingleUse'
  BY <1>1, <1>2 DEF Spent, SingleUse, Stored
<1>5. SpentTokenIsRemembered'
  <2> SUFFICES ASSUME NEW t \in Token, tokens'[t] # NoToken, tokens'[t].parent # 0,
                      tokens'[tokens'[t].parent] # NoToken
               PROVE  tokens'[tokens'[t].parent].reason = "rotated"
    BY DEF SpentTokenIsRemembered, Stored
  <2>1. t # n /\ tokens'[t] = tokens[t]
    BY <1>1, <1>2
  <2>2. tokens[t].parent \in Token \ {n}
    BY <1>3, <2>1, Rows DEF TokenRow
  <2> QED BY <1>1, <2>1, <2>2, Rows DEF Spent, SpentTokenIsRemembered, Stored
<1>6. \A g \in Handler : call'[g].token # 0 => g # h /\ call'[g] = call[g]
  BY <1>1, Ended, Locals
<1>7. OneHolder'
  BY <1>6 DEF Spent, OneHolder
<1>8. NoSuccessor'
  BY <1>1, <1>2, <1>6 DEF Spent, NoSuccessor, Stored
<1> QED BY <1>4, <1>5, <1>7, <1>8 DEF Spent

LEMMA RotateSpent ==
    ASSUME TokenInv, NEW h \in Handler, Rotate(h)
    PROVE  Spent'
<1> USE DEF TokenInv, TableInv
<1> DEFINE n == issued + 1  p == call[h].token
<1>1. /\ n \in Token /\ tokens[n] = NoToken /\ p \in Token /\ p # n /\ Stored(p)
      /\ tokens'[n] = [owner |-> call[h].user, reason |-> None, parent |-> p]
      /\ \A t \in Token \ {n, p} : tokens'[t] = tokens[t]
      /\ Finish(h)
  BY Rotations DEF Rotate
<1>2. /\ tokens'[n].parent = p /\ tokens'[p].parent = tokens[p].parent
      /\ tokens'[p].reason = "rotated" /\ p # 0
  <2>1. tokens'[p] = [tokens[p] EXCEPT !.reason = "rotated"] /\ tokens[p] \in TokenRow
    BY <1>1, Rotations, Rows DEF Stored
  <2> QED BY <1>1, <2>1, Rows DEF TokenRow
<1>3. \A t \in Token : tokens[t].parent # n
  BY DEF FreshIds, TypeInv, TypeOK
<1>4. \A t \in Token : Stored(t) => tokens[t].parent # p
  BY <1>2 DEF Spent, NoSuccessor
<1>5. \A t \in Token \ {n} : /\ tokens'[t].parent = tokens[t].parent
                             /\ tokens'[t] # NoToken => Stored(t)
  BY <1>1, <1>2, Rows DEF Stored
<1>6. SingleUse'
  BY <1>2, <1>4, <1>5 DEF Spent, SingleUse, Stored
<1>7. SpentTokenIsRemembered'
  <2> SUFFICES ASSUME NEW t \in Token, tokens'[t] # NoToken, tokens'[t].parent # 0,
                      tokens'[tokens'[t].parent] # NoToken
               PROVE  tokens'[tokens'[t].parent].reason = "rotated"
    BY DEF SpentTokenIsRemembered, Stored
  <2> DEFINE q == tokens'[t].parent
  <2>1. CASE q = p
    BY <1>2, <2>1
  <2>2. CASE q # p
    <3>1. t # n /\ q = tokens[t].parent /\ Stored(t)
      BY <1>2, <1>5, <2>2
    <3>2. q \in Token \ {n, p}
      BY <1>3, <2>2, <3>1, Rows DEF TokenRow
    <3> QED BY <1>1, <3>1, <3>2, Rows DEF Spent, SpentTokenIsRemembered, Stored
  <2> QED BY <2>1, <2>2
<1>8. \A g \in Handler : call'[g].token # 0 => g # h /\ call'[g] = call[g] /\ call[g].token # p
  BY <1>1, <1>2, Ended, Locals DEF Spent, OneHolder
<1>9. OneHolder'
  BY <1>8 DEF Spent, OneHolder
<1>10. NoSuccessor'
  BY <1>2, <1>5, <1>8 DEF Spent, NoSuccessor, Stored
<1> QED BY <1>6, <1>7, <1>9, <1>10 DEF Spent

LEMMA WriteSpent ==
    ASSUME TokenInv, NEW h \in Handler, Writes(h)
    PROVE  Spent'
<1> USE DEF TokenInv, TableInv
<1>a. LocalOK(pc[h], call[h]) /\ tokens \in [Token -> TokenRow \cup {NoToken}]
  BY DEF TypeInv, TypeOK, LocalsOK
<1>1. CASE CreateUser(h) \/ UpdateProfile(h)
  BY <1>1, SpentKept DEF CreateUser, UpdateProfile
<1>2. CASE IssueForLogin(h)
  BY <1>2, LoginSpent
<1>3. CASE Rotate(h)
  BY <1>3, RotateSpent
<1>4. CASE Logout(h)
  <2> DEFINE p == call[h].token
  <2>1. /\ p \in Token /\ tokens[p] \in TokenRow /\ Stored(p) /\ p # 0
        /\ \A t \in Token \ {p} : tokens'[t] = tokens[t]
        /\ Finish(h)
    BY <1>4, <1>a, Rows DEF Logout, LocalOK, Holding, Stored
  <2>2. tokens'[p].parent = tokens[p].parent
    <3>1. tokens'[p] = [tokens[p] EXCEPT !.reason = "logout"]
      BY <1>4, <2>1, <1>a DEF Logout
    <3> QED BY <2>1, <3>1 DEF TokenRow
  <2>3. \A s \in Token : Stored(s) => tokens[s].parent # p
    BY <2>1 DEF Spent, NoSuccessor
  <2> QED BY <2>1, <2>2, <2>3, SpentKept DEF Stored
<1>5. CASE CommitSignOut(h)
  <2>1. /\ call[h].user \in User /\ call[h].why \in Reason
        /\ RevokeAll(call[h].user, call[h].why) /\ Finish(h)
    BY <1>5, <1>a DEF CommitSignOut, LocalOK
  <2> QED BY <2>1, Revokes, SpentKept
<1>6. CASE EditUser(h)
  <2>1. call[h].user \in User /\ Finish(h)
    BY <1>6, Edits
  <2>2. CASE call[h].why = "admin"
    <3>1. RevokeAll(call[h].user, "admin") /\ "admin" \in Reason
      BY <1>6, <2>2 DEF EditUser, Reason
    <3> QED BY <2>1, <3>1, Revokes, SpentKept
  <2>3. CASE call[h].why # "admin"
    <3>1. UNCHANGED tokens
      BY <1>6, <2>3 DEF EditUser
    <3> QED BY <2>1, <3>1, SpentKept
  <2> QED BY <2>2, <2>3
<1>7. CASE DeleteUser(h)
  BY <1>7, SpentKept DEF DeleteUser
<1>8. CASE Housekeep(h)
  BY <1>8, SpentKept DEF Housekeep
<1> QED BY <1>1, <1>2, <1>3, <1>4, <1>5, <1>6, <1>7, <1>8 DEF Writes

LEMMA InitSpent == ASSUME Init PROVE TokenInv
BY InitTables DEF Init, TokenInv, Spent, SingleUse, SpentTokenIsRemembered, OneHolder, NoSuccessor,
   Stored, NoCall

LEMMA StepSpent == ASSUME "token" \in Serial, TokenInv, [Next]_vars PROVE TokenInv'
<1>0. TableInv'
  BY StepTables DEF TokenInv
<1>1. CASE UNCHANGED vars \/ Expire
  BY <1>0, <1>1 DEF vars, Expire, tables, clock, ghosts, TokenInv, Spent, SingleUse,
     SpentTokenIsRemembered, OneHolder, NoSuccessor, Stored
<1> QED BY <1>0, <1>1, Kinds, ReadSpent, WriteSpent DEF TokenInv, TableInv

\* A refresh token is exchanged at most once, as long as clients present it in one
\* request at a time.
THEOREM TokensAreSingleUse == ASSUME "token" \in Serial PROVE Spec => []SingleUse
<1>1. TokenInv /\ [Next]_vars => TokenInv'
  BY StepSpent
<1>2. TokenInv => SingleUse
  BY DEF TokenInv, Spent
<1> QED BY <1>1, <1>2, InitSpent, PTL DEF Spec

\* ... and says that it was exchanged for as long as it could be presented again,
\* whatever logouts, sign-outs and edits happen around it.
THEOREM SpentIsRemembered == ASSUME "token" \in Serial PROVE Spec => []SpentTokenIsRemembered
<1>1. TokenInv /\ [Next]_vars => TokenInv'
  BY StepSpent
<1>2. TokenInv => SpentTokenIsRemembered
  BY DEF TokenInv, Spent
<1> QED BY <1>1, <1>2, InitSpent, PTL DEF Spec

-----------------------------------------------------------------------------
\* Administrators.  They act one at a time, so the one who edits or deletes another
\* account is an administrator still when the change is written.
OneAdmin == \A g, f \in Handler : pc[g] \in Admin /\ pc[f] \in Admin => g = f

Backed(g) ==
    /\ pc[g] = "authorised" => ActiveAdmin(call[g].user)
    /\ pc[g] \in {"editing", "deleting"} => \E a \in User : a # call[g].user /\ ActiveAdmin(a)
    /\ pc[g] = "creating" /\ call[g].role # "admin" => Accounts # {}

Administered == AdminRemains /\ OneAdmin /\ \A g \in Handler : Backed(g)

AdminInv == TableInv /\ Administered

LEMMA ReadAdmin ==
    ASSUME "admin" \in Serial, AdminInv, NEW h \in Handler, Reads(h)
    PROVE  Administered'
<1> PICK at \in Pc, c \in Call : LocalOK(at, c) /\ Opens(h, at, c) /\ Moves(h, at, c)
  BY DEF Reads
<1> USE DEF AdminInv, TableInv
<1>1. /\ pc'[h] = at /\ call'[h] = c /\ users' = users
      /\ \A g \in Handler \ {h} : pc'[g] = pc[g] /\ call'[g] = call[g]
  BY DEF Moves, TypeInv, TypeOK
<1>2. AdminRemains'
  BY <1>1 DEF Administered, AdminRemains, Accounts, ActiveAdmin, ActiveUser, Known
<1>3. ASSUME NEW g \in Handler, g # h PROVE Backed(g)'
  BY <1>1, <1>3 DEF Administered, Backed, Accounts, ActiveAdmin, ActiveUser, Known
<1>4. CASE at \notin Admin
  <2>1. OneAdmin'
    BY <1>1, <1>4 DEF Administered, OneAdmin
  <2>2. at = "creating" /\ c.role # "admin" => Accounts # {}
    BY DEF Opens, RoleForNew
  <2>3. Backed(h)'
    BY <1>1, <1>4, <2>2 DEF Backed, Admin, Accounts
  <2> QED BY <1>2, <1>3, <2>1, <2>3 DEF Administered
<1>5. CASE at = "authorised"
  <2>1. ActiveAdmin(c.user) /\ \A g \in Handler : pc[g] \notin Admin
    BY <1>5 DEF Opens, SerialAdmin
  <2>2. OneAdmin'
    BY <1>1, <2>1 DEF OneAdmin
  <2>3. Backed(h)'
    BY <1>1, <1>5, <2>1 DEF Backed, ActiveAdmin, ActiveUser, Known
  <2> QED BY <1>2, <1>3, <2>2, <2>3 DEF Administered
<1>6. CASE at \in {"editing", "deleting"}
  <2>1. pc[h] = "authorised" /\ c.user # call[h].user
    BY <1>6 DEF Opens
  <2>2. call[h].user \in User /\ ActiveAdmin(call[h].user)
    BY <2>1 DEF TypeInv, LocalsOK, LocalOK, Admin, Administered, Backed
  <2>3. OneAdmin'
    BY <1>1, <2>1 DEF Administered, OneAdmin, Admin
  <2>4. Backed(h)'
    BY <1>1, <1>6, <2>1, <2>2 DEF Backed, ActiveAdmin, ActiveUser, Known
  <2> QED BY <1>2, <1>3, <2>3, <2>4 DEF Administered
<1> QED BY <1>4, <1>5, <1>6 DEF Admin

\* Writes after which all administrators are still there, or one that the writer
\* is not about to touch.
LEMMA AdminsKept ==
    ASSUME AdminInv, NEW h \in Handler, Finish(h),
           \A a \in User : ActiveAdmin(a) => ActiveAdmin(a)' \/ (pc[h] \in Admin /\ a = call[h].user),
           pc[h] \in Admin => pc[h] \in {"editing", "deleting"},
           Accounts' # {} => Accounts # {} \/ \E a \in User : ActiveAdmin(a)'
    PROVE  Administered'
<1> USE DEF AdminInv, TableInv
<1>1. Accounts # {} => \E a \in User : ActiveAdmin(a)'
  <2>1. CASE pc[h] \in Admin
    BY <2>1 DEF Administered, Backed
  <2>2. CASE pc[h] \notin Admin
    BY <2>2 DEF Administered, AdminRemains, Accounts
  <2> QED BY <2>1, <2>2
<1>2. \A a \in User : ActiveAdmin(a)' => a \in Accounts'
  BY DEF Accounts, ActiveAdmin, ActiveUser, Known
<1>3. AdminRemains'
  BY <1>1, <1>2 DEF AdminRemains
<1>4. OneAdmin'
  BY Ended DEF Administered, OneAdmin, Admin
<1>5. ASSUME NEW g \in Handler PROVE Backed(g)'
  <2>1. CASE g = h
    BY <2>1, Ended DEF Backed
  <2>2. CASE g # h
    <3>1. pc'[g] = pc[g] /\ call'[g] = call[g] /\ Backed(g)
      BY <2>2, Ended DEF Administered
    <3>2. pc[g] \in Admin => pc[h] \notin Admin /\ call[g].user \in User
      BY <2>2 DEF Administered, OneAdmin, TypeInv, LocalsOK, LocalOK
    <3>3. pc[g] = "authorised" => ActiveAdmin(call[g].user)'
      BY <3>1, <3>2 DEF Backed, Admin
    <3>4. pc[g] \in {"editing", "deleting"} =>
             \E a \in User : a # call[g].user /\ ActiveAdmin(a)'
      BY <3>1, <3>2 DEF Backed, Admin
    <3>5. pc[g] = "creating" /\ call[g].role # "admin" => Accounts' # {}
      BY <1>1, <1>2, <3>1 DEF Backed
    <3> QED BY <3>1, <3>3, <3>4, <3>5 DEF Backed
  <2> QED BY <2>1, <2>2
<1> QED BY <1>3, <1>4, <1>5 DEF Administered

\* A new account is an administrator, or not the first.
LEMMA InsertAdmin ==
    ASSUME AdminInv, NEW h \in Handler, InsertUser(h), Finish(h),
           call[h].email \in Email, call[h].role \in Role, pc[h] \notin Admin,
           call[h].role = "admin" \/ Accounts # {}
    PROVE  Administered'
<1> USE DEF AdminInv, TableInv
<1> DEFINE n == registered + 1
<1>1. /\ n \in User /\ users[n] = NoUser /\ users'[n] # NoUser /\ users'[n].active
      /\ \A u \in User \ {n} : users'[u] = users[u]
  BY Inserted
<1>2. call[h].role = "admin" => users'[n].role = "admin"
  <2>1. users'[n] = [email |-> call[h].email, role |-> call[h].role, active |-> TRUE]
    BY Inserted
  <2> QED BY <2>1
<1>3. ASSUME NEW a \in User, a = n, call[h].role = "admin" PROVE ActiveAdmin(a)'
  BY <1>1, <1>2, <1>3 DEF ActiveAdmin, ActiveUser, Known, User
<1>4. ASSUME NEW a \in User, ActiveAdmin(a) PROVE ActiveAdmin(a)'
  BY <1>1, <1>4 DEF ActiveAdmin, ActiveUser, Known
<1> QED BY <1>1, <1>3, <1>4, AdminsKept

LEMMA WriteAdmin ==
    ASSUME AdminInv, NEW h \in Handler, Writes(h)
    PROVE  Administered'
<1> USE DEF AdminInv, TableInv
<1>a. LocalOK(pc[h], call[h])
  BY DEF TypeInv, LocalsOK
<1>1. CASE CreateUser(h)
  <2>1. /\ call[h].email \in Email /\ call[h].role \in Role /\ pc[h] \notin Admin
        /\ call[h].role = "admin" \/ Accounts # {}
    BY <1>1, <1>a DEF CreateUser, LocalOK, Admin, Administered, Backed
  <2> QED BY <1>1, <2>1, InsertAdmin DEF CreateUser
<1>2. CASE IssueForLogin(h) \/ Rotate(h) \/ Logout(h) \/ CommitSignOut(h)
  <2>1. users' = users /\ Finish(h) /\ pc[h] \notin Admin
    <3>1. CASE IssueForLogin(h)
      BY <3>1 DEF IssueForLogin, Admin
    <3>2. CASE Rotate(h)
      BY <3>2 DEF Rotate, Admin
    <3>3. CASE Logout(h) \/ CommitSignOut(h)
      BY <3>3 DEF Logout, CommitSignOut, Admin
    <3> QED BY <1>2, <3>1, <3>2, <3>3
  <2>2. Accounts' = Accounts /\ \A a \in User : ActiveAdmin(a) => ActiveAdmin(a)'
    BY <2>1 DEF ActiveAdmin, ActiveUser, Known, Accounts
  <2> QED BY <2>1, <2>2, AdminsKept
<1>3. CASE UpdateProfile(h)
  <2> DEFINE u == call[h].user
  <2>1. /\ u \in User /\ users[u] \in UserRow /\ u # 0 /\ call[h].email \in Email
        /\ \A v \in User \ {u} : users'[v] = users[v]
        /\ Finish(h) /\ pc[h] \notin Admin
    BY <1>3, <1>a, Rows DEF UpdateProfile, LocalOK, Known, TypeInv, TypeOK, Admin
  <2>2. /\ users'[u].active = users[u].active /\ users'[u].role = users[u].role
        /\ users'[u] # NoUser /\ users[u] # NoUser
    <3>1. users'[u] = [users[u] EXCEPT !.email = call[h].email]
      BY <1>3, <2>1 DEF UpdateProfile, TypeInv, TypeOK
    <3> QED BY <2>1, <3>1, Rows, NoneIsNull DEF UserRow, NoUser
  <2>3. ASSUME NEW a \in User, ActiveAdmin(a) PROVE ActiveAdmin(a)'
    BY <2>1, <2>2, <2>3 DEF ActiveAdmin, ActiveUser, Known
  <2>4. Accounts' # {} => Accounts # {}
    BY <2>1, <2>2 DEF Accounts
  <2> QED BY <2>1, <2>3, <2>4, AdminsKept
<1>4. CASE EditUser(h)
  <2>1. /\ call[h].user \in User /\ users[call[h].user] # NoUser /\ Finish(h)
        /\ \A v \in User \ {call[h].user} : users'[v] = users[v]
    BY <1>4, Edits
  <2>2. pc[h] = "editing"
    BY <1>4 DEF EditUser
  <2>3. ASSUME NEW a \in User, ActiveAdmin(a)
        PROVE  ActiveAdmin(a)' \/ (pc[h] \in Admin /\ a = call[h].user)
    BY <2>1, <2>2, <2>3 DEF ActiveAdmin, ActiveUser, Known, Admin
  <2>4. Accounts # {}
    BY <2>1 DEF Accounts
  <2> QED BY <2>1, <2>2, <2>3, <2>4, AdminsKept
<1>5. CASE DeleteUser(h)
  <2> DEFINE u == call[h].user
  <2>1. /\ u \in User /\ users'[u] = NoUser /\ Finish(h) /\ pc[h] = "deleting"
        /\ \A v \in User \ {u} : users'[v] = users[v]
    BY <1>5, <1>a DEF DeleteUser, LocalOK, Admin, TypeInv, TypeOK
  <2>2. ASSUME NEW a \in User, ActiveAdmin(a)
        PROVE  ActiveAdmin(a)' \/ (pc[h] \in Admin /\ a = u)
    BY <2>1, <2>2 DEF ActiveAdmin, ActiveUser, Known, Admin
  <2>3. Accounts' # {} => Accounts # {}
    BY <2>1 DEF Accounts
  <2> QED BY <2>1, <2>2, <2>3, AdminsKept
<1>6. CASE Housekeep(h)
  <2>1. Finish(h) /\ pc[h] \notin Admin
    BY <1>6 DEF Housekeep, Admin
  <2>2. CASE call[h].role = "admin"
    <3>1. call[h].email \in Email /\ call[h].role \in Role
      BY <1>6, <1>a, <2>2, NoneIsNull DEF Housekeep, LocalOK, Role
    <3> QED BY <1>6, <2>1, <2>2, <3>1, InsertAdmin DEF Housekeep
  <2>3. CASE call[h].role # "admin"
    <3>1. UNCHANGED users
      BY <1>6, <2>3 DEF Housekeep
    <3> QED BY <2>1, <3>1, AdminsKept DEF ActiveAdmin, ActiveUser, Known, Accounts
  <2> QED BY <2>2, <2>3
<1> QED BY <1>1, <1>2, <1>3, <1>4, <1>5, <1>6 DEF Writes

LEMMA InitAdmin == ASSUME Init PROVE AdminInv
BY InitTables DEF Init, AdminInv, Administered, AdminRemains, Accounts, OneAdmin, Admin, Backed

LEMMA StepAdmin == ASSUME "admin" \in Serial, AdminInv, [Next]_vars PROVE AdminInv'
<1>0. TableInv'
  BY StepTables DEF AdminInv
<1>1. CASE UNCHANGED vars \/ Expire
  <2>1. UNCHANGED <<users, pc, call>>
    BY <1>1 DEF vars, Expire, tables
  <2> QED BY <1>0, <2>1 DEF AdminInv, Administered, AdminRemains, Accounts, OneAdmin, Backed,
          ActiveAdmin, ActiveUser, Known
<1> QED BY <1>0, <1>1, Kinds, ReadAdmin, WriteAdmin DEF AdminInv, TableInv

\* As long as there are accounts one of them is an active administrator, if
\* administrators act one at a time.
THEOREM AnAdminRemains == ASSUME "admin" \in Serial PROVE Spec => []AdminRemains
<1>1. AdminInv /\ [Next]_vars => AdminInv'
  BY StepAdmin
<1>2. AdminInv => AdminRemains
  BY DEF AdminInv, Administered
<1> QED BY <1>1, <1>2, InitAdmin, PTL DEF Spec

-----------------------------------------------------------------------------
\* The first account.  While there is none, whoever is about to create one is alone;
\* and since an administrator remains, there is no second time.
Empty == Accounts = {} =>
    /\ selfMade = {}
    /\ \A g, f \in Handler : pc[g] \in Setup /\ pc[f] \in Setup => g = f

First == \A g \in Handler : pc[g] \in Setup /\ call[g].role = "admin" => Accounts = {}

SetupInv == AdminInv /\ Empty /\ First /\ OneSelfMadeAdmin

LEMMA ReadSetup ==
    ASSUME "setup" \in Serial, SetupInv, NEW h \in Handler, Reads(h)
    PROVE  Empty' /\ First' /\ OneSelfMadeAdmin'
<1> PICK at \in Pc, c \in Call : LocalOK(at, c) /\ Opens(h, at, c) /\ Moves(h, at, c)
  BY DEF Reads
<1> USE DEF SetupInv, AdminInv, TableInv
<1>1. /\ pc'[h] = at /\ call'[h] = c /\ Accounts' = Accounts /\ selfMade' = selfMade
      /\ \A g \in Handler \ {h} : pc'[g] = pc[g] /\ call'[g] = call[g]
  BY DEF Moves, TypeInv, TypeOK, Accounts
<1>2. OneSelfMadeAdmin'
  BY <1>1 DEF OneSelfMadeAdmin
<1>3. at \in Setup /\ Accounts = {} => pc[h] \in Setup \/ \A g \in Handler : pc[g] \notin Setup
  BY DEF Opens, SerialSetup, Setup
<1>4. Empty'
  BY <1>1, <1>3 DEF Empty
<1>5. at \in Setup /\ c.role = "admin" => Accounts = {}
  BY NoneIsNull DEF Opens, RoleForNew, Setup, Role
<1>6. First'
  BY <1>1, <1>5 DEF First
<1> QED BY <1>2, <1>4, <1>6

\* Writes that create no account.
LEMMA SetupKept ==
    ASSUME SetupInv, NEW h \in Handler, Finish(h), UNCHANGED selfMade,
           Accounts # {} <=> Accounts' # {}
    PROVE  Empty' /\ First' /\ OneSelfMadeAdmin'
<1> USE DEF SetupInv, AdminInv, TableInv
<1>1. \A g \in Handler : pc'[g] \in Setup => pc'[g] = pc[g] /\ call'[g] = call[g]
  BY Ended DEF Setup
<1>2. Empty' /\ First'
  BY <1>1 DEF Empty, First
<1> QED BY <1>2 DEF OneSelfMadeAdmin

LEMMA InsertSetup ==
    ASSUME SetupInv, NEW h \in Handler, InsertUser(h), Finish(h), pc[h] \in Setup,
           call[h].email \in Email, call[h].role \in Role
    PROVE  Empty' /\ First' /\ OneSelfMadeAdmin'
<1> USE DEF SetupInv, AdminInv, TableInv
<1> DEFINE n == registered + 1
<1>1. /\ n \in User /\ users'[n] # NoUser
      /\ selfMade' = IF call[h].role = "admin" THEN selfMade \cup {n} ELSE selfMade
  BY Inserted
<1>2. n \in Accounts'
  BY <1>1 DEF Accounts
<1>3. Empty'
  BY <1>2 DEF Empty
<1>4. \A g \in Handler : pc'[g] \in Setup => g # h /\ pc'[g] = pc[g] /\ call'[g] = call[g]
  BY Ended DEF Setup
<1>5. ASSUME NEW g \in Handler PROVE ~(pc'[g] \in Setup /\ call'[g].role = "admin")
  BY <1>4 DEF First, Empty
<1>6. OneSelfMadeAdmin'
  <2>1. CASE call[h].role = "admin"
    <3>1. selfMade' = {n}
      BY <1>1, <2>1 DEF First, Empty
    <3>2. Cardinality({n}) = 1
      BY FS_Singleton
    <3> QED BY <3>1, <3>2 DEF OneSelfMadeAdmin
  <2>2. CASE call[h].role # "admin"
    BY <1>1, <2>2 DEF OneSelfMadeAdmin
  <2> QED BY <2>1, <2>2
<1> QED BY <1>3, <1>5, <1>6 DEF First

LEMMA WriteSetup ==
    ASSUME SetupInv, NEW h \in Handler, Writes(h)
    PROVE  Empty' /\ First' /\ OneSelfMadeAdmin'
<1> USE DEF SetupInv, AdminInv, TableInv
<1>a. LocalOK(pc[h], call[h])
  BY DEF TypeInv, LocalsOK
<1>1. CASE CreateUser(h)
  <2>1. call[h].email \in Email /\ call[h].role \in Role /\ pc[h] \in Setup
    BY <1>1, <1>a DEF CreateUser, LocalOK, Setup
  <2> QED BY <1>1, <2>1, InsertSetup DEF CreateUser
<1>2. CASE IssueForLogin(h) \/ Rotate(h) \/ Logout(h) \/ CommitSignOut(h)
  <2>1. users' = users /\ selfMade' = selfMade /\ Finish(h)
    <3>1. CASE IssueForLogin(h)
      BY <3>1 DEF IssueForLogin
    <3>2. CASE Rotate(h)
      BY <3>2 DEF Rotate
    <3>3. CASE Logout(h) \/ CommitSignOut(h)
      BY <3>3 DEF Logout, CommitSignOut, SignOut, ghosts
    <3> QED BY <1>2, <3>1, <3>2, <3>3
  <2>2. Accounts' = Accounts
    BY <2>1 DEF Accounts
  <2> QED BY <2>1, <2>2, SetupKept
<1>3. CASE UpdateProfile(h)
  <2> DEFINE u == call[h].user
  <2>1. /\ u \in User /\ users[u] \in UserRow /\ call[h].email \in Email
        /\ selfMade' = selfMade /\ Finish(h)
    BY <1>3, <1>a, Rows DEF UpdateProfile, LocalOK, Known, ghosts
  <2>2. users'[u] # NoUser /\ users[u] # NoUser
    <3>1. users'[u] = [users[u] EXCEPT !.email = call[h].email]
      BY <1>3, <2>1 DEF UpdateProfile, TypeInv, TypeOK
    <3> QED BY <2>1, <3>1, Rows, NoneIsNull DEF UserRow, NoUser
  <2>3. Accounts # {} /\ Accounts' # {}
    BY <2>1, <2>2 DEF Accounts
  <2> QED BY <2>1, <2>3, SetupKept
<1>4. CASE EditUser(h)
  <2>1. /\ call[h].user \in User /\ users[call[h].user] # NoUser
        /\ users'[call[h].user] # NoUser /\ Finish(h)
    BY <1>4, Edits
  <2>2. selfMade' = selfMade
    BY <1>4 DEF EditUser, SignOut, ghosts
  <2>3. Accounts # {} /\ Accounts' # {}
    BY <2>1 DEF Accounts
  <2> QED BY <2>1, <2>2, <2>3, SetupKept
\* An administrator other than the deleted account remains.
<1>5. CASE DeleteUser(h)
  <2> DEFINE u == call[h].user
  <2>1. /\ selfMade' = selfMade /\ Finish(h) /\ pc[h] = "deleting"
        /\ u \in User /\ \A v \in User \ {u} : users'[v] = users[v]
    BY <1>5, <1>a DEF DeleteUser, LocalOK, Admin, TypeInv, TypeOK, ghosts
  <2>2. PICK a \in User : a # u /\ ActiveAdmin(a)
    BY <2>1 DEF Administered, Backed
  <2>3. users[a] # NoUser /\ users'[a] = users[a]
    BY <2>1, <2>2 DEF ActiveAdmin, ActiveUser, Known
  <2>4. Accounts # {} /\ Accounts' # {}
    BY <2>3 DEF Accounts
  <2> QED BY <2>1, <2>4, SetupKept
<1>6. CASE Housekeep(h)
  <2>1. Finish(h) /\ pc[h] \in Setup
    BY <1>6 DEF Housekeep, Setup
  <2>2. CASE call[h].role = "admin"
    <3>1. call[h].email \in Email /\ call[h].role \in Role
      BY <1>6, <1>a, <2>2, NoneIsNull DEF Housekeep, LocalOK, Role
    <3> QED BY <1>6, <2>1, <2>2, <3>1, InsertSetup DEF Housekeep
  <2>3. CASE call[h].role # "admin"
    <3>1. users' = users /\ selfMade' = selfMade
      BY <1>6, <2>3 DEF Housekeep, ghosts
    <3>2. Accounts' = Accounts
      BY <3>1 DEF Accounts
    <3> QED BY <2>1, <3>1, <3>2, SetupKept
  <2> QED BY <2>2, <2>3
<1> QED BY <1>1, <1>2, <1>3, <1>4, <1>5, <1>6 DEF Writes

LEMMA InitSetup == ASSUME Init PROVE SetupInv
<1>1. AdminInv
  BY InitAdmin
<1>2. Empty /\ First
  BY DEF Init, Empty, First, Setup
<1>3. OneSelfMadeAdmin
  BY FS_EmptySet DEF Init, OneSelfMadeAdmin
<1> QED BY <1>1, <1>2, <1>3 DEF SetupInv

LEMMA StepSetup ==
    ASSUME "admin" \in Serial, "setup" \in Serial, SetupInv, [Next]_vars
    PROVE  SetupInv'
<1>0. AdminInv'
  BY StepAdmin DEF SetupInv
<1>1. CASE UNCHANGED vars \/ Expire
  <2>1. UNCHANGED <<users, pc, call, selfMade>>
    BY <1>1 DEF vars, Expire, tables, ghosts
  <2> QED BY <1>0, <2>1 DEF SetupInv, Empty, First, OneSelfMadeAdmin, Accounts
<1> QED BY <1>0, <1>1, Kinds, ReadSetup, WriteSetup DEF SetupInv, AdminInv, TableInv

\* At most one account ever becomes administrator because there was no other, if the
\* first account has no rival and administrators act one at a time: else they might
\* delete each other, and the installation would begin anew.
THEOREM OnlyOneSelfMadeAdmin ==
    ASSUME "admin" \in Serial, "setup" \in Serial PROVE Spec => []OneSelfMadeAdmin
<1>1. SetupInv /\ [Next]_vars => SetupInv'
  BY StepSetup
<1>2. SetupInv => OneSelfMadeAdmin
  BY DEF SetupInv
<1> QED BY <1>1, <1>2, InitSetup, PTL DEF Spec
=============================================================================
