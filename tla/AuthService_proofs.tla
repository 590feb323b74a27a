-------------------------- MODULE AuthService_proofs --------------------------
(***************************************************************************)
(* Sign-in, sessions and password changes, for any number of accounts,     *)
(* requests and ticks: rows keep their type and their foreign keys, a      *)
(* revoked session that nobody held stays revoked, and no code is accepted *)
(* twice, by a sign-in either.                                             *)
(***************************************************************************)
EXTENDS AuthService, TotpService_proofs

\* A request that has loaded a session.
Refreshing(q) ==
  q.pc \in {"judge", "dropRow", "saveSelect", "saveUpdate", "saveInsert"}

\* An administrator's request that may save() its copy of an account.
Saving(q) == q.pc \in {"countAdmins", "checkEmail", "selectUser", "reinsertUser"}

ForeignKeys == \A s \in DOMAIN sessions : sessions[s].user \in DOMAIN users

Copies ==
  \A r \in Request :
    /\ Refreshing(req[r]) => /\ req[r].sid \in Name
                             /\ req[r].ses.user = req[r].uid
    /\ Saving(req[r]) => req[r].uid \in Name

\* TypeOK alone is not inductive: findOne() joins the account of a session,
\* so that the account has to be there, and save() may insert the copy.
RowsInv == TypeOK /\ ForeignKeys /\ Copies

\* What a statement does to the requests: one moves on; it holds no session
\* but the one it held or one that is in the table.
Moves(r) ==
  /\ req' \in [Request -> RequestState]
  /\ req[r].pc # "done"
  /\ \A q \in Request \ {r} : req'[q] = req[q]
  /\ req'[r].sid \in {NULL, req[r].sid} \cup (DOMAIN sessions \cap DOMAIN sessions')
  /\ Refreshing(req'[r]) => /\ req'[r].sid \in Name
                            /\ req'[r].ses.user = req'[r].uid
  /\ Saving(req'[r]) => req'[r].uid \in Name

LEMMA RespondMoves ==
  ASSUME TypeOK, NEW r \in Request, req[r].pc # "done",
         NEW answer \in Answer, Respond(r, answer)
  PROVE  Moves(r) /\ req'[r].pc = "done" /\ req'[r].sid = NULL
BY RespondType DEF TypeOK, Moves, Refreshing, Saving

LEMMA RefuseMoves ==
  ASSUME TypeOK, NEW r \in Request, req[r].pc # "done", Refuse(r)
  PROVE  Moves(r) /\ req'[r].pc = "done" /\ req'[r].sid = NULL
BY RefuseType DEF TypeOK, Moves, Refreshing, Saving

LEMMA GotoMoves ==
  ASSUME RowsInv, NEW r \in Request, req[r].pc # "done",
         NEW pc \in Statement, Goto(r, pc),
         Refreshing(req[r]) \/ ~Refreshing([pc |-> pc]),
         Saving(req[r]) \/ ~Saving([pc |-> pc])
  PROVE  Moves(r) /\ req'[r].pc = pc /\ req'[r].sid = req[r].sid
<1>1. /\ req' \in [Request -> RequestState]
      /\ req'[r].pc = pc
      /\ req'[r].uid = req[r].uid
      /\ req'[r].sid = req[r].sid
      /\ req'[r].ses = req[r].ses
      /\ \A q \in Request \ {r} : req'[q] = req[q]
  BY GotoType DEF RowsInv, TypeOK
<1>2. /\ Refreshing(req'[r]) => Refreshing(req[r])
      /\ Saving(req'[r]) => Saving(req[r])
  BY <1>1 DEF Refreshing, Saving
<1> QED
  BY <1>1, <1>2 DEF Moves, RowsInv, Copies

LEMMA StartMoves ==
  ASSUME TypeOK, NEW r \in Request, req[r].pc # "done",
         NEW q \in RequestState, q.sid = NULL, ~Refreshing(q),
         Saving(q) => q.uid \in Name,
         req' = [req EXCEPT ![r] = q]
  PROVE  Moves(r) /\ req'[r] = q
BY DEF TypeOK, Moves

\* Requests that start without an account's row, and sign-ins.
LEMMA OpenedType ==
  ASSUME NEW op \in Operation, NEW pc \in Statement, NEW u \in OrNull(Name)
  PROVE  /\ Opened(op, pc, u) \in RequestState
         /\ Opened(op, pc, u).pc = pc
         /\ Opened(op, pc, u).sid = NULL
<1>1. op \in OrNull(Operation)
  BY DEF OrNull
<1>2. Opened(op, pc, u) \in RequestState
  BY <1>1, BlankType, RequestFields DEF Opened
<1> QED
  BY <1>2 DEF Opened, Blank

LEMMA SignInType ==
  ASSUME TypeOK, NEW op \in Operation, NEW pc \in Statement,
         NEW u \in DOMAIN users
  PROVE  /\ SignIn(op, pc, u) \in RequestState
         /\ SignIn(op, pc, u).pc = pc
         /\ SignIn(op, pc, u).sid = NULL
<1> DEFINE q == Loaded(op, pc, u)
<1>1. q \in RequestState /\ q.pc = pc /\ q.sid = NULL
  BY LoadedType DEF TypeOK
<1>2. users[u].pw \in OrNull(Name)
  BY DEF TypeOK, UserRow
<1>3. [q EXCEPT !.pw = users[u].pw] \in RequestState
  BY <1>1, <1>2, RequestFields
<1>4. /\ [q EXCEPT !.pw = users[u].pw].pc = pc
      /\ [q EXCEPT !.pw = users[u].pw].sid = NULL
  BY <1>1 DEF RequestState
<1> QED
  BY <1>3, <1>4 DEF SignIn

\* Sign-in and recovery codes.
LEMMA SignInMoves ==
  ASSUME RowsInv, NEW r \in Request,
         \/ LoginStart(r) \/ RecoveryStart(r) \/ FindCode(r) \/ SpendCode(r)
         \/ Settle(r) \/ PurgeExpired(r)
  PROVE  Moves(r)
<1>0. TypeOK
  BY DEF RowsInv
<1>1. CASE LoginStart(r)
  <2>0. req[r].pc # "done"
    BY <1>1 DEF LoginStart, Admit, At
  <2>1. PICK u \in Targets, password \in Password :
          \/ Refuse(r)
          \/ Respond(r, Plain("challenge"))
          \/ /\ PasswordAccepted(u, password)
             /\ \E pc \in {"verify", "settle"} :
                  req' = [req EXCEPT ![r] = SignIn("login", pc, u)]
    BY <1>1 DEF LoginStart
  <2>2. CASE Refuse(r)
    BY <2>2, <2>0, <1>0, RefuseMoves
  <2>3. CASE Respond(r, Plain("challenge"))
    <3>1. Plain("challenge") \in Answer
      BY PlainType DEF Kind
    <3> QED
      BY <3>1, <2>3, <2>0, <1>0, RespondMoves
  <2>4. CASE /\ PasswordAccepted(u, password)
             /\ \E pc \in {"verify", "settle"} :
                  req' = [req EXCEPT ![r] = SignIn("login", pc, u)]
    <3>1. PICK pc \in {"verify", "settle"} :
            req' = [req EXCEPT ![r] = SignIn("login", pc, u)]
      BY <2>4
    <3>2. u \in DOMAIN users /\ "login" \in Operation /\ pc \in Statement
      BY <2>4 DEF PasswordAccepted, Operation, Statement
    <3>3. /\ SignIn("login", pc, u) \in RequestState
          /\ SignIn("login", pc, u).sid = NULL
          /\ ~Refreshing(SignIn("login", pc, u))
          /\ ~Saving(SignIn("login", pc, u))
      BY <3>2, <1>0, SignInType DEF Refreshing, Saving
    <3> QED
      BY <3>1, <3>3, <2>0, <1>0, StartMoves
  <2> QED
    BY <2>1, <2>2, <2>3, <2>4
<1>2. CASE RecoveryStart(r)
  <2>0. req[r].pc # "done"
    BY <1>2 DEF RecoveryStart, Admit, At
  <2>1. CASE Refuse(r)
    BY <2>1, <2>0, <1>0, RefuseMoves
  <2>2. ASSUME NEW u \in DOMAIN users,
               req' = [req EXCEPT ![r] = SignIn("recovery", "findCode", u)]
        PROVE  Moves(r)
    <3>1. "recovery" \in Operation /\ "findCode" \in Statement
      BY DEF Operation, Statement
    <3>2. /\ SignIn("recovery", "findCode", u) \in RequestState
          /\ SignIn("recovery", "findCode", u).sid = NULL
          /\ ~Refreshing(SignIn("recovery", "findCode", u))
          /\ ~Saving(SignIn("recovery", "findCode", u))
      BY <3>1, <1>0, SignInType DEF Refreshing, Saving
    <3> QED
      BY <3>2, <2>2, <2>0, <1>0, StartMoves
  <2> QED
    BY <2>1, <2>2, <1>2 DEF RecoveryStart, RecoveryAccepted, PasswordAccepted
<1>3. CASE FindCode(r)
  <2>0. req[r].pc = "findCode"
    BY <1>3 DEF FindCode, At
  <2>1. CASE Refuse(r)
    BY <2>1, <2>0, <1>0, RefuseMoves
  <2>2. ASSUME NEW c \in UnusedCodesOf(req[r].uid),
               req' = [req EXCEPT ![r].pc = "spendCode", ![r].code = c]
        PROVE  Moves(r)
    <3> DEFINE q == [req[r] EXCEPT !.pc = "spendCode", !.code = c]
    <3>1. c \in OrNull(CodeId) /\ "spendCode" \in Statement
      BY <1>0 DEF UnusedCodesOf, CodesOf, TypeOK, OrNull, Statement
    <3>2. req \in [Request -> RequestState] /\ req[r] \in RequestState
      BY <1>0 DEF TypeOK
    <3>3. q \in RequestState
      BY <3>1, <3>2, RequestFields
    <3>4. q.pc = "spendCode" /\ q.sid = req[r].sid
      BY <3>2 DEF RequestState
    <3>5. req' = [req EXCEPT ![r] = q]
      BY <2>2, <3>2
    <3> HIDE DEF q
    <3> QED
      BY <3>2, <3>3, <3>4, <3>5, <2>0 DEF Moves, Refreshing, Saving
  <2> QED
    BY <2>1, <2>2, <1>3 DEF FindCode
<1>4. CASE SpendCode(r)
  BY <1>4, GotoMoves DEF SpendCode, At, Statement, Refreshing, Saving
<1>5. CASE Settle(r)
  <2>1. Plain("stub") \in Answer /\ "purge" \in Statement
    BY PlainType DEF Kind, Statement
  <2>2. req[r].pc # "done" /\ ~Refreshing([pc |-> "purge"]) /\ ~Saving([pc |-> "purge"])
    BY <1>5 DEF Settle, At, Refreshing, Saving
  <2>3. Respond(r, Plain("stub")) \/ Goto(r, "purge")
    BY <1>5 DEF Settle
  <2> QED
    BY <2>1, <2>2, <2>3, <1>0, RespondMoves, GotoMoves
<1>6. CASE PurgeExpired(r)
  BY <1>6, GotoMoves DEF PurgeExpired, At, Statement, Refreshing, Saving
<1> QED
  BY <1>1, <1>2, <1>3, <1>4, <1>5, <1>6

\* The rows a session is made of and made into.
LEMMA SessionRows ==
  ASSUME TypeOK, NEW r \in Request
  PROVE  /\ NewSession(r) \in SessionRow
         /\ NewSession(r).user = req[r].uid
         /\ Prolonged(req[r].ses) \in SessionRow
         /\ Prolonged(req[r].ses).user = req[r].ses.user
         /\ Prolonged(Rotated(r, req[r].ses, req[r].now)) \in SessionRow
         /\ Prolonged(Rotated(r, req[r].ses, req[r].now)).user = req[r].ses.user
<1> DEFINE ses == req[r].ses
<1>1. /\ ses \in SessionRow
      /\ req[r].now \in Nat
      /\ req[r].uid \in OrNull(Name)
      /\ req[r].pw \in OrNull(Name)
      /\ r \in OrNull(Name)
  BY NameTypes DEF TypeOK, RequestState
<1>2. /\ clock + RefreshLife \in Nat
      /\ req[r].now + Grace \in Nat
  BY <1>1, BoundsAssumption DEF TypeOK
<1>3. NewSession(r) \in SessionRow /\ NewSession(r).user = req[r].uid
  BY <1>1, <1>2, NameTypes DEF NewSession, SessionRow
<1>4. \A s \in SessionRow : /\ Prolonged(s) \in SessionRow
                            /\ Prolonged(s).user = s.user
  BY <1>2 DEF Prolonged, SessionRow
<1>5. /\ Rotated(r, ses, req[r].now) \in SessionRow
      /\ Rotated(r, ses, req[r].now).user = ses.user
  BY <1>1, <1>2 DEF Rotated, SessionRow
<1> QED
  BY <1>1, <1>3, <1>4, <1>5

LEMMA SessionAnswerType ==
  ASSUME NEW s \in OrNull(Name), NEW handle \in OrNull(Name),
         NEW given \in OrNull(Name)
  PROVE  SessionAnswer(s, handle, given) \in Answer
BY DEF SessionAnswer, Answer, Kind

\* A refresh loads a session with the account it belongs to.
LEMMA LoadMoves ==
  ASSUME RowsInv, NEW r \in Request, req[r].pc # "done",
         NEW s \in DOMAIN sessions, LoadSession(r, s), sessions' = sessions
  PROVE  Moves(r)
<1> DEFINE q1 == [req[r] EXCEPT !.pc = "judge"]
           q2 == [q1 EXCEPT !.sid = s]
           q3 == [q2 EXCEPT !.ses = sessions[s]]
           q4 == [q3 EXCEPT !.uid = sessions[s].user]
           q5 == [q4 EXCEPT !.usr = users[sessions[s].user]]
<1>1. /\ req \in [Request -> RequestState]
      /\ req[r] \in RequestState
      /\ s \in Name
      /\ s \in OrNull(Name)
      /\ sessions[s] \in SessionRow
      /\ sessions[s].user \in OrNull(Name)
      /\ users[sessions[s].user] \in UserRow
  BY NameTypes DEF RowsInv, TypeOK, ForeignKeys, SessionRow
<1>2. q1 \in RequestState
  BY <1>1, RequestFields DEF Statement
<1>3. q2 \in RequestState
  BY <1>1, <1>2, RequestFields
<1>4. q3 \in RequestState
  BY <1>1, <1>3, RequestFields
<1>5. q4 \in RequestState
  BY <1>1, <1>4, RequestFields
<1>6. q5 \in RequestState
  BY <1>1, <1>5, RequestFields
<1>7. /\ q5.pc = "judge"
      /\ q5.sid = s
      /\ q5.ses = sessions[s]
      /\ q5.uid = sessions[s].user
  BY <1>1 DEF RequestState
<1>8. req' = [req EXCEPT ![r] = q5]
  BY <1>1 DEF LoadSession
<1> HIDE DEF q5
<1> QED
  BY <1>1, <1>6, <1>7, <1>8 DEF Moves, Saving

\* A refresh keeps a copy of its session, and answers from the copy.
LEMMA AnswerRefreshMoves ==
  ASSUME TypeOK, NEW r \in Request, req[r].pc # "done", AnswerRefresh(r)
  PROVE  Moves(r) /\ req'[r].pc = "done" /\ req'[r].sid = NULL
<1>1. SessionAnswer(req[r].sid, req[r].ses.token, req[r].handle) \in Answer
  BY SessionAnswerType DEF TypeOK, RequestState, SessionRow
<1> QED
  BY <1>1, RespondMoves DEF AnswerRefresh

LEMMA RefreshMoves ==
  ASSUME RowsInv, NEW r \in Request,
         \/ CreateSession(r) \/ RefreshStart(r) \/ FindCurrent(r)
         \/ FindPrevious(r) \/ Judge(r) \/ DropRow(r) \/ SaveSelect(r)
         \/ SaveUpdate(r) \/ SaveInsert(r)
  PROVE  Moves(r)
<1> DEFINE q == req[r]
<1>0. /\ TypeOK
      /\ req \in [Request -> RequestState]
      /\ q \in RequestState
      /\ r \in OrNull(Name)
      /\ NULL \in OrNull(Name)
      /\ Plain("failed") \in Answer
  BY NameTypes, PlainType DEF RowsInv, TypeOK, Kind
<1>1. CASE CreateSession(r)
  <2>1. SessionAnswer(r, r, NULL) \in Answer
    BY <1>0, SessionAnswerType
  <2>2. \/ Respond(r, SessionAnswer(r, r, NULL))
        \/ Respond(r, Plain("failed"))
    BY <1>1 DEF CreateSession
  <2>3. q.pc # "done"
    BY <1>1 DEF CreateSession, At
  <2> QED
    BY <2>1, <2>2, <2>3, <1>0, RespondMoves
<1>2. CASE RefreshStart(r)
  <2> DEFINE q0 == Opened("refresh", "findCurrent", NULL)
  <2>1. PICK handle \in Handles :
          /\ Admit(r, "refresh")
          /\ req' = [req EXCEPT ![r] = [q0 EXCEPT !.handle = handle,
                                                  !.now = clock]]
    BY <1>2 DEF RefreshStart
  <2>2. q0 \in RequestState /\ q0.pc = "findCurrent" /\ q0.sid = NULL
    BY <1>0, OpenedType DEF Operation, Statement
  <2>3. handle \in OrNull(Name) /\ clock \in Nat
    BY <1>0 DEF Handles, SignedIn, TypeOK, RequestState, Answer, OrNull, Name
  <2> HIDE DEF q0
  <2>4. [q0 EXCEPT !.handle = handle, !.now = clock] \in RequestState
    BY <2>2, <2>3, RequestFields
  <2>5. /\ [q0 EXCEPT !.handle = handle, !.now = clock].sid = NULL
        /\ [q0 EXCEPT !.handle = handle, !.now = clock].pc = "findCurrent"
    BY <2>2 DEF RequestState
  <2>6. q.pc # "done"
    BY <2>1 DEF Admit, At
  <2> QED
    BY <2>1, <2>4, <2>5, <2>6, <1>0, StartMoves DEF Refreshing, Saving
<1>3. CASE FindCurrent(r)
  <2>1. q.pc = "findCurrent" /\ sessions' = sessions
    BY <1>3 DEF FindCurrent, At, tables
  <2>2. ASSUME NEW s \in HoldersOf(q.handle), LoadSession(r, s)
        PROVE  Moves(r)
    BY <2>1, <2>2, LoadMoves DEF HoldersOf
  <2>3. CASE Goto(r, "findPrevious")
    BY <2>1, <2>3, GotoMoves DEF Statement, Refreshing, Saving
  <2> QED
    BY <2>2, <2>3, <1>3 DEF FindCurrent
<1>4. CASE FindPrevious(r)
  <2>1. q.pc = "findPrevious" /\ sessions' = sessions
    BY <1>4 DEF FindPrevious, At, tables
  <2>2. ASSUME NEW s \in InGrace(q.handle, q.now), LoadSession(r, s)
        PROVE  Moves(r)
    BY <2>1, <2>2, LoadMoves DEF InGrace
  <2>3. CASE Refuse(r)
    BY <2>1, <2>3, <1>0, RefuseMoves
  <2> QED
    BY <2>2, <2>3, <1>4 DEF FindPrevious
<1>5. CASE Judge(r)
  <2>1. q.pc = "judge" /\ Refreshing(q)
    BY <1>5 DEF Judge, At, Refreshing, Saving
  <2>2. CASE Goto(r, "dropRow")
    BY <2>1, <2>2, GotoMoves DEF Statement, Saving
  <2>3. ASSUME NEW ses \in SessionRow, ses.user = q.ses.user,
               req' = [req EXCEPT ![r].pc = "saveSelect", ![r].ses = ses]
        PROVE  Moves(r)
    <3> DEFINE q1 == [q EXCEPT !.pc = "saveSelect", !.ses = ses]
    <3>1. q1 \in RequestState
      BY <1>0, RequestFields DEF Statement
    <3>2. /\ ~Saving(q1)
          /\ q1.sid = q.sid
          /\ q1.uid = q.uid
          /\ q1.ses = ses
      BY <1>0 DEF RequestState, Saving
    <3>3. req' = [req EXCEPT ![r] = q1]
      BY <2>3, <1>0
    <3>4. q.sid \in Name /\ ses.user = q.uid
      BY <2>1, <2>3 DEF RowsInv, Copies
    <3> HIDE DEF q1
    <3> QED
      BY <3>1, <3>2, <3>3, <3>4, <2>1, <1>0 DEF Moves
  <2>4. Goto(r, "dropRow") \/
          \E ses \in SessionRow :
            /\ ses.user = q.ses.user
            /\ req' = [req EXCEPT ![r].pc = "saveSelect", ![r].ses = ses]
    <3> DEFINE kept == Prolonged(q.ses)
               turned == Prolonged(Rotated(r, q.ses, q.now))
    <3>1. /\ kept \in SessionRow /\ kept.user = q.ses.user
          /\ turned \in SessionRow /\ turned.user = q.ses.user
      BY <1>0, SessionRows
    <3>2. \/ Goto(r, "dropRow")
          \/ req' = [req EXCEPT ![r].pc = "saveSelect", ![r].ses = kept]
          \/ req' = [req EXCEPT ![r].pc = "saveSelect", ![r].ses = turned]
      BY <1>5 DEF Judge
    <3> HIDE DEF kept, turned
    <3> QED
      BY <3>1, <3>2
  <2> QED
    BY <2>2, <2>3, <2>4
<1>6. CASE DropRow(r)
  BY <1>6, <1>0, RefuseMoves DEF DropRow, At
<1>7. CASE SaveSelect(r)
  <2>1. q.pc = "saveSelect" /\ Refreshing(q)
    BY <1>7 DEF SaveSelect, At, Refreshing, Saving
  <2>2. CASE Goto(r, "saveInsert")
    BY <2>1, <2>2, GotoMoves DEF Statement, Saving
  <2>3. ASSUME NEW cols \in SUBSET Column,
               req' = [req EXCEPT ![r].pc = "saveUpdate", ![r].cols = cols]
        PROVE  Moves(r)
    <3> DEFINE q1 == [q EXCEPT !.pc = "saveUpdate", !.cols = cols]
    <3>1. q1 \in RequestState
      BY <1>0, RequestFields DEF Statement
    <3>2. /\ ~Saving(q1)
          /\ q1.sid = q.sid
          /\ q1.uid = q.uid
          /\ q1.ses = q.ses
      BY <1>0 DEF RequestState, Saving
    <3>3. req' = [req EXCEPT ![r] = q1]
      BY <2>3, <1>0
    <3>4. q.sid \in Name /\ q.ses.user = q.uid
      BY <2>1 DEF RowsInv, Copies
    <3> HIDE DEF q1
    <3> QED
      BY <3>1, <3>2, <3>3, <3>4, <2>1, <1>0 DEF Moves
  <2>4. {c \in SessionColumns : q.ses[c] # sessions[q.sid][c]} \cup FreshTimes(r)
          \in SUBSET Column
    BY DEF SessionColumns, FreshTimes, Column
  <2> QED
    BY <2>2, <2>3, <2>4, <1>7 DEF SaveSelect
<1>8. CASE SaveUpdate(r)
  BY <1>8, <1>0, AnswerRefreshMoves DEF SaveUpdate, At
<1>9. CASE SaveInsert(r)
  <2>1. q.pc # "done"
    BY <1>9 DEF SaveInsert, At
  <2> QED
    BY <2>1, <1>9, <1>0, AnswerRefreshMoves, RespondMoves DEF SaveInsert
<1> QED
  BY <1>1, <1>2, <1>3, <1>4, <1>5, <1>6, <1>7, <1>8, <1>9

\* Signing out and changing a password.
LEMMA PasswordMoves ==
  ASSUME RowsInv, NEW r \in Request,
         \/ Logout(r) \/ LogoutAll(r) \/ ChangeForced(r) \/ ChangeOwn(r)
         \/ SetPassword(r) \/ Revoke(r)
  PROVE  Moves(r)
<1> DEFINE q == req[r]
<1>0. /\ TypeOK
      /\ q \in RequestState
      /\ {r, DefaultPassword} \subseteq OrNull(Name)
      /\ Plain("done") \in Answer
  BY NameTypes, PlainType DEF RowsInv, TypeOK, Kind
<1>1. CASE Logout(r) \/ LogoutAll(r)
  <2>1. q.pc # "done" /\ Respond(r, Plain("done"))
    BY <1>1 DEF Logout, LogoutAll, Admit, At
  <2> QED
    BY <2>1, <1>0, RespondMoves
<1>2. CASE ChangeForced(r)
  <2>1. PICK t \in tokens, new \in NewPassword(r) :
          /\ Admit(r, "changeForced")
          /\ req' = [req EXCEPT ![r] =
               [Opened("changeForced", "setPassword", t.sub) EXCEPT !.pw = new]]
    BY <1>2 DEF ChangeForced, Bearers
  <2> DEFINE q0 == Opened("changeForced", "setPassword", t.sub)
  <2>2. t.sub \in OrNull(Name) /\ new \in OrNull(Name)
    BY <1>0 DEF TypeOK, AccessToken, NewPassword
  <2>3. q0 \in RequestState /\ q0.pc = "setPassword" /\ q0.sid = NULL
    <3>1. "changeForced" \in Operation /\ "setPassword" \in Statement
      BY DEF Operation, Statement
    <3> QED
      BY <3>1, <2>2, OpenedType
  <2> HIDE DEF q0
  <2>4. /\ [q0 EXCEPT !.pw = new] \in RequestState
        /\ [q0 EXCEPT !.pw = new].pc = "setPassword"
        /\ [q0 EXCEPT !.pw = new].sid = NULL
    BY <2>2, <2>3, RequestFields DEF RequestState
  <2>5. q.pc # "done"
    BY <2>1 DEF Admit, At
  <2> QED
    BY <2>1, <2>4, <2>5, <1>0, StartMoves DEF Refreshing, Saving, q0
<1>3. CASE ChangeOwn(r)
  <2>1. PICK t \in tokens, current \in Password, new \in NewPassword(r) :
          /\ Admit(r, "changeOwn")
          /\ \/ Refuse(r)
             \/ /\ MayChange(t.sub, current, new)
                /\ req' = [req EXCEPT ![r] =
                     [Loaded("changeOwn", "setPassword", t.sub) EXCEPT !.pw = new]]
    BY <1>3 DEF ChangeOwn, Bearers
  <2>2. q.pc # "done"
    BY <2>1 DEF Admit, At
  <2>3. CASE Refuse(r)
    BY <2>2, <2>3, <1>0, RefuseMoves
  <2>4. CASE /\ MayChange(t.sub, current, new)
             /\ req' = [req EXCEPT ![r] =
                  [Loaded("changeOwn", "setPassword", t.sub) EXCEPT !.pw = new]]
    <3> DEFINE q0 == Loaded("changeOwn", "setPassword", t.sub)
    <3>1. q0 \in RequestState /\ q0.pc = "setPassword" /\ q0.sid = NULL
      <4>1. "changeOwn" \in Operation /\ "setPassword" \in Statement
        BY DEF Operation, Statement
      <4> QED
        BY <4>1, <2>4, <1>0, LoadedType DEF TypeOK, MayChange
    <3>2. new \in OrNull(Name)
      BY <1>0 DEF NewPassword
    <3> HIDE DEF q0
    <3>3. /\ [q0 EXCEPT !.pw = new] \in RequestState
          /\ [q0 EXCEPT !.pw = new].pc = "setPassword"
          /\ [q0 EXCEPT !.pw = new].sid = NULL
      BY <3>1, <3>2, RequestFields DEF RequestState
    <3> QED
      BY <2>2, <2>4, <3>3, <1>0, StartMoves DEF Refreshing, Saving, q0
  <2> QED
    BY <2>1, <2>3, <2>4
<1>4. CASE SetPassword(r)
  BY <1>4, GotoMoves DEF SetPassword, At, Statement, Refreshing, Saving
<1>5. CASE Revoke(r)
  <2>1. q.pc # "done"
    BY <1>5 DEF Revoke, At
  <2>2. CASE Goto(r, "createSession")
    BY <2>1, <2>2, GotoMoves DEF Statement, Refreshing, Saving
  <2>3. CASE Respond(r, Plain("done"))
    BY <2>1, <2>3, <1>0, RespondMoves
  <2> QED
    BY <2>2, <2>3, <1>5 DEF Revoke
<1> QED
  BY <1>1, <1>2, <1>3, <1>4, <1>5

LEMMA AuthMoves ==
  ASSUME RowsInv, NEW r \in Request, AuthStep(r)
  PROVE  Moves(r)
BY SignInMoves, RefreshMoves, PasswordMoves DEF AuthStep

-----------------------------------------------------------------------------
(***************************************************************************)
(* What the statements do to the tables.                                   *)
(***************************************************************************)
\* An access token is signed from a loaded copy of an account.
LEMMA SignType ==
  ASSUME TypeOK, NEW r \in Request, NEW scope \in Scope,
         Sign(req[r].uid, req[r].usr, scope)
  PROVE  tokens' \subseteq AccessToken
<1>1. req[r].uid \in OrNull(Name) /\ req[r].usr.level \in HubAccessLevel
  BY DEF TypeOK, RequestState, UserRow
<1>2. [sub |-> req[r].uid, access |-> req[r].usr.level, scope |-> scope]
        \in AccessToken
  BY <1>1 DEF AccessToken
<1> QED
  BY <1>2 DEF TypeOK, Sign

LEMMA EndSessionsType ==
  ASSUME TypeOK, ForeignKeys, NEW ids \in SUBSET DOMAIN sessions,
         EndSessions(ids), DOMAIN users \subseteq DOMAIN users'
  PROVE  /\ DOMAIN sessions' = DOMAIN sessions \ ids
         /\ sessions' \in [DOMAIN sessions' -> SessionRow]
         /\ revoked' \subseteq Name
         /\ ForeignKeys'
BY DEF TypeOK, ForeignKeys, EndSessions, Delete, Restrict

\* Every statement of AuthService keeps the tables' types and foreign keys.
LEMMA AuthTables ==
  ASSUME RowsInv, NEW r \in Request, AuthStep(r)
  PROVE  TypeOK' /\ ForeignKeys'
<1> DEFINE q == req[r]
<1>0. /\ TypeOK
      /\ ForeignKeys
      /\ q \in RequestState
      /\ q.uid \in OrNull(Name)
      /\ q.pw \in OrNull(Name)
      /\ q.usr \in UserRow
      /\ q.ses \in SessionRow
      /\ req' \in [Request -> RequestState]
      /\ r \in Name
  BY AuthMoves, NameTypes DEF RowsInv, TypeOK, RequestState, Moves
<1>1. CASE UNCHANGED tables
  BY <1>0, <1>1 DEF TypeOK, ForeignKeys, tables
<1>2. CASE SpendCode(r)
  <2>1. codes[q.code] \in CodeRow => [codes[q.code] EXCEPT !.used = TRUE] \in CodeRow
    BY DEF CodeRow
  <2>2. /\ DOMAIN codes' = DOMAIN codes
        /\ codes' \in [DOMAIN codes -> CodeRow]
    BY <2>1, <1>0, <1>2 DEF SpendCode, Updated, TypeOK
  <2> QED
    BY <2>2, <1>0, <1>2 DEF SpendCode, TypeOK, ForeignKeys
<1>3. CASE Settle(r)
  <2>1. tokens' \subseteq AccessToken
    BY <1>0, <1>3, SignType DEF Settle, Scope, TypeOK
  <2> QED
    BY <2>1, <1>0, <1>3 DEF Settle, TypeOK, ForeignKeys
<1>4. CASE PurgeExpired(r)
  <2>1. /\ DOMAIN sessions' \subseteq DOMAIN sessions
        /\ \A s \in DOMAIN sessions' : sessions'[s] = sessions[s]
        /\ sessions' \in [DOMAIN sessions' -> SessionRow]
    BY <1>0, <1>4 DEF PurgeExpired, Delete, Restrict, TypeOK
  <2> QED
    BY <2>1, <1>0, <1>4 DEF PurgeExpired, TypeOK, ForeignKeys
<1>5. CASE CreateSession(r)
  <2>1. CASE /\ q.uid \in DOMAIN users
             /\ sessions' = Insert(sessions, {r}, NewSession(r))
             /\ Sign(q.uid, q.usr, "full")
    <3>1. tokens' \subseteq AccessToken
      BY <2>1, <1>0, SignType DEF Scope
    <3>2. NewSession(r) \in SessionRow /\ NewSession(r).user = q.uid
      BY <1>0, SessionRows
    <3>3. /\ DOMAIN sessions' = DOMAIN sessions \cup {r}
          /\ sessions' \in [DOMAIN sessions' -> SessionRow]
          /\ sessions'[r] = NewSession(r)
          /\ \A s \in DOMAIN sessions \ {r} : sessions'[s] = sessions[s]
      BY <2>1, <3>2, <1>0 DEF Insert, TypeOK
    <3> QED
      BY <2>1, <3>1, <3>2, <3>3, <1>0, <1>5
      DEF CreateSession, TypeOK, ForeignKeys
  <2>2. CASE UNCHANGED <<sessions, tokens>>
    BY <2>2, <1>0, <1>5 DEF CreateSession, TypeOK, ForeignKeys
  <2> QED
    BY <2>1, <2>2, <1>5 DEF CreateSession
<1>6. CASE DropRow(r)
  <2>1. /\ DOMAIN sessions' \subseteq DOMAIN sessions
        /\ \A s \in DOMAIN sessions' : sessions'[s] = sessions[s]
        /\ sessions' \in [DOMAIN sessions' -> SessionRow]
    BY <1>0, <1>6 DEF DropRow, Delete, Restrict, TypeOK
  <2> QED
    BY <2>1, <1>0, <1>6 DEF DropRow, TypeOK, ForeignKeys
<1>7. CASE SaveUpdate(r)
  <2>1. tokens' \subseteq AccessToken
    BY <1>0, <1>7, SignType DEF SaveUpdate, AnswerRefresh, Scope
  <2>2. \A row \in SessionRow : /\ Merge(row, q.ses, q.cols) \in SessionRow
                                /\ Merge(row, q.ses, q.cols).user = row.user
    BY <1>0 DEF Merge, SessionRow
  <2>3. /\ DOMAIN sessions' = DOMAIN sessions
        /\ sessions' \in [DOMAIN sessions -> SessionRow]
        /\ \A s \in DOMAIN sessions : sessions'[s].user = sessions[s].user
    BY <2>2, <1>0, <1>7 DEF SaveUpdate, Updated, TypeOK
  <2> QED
    BY <2>1, <2>3, <1>0, <1>7 DEF SaveUpdate, TypeOK, ForeignKeys
<1>8. CASE SaveInsert(r)
  <2>1. q.sid \in Name /\ q.ses.user = q.uid
    BY <1>8 DEF SaveInsert, At, Refreshing, Saving, RowsInv, Copies
  <2>2. CASE /\ q.uid \in DOMAIN users
             /\ sessions' = Insert(sessions, {q.sid}, q.ses)
             /\ AnswerRefresh(r)
    <3>1. tokens' \subseteq AccessToken
      BY <2>2, <1>0, SignType DEF AnswerRefresh, Scope
    <3>2. /\ DOMAIN sessions' = DOMAIN sessions \cup {q.sid}
          /\ sessions' \in [DOMAIN sessions' -> SessionRow]
          /\ sessions'[q.sid] = q.ses
          /\ \A s \in DOMAIN sessions \ {q.sid} : sessions'[s] = sessions[s]
      BY <2>2, <1>0 DEF Insert, TypeOK
    <3> QED
      BY <2>1, <2>2, <3>1, <3>2, <1>0, <1>8 DEF SaveInsert, TypeOK, ForeignKeys
  <2>3. CASE UNCHANGED <<sessions, tokens>>
    BY <2>3, <1>0, <1>8 DEF SaveInsert, TypeOK, ForeignKeys
  <2> QED
    BY <2>2, <2>3, <1>8 DEF SaveInsert
<1>9. CASE Logout(r) \/ LogoutAll(r) \/ Revoke(r)
  <2>1. PICK ids \in SUBSET DOMAIN sessions :
          EndSessions(ids) /\ UNCHANGED <<users, codes, tokens, clock>>
    BY <1>9 DEF Logout, LogoutAll, Revoke, HoldersOf, SessionsOf
  <2>2. /\ DOMAIN sessions' = DOMAIN sessions \ ids
        /\ sessions' \in [DOMAIN sessions' -> SessionRow]
        /\ revoked' \subseteq Name
        /\ ForeignKeys'
    BY <2>1, <1>0, EndSessionsType
  <2> QED
    BY <2>1, <2>2, <1>0 DEF TypeOK
<1>10. CASE SetPassword(r)
  <2>1. \A row \in UserRow : WithPassword(row, q.pw) \in UserRow
    BY <1>0 DEF WithPassword, UserRow
  <2>2. /\ DOMAIN users' = DOMAIN users
        /\ users' \in [DOMAIN users -> UserRow]
    BY <2>1, <1>0, <1>10 DEF SetPassword, Updated, TypeOK
  <2> QED
    BY <2>2, <1>0, <1>10 DEF SetPassword, TypeOK, ForeignKeys
<1> QED
  BY <1>1, <1>2, <1>3, <1>4, <1>5, <1>6, <1>7, <1>8, <1>9, <1>10
  DEF AuthStep, LoginStart, RecoveryStart, FindCode, RefreshStart, FindCurrent,
      FindPrevious, Judge, SaveSelect, ChangeForced, ChangeOwn

-----------------------------------------------------------------------------
(***************************************************************************)
(* The second-factor statements, seen from the sessions.                   *)
(***************************************************************************)
LEMMA LoadedMoves ==
  ASSUME TypeOK, NEW r \in Request, req[r].pc # "done", NEW op \in Operation,
         NEW pc \in {"storeSecret", "verify"}, NEW u \in DOMAIN users,
         req' = [req EXCEPT ![r] = Loaded(op, pc, u)]
  PROVE  Moves(r)
<1>1. pc \in Statement
  BY DEF Statement
<1>2. /\ Loaded(op, pc, u) \in RequestState
      /\ Loaded(op, pc, u).pc = pc
      /\ Loaded(op, pc, u).sid = NULL
  BY <1>1, LoadedType DEF TypeOK
<1> QED
  BY <1>2, StartMoves DEF Refreshing, Saving

LEMMA TotpMoves ==
  ASSUME RowsInv, NEW r \in Request, TotpStep(r)
  PROVE  Moves(r)
<1> DEFINE q == req[r]
<1>0. /\ TypeOK
      /\ q \in RequestState
      /\ {Plain("done"), Plain("codes"), Plain("failed")} \subseteq Answer
      /\ {"setup", "rotate", "enable", "regenerate", "disable"} \subseteq Operation
      /\ r \in OrNull(Name)
  BY NameTypes, PlainType DEF RowsInv, TypeOK, Kind, Operation
<1>1. \A shown \in OrNull(Name) : [Plain("paired") EXCEPT !.shown = shown] \in Answer
  BY NameTypes DEF Plain, Answer, Kind
<1>2. CASE SetupStart(r)
  <2>1. PICK t \in tokens, op \in {"setup", "rotate"} :
          /\ Admit(r, op)
          /\ \/ Refuse(r)
             \/ /\ MayPair(t.sub)
                /\ Respond(r, [Plain("paired") EXCEPT
                                 !.shown = PendingSecret(op, t.sub)])
             \/ /\ MayPair(t.sub)
                /\ req' = [req EXCEPT ![r] = Loaded(op, "storeSecret", t.sub)]
    BY <1>2 DEF SetupStart, Bearers
  <2>2. q.pc # "done"
    BY <2>1 DEF Admit, At
  <2>3. MayPair(t.sub) => PendingSecret(op, t.sub) \in OrNull(Name)
    BY <1>0, NameTypes DEF PendingSecret, MayPair, TypeOK, UserRow
  <2> QED
    BY <2>1, <2>2, <2>3, <1>0, <1>1, RefuseMoves, RespondMoves, LoadedMoves
    DEF MayPair
<1>3. CASE StoreSecret(r)
  BY <1>0, <1>1, <1>3, RespondMoves DEF StoreSecret, At
<1>4. CASE EnableStart(r) \/ RegenerateStart(r) \/ DisableStart(r)
  <2>1. q.pc # "done"
    BY <1>4 DEF EnableStart, RegenerateStart, DisableStart, Admit, At
  <2>2. \/ Refuse(r)
        \/ \E u \in DOMAIN users, op \in {"enable", "regenerate", "disable"} :
             req' = [req EXCEPT ![r] = Loaded(op, "verify", u)]
    BY <1>4 DEF EnableStart, RegenerateStart, DisableStart, MayPair, Enrolled,
                MayDisable
  <2> QED
    BY <2>1, <2>2, <1>0, RefuseMoves, LoadedMoves
<1>5. CASE VerifyAccepts(r)
  <2>1. PICK t \in Window : req' = [req EXCEPT ![r].pc = "burn", ![r].step = t]
    BY <1>5 DEF VerifyAccepts
  <2> DEFINE q1 == [q EXCEPT !.pc = "burn", !.step = t]
  <2>2. t \in Nat /\ "burn" \in Statement
    BY <1>0 DEF TypeOK, Window, Statement
  <2>3. q1 \in RequestState /\ q1.pc = "burn" /\ q1.sid = q.sid
    BY <2>2, <1>0, RequestFields DEF RequestState
  <2>4. req' = [req EXCEPT ![r] = q1] /\ req \in [Request -> RequestState]
    BY <2>1, <1>0 DEF TypeOK
  <2>5. q.pc # "done"
    BY <1>5 DEF VerifyAccepts, At
  <2> HIDE DEF q1
  <2> QED
    BY <2>3, <2>4, <2>5 DEF Moves, Refreshing, Saving
<1>6. CASE VerifyRejects(r)
  BY <1>0, <1>6, RefuseMoves DEF VerifyRejects, At
<1>7. CASE Burn(r)
  <2>1. q.pc # "done"
    BY <1>7 DEF Burn, At
  <2>2. CASE Refuse(r)
    BY <2>1, <2>2, <1>0, RefuseMoves
  <2>3. CASE /\ q.uid \in DOMAIN users
             /\ req' = [req EXCEPT ![r].pc = AfterVerify(q.op),
                                   ![r].accepted = [user |-> q.uid,
                                                    secret |-> q.usr.secret,
                                                    step |-> q.step]]
    <3> DEFINE code == [user |-> q.uid, secret |-> q.usr.secret, step |-> q.step]
               q1 == [q EXCEPT !.pc = AfterVerify(q.op), !.accepted = code]
    <3>1. code \in OrNull(AcceptedCode)
      BY <1>0 DEF RequestState, UserRow, AcceptedCode, OrNull
    <3>2. q1 \in RequestState
      BY <3>1, <1>0, AfterVerifyType, RequestFields
    <3>3. q1.pc = AfterVerify(q.op) /\ q1.sid = q.sid
      BY <1>0 DEF RequestState
    <3>4. ~Refreshing(q1) /\ ~Saving(q1)
      BY <3>3 DEF Refreshing, Saving, AfterVerify
    <3>5. req' = [req EXCEPT ![r] = q1] /\ req \in [Request -> RequestState]
      BY <2>3, <1>0 DEF TypeOK
    <3> HIDE DEF q1
    <3> QED
      BY <3>2, <3>3, <3>4, <3>5, <2>1 DEF Moves
  <2> QED
    BY <2>2, <2>3, <1>7 DEF Burn, Burnable
<1>8. CASE SetEnabled(r) \/ ClearTotp(r)
  <2>1. q.pc # "done" /\ Goto(r, "dropCodes")
    BY <1>8 DEF SetEnabled, ClearTotp, At
  <2> QED
    BY <2>1, GotoMoves DEF Statement, Refreshing, Saving
<1>9. CASE DropCodes(r)
  <2>1. q.pc # "done"
    BY <1>9 DEF DropCodes, At
  <2>2. CASE Respond(r, Plain("done"))
    BY <2>1, <2>2, <1>0, RespondMoves
  <2>3. CASE Goto(r, "issueCodes")
    BY <2>1, <2>3, GotoMoves DEF Statement, Refreshing, Saving
  <2> QED
    BY <2>2, <2>3, <1>9 DEF DropCodes
<1>10. CASE IssueCodes(r)
  BY <1>0, <1>10, RespondMoves DEF IssueCodes, At
<1> QED
  BY <1>2, <1>3, <1>4, <1>5, <1>6, <1>7, <1>8, <1>9, <1>10 DEF TotpStep

\* They write no session, and neither create nor delete an account.
LEMMA TotpKeepsSessions ==
  ASSUME TypeOK, NEW r \in Request, TotpStep(r)
  PROVE  /\ sessions' = sessions
         /\ revoked' = revoked
         /\ DOMAIN users' = DOMAIN users
<1>1. CASE UNCHANGED tables
  BY <1>1 DEF tables
<1>2. CASE StoreSecret(r) \/ SetEnabled(r) \/ ClearTotp(r)
  BY <1>2 DEF StoreSecret, SetEnabled, ClearTotp, Updated
<1>3. CASE Burn(r)
  BY <1>3 DEF Burn
<1>4. CASE DropCodes(r) \/ IssueCodes(r)
  BY <1>4 DEF DropCodes, IssueCodes
<1> QED
  BY <1>1, <1>2, <1>3, <1>4
  DEF TotpStep, SetupStart, EnableStart, RegenerateStart, DisableStart,
      VerifyAccepts, VerifyRejects

LEMMA AbandonMoves ==
  ASSUME TypeOK, NEW r \in Request, Abandon(r)
  PROVE  Moves(r) /\ UNCHANGED tables
<1>1. Plain("lost") \in Answer
  BY PlainType DEF Kind
<1>2. req[r].pc # "done" /\ Respond(r, Plain("lost")) /\ UNCHANGED tables
  BY DEF Abandon, InFlight
<1> QED
  BY <1>1, <1>2, RespondMoves

-----------------------------------------------------------------------------
(***************************************************************************)
(* Type and foreign keys.                                                  *)
(***************************************************************************)
LEMMA MovesCopies ==
  ASSUME RowsInv, NEW r \in Request, Moves(r)
  PROVE  Copies'
BY DEF RowsInv, Copies, Moves

LEMMA InitRows == Init => RowsInv
<1> SUFFICES ASSUME Init PROVE RowsInv
  OBVIOUS
<1>1. PICK p \in Population : users = p.users /\ sessions = p.sessions
  BY DEF Init
<1>2. ForeignKeys
  BY <1>1, PopulationAssumption DEF WellFormed, ForeignKeys
<1>3. Copies
  BY DEF Init, Copies, Refreshing, Saving, Blank
<1> QED
  BY <1>2, <1>3, InitType DEF RowsInv

LEMMA RowsStep ==
  ASSUME RowsInv, [AuthNext]_vars
  PROVE  RowsInv'
<1>0. TypeOK
  BY DEF RowsInv
<1>1. ASSUME NEW r \in Request, TotpStep(r)
      PROVE  RowsInv'
  <2>1. ForeignKeys'
    BY <1>0, <1>1, TotpKeepsSessions DEF RowsInv, ForeignKeys
  <2> QED
    BY <2>1, <1>0, <1>1, TotpStepType, TotpMoves, MovesCopies DEF RowsInv
<1>2. ASSUME NEW r \in Request, AuthStep(r)
      PROVE  RowsInv'
  BY <1>2, AuthTables, AuthMoves, MovesCopies DEF RowsInv
<1>3. ASSUME NEW r \in Request, Abandon(r)
      PROVE  RowsInv'
  <2>1. ForeignKeys'
    BY <1>3 DEF Abandon, tables, RowsInv, ForeignKeys
  <2> QED
    BY <2>1, <1>0, <1>3, AbandonType, AbandonMoves, MovesCopies DEF RowsInv
<1>4. CASE Tick
  BY <1>4 DEF Tick, RowsInv, TypeOK, ForeignKeys, Copies
<1>5. CASE UNCHANGED vars
  BY <1>5 DEF vars, RowsInv, TypeOK, ForeignKeys, Copies
<1> QED
  BY <1>1, <1>2, <1>3, <1>4, <1>5 DEF AuthNext, Quiet

\* Whatever account holders do, overlapping and with workers dying in the
\* middle, the three tables keep rows of their schema.
THEOREM AuthTypeOK == AuthSpec => []TypeOK
<1>1. Init => RowsInv
  BY InitRows
<1>2. RowsInv /\ [AuthNext]_vars => RowsInv'
  BY RowsStep
<1>3. RowsInv => TypeOK
  BY DEF RowsInv
<1> QED
  BY <1>1, <1>2, <1>3, PTL DEF AuthSpec
-----------------------------------------------------------------------------
(***************************************************************************)
(* Revocation.  A revoked session could come back in two ways: a save()    *)
(* inserts a copy, or a sign-in mints its id again.  So no request may     *)
(* hold one, and an unanswered request has its id still to mint.           *)
(***************************************************************************)
NoneHeld == \A r \in Request : req[r].sid \notin revoked

IdsUnminted ==
  \A r \in Request :
    req[r].pc # "done" =>
      /\ r \notin DOMAIN sessions
      /\ r \notin revoked
      /\ \A q \in Request : req[q].sid # r

LedgerInv == RevokedStaysRevoked /\ NoneHeld /\ IdsUnminted

\* What a statement does to the sessions: it inserts none but the one its
\* request holds and the one that its answer names, and revokes none that a
\* request holds.
KeepsLedger(r) ==
  /\ \A s \in DOMAIN sessions' \ DOMAIN sessions :
       s = req[r].sid \/ (s = r /\ req'[r].pc = "done")
  /\ \A s \in revoked' \ revoked :
       s \in DOMAIN sessions \ DOMAIN sessions' /\ ~Held(s)

LEMMA LedgerStep ==
  ASSUME TypeOK, LedgerInv, NEW r \in Request, Moves(r), KeepsLedger(r)
  PROVE  LedgerInv'
<1>0. /\ DOMAIN sessions \subseteq Name
      /\ revoked \subseteq Name
      /\ NULL \notin Name
  BY NamesAssumption DEF TypeOK
<1>1. RevokedStaysRevoked'
  <2> SUFFICES ASSUME NEW s \in revoked', s \in DOMAIN sessions'
               PROVE  FALSE
    BY DEF RevokedStaysRevoked
  <2>1. s \in revoked
    BY DEF KeepsLedger
  <2>2. s \notin DOMAIN sessions
    BY <2>1 DEF LedgerInv, RevokedStaysRevoked
  <2> QED
    BY <2>1, <2>2 DEF KeepsLedger, Moves, LedgerInv, NoneHeld, IdsUnminted
<1>2. NoneHeld'
  <2> SUFFICES ASSUME NEW q \in Request, req'[q].sid \in revoked'
               PROVE  FALSE
    BY DEF NoneHeld
  <2>1. CASE req'[q].sid = req[q].sid
    BY <2>1 DEF KeepsLedger, Held, LedgerInv, NoneHeld
  <2>2. CASE req'[q].sid = NULL
    BY <2>2, <1>0 DEF KeepsLedger
  <2>3. CASE req'[q].sid \in DOMAIN sessions \cap DOMAIN sessions'
    BY <2>3 DEF KeepsLedger, LedgerInv, RevokedStaysRevoked
  <2> QED
    BY <2>1, <2>2, <2>3 DEF Moves
<1>3. IdsUnminted'
  <2> SUFFICES ASSUME NEW p \in Request, req'[p].pc # "done"
               PROVE  /\ p \notin DOMAIN sessions'
                      /\ p \notin revoked'
                      /\ \A q \in Request : req'[q].sid # p
    BY DEF IdsUnminted
  <2>1. req[p].pc # "done"
    BY DEF Moves
  <2>2. /\ p \notin DOMAIN sessions
        /\ p \notin revoked
        /\ \A q \in Request : req[q].sid # p
    BY <2>1 DEF LedgerInv, IdsUnminted
  <2>3. \A q \in Request : req'[q].sid # p
    BY <2>2, NameTypes DEF Moves
  <2> QED
    BY <2>2, <2>3 DEF KeepsLedger
<1> QED
  BY <1>1, <1>2, <1>3 DEF LedgerInv

\* Deleting sessions, in order to revoke them or not, keeps the ledger.
LEMMA DeletionLedger ==
  ASSUME NEW r \in Request, NEW ids \in SUBSET DOMAIN sessions,
         \/ EndSessions(ids)
         \/ sessions' = Delete(sessions, ids) /\ revoked' = revoked
  PROVE  KeepsLedger(r)
BY DEF EndSessions, Delete, Restrict, KeepsLedger

LEMMA AuthLedger ==
  ASSUME RowsInv, NEW r \in Request, AuthStep(r)
  PROVE  KeepsLedger(r)
<1>0. TypeOK /\ req \in [Request -> RequestState]
  BY DEF RowsInv, TypeOK
<1>1. CASE sessions' = sessions /\ revoked' = revoked
  BY <1>1 DEF KeepsLedger
<1>2. CASE PurgeExpired(r)
  BY <1>2, DeletionLedger DEF PurgeExpired, ExpiredSessionsOf, SessionsOf
<1>3. CASE CreateSession(r)
  <2>1. CASE /\ sessions' = Insert(sessions, {r}, NewSession(r))
             /\ Respond(r, SessionAnswer(r, r, NULL))
    <3>1. SessionAnswer(r, r, NULL) \in Answer
      BY NameTypes, SessionAnswerType
    <3>2. req'[r].pc = "done"
      BY <2>1, <3>1, <1>0, RespondType
    <3>3. DOMAIN sessions' = DOMAIN sessions \cup {r}
      BY <2>1 DEF Insert
    <3> QED
      BY <3>2, <3>3, <1>3 DEF CreateSession, KeepsLedger
  <2>2. CASE sessions' = sessions
    BY <2>2, <1>3 DEF CreateSession, KeepsLedger
  <2> QED
    BY <2>1, <2>2, <1>3 DEF CreateSession
<1>4. CASE DropRow(r)
  <2>1. sessions' = Delete(sessions, {req[r].sid} \cap DOMAIN sessions)
    BY <1>4 DEF DropRow, Delete, Restrict
  <2> QED
    BY <2>1, <1>4, DeletionLedger DEF DropRow
<1>5. CASE SaveUpdate(r)
  <2>1. DOMAIN sessions' = DOMAIN sessions
    BY <1>5 DEF SaveUpdate, Updated
  <2> QED
    BY <2>1, <1>5 DEF SaveUpdate, KeepsLedger
<1>6. CASE SaveInsert(r)
  <2>1. DOMAIN sessions' \subseteq DOMAIN sessions \cup {req[r].sid}
    BY <1>6 DEF SaveInsert, Insert
  <2> QED
    BY <2>1, <1>6 DEF SaveInsert, KeepsLedger
<1>7. CASE Logout(r) \/ LogoutAll(r) \/ Revoke(r)
  <2>1. PICK ids \in SUBSET DOMAIN sessions : EndSessions(ids)
    BY <1>7 DEF Logout, LogoutAll, Revoke, HoldersOf, SessionsOf
  <2> QED
    BY <2>1, DeletionLedger
<1> QED
  BY <1>1, <1>2, <1>3, <1>4, <1>5, <1>6, <1>7
  DEF AuthStep, tables, LoginStart, RecoveryStart, FindCode, SpendCode, Settle,
      RefreshStart, FindCurrent, FindPrevious, Judge, SaveSelect, ChangeForced,
      ChangeOwn, SetPassword

LEMMA InitLedger == Init => LedgerInv
<1> SUFFICES ASSUME Init PROVE LedgerInv
  OBVIOUS
<1>1. PICK p \in Population : sessions = p.sessions
  BY DEF Init
<1>2. DOMAIN sessions \subseteq Seed
  BY <1>1, PopulationAssumption DEF WellFormed
<1>3. revoked = {} /\ \A r \in Request : req[r].sid = NULL
  BY DEF Init, Blank
<1> QED
  BY <1>2, <1>3, NamesAssumption, NameTypes
  DEF LedgerInv, RevokedStaysRevoked, NoneHeld, IdsUnminted

LEMMA LedgerInvariance ==
  ASSUME RowsInv, LedgerInv, [AuthNext]_vars
  PROVE  LedgerInv'
<1>0. TypeOK
  BY DEF RowsInv
<1>1. ASSUME NEW r \in Request, TotpStep(r)
      PROVE  LedgerInv'
  <2>1. KeepsLedger(r)
    BY <1>0, <1>1, TotpKeepsSessions DEF KeepsLedger
  <2> QED
    BY <2>1, <1>0, <1>1, TotpMoves, LedgerStep
<1>2. ASSUME NEW r \in Request, AuthStep(r)
      PROVE  LedgerInv'
  BY <1>0, <1>2, AuthMoves, AuthLedger, LedgerStep
<1>3. ASSUME NEW r \in Request, Abandon(r)
      PROVE  LedgerInv'
  <2>1. Moves(r) /\ UNCHANGED tables
    BY <1>0, <1>3, AbandonMoves
  <2>2. KeepsLedger(r)
    BY <2>1 DEF KeepsLedger, tables
  <2> QED
    BY <2>1, <2>2, <1>0, LedgerStep
<1>4. CASE UNCHANGED <<sessions, revoked, req>>
  BY <1>4 DEF LedgerInv, RevokedStaysRevoked, NoneHeld, IdsUnminted
<1> QED
  BY <1>1, <1>2, <1>3, <1>4 DEF AuthNext, Quiet, Tick, vars

\* A session that was signed out or revoked while no refresh held a copy of
\* it is gone for good, whatever overlaps and whichever workers die.
THEOREM AuthRevocation == AuthSpec => []RevokedStaysRevoked
<1>1. Init => RowsInv /\ LedgerInv
  BY InitRows, InitLedger
<1>2. (RowsInv /\ LedgerInv) /\ [AuthNext]_vars => (RowsInv /\ LedgerInv)'
  BY RowsStep, LedgerInvariance
<1>3. RowsInv /\ LedgerInv => RevokedStaysRevoked
  BY DEF LedgerInv
<1> QED
  BY <1>1, <1>2, <1>3, PTL DEF AuthSpec
-----------------------------------------------------------------------------
(***************************************************************************)
(* Codes.  Sign-in verifies codes too, with the statements of TotpService; *)
(* the other statements write no secret and no watermark.                  *)
(***************************************************************************)
\* What a statement of AuthService leaves of a request's copy: none, the one
\* it had, or the row of an account just loaded; a code accepted is kept, and a
\* request that goes on to verify one is new.
Carries(r) ==
  /\ \A q \in Request \ {r} : req'[q] = req[q]
  /\ \/ req'[r].accepted = req[r].accepted /\ req'[r].pc # "verify"
     \/ req'[r].accepted = NULL /\ req[r].pc = "idle"
  /\ req'[r].pc \notin {"idle", "storeSecret", "burn"}
  /\ \/ req'[r].usr = NoUser /\ req'[r].pc # "verify"
     \/ req'[r].usr = req[r].usr /\ req'[r].pc # "verify"
     \/ \E u \in DOMAIN users : req'[r].usr = users[u] /\ req'[r].uid = u

LEMMA RespondCarries ==
  ASSUME TypeOK, NEW r \in Request,
         Refuse(r) \/ \E answer \in Answer : Respond(r, answer)
  PROVE  Carries(r)
BY RespondType, RefuseType DEF TypeOK, Carries

LEMMA GotoCarries ==
  ASSUME TypeOK, NEW r \in Request, NEW pc \in Statement, Goto(r, pc),
         pc \notin {"idle", "storeSecret", "burn", "verify"}
  PROVE  Carries(r)
BY GotoType DEF TypeOK, Carries

LEMMA StartCarries ==
  ASSUME TypeOK, NEW r \in Request, req[r].pc = "idle",
         NEW q, req' = [req EXCEPT ![r] = q], q.accepted = NULL,
         q.pc \notin {"idle", "storeSecret", "burn"},
         \/ q.usr = NoUser /\ q.pc # "verify"
         \/ \E u \in DOMAIN users : q.usr = users[u] /\ q.uid = u
  PROVE  Carries(r)
BY DEF TypeOK, Carries

LEMMA AuthCarries ==
  ASSUME RowsInv, NEW r \in Request, AuthStep(r)
  PROVE  Carries(r)
<1> DEFINE q == req[r]
<1>0. /\ TypeOK
      /\ req \in [Request -> RequestState]
      /\ q \in RequestState
      /\ {Plain("challenge"), Plain("stub"), Plain("failed"), Plain("done")}
            \subseteq Answer
      /\ {r, NULL} \subseteq OrNull(Name)
  BY NameTypes, PlainType DEF RowsInv, TypeOK, Kind
<1>1. {"settle", "purge", "createSession", "findPrevious", "dropRow",
       "saveInsert", "revoke"} \subseteq Statement
  BY DEF Statement
<1>2. SessionAnswer(r, r, NULL) \in Answer
  BY <1>0, SessionAnswerType
<1>3. SessionAnswer(q.sid, q.ses.token, q.handle) \in Answer
  BY <1>0, SessionAnswerType DEF RequestState, SessionRow
<1>4. CASE Refuse(r) \/ \E answer \in Answer : Respond(r, answer)
  BY <1>4, <1>0, RespondCarries
<1>5. CASE \E pc \in {"settle", "purge", "createSession", "findPrevious",
                      "dropRow", "saveInsert", "revoke"} : Goto(r, pc)
  BY <1>5, <1>0, <1>1, GotoCarries
<1>6. ASSUME NEW op, NEW pc \in {"verify", "settle", "findCode"},
             NEW u \in DOMAIN users, q.pc = "idle",
             req' = [req EXCEPT ![r] = SignIn(op, pc, u)]
      PROVE  Carries(r)
  <2>1. /\ SignIn(op, pc, u).pc = pc
        /\ SignIn(op, pc, u).uid = u
        /\ SignIn(op, pc, u).usr = users[u]
        /\ SignIn(op, pc, u).accepted = NULL
    BY DEF SignIn, Loaded, Blank
  <2> QED
    BY <1>6, <2>1, <1>0, StartCarries
<1>7. CASE RefreshStart(r)
  <2>1. PICK handle : req' = [req EXCEPT ![r] =
          [Opened("refresh", "findCurrent", NULL) EXCEPT !.handle = handle,
                                                         !.now = clock]]
    BY <1>7 DEF RefreshStart
  <2> DEFINE q0 == [Opened("refresh", "findCurrent", NULL) EXCEPT
                      !.handle = handle, !.now = clock]
  <2>2. q0.pc = "findCurrent" /\ q0.usr = NoUser /\ q0.accepted = NULL
    BY DEF Opened, Blank
  <2>3. q.pc = "idle"
    BY <1>7 DEF RefreshStart, Admit, At
  <2> HIDE DEF q0
  <2> QED
    BY <2>1, <2>2, <2>3, <1>0, StartCarries DEF q0
<1>8. ASSUME NEW s \in DOMAIN sessions, LoadSession(r, s)
      PROVE  Carries(r)
  <2>1. sessions[s].user \in DOMAIN users
    BY DEF RowsInv, ForeignKeys
  <2>2. /\ req'[r].usr = users[sessions[s].user]
        /\ req'[r].uid = sessions[s].user
        /\ req'[r].pc = "judge"
        /\ req'[r].accepted = q.accepted
        /\ \A p \in Request \ {r} : req'[p] = req[p]
    BY <1>0, <1>8 DEF LoadSession, RequestState
  <2> QED
    BY <2>1, <2>2 DEF Carries
<1>9. CASE FindCode(r) /\ ~Refuse(r)
  <2>1. /\ req'[r].pc = "spendCode"
        /\ req'[r].usr = q.usr
        /\ req'[r].accepted = q.accepted
        /\ \A p \in Request \ {r} : req'[p] = req[p]
    BY <1>0, <1>9 DEF FindCode, RequestState
  <2> QED
    BY <2>1 DEF Carries
<1>10. CASE Judge(r) /\ ~Goto(r, "dropRow")
  <2>1. PICK ses : req' = [req EXCEPT ![r].pc = "saveSelect", ![r].ses = ses]
    BY <1>10 DEF Judge
  <2>2. /\ req'[r].pc = "saveSelect"
        /\ req'[r].usr = q.usr
        /\ req'[r].accepted = q.accepted
        /\ \A p \in Request \ {r} : req'[p] = req[p]
    BY <2>1, <1>0 DEF RequestState
  <2> QED
    BY <2>2 DEF Carries
<1>11. CASE SaveSelect(r) /\ ~Goto(r, "saveInsert")
  <2>1. PICK cols : req' = [req EXCEPT ![r].pc = "saveUpdate", ![r].cols = cols]
    BY <1>11 DEF SaveSelect
  <2>2. /\ req'[r].pc = "saveUpdate"
        /\ req'[r].usr = q.usr
        /\ req'[r].accepted = q.accepted
        /\ \A p \in Request \ {r} : req'[p] = req[p]
    BY <2>1, <1>0 DEF RequestState
  <2> QED
    BY <2>2 DEF Carries
<1>12. CASE ChangeForced(r)
  <2>1. PICK t, new : req' = [req EXCEPT ![r] =
          [Opened("changeForced", "setPassword", t.sub) EXCEPT !.pw = new]]
    BY <1>12 DEF ChangeForced
  <2> DEFINE q0 == [Opened("changeForced", "setPassword", t.sub) EXCEPT !.pw = new]
  <2>2. q0.pc = "setPassword" /\ q0.usr = NoUser /\ q0.accepted = NULL
    BY DEF Opened, Blank
  <2>3. q.pc = "idle"
    BY <1>12 DEF ChangeForced, Admit, At
  <2> HIDE DEF q0
  <2> QED
    BY <2>1, <2>2, <2>3, <1>0, StartCarries DEF q0
<1>13. CASE ChangeOwn(r) /\ ~Refuse(r)
  <2>1. PICK u \in DOMAIN users, new \in NewPassword(r) :
          req' = [req EXCEPT ![r] =
            [Loaded("changeOwn", "setPassword", u) EXCEPT !.pw = new]]
    BY <1>13 DEF ChangeOwn, MayChange
  <2> DEFINE q0 == [Loaded("changeOwn", "setPassword", u) EXCEPT !.pw = new]
  <2>2. /\ q0.pc = "setPassword"
        /\ q0.usr = users[u]
        /\ q0.uid = u
        /\ q0.accepted = NULL
    BY DEF Loaded, Blank
  <2>3. q.pc = "idle"
    BY <1>13 DEF ChangeOwn, Admit, At
  <2> HIDE DEF q0
  <2> QED
    BY <2>1, <2>2, <2>3, <1>0, StartCarries DEF q0
<1>14. CASE LoginStart(r) \/ RecoveryStart(r)
  <2>1. \/ Refuse(r)
        \/ Respond(r, Plain("challenge"))
        \/ \E op \in {"login", "recovery"}, pc \in {"verify", "settle", "findCode"},
              u \in DOMAIN users : req' = [req EXCEPT ![r] = SignIn(op, pc, u)]
    BY <1>14 DEF LoginStart, RecoveryStart, PasswordAccepted, RecoveryAccepted
  <2>2. q.pc = "idle"
    BY <1>14 DEF LoginStart, RecoveryStart, Admit, At
  <2> QED
    BY <2>1, <2>2, <1>0, <1>4, <1>6
<1>15. CASE FindCurrent(r) \/ FindPrevious(r)
  <2>1. \/ Refuse(r)
        \/ Goto(r, "findPrevious")
        \/ \E s \in DOMAIN sessions : LoadSession(r, s)
    BY <1>15 DEF FindCurrent, FindPrevious, HoldersOf, InGrace
  <2> QED
    BY <2>1, <1>4, <1>5, <1>8
<1>16. CASE \/ SpendCode(r) \/ Settle(r) \/ PurgeExpired(r) \/ CreateSession(r)
            \/ DropRow(r) \/ SaveUpdate(r) \/ SaveInsert(r) \/ Logout(r)
            \/ LogoutAll(r) \/ SetPassword(r) \/ Revoke(r)
  <2>1. \/ Refuse(r)
        \/ \E answer \in Answer : Respond(r, answer)
        \/ \E pc \in {"settle", "purge", "createSession", "revoke"} : Goto(r, pc)
    BY <1>16, <1>0, <1>2, <1>3
    DEF SpendCode, Settle, PurgeExpired, CreateSession, DropRow, SaveUpdate,
        SaveInsert, AnswerRefresh, Logout, LogoutAll, SetPassword, Revoke
  <2> QED
    BY <2>1, <1>4, <1>5
<1> QED
  BY <1>4, <1>5, <1>7, <1>9, <1>10, <1>11, <1>12, <1>13, <1>14, <1>15, <1>16
  DEF AuthStep

LEMMA AuthFactor ==
  ASSUME RowsInv, FactorInv, NEW r \in Request, AuthStep(r)
  PROVE  FactorInv'
<1>0. TypeOK /\ Carries(r)
  BY AuthCarries DEF RowsInv
<1>1. CASE users' = users
  BY <1>0, <1>1, FactorFrame DEF Carries
<1>2. CASE SetPassword(r)
  <2> DEFINE row == WithPassword(users[req[r].uid], req[r].pw)
  <2>1. /\ users' = Updated(users, req[r].uid, row)
        /\ Goto(r, "revoke")
    BY <1>2 DEF SetPassword
  <2>2. /\ req'[r].pc = "revoke"
        /\ req'[r].usr = req[r].usr
        /\ req'[r].accepted = req[r].accepted
    BY <2>1, <1>0, GotoType DEF TypeOK, Statement
  <2>3. req[r].uid \in DOMAIN users =>
          /\ row.secret = users[req[r].uid].secret
          /\ row.last = users[req[r].uid].last
    BY <1>0 DEF TypeOK, UserRow, WithPassword
  <2> HIDE DEF row
  <2> QED
    BY <2>1, <2>2, <2>3, <1>0, FactorUpdate DEF Carries
<1> QED
  BY <1>1, <1>2
  DEF AuthStep, tables, LoginStart, RecoveryStart, FindCode, SpendCode, Settle,
      PurgeExpired, CreateSession, RefreshStart, FindCurrent, FindPrevious,
      Judge, DropRow, SaveSelect, SaveUpdate, SaveInsert, Logout, LogoutAll,
      ChangeForced, ChangeOwn, Revoke

LEMMA AuthFactorInvariance == AuthSpec => [](RowsInv /\ FactorInv)
<1>1. RowsInv /\ FactorInv /\ [AuthNext]_vars => FactorInv'
  <2> SUFFICES ASSUME RowsInv, FactorInv, [AuthNext]_vars PROVE FactorInv'
    OBVIOUS
  <2>0. TypeOK
    BY DEF RowsInv
  <2>1. CASE \E r \in Request : TotpStep(r) \/ AuthStep(r) \/ Abandon(r)
    BY <2>0, <2>1, FactorStep, AuthFactor, FactorAbandon
  <2>2. CASE Tick \/ UNCHANGED vars
    BY <2>2, FactorStutter DEF Tick, vars
  <2> QED
    BY <2>1, <2>2 DEF AuthNext, Quiet
<1>2. RowsInv /\ [AuthNext]_vars => RowsInv'
  BY RowsStep
<1>3. Init => RowsInv /\ FactorInv
  BY InitRows, InitFactor
<1> QED
  BY <1>1, <1>2, <1>3, PTL DEF AuthSpec

\* The watermark covers every accepted code also when codes are verified by
\* sign-ins, and passwords and sessions change around them.
THEOREM AuthWatermark == AuthSpec => []WatermarkCovers
<1>1. FactorInv => WatermarkCovers
  BY DEF FactorInv
<1> QED
  BY <1>1, AuthFactorInvariance, PTL

\* No sign-in, and no other request of an account holder, gets a code accepted
\* that was accepted before, in whichever worker, while its secret stands.
THEOREM AuthCodeOnce == AuthSpec => CodeAcceptedOnce
<1>1. RowsInv /\ FactorInv /\ [AuthNext]_vars => [AcceptsOnlyFreshCodes]_vars
  <2> SUFFICES ASSUME RowsInv, FactorInv, AuthNext PROVE AcceptsOnlyFreshCodes
    OBVIOUS
  <2>0. TypeOK
    BY DEF RowsInv
  <2>1. ASSUME NEW r \in Request, TotpStep(r) PROVE AcceptsOnlyFreshCodes
    BY <2>0, <2>1, OnlyBurnAccepts, BurnsFreshCodes DEF AcceptsOnlyFreshCodes
  <2>2. ASSUME NEW r \in Request, Abandon(r) PROVE AcceptsOnlyFreshCodes
    <3>1. Carries(r)
      <4>1. Plain("lost") \in Answer
        BY PlainType DEF Kind
      <4> QED
        BY <4>1, <2>0, <2>2, RespondCarries DEF Abandon
    <3> QED
      BY <3>1 DEF Carries, AcceptsOnlyFreshCodes
  <2>3. ASSUME NEW r \in Request, AuthStep(r) PROVE AcceptsOnlyFreshCodes
    BY <2>3, AuthCarries DEF Carries, AcceptsOnlyFreshCodes
  <2>4. CASE Tick \/ Quiet
    BY <2>4 DEF Tick, Quiet, vars, AcceptsOnlyFreshCodes
  <2> QED
    BY <2>1, <2>2, <2>3, <2>4 DEF AuthNext
<1> QED
  BY <1>1, AuthFactorInvariance, PTL DEF AuthSpec, CodeAcceptedOnce
-----------------------------------------------------------------------------
\* The statements of sign-in, refresh and password change keep the codes and
\* the secrets that OneTimeCodes sees.
LEMMA AuthCodes ==
  ASSUME RowsInv, TypeOK', Unclaimed, NEW r \in Request, AuthStep(r)
  PROVE  /\ [Codes!Next]_<<LiveSecrets, AcceptedCodes>>
         /\ Unclaimed'
<1>0. TypeOK
  BY DEF RowsInv
<1>1. Keeps(r)
  BY AuthCarries DEF Carries, Keeps, Unclaimed
<1>2. \A u \in DOMAIN users' :
        u \in DOMAIN users /\ users'[u].secret = users[u].secret
  <2>1. CASE SetPassword(r)
    <3>1. \A row \in UserRow : \A new : WithPassword(row, new).secret = row.secret
      BY DEF UserRow, WithPassword
    <3> QED
      BY <2>1, <3>1, <1>0 DEF SetPassword, Updated, TypeOK
  <2>2. CASE users' = users
    BY <2>2
  <2>3. SetPassword(r) \/ users' = users
    BY DEF AuthStep, tables, LoginStart, RecoveryStart, FindCode, SpendCode,
           Settle, PurgeExpired, CreateSession, RefreshStart, FindCurrent,
           FindPrevious, Judge, DropRow, SaveSelect, SaveUpdate, SaveInsert,
           Logout, LogoutAll, ChangeForced, ChangeOwn, Revoke
  <2> QED
    BY <2>1, <2>2, <2>3
<1> QED
  BY <1>1, <1>2, KeepsCodes, KeepsUnclaimed

\* The second factor implements OneTimeCodes with sign-ins, refreshes and
\* password changes running among its requests.
THEOREM AuthCodesOnce == AuthSpec => CodesOnce
<1>1. RowsInv /\ RowsInv' /\ FactorInv /\ Unclaimed /\ [AuthNext]_vars
        => [Codes!Next]_<<LiveSecrets, AcceptedCodes>> /\ Unclaimed'
  <2> SUFFICES ASSUME RowsInv, RowsInv', FactorInv, Unclaimed, [AuthNext]_vars
               PROVE  /\ [Codes!Next]_<<LiveSecrets, AcceptedCodes>>
                      /\ Unclaimed'
    OBVIOUS
  <2>0. TypeOK /\ TypeOK'
    BY DEF RowsInv
  <2>1. CASE \E r \in Request : TotpStep(r) \/ AuthStep(r) \/ Abandon(r)
    BY <2>0, <2>1, TotpCodes, AuthCodes, AbandonCodes
  <2>2. CASE Tick \/ UNCHANGED vars
    BY <2>2, StutterCodes DEF Tick, vars
  <2> QED
    BY <2>1, <2>2 DEF AuthNext, Quiet
<1> QED
  BY <1>1, InitCodes, AuthFactorInvariance, PTL
  DEF AuthSpec, CodesOnce, Codes!Spec
=============================================================================
