--------------------------- MODULE Sessions_proofs ---------------------------
(***************************************************************************)
(* What stays true of the sessions when requests do not overlap, for any   *)
(* number of them: a session is one of the password its account has, its   *)
(* handles are those of the ledger, and nobody signs in past a second      *)
(* factor or twice with one recovery code.                                 *)
(***************************************************************************)
EXTENDS Accounts_proofs

-----------------------------------------------------------------------------
(***************************************************************************)
(* The password a sign-in was made with.                                   *)
(***************************************************************************)
\* The statements of a sign-in between the password and the session.
SigningIn(q) ==
  \/ q.pc \in {"findCode", "spendCode", "settle", "purge", "createSession"}
  \/ q.pc \in {"verify", "burn"} /\ q.op = "login"

\* The password that was typed, or chosen, is still the one in the row.
PasswordKept(r) ==
  LET q   == req[r]
      row == users[q.uid]
  IN
    /\ SigningIn(q) => q.pw = row.pw
    /\ q.pc \in {"purge", "createSession"} => ~row.first
    /\ q.pc = "revoke" /\ q.uid \in DOMAIN users => q.pw = row.pw /\ ~row.first

\* The password of account u was changed and its sessions are about to end.
Revoking(r, u) ==
  /\ req[r].uid = u
  /\ \/ req[r].pc = "revoke"
     \/ req[r].pc = "revokeUser" /\ req[r].op = "resetPassword"

Matching(s) == sessions[s].under = users[sessions[s].user].pw

Usable(s) == ~users[sessions[s].user].first

PasswordInv == \A r \in Request : PasswordKept(r)

MatchInv ==
  \A s \in DOMAIN sessions :
    Matching(s) \/ \E r \in Request : Revoking(r, sessions[s].user)

UsableInv ==
  \A s \in DOMAIN sessions :
    Usable(s) \/ \E r \in Request : Revoking(r, sessions[s].user)

-----------------------------------------------------------------------------
(***************************************************************************)
(* The factor a sign-in has passed.                                        *)
(***************************************************************************)
SignInStatement ==
  {"verify", "burn", "findCode", "spendCode", "settle", "purge",
   "createSession"}

\* Past the second factor, whoever has one has used it.
FactorPassed(r) ==
  LET q == req[r] IN
    q.op \in {"login", "recovery"} =>
      /\ q.pc \in SignInStatement
      /\ q.pc = "spendCode" => q.code # NULL
      /\ q.pc \in {"settle", "purge", "createSession"} /\ q.usr.enabled
           => q.accepted # NULL \/ q.code # NULL

Unanswered ==
  \A r \in Request : req[r].pc # "done" => req[r].out = Plain("none")

PassedInv == Unanswered /\ \A r \in Request : FactorPassed(r)

-----------------------------------------------------------------------------
(***************************************************************************)
(* The handles.                                                            *)
(***************************************************************************)
RefreshStatement ==
  {"findCurrent", "findPrevious", "judge", "saveSelect", "saveUpdate"}

\* The handle a refresh was given, the copy of the session that it judges, and
\* the one it saves.
HandleKnown(r) ==
  LET q   == req[r]
      row == sessions[q.sid]
  IN
    /\ q.pc \in RefreshStatement => q.handle \in Handles
    /\ q.pc = "judge" => q.ses = row
    /\ q.pc \in {"saveSelect", "saveUpdate"} =>
         q.ses.token = row.token \/ (q.ses.token = r /\ q.handle = row.token)
    /\ q.pc = "saveUpdate" /\ q.ses.token # row.token => "token" \in q.cols

Sids == {req[r].out.sid : r \in SignedIn}

\* A request that is not done has minted no handle and no session yet.
NoHandleYet(r) == req[r].pc # "done" => r \notin Handles \cup Sids

HandlesInv ==
  /\ \A r \in Request : HandleKnown(r) /\ NoHandleYet(r)
  /\ \A s \in DOMAIN sessions :
       /\ s \in Seed \cup Sids
       /\ sessions[s].token \in Handles
  /\ \A s, t \in DOMAIN sessions :
       sessions[s].token = sessions[t].token => s = t

\* A handle in an answer is the one its session has now, or was traded in.
DeliveredInv ==
  \A r \in SignedIn :
    LET out == req[r].out IN
      out.sid \in DOMAIN sessions =>
        out.shown = sessions[out.sid].token \/ TradedIn(out.shown)

-----------------------------------------------------------------------------
(***************************************************************************)
(* The recovery codes.                                                     *)
(***************************************************************************)
\* A code that a request holds is spent unless its row is about to be written
\* or is gone, no later set will contain it, and nobody else holds it.
CodeHeld(r) ==
  LET c == req[r].code IN
    /\ req[r].pc = "spendCode" => c \in DOMAIN codes /\ ~codes[c].used
    /\ c # NULL =>
         /\ c[1] \in Request => req[c[1]].pc = "done"
         /\ req[r].pc # "spendCode" /\ c \in DOMAIN codes => codes[c].used
         /\ \A p \in Request \ {r} : req[p].code # c

SpendInv == \A r \in Request : CodeHeld(r)

-----------------------------------------------------------------------------
(***************************************************************************)
(* Every session is one of the account's password, once nobody is about to *)
(* end it.                                                                 *)
(***************************************************************************)
\* The requests that keep no password, and those that are answered.
LEMMA ApartKept ==
  ASSUME NEW r \in Request,
         req'[r].pc \notin {"findCode", "spendCode", "settle", "purge",
                            "createSession", "revoke"},
         req'[r].pc \in {"verify", "burn"} => req'[r].op # "login"
  PROVE  PasswordKept(r)'
BY DEF PasswordKept, SigningIn

LEMMA RespondKept ==
  ASSUME req \in [Request -> RequestState], NEW r \in Request, NEW answer,
         Respond(r, answer)
  PROVE  PasswordKept(r)'
<1>1. req'[r].pc = "done"
  BY DEF Respond, Closed, Blank
<1> QED
  BY <1>1, ApartKept

LEMMA TotpKept ==
  ASSUME SerialInv, NEW r \in Request, PasswordKept(r), TotpStep(r)
  PROVE  PasswordKept(r)'
<1> DEFINE q == req[r]
<1>0. /\ req \in [Request -> RequestState]
      /\ users \in [DOMAIN users -> UserRow]
      /\ Known(r)
  BY DEF SerialInv, RowsInv, TypeOK
<1>a. CASE \E answer : Respond(r, answer)
  BY <1>a, <1>0, RespondKept
<1>1. CASE SetupStart(r) \/ EnableStart(r) \/ RegenerateStart(r) \/ DisableStart(r)
  <2>1. \/ \E answer : Respond(r, answer)
        \/ \E op \in {"setup", "rotate", "enable", "regenerate", "disable"} :
           \E pc \in {"storeSecret", "verify"} : \E u :
             req' = [req EXCEPT ![r] = Loaded(op, pc, u)]
    BY <1>1
    DEF SetupStart, EnableStart, RegenerateStart, DisableStart, Refuse
  <2>2. ASSUME NEW op \in {"setup", "rotate", "enable", "regenerate", "disable"},
               NEW pc \in {"storeSecret", "verify"}, NEW u,
               req' = [req EXCEPT ![r] = Loaded(op, pc, u)]
        PROVE  PasswordKept(r)'
    <3>1. req'[r].op = op /\ req'[r].pc = pc
      BY <2>2, <1>0, LoadedFields
    <3> QED
      BY <3>1, ApartKept
  <2> QED
    BY <2>1, <2>2, <1>a
<1>2. CASE VerifyAccepts(r)
  <2>1. PICK t : req' = [req EXCEPT ![r].pc = "burn", ![r].step = t]
    BY <1>2 DEF VerifyAccepts
  <2>2. /\ req'[r].pc = "burn"
        /\ req'[r].op = q.op
        /\ req'[r].uid = q.uid
        /\ req'[r].pw = q.pw
    BY <2>1, <1>0 DEF RequestState
  <2>3. users' = users /\ q.pc = "verify"
    BY <1>2 DEF VerifyAccepts, tables, At
  <2> QED
    BY <2>2, <2>3 DEF PasswordKept, SigningIn
<1>3. CASE Burn(r) /\ ~Refuse(r)
  <2>1. /\ q.pc = "burn"
        /\ q.uid \in DOMAIN users
        /\ users' = [users EXCEPT ![q.uid].last = q.step]
        /\ \E c : req' = [req EXCEPT ![r].pc = AfterVerify(q.op),
                                     ![r].accepted = c]
    BY <1>3 DEF Burn, At, Burnable
  <2>2. /\ req'[r].pc = AfterVerify(q.op)
        /\ req'[r].uid = q.uid
        /\ req'[r].pw = q.pw
    BY <2>1, <1>0 DEF RequestState
  <2>3. users'[q.uid].pw = users[q.uid].pw
    <3>1. users'[q.uid] = [users[q.uid] EXCEPT !.last = q.step]
      BY <2>1, <1>0
    <3> QED
      BY <3>1, <2>1, <1>0 DEF UserRow
  <2>4. CASE q.op = "login"
    BY <2>1, <2>2, <2>3, <2>4 DEF AfterVerify, PasswordKept, SigningIn
  <2>5. CASE q.op # "login"
    <3>1. q.op \in {"enable", "regenerate", "disable"}
      BY <2>1, <2>5, <1>0 DEF Known, FactorChecked
    <3> QED
      BY <3>1, <2>2, ApartKept DEF AfterVerify
  <2> QED
    BY <2>4, <2>5
<1>4. CASE SetEnabled(r) \/ ClearTotp(r) \/ DropCodes(r)
  <2>1. \/ \E answer : Respond(r, answer)
        \/ \E pc \in {"dropCodes", "issueCodes"} : Goto(r, pc)
    BY <1>4 DEF SetEnabled, ClearTotp, DropCodes
  <2> QED
    BY <2>1, <1>0, <1>a, GotoFields, ApartKept
<1>5. CASE StoreSecret(r) \/ VerifyRejects(r) \/ IssueCodes(r)
  BY <1>5, <1>a DEF StoreSecret, VerifyRejects, IssueCodes, Refuse
<1> QED
  BY <1>1, <1>2, <1>3, <1>4, <1>5, <1>a DEF TotpStep, Refuse

LEMMA SignInKept ==
  ASSUME SerialInv, NEW r \in Request, PasswordKept(r),
         \/ LoginStart(r) \/ RecoveryStart(r) \/ FindCode(r) \/ SpendCode(r)
         \/ Settle(r) \/ PurgeExpired(r) \/ CreateSession(r)
  PROVE  PasswordKept(r)'
<1> DEFINE q == req[r]
<1>0. /\ req \in [Request -> RequestState]
      /\ Known(r)
  BY DEF SerialInv, RowsInv, TypeOK
<1>a. CASE \E answer : Respond(r, answer)
  BY <1>a, <1>0, RespondKept
<1>1. CASE LoginStart(r) \/ RecoveryStart(r)
  <2>1. \/ \E answer : Respond(r, answer)
        \/ /\ users' = users
           /\ \E op, u : \E pc \in {"verify", "settle", "findCode"} :
                req' = [req EXCEPT ![r] = SignIn(op, pc, u)]
    BY <1>1 DEF LoginStart, RecoveryStart, Refuse, tables
  <2>2. ASSUME users' = users, NEW op, NEW u,
               NEW pc \in {"verify", "settle", "findCode"},
               req' = [req EXCEPT ![r] = SignIn(op, pc, u)]
        PROVE  PasswordKept(r)'
    <3>1. /\ req'[r].pc = pc
          /\ req'[r].uid = u
          /\ req'[r].pw = users[u].pw
      BY <2>2, <1>0 DEF SignIn, Loaded, Blank
    <3> QED
      BY <3>1, <2>2 DEF PasswordKept, SigningIn
  <2> QED
    BY <2>1, <2>2, <1>a
<1>2. CASE FindCode(r) /\ ~Refuse(r)
  <2>1. PICK c : req' = [req EXCEPT ![r].pc = "spendCode", ![r].code = c]
    BY <1>2 DEF FindCode
  <2>2. /\ req'[r].pc = "spendCode"
        /\ req'[r].uid = q.uid
        /\ req'[r].pw = q.pw
    BY <2>1, <1>0 DEF RequestState
  <2>3. users' = users /\ q.pc = "findCode"
    BY <1>2 DEF FindCode, tables, At
  <2> QED
    BY <2>2, <2>3 DEF PasswordKept, SigningIn
<1>3. CASE SpendCode(r) \/ PurgeExpired(r)
  <2>1. /\ users' = users
        /\ \/ q.pc = "spendCode" /\ Goto(r, "settle")
           \/ q.pc = "purge" /\ Goto(r, "createSession")
    BY <1>3 DEF SpendCode, PurgeExpired, At
  <2> QED
    BY <2>1, <1>0, GotoFields DEF PasswordKept, SigningIn
<1>4. CASE Settle(r)
  <2>1. \/ \E answer : Respond(r, answer)
        \/ ~q.usr.first /\ Goto(r, "purge")
    BY <1>4 DEF Settle, MustChangePassword
  <2>2. users' = users /\ q.pc = "settle"
    BY <1>4 DEF Settle, At
  <2>3. q.usr.first = users[q.uid].first
    BY <2>2, <1>0 DEF Known, CopyIsRow
  <2> QED
    BY <2>1, <2>2, <2>3, <1>0, <1>a, GotoFields DEF PasswordKept, SigningIn
<1>5. CASE CreateSession(r)
  BY <1>5, <1>a DEF CreateSession
<1> QED
  BY <1>1, <1>2, <1>3, <1>4, <1>5, <1>a DEF Refuse

LEMMA ChangeKept ==
  ASSUME SerialInv, NEW r \in Request, PasswordKept(r),
         ChangeForced(r) \/ ChangeOwn(r) \/ SetPassword(r) \/ Revoke(r)
  PROVE  PasswordKept(r)'
<1> DEFINE q == req[r]
<1>0. /\ req \in [Request -> RequestState]
      /\ users \in [DOMAIN users -> UserRow]
      /\ Known(r)
  BY DEF SerialInv, RowsInv, TypeOK
<1>a. CASE \E answer : Respond(r, answer)
  BY <1>a, <1>0, RespondKept
<1>1. CASE (ChangeForced(r) \/ ChangeOwn(r)) /\ ~Refuse(r)
  <2>1. \E u, new :
          \/ req' = [req EXCEPT ![r] =
               [Opened("changeForced", "setPassword", u) EXCEPT !.pw = new]]
          \/ req' = [req EXCEPT ![r] =
               [Loaded("changeOwn", "setPassword", u) EXCEPT !.pw = new]]
    BY <1>1 DEF ChangeForced, ChangeOwn
  <2>2. req'[r].pc = "setPassword"
    BY <2>1, <1>0 DEF Opened, Loaded, Blank
  <2> QED
    BY <2>2, ApartKept
<1>2. CASE SetPassword(r)
  <2>1. /\ users' = Updated(users, q.uid, WithPassword(users[q.uid], q.pw))
        /\ Goto(r, "revoke")
    BY <1>2 DEF SetPassword
  <2>2. /\ req'[r].pc = "revoke"
        /\ req'[r].uid = q.uid
        /\ req'[r].pw = q.pw
    BY <2>1, <1>0, GotoFields
  <2>3. ASSUME q.uid \in DOMAIN users'
        PROVE  q.pw = users'[q.uid].pw /\ ~users'[q.uid].first
    <3>1. q.uid \in DOMAIN users
      BY <2>1, <2>3 DEF Updated
    <3>2. users'[q.uid] = WithPassword(users[q.uid], q.pw)
      BY <2>1, <3>1, UpdatedRow
    <3> QED
      BY <3>1, <3>2, <1>0 DEF WithPassword, UserRow
  <2> QED
    BY <2>2, <2>3 DEF PasswordKept, SigningIn
<1>3. CASE Revoke(r)
  <2>1. /\ users' = users
        /\ q.pc = "revoke"
        /\ \/ q.op = "changeOwn" /\ Goto(r, "createSession")
           \/ \E answer : Respond(r, answer)
    BY <1>3 DEF Revoke, At
  <2>2. CASE q.op = "changeOwn" /\ Goto(r, "createSession")
    <3>1. q.uid \in DOMAIN users
      BY <2>1, <2>2, <1>0 DEF Known, RowThere
    <3> QED
      BY <2>1, <2>2, <3>1, <1>0, GotoFields DEF PasswordKept, SigningIn
  <2> QED
    BY <2>1, <2>2, <1>a
<1> QED
  BY <1>1, <1>2, <1>3, <1>a DEF Refuse

LEMMA PasswordAfter ==
  ASSUME SerialInv, NEW r \in Request, PasswordKept(r), Step(r)
  PROVE  PasswordKept(r)'
<1>0. req \in [Request -> RequestState]
  BY DEF SerialInv, RowsInv, TypeOK
<1>a. CASE \E answer : Respond(r, answer)
  BY <1>a, <1>0, RespondKept
<1>1. CASE TotpStep(r)
  BY <1>1, TotpKept
<1>2. CASE \/ LoginStart(r) \/ RecoveryStart(r) \/ FindCode(r) \/ SpendCode(r)
           \/ Settle(r) \/ PurgeExpired(r) \/ CreateSession(r)
  BY <1>2, SignInKept
<1>3. CASE \/ RefreshStart(r) \/ FindCurrent(r) \/ FindPrevious(r) \/ Judge(r)
           \/ SaveSelect(r)
  <2>1. \/ \E answer : Respond(r, answer)
        \/ \E pc \in {"findPrevious", "dropRow", "saveInsert"} : Goto(r, pc)
        \/ \E handle : req' = [req EXCEPT ![r] =
             [Opened("refresh", "findCurrent", NULL) EXCEPT !.handle = handle,
                                                            !.now = clock]]
        \/ \E s : LoadSession(r, s)
        \/ \E ses : req' = [req EXCEPT ![r].pc = "saveSelect", ![r].ses = ses]
        \/ \E cols : req' = [req EXCEPT ![r].pc = "saveUpdate", ![r].cols = cols]
    BY <1>3
    DEF RefreshStart, FindCurrent, FindPrevious, Judge, SaveSelect, Refuse
  <2>2. CASE \E handle : req' = [req EXCEPT ![r] =
             [Opened("refresh", "findCurrent", NULL) EXCEPT !.handle = handle,
                                                            !.now = clock]]
    <3>1. req'[r].pc = "findCurrent"
      BY <2>2, <1>0 DEF Opened, Blank
    <3> QED
      BY <3>1, ApartKept
  <2>3. CASE \E s : LoadSession(r, s)
    <3>1. req'[r].pc = "judge"
      BY <2>3, <1>0 DEF LoadSession, RequestState
    <3> QED
      BY <3>1, ApartKept
  <2>4. CASE \/ \E ses : req' = [req EXCEPT ![r].pc = "saveSelect",
                                            ![r].ses = ses]
             \/ \E cols : req' = [req EXCEPT ![r].pc = "saveUpdate",
                                             ![r].cols = cols]
    <3>1. req'[r].pc \in {"saveSelect", "saveUpdate"}
      BY <2>4, <1>0 DEF RequestState
    <3> QED
      BY <3>1, ApartKept
  <2>5. CASE \E pc \in {"findPrevious", "dropRow", "saveInsert"} : Goto(r, pc)
    BY <2>5, <1>0, GotoFields, ApartKept
  <2> QED
    BY <2>1, <2>2, <2>3, <2>4, <2>5, <1>a
<1>4. CASE \/ DropRow(r) \/ SaveUpdate(r) \/ SaveInsert(r) \/ Logout(r)
           \/ LogoutAll(r)
  BY <1>4, <1>a
  DEF DropRow, SaveUpdate, SaveInsert, Logout, LogoutAll, AnswerRefresh, Refuse
<1>5. CASE ChangeForced(r) \/ ChangeOwn(r) \/ SetPassword(r) \/ Revoke(r)
  BY <1>5, ChangeKept
<1>6. CASE HubUsersStep(r)
  BY <1>0, <1>6, AdminPcs, ApartKept DEF AdminStatement
<1> QED
  BY <1>1, <1>2, <1>3, <1>4, <1>5, <1>6 DEF Step, AuthStep

\* A change of the password, by its owner or by an administrator, goes on to
\* end the sessions.
LEMMA PasswordsAfter ==
  ASSUME SerialInv, NewIds, NEW r \in Request, Step(r), NEW u \in DOMAIN users'
  PROVE  \/ /\ u \in DOMAIN users
            /\ users'[u].pw = users[u].pw
            /\ users'[u].first = users[u].first
         \/ Revoking(r, u)'
         \/ u \notin DOMAIN users /\ sessions' = sessions
<1> DEFINE q == req[r]
<1>0. /\ req \in [Request -> RequestState]
      /\ \A v \in DOMAIN users : users[v] \in UserRow
      /\ Known(r)
  BY DEF SerialInv, RowsInv, TypeOK
<1>1. CASE users' = users
  BY <1>1
<1>2. ASSUME q.uid \in DOMAIN users, NEW row, users' = Updated(users, q.uid, row),
             row.pw = users[q.uid].pw, row.first = users[q.uid].first
      PROVE  /\ u \in DOMAIN users
             /\ users'[u].pw = users[u].pw
             /\ users'[u].first = users[u].first
  BY <1>2, UpdatedRow
<1>3. CASE StoreSecret(r) \/ SetEnabled(r) \/ ClearTotp(r) \/ ClearFactor(r)
           \/ StoreRequired(r)
  <2>1. /\ q.uid \in DOMAIN users
        /\ users[q.uid] \in UserRow
    BY <1>3, <1>0
    DEF StoreSecret, SetEnabled, ClearTotp, ClearFactor, StoreRequired, At,
        Known, RowThere, OnAccount, FactorChecked
  <2>2. PICK row \in {WithSecret(users[q.uid], r),
                      [users[q.uid] EXCEPT !.enabled = TRUE],
                      WithoutTotp(users[q.uid]),
                      Unpaired(users[q.uid]),
                      [users[q.uid] EXCEPT !.required = q.usr.required]} :
          users' = Updated(users, q.uid, row)
    BY <1>3 DEF StoreSecret, SetEnabled, ClearTotp, ClearFactor, StoreRequired
  <2>3. row.pw = users[q.uid].pw /\ row.first = users[q.uid].first
    BY <2>1, <2>2 DEF UserRow, WithSecret, WithoutTotp, Unpaired
  <2> QED
    BY <1>2, <2>1, <2>2, <2>3
<1>4. CASE Burn(r) /\ users' # users
  <2>1. /\ q.uid \in DOMAIN users
        /\ users' = [users EXCEPT ![q.uid].last = q.step]
    BY <1>4 DEF Burn, Burnable
  <2>2. /\ DOMAIN users' = DOMAIN users
        /\ users[q.uid] \in UserRow
        /\ users'[q.uid] = [users[q.uid] EXCEPT !.last = q.step]
        /\ \A v \in DOMAIN users \ {q.uid} : users'[v] = users[v]
    BY <2>1, <1>0
  <2> QED
    BY <2>2 DEF UserRow
<1>5. CASE SetPassword(r)
  <2>1. /\ users' = Updated(users, q.uid, WithPassword(users[q.uid], q.pw))
        /\ Goto(r, "revoke")
    BY <1>5 DEF SetPassword
  <2>2. u = q.uid => Revoking(r, u)'
    <3>1. req'[r].pc = "revoke" /\ req'[r].uid = q.uid
      BY <2>1, <1>0, GotoFields
    <3> QED
      BY <3>1 DEF Revoking
  <2>3. u # q.uid => u \in DOMAIN users /\ users'[u] = users[u]
    BY <2>1 DEF Updated
  <2> QED
    BY <2>2, <2>3
<1>6. CASE UpdateUser(r) /\ users' # users
  <2>1. /\ users' = Updated(users, q.uid, MergeUser(users[q.uid], q.usr, q.cols))
        /\ Finish(r, AfterSave(q))
        /\ q.pc = "updateUser"
    BY <1>6 DEF UpdateUser, At
  <2>2. /\ q.uid \in DOMAIN users
        /\ EditOf(users[q.uid], q.usr, q.op)
        /\ MergeUser(users[q.uid], q.usr, q.cols) = q.usr
    BY <2>1, <1>0 DEF Known, RowThere, OnAccount, CopyIsEdited
  <2>3. CASE q.op # "resetPassword"
    <3>1. q.usr.pw = users[q.uid].pw /\ q.usr.first = users[q.uid].first
      BY <2>2, <2>3 DEF EditOf
    <3> QED
      BY <2>1, <2>2, <3>1, <1>2
  <2>4. CASE q.op = "resetPassword"
    <3>1. Goto(r, "revokeUser")
      BY <2>1, <2>4 DEF Finish, AfterSave
    <3>2. /\ req'[r].pc = "revokeUser"
          /\ req'[r].uid = q.uid
          /\ req'[r].op = "resetPassword"
      BY <2>4, <3>1, <1>0, GotoFields
    <3>3. u = q.uid => Revoking(r, u)'
      BY <3>2 DEF Revoking
    <3>4. u # q.uid => u \in DOMAIN users /\ users'[u] = users[u]
      BY <2>1 DEF Updated
    <3> QED
      BY <3>3, <3>4
  <2> QED
    BY <2>3, <2>4
<1>7. CASE InsertUser(r)
  <2>1. users' = users \/ users' = Insert(users, {r}, q.usr)
    BY <1>7 DEF InsertUser
  <2>2. sessions' = sessions
    BY <1>7 DEF InsertUser
  <2>3. r \notin DOMAIN users
    BY StepMoves DEF NewIds, Moves, SerialInv
  <2> QED
    BY <2>1, <2>2, <2>3 DEF Insert
<1>8. CASE DeleteUser(r)
  <2>1. users' = Delete(users, {q.uid})
    BY <1>8 DEF DeleteUser
  <2> QED
    BY <2>1 DEF Delete, Restrict
<1>9. ~ReinsertUser(r)
  BY <1>0 DEF ReinsertUser, At, Known, RowThere
<1> QED
  BY <1>1, <1>3, <1>4, <1>5, <1>6, <1>7, <1>8, <1>9, UsersWriters

\* A session in the table was there, or is the one just created.
LEMMA SessionsAfter ==
  ASSUME SerialInv, NEW r \in Request, Step(r), NEW s \in DOMAIN sessions'
  PROVE  \/ /\ s \in DOMAIN sessions
            /\ sessions'[s].user = sessions[s].user
            /\ sessions'[s].under = sessions[s].under
         \/ /\ CreateSession(r)
            /\ sessions'[s] = NewSession(r)
            /\ req[r].uid \in DOMAIN users
<1> DEFINE q == req[r]
<1>0. /\ \A t \in DOMAIN sessions : sessions[t] \in SessionRow
      /\ Known(r)
  BY DEF SerialInv, RowsInv, TypeOK
<1>1. CASE sessions' = sessions
  BY <1>1
<1>2. CASE \E ids : sessions' = Delete(sessions, ids)
  BY <1>2 DEF Delete, Restrict
<1>3. CASE PurgeExpired(r) \/ DropRow(r) \/ Logout(r) \/ LogoutAll(r)
           \/ Revoke(r) \/ RevokeUser(r) \/ DeleteUser(r)
  BY <1>3, <1>2
  DEF PurgeExpired, DropRow, Logout, LogoutAll, Revoke, RevokeUser, DeleteUser,
      EndSessions
<1>4. CASE CreateSession(r)
  BY <1>1, <1>4 DEF CreateSession, Insert
<1>5. CASE SaveUpdate(r)
  <2>1. /\ q.sid \in DOMAIN sessions
        /\ sessions' = Updated(sessions, q.sid,
                               Merge(sessions[q.sid], q.ses, q.cols))
    BY <1>5, <1>0 DEF SaveUpdate, At, Known, RowThere, OnSession
  <2>2. /\ DOMAIN sessions' = DOMAIN sessions
        /\ sessions'[q.sid] = Merge(sessions[q.sid], q.ses, q.cols)
        /\ \A t \in DOMAIN sessions \ {q.sid} : sessions'[t] = sessions[t]
    BY <2>1 DEF Updated
  <2>3. /\ sessions'[q.sid].user = sessions[q.sid].user
        /\ sessions'[q.sid].under = sessions[q.sid].under
    <3>1. sessions[q.sid] \in SessionRow
      BY <2>1, <1>0
    <3> QED
      BY <2>2, <3>1 DEF Merge, SessionRow
  <2> QED
    BY <2>2, <2>3
<1>6. ~SaveInsert(r)
  BY <1>0 DEF SaveInsert, At, Known, RowThere
<1> QED
  BY <1>1, <1>3, <1>4, <1>5, <1>6, SessionsWriters

LEMMA RevokingSteps ==
  ASSUME NEW r \in Request, Step(r), NEW u, Revoking(r, u)
  PROVE  \A s \in DOMAIN sessions' : sessions[s].user # u
<1>1. Revoke(r) \/ RevokeUser(r)
  <2>0. req[r].pc \in {"revoke", "revokeUser"}
    BY DEF Revoking
  <2>1. CASE TotpStep(r)
    BY <2>0, <2>1
    DEF TotpStep, Admit, At, SetupStart, StoreSecret, EnableStart,
        RegenerateStart, DisableStart, VerifyAccepts, VerifyRejects, Burn,
        SetEnabled, ClearTotp, DropCodes, IssueCodes
  <2>2. CASE AuthStep(r)
    BY <2>0, <2>2, ZenonT(60)
    DEF AuthStep, Admit, At, LoginStart, RecoveryStart, FindCode, SpendCode,
        Settle, PurgeExpired, CreateSession, RefreshStart, FindCurrent,
        FindPrevious, Judge, DropRow, SaveSelect, SaveUpdate, SaveInsert,
        Logout, LogoutAll, ChangeForced, ChangeOwn, SetPassword
  <2>3. CASE HubUsersStep(r)
    BY <2>0, <2>3
    DEF HubUsersStep, Admit, At, InviteStart, InsertUser, UpdateProfileStart,
        CheckEmail, SetAccessLevelStart, ToggleStatusStart, CountAdmins,
        ResetPasswordStart, SelectUser, UpdateUser, ReinsertUser,
        ResetTotpStart, ClearFactor, ClearCodes, SetTotpRequiredStart,
        StoreRequired, RemoveStart, DeleteUser
  <2> QED
    BY <2>1, <2>2, <2>3 DEF Step
<1>2. sessions' = Delete(sessions, SessionsOf(u))
  BY <1>1 DEF Revoke, RevokeUser, EndSessions, Revoking
<1> QED
  BY <1>2 DEF Delete, Restrict, SessionsOf

\* What a step does to a session: the session it creates is one of the
\* password of the account, which need not be replaced first; another stays
\* what it was, unless the account is about to lose it.
LEMMA SessionKept ==
  ASSUME ~Overlap, SerialInv, NewIds, PasswordInv, RowsInv',
         NEW r \in Request, Step(r), NEW s \in DOMAIN sessions'
  PROVE  \/ /\ s \in DOMAIN sessions
            /\ \A p \in Request : ~Revoking(p, sessions[s].user)
            /\ Matching(s)' <=> Matching(s)
            /\ Usable(s)' <=> Usable(s)
         \/ Matching(s)' /\ Usable(s)'
         \/ Revoking(r, sessions[s].user)'
<1> DEFINE q == req[r]
<1>0. /\ OthersRest(r)
      /\ ForeignKeys
      /\ ForeignKeys'
  BY StepsAlone DEF SerialInv, RowsInv
<1>1. CASE /\ s \in DOMAIN sessions
           /\ sessions'[s].user = sessions[s].user
           /\ sessions'[s].under = sessions[s].under
  <2> DEFINE u == sessions[s].user
  <2>1. \A p \in Request : ~Revoking(p, u)
    BY <1>0, RevokingSteps DEF OthersRest, Resting, Revoking
  <2>2. u \in DOMAIN users /\ u \in DOMAIN users'
    BY <1>0, <1>1 DEF ForeignKeys
  <2>3. CASE users'[u].pw = users[u].pw /\ users'[u].first = users[u].first
    BY <1>1, <2>1, <2>3 DEF Matching, Usable
  <2>4. CASE \E v : v = u /\ Revoking(r, v)'
    BY <1>1, <2>4 DEF Revoking
  <2> QED
    BY <2>2, <2>3, <2>4, PasswordsAfter
<1>2. CASE /\ CreateSession(r)
           /\ sessions'[s] = NewSession(r)
           /\ q.uid \in DOMAIN users
  <2>1. /\ q.pc = "createSession"
        /\ users' = users
    BY <1>2 DEF CreateSession, At
  <2>2. q.pw = users[q.uid].pw /\ ~users[q.uid].first
    BY <2>1 DEF PasswordInv, PasswordKept, SigningIn
  <2>3. sessions'[s].user = q.uid /\ sessions'[s].under = q.pw
    BY <1>2 DEF NewSession
  <2> QED
    BY <2>1, <2>2, <2>3 DEF Matching, Usable
<1> QED
  BY <1>1, <1>2, SessionsAfter

LEMMA PasswordInvariance ==
  ASSUME ~Overlap, ~Crashes
  PROVE  Spec => []PasswordInv
<1>1. Init => PasswordInv
  BY DEF Init, Blank, PasswordInv, PasswordKept, SigningIn
<1>2. SerialInv /\ PasswordInv /\ [Next]_vars => PasswordInv'
  <2> SUFFICES ASSUME SerialInv, PasswordInv, [Next]_vars
               PROVE  PasswordInv'
    OBVIOUS
  <2>1. ASSUME NEW r \in Request, Step(r)
        PROVE  PasswordInv'
    <3>1. PasswordKept(r)'
      BY <2>1, PasswordAfter DEF PasswordInv
    <3>2. ASSUME NEW p \in Request \ {r}
          PROVE  PasswordKept(p)'
      <4>1. req'[p].pc \in {"idle", "done"}
        BY <2>1, StepsAlone DEF SerialInv, OthersRest, Resting
      <4> QED
        BY <4>1, ApartKept
    <3> QED
      BY <3>1, <3>2 DEF PasswordInv
  <2>2. CASE Tick \/ Quiet \/ UNCHANGED vars
    BY <2>2 DEF Tick, Quiet, vars, PasswordInv, PasswordKept, SigningIn
  <2> QED
    BY <2>1, <2>2 DEF Next, Abandon
<1> QED
  BY <1>1, <1>2, SerialInvariance, PTL DEF Spec

LEMMA StartsQuiet == Init => InFlight = {} /\ Blanks
BY DEF Init, Blank, InFlight, Blanks

\* Between requests every session of an account was minted under the password
\* the account has now: a change or a reset of the password leaves no session
\* of the old one, when requests do not overlap and no worker dies in one.
THEOREM HubPasswords ==
  ASSUME ~Overlap, ~Crashes
  PROVE  Spec /\ SessionsMatchPassword => []SessionsMatchPassword
<1>1. Init /\ SessionsMatchPassword => MatchInv
  BY StartsQuiet DEF SessionsMatchPassword, MatchInv, Matching
<1>2. /\ SerialInv /\ SerialInv' /\ PasswordInv /\ NewIds
      /\ MatchInv /\ [Next]_vars
      => MatchInv'
  <2> SUFFICES ASSUME SerialInv, SerialInv', PasswordInv, NewIds, MatchInv,
                      [Next]_vars,
                      NEW s \in DOMAIN sessions'
               PROVE  Matching(s)' \/ \E p \in Request : Revoking(p, sessions[s].user)'
    BY DEF MatchInv
  <2>1. ASSUME NEW r \in Request, Step(r)
        PROVE  Matching(s)' \/ Revoking(r, sessions[s].user)'
    BY <2>1, SessionKept DEF MatchInv, SerialInv
  <2>2. CASE Tick \/ Quiet \/ UNCHANGED vars
    BY <2>2 DEF Tick, Quiet, vars, MatchInv, Matching, Revoking
  <2> QED
    BY <2>1, <2>2 DEF Next, Abandon
<1>3. MatchInv => SessionsMatchPassword
  BY DEF MatchInv, SessionsMatchPassword, Matching, Revoking, InFlight
<1> QED
  BY <1>1, <1>2, <1>3, SerialInvariance, PasswordInvariance, NewIdsInvariance, PTL
  DEF Spec

\* Between requests no session belongs to an account that still has to replace
\* a password an administrator gave it, under the same conditions.
THEOREM HubFirstPasswords ==
  ASSUME ~Overlap, ~Crashes
  PROVE  Spec /\ NoSessionBeforePasswordChange
           => []NoSessionBeforePasswordChange
<1>1. Init /\ NoSessionBeforePasswordChange => UsableInv
  BY StartsQuiet DEF NoSessionBeforePasswordChange, UsableInv, Usable
<1>2. /\ SerialInv /\ SerialInv' /\ PasswordInv /\ NewIds
      /\ UsableInv /\ [Next]_vars
      => UsableInv'
  <2> SUFFICES ASSUME SerialInv, SerialInv', PasswordInv, NewIds, UsableInv,
                      [Next]_vars,
                      NEW s \in DOMAIN sessions'
               PROVE  Usable(s)' \/ \E p \in Request : Revoking(p, sessions[s].user)'
    BY DEF UsableInv
  <2>1. ASSUME NEW r \in Request, Step(r)
        PROVE  Usable(s)' \/ Revoking(r, sessions[s].user)'
    BY <2>1, SessionKept DEF UsableInv, SerialInv
  <2>2. CASE Tick \/ Quiet \/ UNCHANGED vars
    BY <2>2 DEF Tick, Quiet, vars, UsableInv, Usable, Revoking
  <2> QED
    BY <2>1, <2>2 DEF Next, Abandon
<1>3. UsableInv => NoSessionBeforePasswordChange
  BY DEF UsableInv, NoSessionBeforePasswordChange, Usable, Revoking, InFlight
<1> QED
  BY <1>1, <1>2, <1>3, SerialInvariance, PasswordInvariance, NewIdsInvariance, PTL
  DEF Spec

-----------------------------------------------------------------------------
(***************************************************************************)
(* Who has a second factor has used it before a token leaves sign-in,      *)
(* however the requests interleave.                                        *)
(***************************************************************************)
Apart(r) == req'[r].op \notin {"login", "recovery"}

\* The requests that are no sign-in stay none.
LEMMA ApartPassed ==
  ASSUME NEW r \in Request, Apart(r)
  PROVE  FactorPassed(r)'
BY DEF FactorPassed, Apart

LEMMA RespondApart ==
  ASSUME req \in [Request -> RequestState], NEW r \in Request, NEW answer,
         Respond(r, answer)
  PROVE  Apart(r)
<1>1. req'[r].op = NULL
  BY DEF Respond, Closed, Blank
<1> QED
  BY <1>1, NullAssumption DEF Apart, Operation

LEMMA OtherApart ==
  ASSUME NEW r \in Request, FactorPassed(r), req[r].pc \notin SignInStatement,
         req'[r].op = req[r].op
  PROVE  Apart(r)
BY DEF FactorPassed, Apart

LEMMA TotpPassed ==
  ASSUME TypeOK, NEW r \in Request, FactorPassed(r), TotpStep(r)
  PROVE  FactorPassed(r)'
<1> DEFINE q == req[r]
<1>0. req \in [Request -> RequestState]
  BY DEF TypeOK
<1>a. CASE \E answer : Respond(r, answer)
  BY <1>a, <1>0, RespondApart, ApartPassed
<1>1. CASE SetupStart(r) \/ EnableStart(r) \/ RegenerateStart(r) \/ DisableStart(r)
  <2>1. \/ \E answer : Respond(r, answer)
        \/ \E op \in {"setup", "rotate", "enable", "regenerate", "disable"} :
           \E pc, u : req' = [req EXCEPT ![r] = Loaded(op, pc, u)]
    BY <1>1
    DEF SetupStart, EnableStart, RegenerateStart, DisableStart, Refuse
  <2>2. ASSUME NEW op \in {"setup", "rotate", "enable", "regenerate", "disable"},
               NEW pc, NEW u, req' = [req EXCEPT ![r] = Loaded(op, pc, u)]
        PROVE  FactorPassed(r)'
    <3>1. req'[r].op = op
      BY <2>2, <1>0, LoadedFields
    <3> QED
      BY <3>1, ApartPassed DEF Apart
  <2> QED
    BY <2>1, <2>2, <1>a
<1>2. CASE VerifyAccepts(r)
  <2>1. PICK t : req' = [req EXCEPT ![r].pc = "burn", ![r].step = t]
    BY <1>2 DEF VerifyAccepts
  <2>2. req'[r].pc = "burn"
    BY <2>1, <1>0 DEF RequestState
  <2> QED
    BY <2>2 DEF FactorPassed, SignInStatement
<1>3. CASE Burn(r) /\ ~Refuse(r)
  <2>1. req' = [req EXCEPT ![r].pc = AfterVerify(q.op),
                           ![r].accepted = [user |-> q.uid,
                                            secret |-> q.usr.secret,
                                            step |-> q.step]]
    BY <1>3 DEF Burn
  <2>2. /\ req'[r].op = q.op
        /\ req'[r].pc = AfterVerify(q.op)
        /\ req'[r].accepted = [user |-> q.uid, secret |-> q.usr.secret,
                               step |-> q.step]
    BY <2>1, <1>0 DEF RequestState
  <2>3. [user |-> q.uid, secret |-> q.usr.secret, step |-> q.step] \in AcceptedCode
    BY <1>0 DEF RequestState, UserRow, AcceptedCode
  <2>4. req'[r].accepted # NULL
    BY <2>2, <2>3, NullAssumption
  <2> QED
    BY <2>2, <2>4 DEF AfterVerify, FactorPassed, SignInStatement
<1>4. CASE SetEnabled(r) \/ ClearTotp(r) \/ DropCodes(r)
  <2>1. /\ q.pc \notin SignInStatement
        /\ \/ \E answer : Respond(r, answer)
           \/ \E pc : Goto(r, pc)
    BY <1>4 DEF SetEnabled, ClearTotp, DropCodes, At, SignInStatement
  <2> QED
    BY <2>1, <1>0, <1>a, GotoFields, OtherApart, ApartPassed
<1>5. CASE StoreSecret(r) \/ VerifyRejects(r) \/ IssueCodes(r)
  BY <1>5, <1>a DEF StoreSecret, VerifyRejects, IssueCodes, Refuse
<1> QED
  BY <1>1, <1>2, <1>3, <1>4, <1>5, <1>a DEF TotpStep, Refuse

LEMMA AuthPassed ==
  ASSUME TypeOK, NEW r \in Request, FactorPassed(r), AuthStep(r)
  PROVE  FactorPassed(r)'
<1> DEFINE q == req[r]
<1>0. req \in [Request -> RequestState]
  BY DEF TypeOK
<1>a. CASE \E answer : Respond(r, answer)
  BY <1>a, <1>0, RespondApart, ApartPassed
<1>1. CASE LoginStart(r) \/ RecoveryStart(r)
  <2>1. \/ \E answer : Respond(r, answer)
        \/ \E op, u : \E pc \in {"verify", "settle", "findCode"} :
             /\ req' = [req EXCEPT ![r] = SignIn(op, pc, u)]
             /\ pc = "settle" => ~users[u].enabled
    BY <1>1 DEF LoginStart, RecoveryStart, Refuse, NeedsCode
  <2>2. ASSUME NEW op, NEW u, NEW pc \in {"verify", "settle", "findCode"},
               req' = [req EXCEPT ![r] = SignIn(op, pc, u)],
               pc = "settle" => ~users[u].enabled
        PROVE  FactorPassed(r)'
    <3>1. /\ req'[r].pc = pc
          /\ req'[r].usr = users[u]
      BY <2>2, <1>0 DEF SignIn, Loaded, Blank
    <3> QED
      BY <3>1, <2>2 DEF FactorPassed, SignInStatement
  <2> QED
    BY <2>1, <2>2, <1>a
<1>2. CASE FindCode(r) /\ ~Refuse(r)
  <2>1. PICK c \in UnusedCodesOf(q.uid) :
          req' = [req EXCEPT ![r].pc = "spendCode", ![r].code = c]
    BY <1>2 DEF FindCode
  <2>2. c # NULL
    BY <2>1, NullAssumption DEF UnusedCodesOf, CodesOf, TypeOK
  <2>3. /\ req'[r].pc = "spendCode"
        /\ req'[r].code = c
    BY <2>1, <1>0 DEF RequestState
  <2> QED
    BY <2>2, <2>3 DEF FactorPassed, SignInStatement
<1>3. CASE SpendCode(r) \/ PurgeExpired(r) \/ Settle(r)
  <2>1. /\ q.pc \in {"spendCode", "settle", "purge"}
        /\ \/ \E answer : Respond(r, answer)
           \/ q.pc = "spendCode" /\ Goto(r, "settle")
           \/ q.pc # "spendCode" /\ \E pc \in {"purge", "createSession"} : Goto(r, pc)
    BY <1>3 DEF SpendCode, Settle, PurgeExpired, At
  <2> QED
    BY <2>1, <1>0, <1>a, GotoFields DEF FactorPassed, SignInStatement
<1>4. CASE RefreshStart(r) \/ ((ChangeForced(r) \/ ChangeOwn(r)) /\ ~Refuse(r))
  <2>1. CASE RefreshStart(r)
    <3>1. PICK handle \in Handles : req' = [req EXCEPT ![r] =
             [Opened("refresh", "findCurrent", NULL) EXCEPT !.handle = handle,
                                                            !.now = clock]]
      BY <2>1 DEF RefreshStart
    <3>2. req'[r].op = "refresh"
      BY <3>1, <1>0 DEF Opened, Blank
    <3> QED
      BY <3>2, ApartPassed DEF Apart
  <2>2. CASE (ChangeForced(r) \/ ChangeOwn(r)) /\ ~Refuse(r)
    <3>1. \E u, new :
            \/ req' = [req EXCEPT ![r] =
                 [Opened("changeForced", "setPassword", u) EXCEPT !.pw = new]]
            \/ req' = [req EXCEPT ![r] =
                 [Loaded("changeOwn", "setPassword", u) EXCEPT !.pw = new]]
      BY <2>2 DEF ChangeForced, ChangeOwn
    <3>2. req'[r].op \in {"changeForced", "changeOwn"}
      BY <3>1, <1>0 DEF Opened, Loaded, Blank
    <3> QED
      BY <3>2, ApartPassed DEF Apart
  <2> QED
    BY <1>4, <2>1, <2>2
<1>5. CASE \/ FindCurrent(r) \/ FindPrevious(r) \/ Judge(r) \/ SaveSelect(r)
           \/ SetPassword(r) \/ Revoke(r)
  <2>1. /\ q.pc \notin SignInStatement
        /\ \/ \E answer : Respond(r, answer)
           \/ \E pc : Goto(r, pc)
           \/ \E s : LoadSession(r, s)
           \/ \E ses : req' = [req EXCEPT ![r].pc = "saveSelect", ![r].ses = ses]
           \/ \E cols : req' = [req EXCEPT ![r].pc = "saveUpdate",
                                           ![r].cols = cols]
    BY <1>5
    DEF FindCurrent, FindPrevious, Judge, SaveSelect, SetPassword, Revoke,
        Refuse, At, SignInStatement
  <2>2. CASE \/ \E pc : Goto(r, pc)
             \/ \E s : LoadSession(r, s)
             \/ \E ses : req' = [req EXCEPT ![r].pc = "saveSelect",
                                            ![r].ses = ses]
             \/ \E cols : req' = [req EXCEPT ![r].pc = "saveUpdate",
                                             ![r].cols = cols]
    <3>1. CASE \E pc : Goto(r, pc)
      BY <3>1, <2>1, <1>0, GotoFields, OtherApart, ApartPassed
    <3>2. ASSUME NEW s, LoadSession(r, s)
          PROVE  req'[r].op = q.op
      BY <3>2, <1>0 DEF LoadSession, RequestState
    <3>3. ASSUME NEW ses, req' = [req EXCEPT ![r].pc = "saveSelect",
                                             ![r].ses = ses]
          PROVE  req'[r].op = q.op
      BY <3>3, <1>0 DEF RequestState
    <3>4. ASSUME NEW cols, req' = [req EXCEPT ![r].pc = "saveUpdate",
                                              ![r].cols = cols]
          PROVE  req'[r].op = q.op
      BY <3>4, <1>0 DEF RequestState
    <3> QED
      BY <2>1, <2>2, <3>1, <3>2, <3>3, <3>4, OtherApart, ApartPassed
  <2> QED
    BY <2>1, <2>2, <1>a
<1>6. CASE \/ CreateSession(r) \/ DropRow(r) \/ SaveUpdate(r) \/ SaveInsert(r)
           \/ Logout(r) \/ LogoutAll(r)
  BY <1>6, <1>a
  DEF CreateSession, DropRow, SaveUpdate, SaveInsert, AnswerRefresh, Logout,
      LogoutAll, Refuse
<1> QED
  BY <1>1, <1>2, <1>3, <1>4, <1>5, <1>6, <1>a DEF AuthStep, Refuse

LEMMA PassedAfter ==
  ASSUME RowsInv, NEW r \in Request, FactorPassed(r), Step(r) \/ Abandon(r)
  PROVE  FactorPassed(r)'
<1>0. TypeOK /\ req \in [Request -> RequestState]
  BY DEF RowsInv, TypeOK
<1>1. CASE HubUsersStep(r)
  <2>1. req[r].pc \notin SignInStatement
    BY <1>1
    DEF HubUsersStep, Admit, At, InviteStart, InsertUser, UpdateProfileStart,
        CheckEmail, SetAccessLevelStart, ToggleStatusStart, CountAdmins,
        ResetPasswordStart, SelectUser, UpdateUser, ReinsertUser,
        ResetTotpStart, ClearFactor, ClearCodes, SetTotpRequiredStart,
        StoreRequired, RemoveStart, RevokeUser, DeleteUser, SignInStatement
  <2>2. \/ req'[r].op = req[r].op
        \/ req'[r].op \in {NULL} \cup AdminOperation
    BY <1>0, <1>1, AdminPcs
  <2>3. CASE req'[r].op = req[r].op
    BY <2>1, <2>3, OtherApart, ApartPassed
  <2>4. CASE req'[r].op \in {NULL} \cup AdminOperation
    <3>1. NULL \notin {"login", "recovery"}
      BY NullAssumption DEF Operation
    <3>2. Apart(r)
      BY <2>4, <3>1 DEF Apart, AdminOperation
    <3> QED
      BY <3>2, ApartPassed
  <2> QED
    BY <2>2, <2>3, <2>4
<1>2. CASE Abandon(r)
  BY <1>0, <1>2, RespondApart, ApartPassed DEF Abandon
<1> QED
  BY <1>0, <1>1, <1>2, TotpPassed, AuthPassed DEF Step

\* The four statements that end in a token answer with one; whoever else
\* answers does not.
Telling(r) == Settle(r) \/ CreateSession(r) \/ SaveUpdate(r) \/ SaveInsert(r)

Silent(r) == req'[r].out.kind \notin {"stub", "session"}

LEMMA MovesSilent ==
  ASSUME Unanswered, NEW r \in Request, Traced(r),
         req[r].pc # "done", req'[r].pc # "done"
  PROVE  Silent(r)
BY DEF Unanswered, Traced, Silent, Plain

LEMMA RespondSilent ==
  ASSUME req \in [Request -> RequestState], NEW r \in Request,
         NEW answer, answer.kind \notin {"stub", "session"}, Respond(r, answer)
  PROVE  Silent(r)
BY RespondTraced DEF Silent

LEMMA TotpSilent ==
  ASSUME TypeOK, Unanswered, NEW r \in Request, Traced(r), req[r].pc # "done",
         TotpStep(r)
  PROVE  Silent(r)
<1>0. req \in [Request -> RequestState]
  BY DEF TypeOK
<1>a. CASE \E answer : answer.kind \notin {"stub", "session"} /\ Respond(r, answer)
  BY <1>a, <1>0, RespondSilent
<1>l. ASSUME NEW op, NEW pc \in {"storeSecret", "verify"}, NEW u,
             req' = [req EXCEPT ![r] = Loaded(op, pc, u)]
      PROVE  Silent(r)
  BY <1>0, <1>l, LoadedFields, MovesSilent
<1>p. /\ \A kind : Plain(kind).kind = kind
      /\ \A s : [Plain("paired") EXCEPT !.shown = s].kind = "paired"
  BY DEF Plain
<1>1. CASE SetupStart(r) \/ EnableStart(r) \/ RegenerateStart(r) \/ DisableStart(r)
  BY <1>1, <1>a, <1>l, <1>p
  DEF SetupStart, EnableStart, RegenerateStart, DisableStart, Refuse
<1>2. CASE VerifyAccepts(r)
  <2>1. \E t : req' = [req EXCEPT ![r].pc = "burn", ![r].step = t]
    BY <1>2 DEF VerifyAccepts
  <2>2. req'[r].pc = "burn"
    BY <2>1, <1>0 DEF RequestState
  <2> QED
    BY <2>2, MovesSilent
<1>3. CASE Burn(r) /\ ~Refuse(r)
  <2>1. \E c : req' = [req EXCEPT ![r].pc = AfterVerify(req[r].op),
                                  ![r].accepted = c]
    BY <1>3 DEF Burn
  <2>2. req'[r].pc = AfterVerify(req[r].op)
    BY <2>1, <1>0 DEF RequestState
  <2> QED
    BY <2>2, MovesSilent DEF AfterVerify
<1>4. CASE SetEnabled(r) \/ ClearTotp(r) \/ DropCodes(r)
  <2>1. \/ Respond(r, Plain("done"))
        \/ \E pc \in {"dropCodes", "issueCodes"} : Goto(r, pc)
    BY <1>4 DEF SetEnabled, ClearTotp, DropCodes
  <2> QED
    BY <2>1, <1>0, <1>a, <1>p, GotoFields, MovesSilent
<1>5. CASE StoreSecret(r) \/ VerifyRejects(r) \/ IssueCodes(r) \/ Refuse(r)
  BY <1>5, <1>a, <1>p DEF StoreSecret, VerifyRejects, IssueCodes, Refuse
<1> QED
  BY <1>1, <1>2, <1>3, <1>4, <1>5 DEF TotpStep

LEMMA AuthSilent ==
  ASSUME TypeOK, Unanswered, NEW r \in Request, Traced(r), req[r].pc # "done",
         AuthStep(r), ~Telling(r)
  PROVE  Silent(r)
<1>0. req \in [Request -> RequestState]
  BY DEF TypeOK
<1>p. \A kind : Plain(kind).kind = kind
  BY DEF Plain
<1>a. CASE \E kind : kind \notin {"stub", "session"} /\ Respond(r, Plain(kind))
  BY <1>a, <1>0, <1>p, RespondSilent
<1>g. CASE \E pc : pc # "done" /\ Goto(r, pc)
  BY <1>g, <1>0, GotoFields, MovesSilent
<1>1. CASE LoginStart(r) \/ RecoveryStart(r)
  <2>1. \/ \E kind : kind \notin {"stub", "session"} /\ Respond(r, Plain(kind))
        \/ \E op, u : \E pc \in {"verify", "settle", "findCode"} :
             req' = [req EXCEPT ![r] = SignIn(op, pc, u)]
    BY <1>1 DEF LoginStart, RecoveryStart, Refuse
  <2>2. \A op, pc, u : SignIn(op, pc, u).pc = pc
    BY DEF SignIn, Loaded, Blank
  <2>3. CASE \E op, u : \E pc \in {"verify", "settle", "findCode"} :
               req' = [req EXCEPT ![r] = SignIn(op, pc, u)]
    BY <1>0, <2>2, <2>3, MovesSilent
  <2> QED
    BY <2>1, <2>3, <1>a
<1>2. CASE FindCode(r) /\ ~Refuse(r)
  <2>1. \E c : req' = [req EXCEPT ![r].pc = "spendCode", ![r].code = c]
    BY <1>2 DEF FindCode
  <2>2. req'[r].pc = "spendCode"
    BY <2>1, <1>0 DEF RequestState
  <2> QED
    BY <2>2, MovesSilent
<1>3. CASE RefreshStart(r) \/ ((ChangeForced(r) \/ ChangeOwn(r)) /\ ~Refuse(r))
  <2>1. \E u, handle, new :
          \/ req' = [req EXCEPT ![r] =
               [Opened("refresh", "findCurrent", u) EXCEPT !.handle = handle,
                                                           !.now = clock]]
          \/ req' = [req EXCEPT ![r] =
               [Opened("changeForced", "setPassword", u) EXCEPT !.pw = new]]
          \/ req' = [req EXCEPT ![r] =
               [Loaded("changeOwn", "setPassword", u) EXCEPT !.pw = new]]
    BY <1>3 DEF RefreshStart, ChangeForced, ChangeOwn
  <2>2. req'[r].pc \in {"findCurrent", "setPassword"}
    BY <2>1, <1>0 DEF Opened, Loaded, Blank
  <2> QED
    BY <2>2, MovesSilent
<1>4. CASE (FindCurrent(r) \/ FindPrevious(r)) /\ \E s : LoadSession(r, s)
  <2>1. req'[r].pc = "judge"
    BY <1>4, <1>0 DEF LoadSession, RequestState
  <2> QED
    BY <2>1, MovesSilent
<1>5. CASE \/ \E ses : req' = [req EXCEPT ![r].pc = "saveSelect", ![r].ses = ses]
           \/ \E cols : req' = [req EXCEPT ![r].pc = "saveUpdate",
                                           ![r].cols = cols]
  <2>1. req'[r].pc \in {"saveSelect", "saveUpdate"}
    BY <1>5, <1>0 DEF RequestState
  <2> QED
    BY <2>1, MovesSilent
<1>6. CASE FindCurrent(r) \/ FindPrevious(r) \/ Judge(r) \/ SaveSelect(r)
  BY <1>6, <1>4, <1>5, <1>a, <1>g
  DEF FindCurrent, FindPrevious, Judge, SaveSelect, Refuse
<1>7. CASE \/ SpendCode(r) \/ PurgeExpired(r) \/ DropRow(r) \/ Logout(r)
           \/ LogoutAll(r) \/ SetPassword(r) \/ Revoke(r) \/ Refuse(r)
  BY <1>7, <1>a, <1>g
  DEF SpendCode, PurgeExpired, DropRow, Logout, LogoutAll, SetPassword, Revoke,
      Refuse
<1> QED
  BY <1>1, <1>2, <1>3, <1>6, <1>7 DEF AuthStep, Telling

LEMMA AdminSilent ==
  ASSUME TypeOK, Unanswered, NEW r \in Request, req[r].pc # "done",
         HubUsersStep(r)
  PROVE  Silent(r)
<1>1. req'[r].out.kind \in {req[r].out.kind} \cup AdminAnswer
  BY AdminPcs DEF TypeOK
<1> QED
  BY <1>1 DEF Unanswered, Plain, Silent, AdminAnswer

LEMMA StepSilent ==
  ASSUME RowsInv, Blanks, Unanswered, NEW r \in Request, Step(r) \/ Abandon(r),
         ~Telling(r)
  PROVE  Silent(r)
<1>1. /\ TypeOK
      /\ req \in [Request -> RequestState]
      /\ Traced(r)
      /\ req[r].pc # "done"
  BY StepTraced, StepMoves DEF RowsInv, TypeOK, Moves
<1>2. CASE Abandon(r)
  BY <1>1, <1>2, RespondSilent DEF Abandon, Plain
<1> QED
  BY <1>1, <1>2, TotpSilent, AuthSilent, AdminSilent DEF Step

LEMMA UnansweredAfter ==
  ASSUME RowsInv, Blanks, Unanswered, [Next]_vars
  PROVE  Unanswered'
<1>1. ASSUME NEW r \in Request, Step(r) \/ Abandon(r)
      PROVE  Unanswered'
  BY <1>1, StepTraced, StepMoves DEF Traced, Moves, Unanswered
<1>2. CASE Tick \/ Quiet \/ UNCHANGED vars
  BY <1>2 DEF Tick, Quiet, vars, Unanswered
<1> QED
  BY <1>1, <1>2 DEF Next

LEMMA PassedInvariance == Spec => []PassedInv
<1>1. Init => PassedInv
  <2> SUFFICES ASSUME Init PROVE PassedInv
    OBVIOUS
  <2>1. \A r \in Request : req[r] = Blank
    BY DEF Init
  <2>2. Blank.op = NULL /\ Blank.out = Plain("none")
    BY DEF Blank
  <2> QED
    BY <2>1, <2>2, NullAssumption
    DEF PassedInv, Unanswered, FactorPassed, Operation
<1>2. RowsInv /\ Blanks /\ PassedInv /\ [Next]_vars => PassedInv'
  <2> SUFFICES ASSUME RowsInv, Blanks, PassedInv, [Next]_vars
               PROVE  PassedInv'
    OBVIOUS
  <2>1. Unanswered'
    BY UnansweredAfter DEF PassedInv
  <2>2. ASSUME NEW r \in Request, Step(r) \/ Abandon(r), NEW p \in Request
        PROVE  FactorPassed(p)'
    <3>1. CASE p = r
      BY <2>2, <3>1, PassedAfter DEF PassedInv
    <3>2. CASE p # r
      <4>1. req'[p] = req[p]
        BY <2>2, <3>2, StepMoves DEF Moves
      <4> QED
        BY <4>1 DEF PassedInv, FactorPassed
    <3> QED
      BY <3>1, <3>2
  <2>3. CASE Tick \/ Quiet \/ UNCHANGED vars
    BY <2>1, <2>3 DEF Tick, Quiet, vars, PassedInv, FactorPassed
  <2> QED
    BY <2>1, <2>2, <2>3 DEF Next, PassedInv
<1> QED
  BY <1>1, <1>2, HubInv, TraceInvariance, PTL DEF Spec

\* No token leaves sign-in for an account whose loaded row is enrolled unless
\* the request has got a code accepted or has found a recovery code to spend:
\* however many requests overlap, and whatever administrators change meanwhile.
THEOREM HubSecondFactor == Spec => SecondFactorFirst
<1>1. RowsInv /\ Blanks /\ PassedInv /\ [Next]_vars
      => [\A r \in Request :
            /\ req[r].op \in {"login", "recovery"}
            /\ req'[r].out.kind \in {"stub", "session"}
            /\ req[r].usr.enabled
            => req[r].accepted # NULL \/ req[r].code # NULL]_vars
  <2> SUFFICES ASSUME RowsInv, Blanks, PassedInv, [Next]_vars, vars' # vars,
                      NEW p \in Request,
                      req[p].op \in {"login", "recovery"},
                      ~Silent(p),
                      req[p].usr.enabled
               PROVE  req[p].accepted # NULL \/ req[p].code # NULL
    BY DEF Silent
  <2>1. /\ req[p].pc \in SignInStatement
        /\ req[p].out = Plain("none")
    BY DEF PassedInv, FactorPassed, Unanswered, SignInStatement
  <2>2. req'[p] # req[p]
    BY <2>1 DEF Silent, Plain
  <2>3. Step(p) \/ Abandon(p)
    <3>1. ASSUME NEW r \in Request, Step(r) \/ Abandon(r)
          PROVE  r = p
      BY <2>2, <3>1, StepMoves DEF Moves
    <3> QED
      BY <2>2, <3>1 DEF Next, Tick, Quiet, vars
  <2>4. Telling(p)
    BY <2>3, StepSilent DEF PassedInv
  <2>5. req[p].pc \in {"settle", "createSession"}
    BY <2>1, <2>4
    DEF Telling, Settle, CreateSession, SaveUpdate, SaveInsert, At,
        SignInStatement
  <2> QED
    BY <2>5 DEF PassedInv, FactorPassed
<1> QED
  BY <1>1, HubInv, TraceInvariance, PassedInvariance, PTL
  DEF Spec, SecondFactorFirst

-----------------------------------------------------------------------------
(***************************************************************************)
(* The handles are those of the ledger: a client that was given one can    *)
(* use it until it trades it in or its session ends, and not after.        *)
(***************************************************************************)
\* What a request that is no refresh goes on to.
LEMMA NoRefreshPcs ==
  ASSUME req \in [Request -> RequestState], NEW r \in Request,
         \/ LoginStart(r) \/ RecoveryStart(r) \/ FindCode(r) \/ SpendCode(r)
         \/ Settle(r) \/ PurgeExpired(r) \/ CreateSession(r)
         \/ Logout(r) \/ LogoutAll(r)
         \/ ChangeForced(r) \/ ChangeOwn(r) \/ SetPassword(r) \/ Revoke(r)
  PROVE  req'[r].pc \notin RefreshStatement
<1>a. CASE \E answer : Respond(r, answer)
  BY <1>a DEF Respond, Closed, Blank, RefreshStatement
<1>g. CASE \E pc \in {"settle", "purge", "createSession", "revoke"} : Goto(r, pc)
  BY <1>g, GotoFields DEF RefreshStatement
<1>1. CASE LoginStart(r) \/ RecoveryStart(r)
  <2>1. \/ \E answer : Respond(r, answer)
        \/ \E op, u : \E pc \in {"verify", "settle", "findCode"} :
             req' = [req EXCEPT ![r] = SignIn(op, pc, u)]
    BY <1>1 DEF LoginStart, RecoveryStart, Refuse
  <2>2. \A op, pc, u : SignIn(op, pc, u).pc = pc
    BY DEF SignIn, Loaded, Blank
  <2> QED
    BY <2>1, <2>2, <1>a DEF RefreshStatement
<1>2. CASE FindCode(r)
  <2>1. \/ Refuse(r)
        \/ \E c : req' = [req EXCEPT ![r].pc = "spendCode", ![r].code = c]
    BY <1>2 DEF FindCode
  <2>2. CASE \E c : req' = [req EXCEPT ![r].pc = "spendCode", ![r].code = c]
    BY <2>2 DEF RequestState, RefreshStatement
  <2> QED
    BY <2>1, <2>2, <1>a DEF Refuse
<1>3. CASE (ChangeForced(r) \/ ChangeOwn(r)) /\ ~Refuse(r)
  <2>1. \E u, new :
          \/ req' = [req EXCEPT ![r] =
               [Opened("changeForced", "setPassword", u) EXCEPT !.pw = new]]
          \/ req' = [req EXCEPT ![r] =
               [Loaded("changeOwn", "setPassword", u) EXCEPT !.pw = new]]
    BY <1>3 DEF ChangeForced, ChangeOwn
  <2>2. req'[r].pc = "setPassword"
    BY <2>1 DEF Opened, Loaded, Blank
  <2> QED
    BY <2>2 DEF RefreshStatement
<1>4. CASE \/ SpendCode(r) \/ Settle(r) \/ PurgeExpired(r) \/ CreateSession(r)
           \/ Logout(r) \/ LogoutAll(r) \/ SetPassword(r) \/ Revoke(r)
           \/ Refuse(r)
  BY <1>4, <1>a, <1>g
  DEF SpendCode, Settle, PurgeExpired, CreateSession, Logout, LogoutAll,
      SetPassword, Revoke, Refuse
<1> QED
  BY <1>1, <1>2, <1>3, <1>4

LEMMA UnheldKnown ==
  ASSUME NEW r \in Request, req'[r].pc \notin RefreshStatement
  PROVE  HandleKnown(r)'
BY DEF HandleKnown, RefreshStatement

LEMMA RefreshingKnown ==
  ASSUME SerialInv, NEW r \in Request, HandleKnown(r), Handles \subseteq Handles',
         \/ RefreshStart(r) \/ FindCurrent(r) \/ FindPrevious(r) \/ Judge(r)
         \/ SaveSelect(r)
  PROVE  HandleKnown(r)'
<1> DEFINE q == req[r]
<1>0. /\ req \in [Request -> RequestState]
      /\ \A s \in DOMAIN sessions : sessions[s] \in SessionRow
      /\ Known(r)
      /\ sessions' = sessions
  BY DEF SerialInv, RowsInv, TypeOK, RefreshStart, FindCurrent, FindPrevious,
         Judge, SaveSelect, tables
<1>1. CASE RefreshStart(r)
  <2>1. PICK handle \in Handles : req' = [req EXCEPT ![r] =
           [Opened("refresh", "findCurrent", NULL) EXCEPT !.handle = handle,
                                                          !.now = clock]]
    BY <1>1 DEF RefreshStart
  <2>2. req'[r].pc = "findCurrent" /\ req'[r].handle = handle
    BY <2>1, <1>0, ZenonT(60) DEF Opened, Blank
  <2> QED
    BY <2>2 DEF HandleKnown
<1>2. CASE Refuse(r) \/ \E pc \in {"dropRow", "saveInsert"} : Goto(r, pc)
  <2>1. req'[r].pc \in {"done", "dropRow", "saveInsert"}
    BY <1>2, <1>0, GotoFields DEF Refuse, Respond, Closed, Blank
  <2> QED
    BY <2>1, UnheldKnown DEF RefreshStatement
<1>3. CASE FindCurrent(r) \/ FindPrevious(r)
  <2>1. /\ q.handle \in Handles
        /\ \/ Refuse(r)
           \/ Goto(r, "findPrevious")
           \/ \E s : LoadSession(r, s)
    BY <1>3 DEF FindCurrent, FindPrevious, At, HandleKnown, RefreshStatement
  <2>2. CASE Goto(r, "findPrevious")
    <3>1. req'[r].pc = "findPrevious" /\ req'[r].handle = q.handle
      BY <2>2, <1>0, GotoFields
    <3> QED
      BY <2>1, <3>1 DEF HandleKnown
  <2>3. ASSUME NEW s, LoadSession(r, s)
        PROVE  HandleKnown(r)'
    <3>1. /\ req'[r].pc = "judge"
          /\ req'[r].sid = s
          /\ req'[r].ses = sessions[s]
          /\ req'[r].handle = q.handle
      BY <2>3, <1>0 DEF LoadSession, RequestState
    <3> QED
      BY <2>1, <3>1, <1>0 DEF HandleKnown
  <2> QED
    BY <2>1, <2>2, <2>3, <1>2
<1>4. CASE Judge(r) /\ ~Goto(r, "dropRow")
  <2>1. /\ q.pc = "judge"
        /\ q.handle \in Handles
        /\ q.ses = sessions[q.sid]
        /\ q.sid \in DOMAIN sessions
    BY <1>4, <1>0
    DEF Judge, At, HandleKnown, RefreshStatement, Known, RowThere, OnSession
  <2>2. PICK ses : /\ req' = [req EXCEPT ![r].pc = "saveSelect", ![r].ses = ses]
                   /\ ses = Prolonged(IF q.ses.token = q.handle
                                      THEN Rotated(r, q.ses, q.now) ELSE q.ses)
    BY <1>4 DEF Judge
  <2>3. /\ req'[r].pc = "saveSelect"
        /\ req'[r].sid = q.sid
        /\ req'[r].handle = q.handle
        /\ req'[r].ses = ses
    BY <2>2, <1>0 DEF RequestState
  <2>4. q.ses \in SessionRow
    BY <1>0 DEF RequestState
  <2>5. CASE q.ses.token = q.handle
    <3>1. ses = Prolonged(Rotated(r, q.ses, q.now))
      BY <2>2, <2>5
    <3>2. ses.token = r
      BY <3>1, <2>4 DEF Prolonged, Rotated, SessionRow
    <3> QED
      BY <2>1, <2>3, <2>5, <3>2, <1>0 DEF HandleKnown
  <2>6. CASE q.ses.token # q.handle
    <3>1. ses = Prolonged(q.ses)
      BY <2>2, <2>6
    <3>2. ses.token = q.ses.token
      BY <3>1, <2>4 DEF Prolonged, SessionRow
    <3> QED
      BY <2>1, <2>3, <3>2, <1>0 DEF HandleKnown
  <2> QED
    BY <2>5, <2>6
<1>5. CASE SaveSelect(r) /\ ~Goto(r, "saveInsert")
  <2> DEFINE cols == {c \in SessionColumns : q.ses[c] # sessions[q.sid][c]}
                       \cup FreshTimes(r)
  <2>1. /\ req' = [req EXCEPT ![r].pc = "saveUpdate", ![r].cols = cols]
        /\ q.ses.token # sessions[q.sid].token => "token" \in cols
    <3>1. req' = [req EXCEPT ![r].pc = "saveUpdate", ![r].cols = cols]
      BY <1>5 DEF SaveSelect
    <3>2. q.ses.token # sessions[q.sid].token => "token" \in cols
      BY DEF SessionColumns
    <3> QED
      BY <3>1, <3>2
  <2> HIDE DEF cols
  <2>2. /\ req'[r].pc = "saveUpdate"
        /\ req'[r].sid = q.sid
        /\ req'[r].handle = q.handle
        /\ req'[r].ses = q.ses
        /\ req'[r].cols = cols
    BY <2>1, <1>0 DEF RequestState
  <2>3. q.pc = "saveSelect"
    BY <1>5 DEF SaveSelect, At
  <2> QED
    BY <2>1, <2>2, <2>3, <1>0 DEF HandleKnown, RefreshStatement
<1> QED
  BY <1>1, <1>2, <1>3, <1>4, <1>5

LEMMA HandleAfter ==
  ASSUME SerialInv, NEW r \in Request, HandleKnown(r), Handles \subseteq Handles',
         Step(r) \/ Abandon(r)
  PROVE  HandleKnown(r)'
<1>0. req \in [Request -> RequestState]
  BY DEF SerialInv, RowsInv, TypeOK
<1>a. CASE \E answer : Respond(r, answer)
  <2>1. req'[r].pc = "done"
    BY <1>a, <1>0 DEF Respond, Closed, Blank
  <2> QED
    BY <2>1, UnheldKnown DEF RefreshStatement
<1>1. CASE TotpStep(r)
  BY <1>0, <1>1, TotpPcs, UnheldKnown DEF TotpStatement, RefreshStatement
<1>2. CASE HubUsersStep(r)
  BY <1>0, <1>2, AdminPcs, UnheldKnown DEF AdminStatement, RefreshStatement
<1>3. CASE Abandon(r) \/ DropRow(r) \/ SaveUpdate(r) \/ SaveInsert(r)
  BY <1>3, <1>a
  DEF Abandon, DropRow, SaveUpdate, SaveInsert, AnswerRefresh, Refuse
<1> QED
  BY <1>0, <1>1, <1>2, <1>3, NoRefreshPcs, UnheldKnown, RefreshingKnown
  DEF Step, AuthStep

\* What a step does to the sessions and to the handles that clients hold: some
\* sessions end, or one is opened, or a refresh answers with the handle that
\* its session then has, the old one or one minted for it.
SameAnswers == /\ SignedIn' = SignedIn
               /\ \A p \in SignedIn : req'[p].out = req[p].out

Ends == /\ DOMAIN sessions' \subseteq DOMAIN sessions
        /\ \A s \in DOMAIN sessions' : sessions'[s] = sessions[s]
        /\ SameAnswers

NewAnswer(r, s, handle) ==
  /\ SignedIn' = SignedIn \cup {r}
  /\ \A p \in SignedIn : req'[p].out = req[p].out
  /\ req'[r].out.kind = "session"
  /\ req'[r].out.sid = s
  /\ req'[r].out.shown = handle

Opens(r) ==
  /\ DOMAIN sessions' = DOMAIN sessions \cup {r}
  /\ \A s \in DOMAIN sessions \ {r} : sessions'[s] = sessions[s]
  /\ sessions'[r].token = r
  /\ NewAnswer(r, r, r)

Refreshes(r, s) ==
  /\ s \in DOMAIN sessions
  /\ DOMAIN sessions' = DOMAIN sessions
  /\ \A t \in DOMAIN sessions \ {s} : sessions'[t] = sessions[t]
  /\ sessions'[s].user = sessions[s].user
  /\ NewAnswer(r, s, sessions'[s].token)
  /\ \/ sessions'[s].token = sessions[s].token
     \/ /\ sessions'[s].token = r
        /\ sessions[s].token \in Handles
        /\ req'[r].out.given = sessions[s].token

LEMMA AnswersAfter ==
  ASSUME RowsInv, Blanks, Unanswered, NEW r \in Request, Step(r) \/ Abandon(r)
  PROVE  /\ r \notin SignedIn
         /\ \A p \in SignedIn : req'[p].out = req[p].out
         /\ req'[r].out.kind = "session" => SignedIn' = SignedIn \cup {r}
         /\ req'[r].out.kind # "session" => SignedIn' = SignedIn
<1>1. /\ req[r].pc # "done"
      /\ \A p \in Request \ {r} : req'[p] = req[p]
  BY StepMoves DEF Moves
<1>2. r \notin SignedIn
  BY <1>1 DEF Unanswered, SignedIn, Plain
<1> QED
  BY <1>1, <1>2 DEF SignedIn

LEMMA HandlesStep ==
  ASSUME SerialInv, Blanks, Unanswered, NEW r \in Request, HandleKnown(r),
         Step(r) \/ Abandon(r)
  PROVE  \/ Ends
         \/ Opens(r)
         \/ \E s : Refreshes(r, s)
<1> DEFINE q == req[r]
<1>0. /\ RowsInv
      /\ req \in [Request -> RequestState]
      /\ \A s \in DOMAIN sessions : sessions[s] \in SessionRow
      /\ Known(r)
      /\ q.pc # "done"
  BY StepMoves DEF SerialInv, RowsInv, TypeOK, Moves
<1>1. /\ \A p \in SignedIn : req'[p].out = req[p].out
      /\ req'[r].out.kind = "session" => SignedIn' = SignedIn \cup {r}
      /\ req'[r].out.kind # "session" => SignedIn' = SignedIn
  BY <1>0, AnswersAfter
<1>2. ~SaveInsert(r)
  BY <1>0 DEF SaveInsert, At, Known, RowThere
<1>3. CASE CreateSession(r)
  <2>1. CASE Respond(r, Plain("failed")) /\ sessions' = sessions
    <3>1. req'[r].out.kind # "session"
      BY <2>1, <1>0, RespondTraced DEF Plain
    <3> QED
      BY <2>1, <3>1, <1>1 DEF Ends, SameAnswers
  <2>2. CASE /\ sessions' = Insert(sessions, {r}, NewSession(r))
             /\ Respond(r, SessionAnswer(r, r, NULL))
    <3>1. req'[r].out = SessionAnswer(r, r, NULL)
      BY <2>2, <1>0, RespondTraced
    <3>2. NewAnswer(r, r, r)
      BY <3>1, <1>1 DEF SessionAnswer, NewAnswer
    <3>3. /\ DOMAIN sessions' = DOMAIN sessions \cup {r}
          /\ sessions'[r].token = r
          /\ \A s \in DOMAIN sessions \ {r} : sessions'[s] = sessions[s]
      BY <2>2 DEF Insert, NewSession
    <3> QED
      BY <3>2, <3>3 DEF Opens
  <2> QED
    BY <1>3, <2>1, <2>2 DEF CreateSession
<1>4. CASE SaveUpdate(r)
  <2> DEFINE s == q.sid
  <2>1. /\ s \in DOMAIN sessions
        /\ q.pc = "saveUpdate"
        /\ sessions' = Updated(sessions, s, Merge(sessions[s], q.ses, q.cols))
        /\ Respond(r, SessionAnswer(s, q.ses.token, q.handle))
    BY <1>4, <1>0 DEF SaveUpdate, AnswerRefresh, At, Known, RowThere, OnSession
  <2>2. /\ DOMAIN sessions' = DOMAIN sessions
        /\ sessions'[s] = Merge(sessions[s], q.ses, q.cols)
        /\ \A t \in DOMAIN sessions \ {s} : sessions'[t] = sessions[t]
    BY <2>1 DEF Updated
  <2>3. /\ q.handle \in Handles
        /\ q.ses.token = sessions[s].token
             \/ (q.ses.token = r /\ q.handle = sessions[s].token)
        /\ q.ses.token # sessions[s].token => "token" \in q.cols
    BY <2>1 DEF HandleKnown, RefreshStatement
  <2>4. /\ sessions'[s].user = sessions[s].user
        /\ sessions'[s].token = q.ses.token
    <3>1. sessions[s] \in SessionRow
      BY <2>1, <1>0
    <3> QED
      BY <2>2, <2>3, <3>1 DEF Merge, SessionRow
  <2>5. req'[r].out = SessionAnswer(s, q.ses.token, q.handle)
    BY <2>1, <1>0, RespondTraced
  <2>6. NewAnswer(r, s, sessions'[s].token)
    BY <2>4, <2>5, <1>1 DEF SessionAnswer, NewAnswer
  <2>7. req'[r].out.given = q.handle
    BY <2>5 DEF SessionAnswer
  <2>8. Refreshes(r, s)
    BY <2>1, <2>2, <2>3, <2>4, <2>6, <2>7 DEF Refreshes
  <2> QED
    BY <2>8
<1>5. CASE ~CreateSession(r) /\ ~SaveUpdate(r)
  <2>1. req'[r].out.kind # "session"
    <3>1. CASE Settle(r)
      <4>1. Respond(r, Plain("stub")) \/ Goto(r, "purge")
        BY <3>1 DEF Settle
      <4> QED
        BY <4>1, <1>0, RespondTraced, GotoFields DEF Plain, Unanswered
    <3>2. CASE ~Settle(r)
      BY <3>2, <1>0, <1>2, <1>5, StepSilent DEF Telling, Silent
    <3> QED
      BY <3>1, <3>2
  <2>2. /\ DOMAIN sessions' \subseteq DOMAIN sessions
        /\ \A s \in DOMAIN sessions' : sessions'[s] = sessions[s]
    <3>1. CASE sessions' = sessions
      BY <3>1
    <3>2. CASE \E ids : sessions' = Delete(sessions, ids)
      BY <3>2 DEF Delete, Restrict
    <3> QED
      BY <3>1, <3>2, <1>2, <1>5, SessionsWriters
      DEF PurgeExpired, DropRow, Logout, LogoutAll, Revoke, RevokeUser,
          DeleteUser, EndSessions, Abandon, tables
  <2> QED
    BY <2>1, <2>2, <1>1 DEF Ends, SameAnswers
<1> QED
  BY <1>3, <1>4, <1>5

\* How the handles that clients hold, and the sessions they belong to, grow.
LEMMA HandlesGrow ==
  ASSUME SameAnswers
  PROVE  Handles' = Handles /\ Sids' = Sids
BY DEF SameAnswers, Handles, Sids

LEMMA HandlesGrowBy ==
  ASSUME NEW r \in Request, NEW s, NEW handle, NewAnswer(r, s, handle)
  PROVE  Handles' = Handles \cup {handle} /\ Sids' = Sids \cup {s}
<1>1. /\ SignedIn' = SignedIn \cup {r}
      /\ req'[r].out.sid = s
      /\ req'[r].out.shown = handle
      /\ \A p \in SignedIn : req'[p].out = req[p].out
  BY DEF NewAnswer
<1>2. {req'[p].out.shown : p \in SignedIn'}
        = {req[p].out.shown : p \in SignedIn} \cup {handle}
  BY <1>1
<1>3. {req'[p].out.sid : p \in SignedIn'}
        = {req[p].out.sid : p \in SignedIn} \cup {s}
  BY <1>1
<1> QED
  BY <1>2, <1>3 DEF Handles, Sids

LEMMA HandlesAfter ==
  ASSUME ~Overlap, SerialInv, Blanks, Unanswered, HandlesInv,
         NEW r \in Request, Step(r) \/ Abandon(r)
  PROVE  HandlesInv'
<1>0. /\ OthersRest(r)
      /\ req[r].pc # "done"
      /\ \A p \in Request \ {r} : req'[p] = req[p]
      /\ HandleKnown(r)
  BY StepsAlone, StepMoves DEF SerialInv, Moves, HandlesInv
<1>1. r \notin Seed /\ r \notin Handles \cup Sids
  BY <1>0, NamesAssumption DEF HandlesInv, NoHandleYet
<1>2. r \notin DOMAIN sessions
  BY <1>1 DEF HandlesInv
<1>3. \A p \in Request \ {r} : HandleKnown(p)'
  <2>1. \A p \in Request \ {r} : req'[p].pc \notin RefreshStatement
    BY <1>0 DEF OthersRest, Resting, RefreshStatement
  <2> QED
    BY <2>1, UnheldKnown
<1>4. req'[r].out.kind = "session" => req'[r].pc = "done"
  BY <1>0, StepTraced DEF Traced, Unanswered, Plain, SerialInv
<1>5. ASSUME Handles \subseteq Handles',
             \A p \in Request \ {r} : p \notin Handles \cup Sids =>
                                        p \notin Handles' \cup Sids',
             req'[r].pc # "done" => r \notin Handles' \cup Sids'
      PROVE  \A p \in Request : HandleKnown(p)' /\ NoHandleYet(p)'
  <2>1. HandleKnown(r)'
    BY <1>0, <1>5, HandleAfter
  <2>2. \A p \in Request : NoHandleYet(p)'
    BY <1>0, <1>5 DEF HandlesInv, NoHandleYet
  <2> QED
    BY <2>1, <2>2, <1>3
<1>6. CASE Ends
  <2>1. Handles' = Handles /\ Sids' = Sids
    BY <1>6, HandlesGrow DEF Ends
  <2>2. \A p \in Request : HandleKnown(p)' /\ NoHandleYet(p)'
    BY <2>1, <1>1, <1>5
  <2>3. \A s \in DOMAIN sessions' :
          /\ s \in DOMAIN sessions
          /\ sessions'[s] = sessions[s]
    BY <1>6 DEF Ends
  <2> QED
    BY <2>1, <2>2, <2>3 DEF HandlesInv
<1>7. CASE Opens(r)
  <2>1. /\ Handles' = Handles \cup {r}
        /\ Sids' = Sids \cup {r}
        /\ req'[r].pc = "done"
    BY <1>4, <1>7, HandlesGrowBy DEF Opens, NewAnswer
  <2>2. \A p \in Request : HandleKnown(p)' /\ NoHandleYet(p)'
    BY <2>1, <1>5
  <2>3. \A s \in DOMAIN sessions' :
          \/ s = r /\ sessions'[s].token = r
          \/ s \in DOMAIN sessions /\ s # r /\ sessions'[s] = sessions[s]
    BY <1>7 DEF Opens
  <2>4. \A s \in DOMAIN sessions :
          s \in Seed \cup Sids /\ sessions[s].token \in Handles
    BY DEF HandlesInv
  <2>5. \A s \in DOMAIN sessions' :
          s \in Seed \cup Sids' /\ sessions'[s].token \in Handles'
    BY <2>1, <2>3, <2>4
  <2>6. \A s, t \in DOMAIN sessions' :
          sessions'[s].token = sessions'[t].token => s = t
    BY <2>3, <2>4, <1>1 DEF HandlesInv
  <2> QED
    BY <2>2, <2>5, <2>6 DEF HandlesInv
<1>8. ASSUME NEW s, Refreshes(r, s)
      PROVE  HandlesInv'
  <2> DEFINE token == sessions'[s].token
  <2>0. s \in DOMAIN sessions /\ s \in Seed \cup Sids
    BY <1>8 DEF Refreshes, HandlesInv
  <2>1. /\ Handles' = Handles \cup {token}
        /\ Sids' = Sids \cup {s}
        /\ req'[r].pc = "done"
    BY <1>4, <1>8, HandlesGrowBy DEF Refreshes, NewAnswer
  <2>2. token = r \/ token = sessions[s].token
    BY <1>8 DEF Refreshes
  <2>3. \A t \in DOMAIN sessions :
          t \in Seed \cup Sids /\ sessions[t].token \in Handles
    BY DEF HandlesInv
  <2>4. \A p \in Request : HandleKnown(p)' /\ NoHandleYet(p)'
    <3>1. \A p \in Request \ {r} : p \notin Handles \cup Sids =>
                                     p \notin Handles' \cup Sids'
      BY <2>0, <2>1, <2>2, <2>3, NamesAssumption
    <3> QED
      BY <2>1, <3>1, <1>5
  <2>5. /\ DOMAIN sessions' = DOMAIN sessions
        /\ \A t \in DOMAIN sessions \ {s} : sessions'[t] = sessions[t]
    BY <1>8 DEF Refreshes
  <2>6. \A t \in DOMAIN sessions' :
          t \in Seed \cup Sids' /\ sessions'[t].token \in Handles'
    BY <2>1, <2>3, <2>5
  <2>7. \A t, v \in DOMAIN sessions' :
          sessions'[t].token = sessions'[v].token => t = v
    BY <2>2, <2>3, <2>5, <1>1 DEF HandlesInv
  <2> QED
    BY <2>4, <2>6, <2>7 DEF HandlesInv
<1> QED
  BY <1>0, <1>6, <1>7, <1>8, HandlesStep

LEMMA HandlesInvariance ==
  ASSUME ~Overlap
  PROVE  Spec => []HandlesInv
<1>1. Init => HandlesInv
  <2> SUFFICES ASSUME Init PROVE HandlesInv
    OBVIOUS
  <2>1. PICK p \in Population : sessions = p.sessions
    BY DEF Init
  <2>2. /\ DOMAIN sessions \subseteq Seed
        /\ \A s \in DOMAIN sessions : sessions[s].token \in Seed
        /\ \A s, t \in DOMAIN sessions :
             sessions[s].token = sessions[t].token => s = t
    BY <2>1, PopulationAssumption DEF WellFormed
  <2>3. SignedIn = {} /\ \A r \in Request : req[r].pc = "idle"
    BY DEF Init, Blank, Plain, SignedIn
  <2>4. Handles = Seed /\ Sids = {}
    BY <2>3 DEF Handles, Sids
  <2> QED
    BY <2>2, <2>3, <2>4, NamesAssumption
    DEF HandlesInv, HandleKnown, NoHandleYet, RefreshStatement
<1>2. SerialInv /\ Blanks /\ PassedInv /\ HandlesInv /\ [Next]_vars => HandlesInv'
  <2> SUFFICES ASSUME SerialInv, Blanks, PassedInv, HandlesInv, [Next]_vars
               PROVE  HandlesInv'
    OBVIOUS
  <2>1. ASSUME NEW r \in Request, Step(r) \/ Abandon(r)
        PROVE  HandlesInv'
    BY <2>1, HandlesAfter DEF PassedInv
  <2>2. CASE Tick \/ Quiet \/ UNCHANGED vars
    <3>1. req' = req /\ sessions' = sessions
      BY <2>2 DEF Tick, Quiet, vars
    <3>2. Handles' = Handles /\ Sids' = Sids
      BY <3>1 DEF Handles, Sids, SignedIn
    <3> QED
      BY <3>1, <3>2 DEF HandlesInv, HandleKnown, NoHandleYet
  <2> QED
    BY <2>1, <2>2 DEF Next
<1> QED
  BY <1>1, <1>2, SerialInvariance, TraceInvariance, PassedInvariance, PTL DEF Spec

\* A handle once traded in stays so.
LEMMA TradedInStays ==
  ASSUME \A p \in SignedIn : req'[p].out = req[p].out, NEW handle, TradedIn(handle)
  PROVE  TradedIn(handle)'
BY DEF TradedIn, SignedIn

LEMMA DeliveredAfter ==
  ASSUME HandlesInv, DeliveredInv, Unanswered, NEW r \in Request,
         req[r].pc # "done",
         \/ Ends
         \/ Opens(r)
         \/ \E s : Refreshes(r, s)
  PROVE  DeliveredInv'
<1>1. r \notin Handles \cup Sids
  BY DEF HandlesInv, NoHandleYet
<1>2. /\ \A p \in SignedIn : req'[p].out = req[p].out
      /\ SignedIn' \subseteq SignedIn \cup {r}
  BY DEF Ends, SameAnswers, Opens, Refreshes, NewAnswer
<1>3. ASSUME NEW p \in SignedIn, NEW out, out = req[p].out,
             out.sid \in DOMAIN sessions'
      PROVE  out.shown = sessions'[out.sid].token \/ TradedIn(out.shown)'
  <2>1. out.sid # r /\ out.shown # r
    BY <1>1, <1>3 DEF Handles, Sids
  <2>2. ASSUME out.sid \in DOMAIN sessions,
               sessions'[out.sid].token = sessions[out.sid].token
        PROVE  out.shown = sessions'[out.sid].token \/ TradedIn(out.shown)'
    <3>1. out.shown = sessions[out.sid].token \/ TradedIn(out.shown)
      BY <1>3, <2>2 DEF DeliveredInv
    <3> QED
      BY <1>2, <2>2, <3>1, TradedInStays
  <2>3. CASE Ends \/ Opens(r)
    BY <1>3, <2>1, <2>2, <2>3 DEF Ends, Opens
  <2>4. ASSUME NEW s, Refreshes(r, s)
        PROVE  out.shown = sessions'[out.sid].token \/ TradedIn(out.shown)'
    <3>1. CASE out.sid # s \/ sessions'[s].token = sessions[s].token
      BY <1>3, <2>2, <2>4, <3>1 DEF Refreshes
    <3>2. CASE /\ out.sid = s
               /\ req'[r].out.given = sessions[s].token
               /\ sessions'[s].token = r
      <4>1. CASE out.shown = sessions[s].token
        <5>1. /\ req'[r].out.kind = "session"
              /\ req'[r].out.given = out.shown
              /\ req'[r].out.shown # out.shown
          BY <2>1, <2>4, <3>2, <4>1 DEF Refreshes, NewAnswer
        <5> QED
          BY <5>1 DEF TradedIn
      <4>2. CASE TradedIn(out.shown)
        BY <1>2, <4>2, TradedInStays
      <4> QED
        BY <1>3, <2>4, <3>2, <4>1, <4>2 DEF Refreshes, DeliveredInv
    <3> QED
      BY <2>4, <3>1, <3>2 DEF Refreshes
  <2> QED
    BY <2>3, <2>4
<1>4. ASSUME r \in SignedIn', NEW out, out = req'[r].out,
             out.sid \in DOMAIN sessions'
      PROVE  out.shown = sessions'[out.sid].token
  <2>1. r \notin SignedIn
    BY DEF Unanswered, SignedIn, Plain
  <2> QED
    BY <1>4, <2>1 DEF Ends, SameAnswers, Opens, Refreshes, NewAnswer
<1> QED
  <2> SUFFICES ASSUME NEW p \in SignedIn',
                      NEW out, out = req'[p].out,
                      out.sid \in DOMAIN sessions'
               PROVE  out.shown = sessions'[out.sid].token \/ TradedIn(out.shown)'
    BY DEF DeliveredInv
  <2>1. CASE p = r
    BY <1>4, <2>1
  <2>2. CASE p # r
    <3>1. p \in SignedIn /\ out = req[p].out
      BY <1>2, <2>2
    <3> QED
      BY <1>3, <3>1
  <2> QED
    BY <2>1, <2>2

\* While its session lives, a handle that a client was given and has not traded
\* in is one the next refresh will find, when requests do not overlap: also
\* when the worker of an earlier refresh died before it answered.
THEOREM HubDelivered ==
  ASSUME ~Overlap
  PROVE  Spec => []DeliveredHandlesWork
<1>1. Init => DeliveredInv
  BY DEF Init, Blank, Plain, DeliveredInv, SignedIn
<1>2. /\ SerialInv /\ Blanks /\ PassedInv /\ HandlesInv
      /\ DeliveredInv /\ [Next]_vars
      => DeliveredInv'
  <2> SUFFICES ASSUME SerialInv, Blanks, PassedInv, HandlesInv, DeliveredInv,
                      [Next]_vars
               PROVE  DeliveredInv'
    OBVIOUS
  <2>1. ASSUME NEW r \in Request, Step(r) \/ Abandon(r)
        PROVE  DeliveredInv'
    <3>1. /\ Unanswered
          /\ HandleKnown(r)
          /\ req[r].pc # "done"
      BY <2>1, StepMoves DEF PassedInv, HandlesInv, SerialInv, Moves
    <3> QED
      BY <2>1, <3>1, HandlesStep, DeliveredAfter
  <2>2. CASE Tick \/ Quiet \/ UNCHANGED vars
    BY <2>2 DEF Tick, Quiet, vars, DeliveredInv, TradedIn, SignedIn
  <2> QED
    BY <2>1, <2>2 DEF Next
<1>3. DeliveredInv => DeliveredHandlesWork
  BY DEF DeliveredInv, DeliveredHandlesWork, SignedIn
<1> QED
  BY <1>1, <1>2, <1>3, SerialInvariance, TraceInvariance, PassedInvariance,
     HandlesInvariance, PTL
  DEF Spec

-----------------------------------------------------------------------------
(***************************************************************************)
(* The handles implement SessionLedger, step by step.                      *)
(***************************************************************************)
Tokens == {sessions[s].token : s \in DOMAIN sessions}

LEMMA LedgerState ==
  /\ DOMAIN OpenSessions = DOMAIN sessions
  /\ \A s \in DOMAIN sessions : OpenSessions[s].handle = sessions[s].token
  /\ Ledger!Current = Tokens
  /\ EndedSessions = (Seed \cup Sids) \ DOMAIN sessions
  /\ SpentHandles = Handles \ Tokens
<1>1. /\ DOMAIN OpenSessions = DOMAIN sessions
      /\ \A s \in DOMAIN sessions : OpenSessions[s].handle = sessions[s].token
  BY DEF OpenSessions
<1>2. Ledger!Current = Tokens
  BY <1>1 DEF Ledger!Current, Tokens
<1> QED
  BY <1>1, <1>2 DEF EndedSessions, Sids, SpentHandles, Tokens

LEMMA EndsLedger ==
  ASSUME HandlesInv, Ends
  PROVE  [Ledger!Next]_<<OpenSessions, EndedSessions, SpentHandles>>
<1> DEFINE gone == DOMAIN sessions \ DOMAIN sessions'
<1>1. /\ DOMAIN sessions' \subseteq DOMAIN sessions
      /\ \A s \in DOMAIN sessions' : sessions'[s] = sessions[s]
      /\ Handles' = Handles
      /\ Sids' = Sids
  BY HandlesGrow DEF Ends
<1>2. OpenSessions' = Restrict(OpenSessions, DOMAIN OpenSessions \ gone)
  BY <1>1 DEF OpenSessions, Restrict
<1>3. EndedSessions' = EndedSessions \cup gone
  <2>1. DOMAIN sessions \subseteq Seed \cup Sids
    BY DEF HandlesInv
  <2> QED
    BY <1>1, <2>1, LedgerState DEF EndedSessions, Sids
<1>4. SpentHandles' = SpentHandles \cup {OpenSessions[s].handle : s \in gone}
  <2>1. Tokens' = {sessions[s].token : s \in DOMAIN sessions'}
    BY <1>1 DEF Tokens
  <2>2. \A s \in gone : sessions[s].token \in Handles /\ sessions[s].token \notin Tokens'
    BY <1>1, <2>1 DEF HandlesInv
  <2>3. Tokens = Tokens' \cup {sessions[s].token : s \in gone}
    BY <1>1, <2>1 DEF Tokens
  <2>4. SpentHandles' = Handles \ Tokens'
    BY <1>1 DEF SpentHandles, Tokens
  <2>5. {OpenSessions[s].handle : s \in gone} = {sessions[s].token : s \in gone}
    BY LedgerState
  <2> QED
    BY <2>2, <2>3, <2>4, <2>5, LedgerState
<1>5. CASE gone # {}
  <2>1. gone \in SUBSET DOMAIN OpenSessions
    BY LedgerState
  <2>2. Ledger!End(gone)
    BY <1>2, <1>3, <1>4, LedgerState DEF Ledger!End, Ledger!Restrict, Restrict
  <2> QED
    BY <1>5, <2>1, <2>2 DEF Ledger!Next
<1>6. CASE gone = {}
  <2>1. DOMAIN sessions' = DOMAIN sessions
    BY <1>1, <1>6
  <2>2. OpenSessions' = OpenSessions
    BY <1>1, <2>1 DEF OpenSessions
  <2> QED
    BY <1>3, <1>4, <1>6, <2>2
<1> QED
  BY <1>5, <1>6

LEMMA OpensLedger ==
  ASSUME HandlesInv, NEW r \in Request, req[r].pc # "done", Opens(r)
  PROVE  [Ledger!Next]_<<OpenSessions, EndedSessions, SpentHandles>>
<1>1. /\ r \notin Seed
      /\ r \notin Handles
      /\ r \notin Sids
  BY NamesAssumption DEF HandlesInv, NoHandleYet
<1>2. r \notin DOMAIN sessions /\ r \notin Tokens
  BY <1>1 DEF HandlesInv, Tokens
<1>3. /\ DOMAIN sessions' = DOMAIN sessions \cup {r}
      /\ \A s \in DOMAIN sessions : sessions'[s] = sessions[s]
      /\ sessions'[r].token = r
      /\ Handles' = Handles \cup {r}
      /\ Sids' = Sids \cup {r}
  BY <1>2, HandlesGrowBy DEF Opens
<1>4. EndedSessions' = EndedSessions
  BY <1>1, <1>3, LedgerState DEF EndedSessions, Sids
<1>5. SpentHandles' = SpentHandles
  <2>1. Tokens' = Tokens \cup {r}
    BY <1>2, <1>3 DEF Tokens
  <2>2. SpentHandles' = Handles' \ Tokens'
    BY DEF SpentHandles, Tokens
  <2> QED
    BY <1>1, <1>3, <2>1, <2>2, LedgerState
<1>6. /\ DOMAIN OpenSessions' = DOMAIN OpenSessions \cup {r}
      /\ \A s \in DOMAIN OpenSessions : OpenSessions'[s] = OpenSessions[s]
      /\ OpenSessions'[r].handle = r
  BY <1>3 DEF OpenSessions
<1>7. OpenSessions' = [s \in DOMAIN OpenSessions \cup {r} |->
                         IF s = r THEN OpenSessions'[r] ELSE OpenSessions[s]]
  BY <1>6 DEF OpenSessions
<1>8. Ledger!Open(r, OpenSessions'[r])
  BY <1>1, <1>2, <1>4, <1>5, <1>6, <1>7, LedgerState DEF Ledger!Open
<1> QED
  BY <1>6, <1>8 DEF Ledger!Next

LEMMA RefreshesLedger ==
  ASSUME HandlesInv, NEW r \in Request, req[r].pc # "done",
         NEW s, Refreshes(r, s)
  PROVE  [Ledger!Next]_<<OpenSessions, EndedSessions, SpentHandles>>
<1>1. /\ r \notin Handles
      /\ s \in Seed \cup Sids
      /\ \A t \in DOMAIN sessions : sessions[t].token \in Handles
      /\ Tokens \subseteq Handles
  BY DEF HandlesInv, NoHandleYet, Refreshes, Tokens
<1>2. /\ s \in DOMAIN sessions
      /\ DOMAIN sessions' = DOMAIN sessions
      /\ \A t \in DOMAIN sessions \ {s} : sessions'[t] = sessions[t]
      /\ sessions'[s].user = sessions[s].user
  BY DEF Refreshes
<1>3. /\ Handles' = Handles \cup {sessions'[s].token}
      /\ Sids' = Sids \cup {s}
  BY HandlesGrowBy DEF Refreshes
<1>4. EndedSessions' = EndedSessions
  BY <1>1, <1>2, <1>3, LedgerState DEF EndedSessions, Sids
<1>5. SpentHandles' = Handles' \ Tokens'
  BY DEF SpentHandles, Tokens
<1>6. CASE sessions'[s].token = sessions[s].token
  <2>1. Tokens' = Tokens
    BY <1>2, <1>6 DEF Tokens
  <2>2. Handles' = Handles
    BY <1>1, <1>2, <1>3, <1>6
  <2>3. OpenSessions' = OpenSessions
    BY <1>2, <1>6 DEF OpenSessions
  <2> QED
    BY <1>4, <1>5, <2>1, <2>2, <2>3, LedgerState
<1>7. CASE sessions'[s].token = r
  <2>1. Tokens' = (Tokens \ {sessions[s].token}) \cup {r}
    <3>1. \A t \in DOMAIN sessions \ {s} : sessions[t].token # sessions[s].token
      BY <1>2 DEF HandlesInv
    <3> QED
      BY <1>2, <1>7, <3>1 DEF Tokens
  <2>2. SpentHandles' = SpentHandles \cup {sessions[s].token}
    <3>1. sessions[s].token \in Tokens
      BY <1>2 DEF Tokens
    <3> QED
      BY <1>1, <1>3, <1>5, <1>7, <2>1, <3>1, LedgerState
  <2>3. OpenSessions' = [OpenSessions EXCEPT ![s].handle = r]
    BY <1>2, <1>7 DEF OpenSessions
  <2>4. /\ OpenSessions'[s].handle = r
        /\ s \in DOMAIN OpenSessions \cap DOMAIN OpenSessions'
    BY <1>2, <1>7 DEF OpenSessions
  <2>5. Ledger!Rotate(s, r)
    BY <1>1, <1>2, <1>4, <2>2, <2>3, LedgerState DEF Ledger!Rotate
  <2> QED
    BY <2>4, <2>5 DEF Ledger!Next
<1> QED
  BY <1>6, <1>7 DEF Refreshes

\* One request at a time, the rows of hub_refresh_token and what the clients
\* hold implement the ledger: no session is opened twice, none comes back, and
\* a handle that was replaced never opens anything again. With SerialInv and
\* HandlesInv each step maps to an Open, a Rotate, an End or a stutter.
THEOREM HubHandlesLedgered ==
  ASSUME ~Overlap
  PROVE  Spec => HandlesAreLedgered
<1>1. Init => Ledger!Init
  BY LedgerState DEF Ledger!Init, EndedSessions, SpentHandles, Tokens
<1>2. /\ SerialInv /\ Blanks /\ PassedInv /\ HandlesInv /\ [Next]_vars
      => [Ledger!Next]_<<OpenSessions, EndedSessions, SpentHandles>>
  <2> SUFFICES ASSUME SerialInv, Blanks, PassedInv, HandlesInv, [Next]_vars
               PROVE  [Ledger!Next]_<<OpenSessions, EndedSessions,
                                      SpentHandles>>
    OBVIOUS
  <2>1. ASSUME NEW r \in Request, Step(r) \/ Abandon(r)
        PROVE  [Ledger!Next]_<<OpenSessions, EndedSessions, SpentHandles>>
    <3>1. /\ Unanswered
          /\ HandleKnown(r)
          /\ req[r].pc # "done"
      BY <2>1, StepMoves DEF PassedInv, HandlesInv, SerialInv, Moves
    <3> QED
      BY <2>1, <3>1, HandlesStep, EndsLedger, OpensLedger, RefreshesLedger
  <2>2. CASE Tick \/ Quiet \/ UNCHANGED vars
    <3>1. UNCHANGED <<sessions, req>>
      BY <2>2 DEF Tick, Quiet, vars
    <3> QED
      BY <3>1 DEF OpenSessions, EndedSessions, SpentHandles, Handles, SignedIn
  <2> QED
    BY <2>1, <2>2 DEF Next
<1> QED
  BY <1>1, <1>2, SerialInvariance, TraceInvariance, PassedInvariance,
     HandlesInvariance, PTL
  DEF Spec, HandlesAreLedgered, Ledger!Spec

-----------------------------------------------------------------------------
(***************************************************************************)
(* A recovery code is spent once.                                          *)
(***************************************************************************)
\* Only the look-up sends a request on to spend the code it found.
LEMMA FoundFirst ==
  ASSUME req \in [Request -> RequestState], NEW r \in Request, Step(r),
         ~FindCode(r)
  PROVE  req'[r].pc # "spendCode"
<1>a. CASE \E answer : Respond(r, answer)
  BY <1>a DEF Respond, Closed, Blank
<1>g. CASE \E pc \in AuthStatement \ {"spendCode"} : Goto(r, pc)
  BY <1>g, GotoFields
<1>1. CASE TotpStep(r)
  BY <1>1, TotpPcs DEF TotpStatement
<1>2. CASE HubUsersStep(r)
  BY <1>2, AdminPcs DEF AdminStatement
<1>3. CASE LoginStart(r) \/ RecoveryStart(r)
  <2>1. \/ \E answer : Respond(r, answer)
        \/ \E op, u : \E pc \in {"verify", "settle", "findCode"} :
             req' = [req EXCEPT ![r] = SignIn(op, pc, u)]
    BY <1>3 DEF LoginStart, RecoveryStart, Refuse
  <2>2. \A op, pc, u : SignIn(op, pc, u).pc = pc
    BY DEF SignIn, Loaded, Blank
  <2> QED
    BY <2>1, <2>2, <1>a
<1>4. CASE RefreshStart(r)
  <2>1. PICK handle \in Handles : req' = [req EXCEPT ![r] =
           [Opened("refresh", "findCurrent", NULL) EXCEPT !.handle = handle,
                                                          !.now = clock]]
    BY <1>4 DEF RefreshStart
  <2> QED
    BY <2>1 DEF Opened, Blank
<1>5. CASE FindCurrent(r) \/ FindPrevious(r)
  <2>1. \/ Refuse(r)
        \/ Goto(r, "findPrevious")
        \/ \E s : LoadSession(r, s)
    BY <1>5 DEF FindCurrent, FindPrevious
  <2>2. ASSUME NEW s, LoadSession(r, s)
        PROVE  req'[r].pc = "judge"
    BY <2>2 DEF LoadSession, RequestState
  <2> QED
    BY <2>1, <2>2, <1>a, <1>g DEF Refuse, AuthStatement
<1>6. CASE Judge(r) \/ SaveSelect(r)
  <2>1. \/ Goto(r, "dropRow")
        \/ Goto(r, "saveInsert")
        \/ \E ses : req' = [req EXCEPT ![r].pc = "saveSelect", ![r].ses = ses]
        \/ \E cols : req' = [req EXCEPT ![r].pc = "saveUpdate", ![r].cols = cols]
    BY <1>6 DEF Judge, SaveSelect
  <2> QED
    BY <2>1, <1>g DEF RequestState, AuthStatement
<1>7. CASE (ChangeForced(r) \/ ChangeOwn(r)) /\ ~Refuse(r)
  <2>1. \E u, new :
          \/ req' = [req EXCEPT ![r] =
               [Opened("changeForced", "setPassword", u) EXCEPT !.pw = new]]
          \/ req' = [req EXCEPT ![r] =
               [Loaded("changeOwn", "setPassword", u) EXCEPT !.pw = new]]
    BY <1>7 DEF ChangeForced, ChangeOwn
  <2> QED
    BY <2>1 DEF Opened, Loaded, Blank
<1>8. CASE \/ SpendCode(r) \/ Settle(r) \/ PurgeExpired(r) \/ CreateSession(r)
           \/ DropRow(r) \/ SaveUpdate(r) \/ SaveInsert(r)
           \/ Logout(r) \/ LogoutAll(r) \/ SetPassword(r) \/ Revoke(r)
           \/ Refuse(r)
  BY <1>8, <1>a, <1>g
  DEF SpendCode, Settle, PurgeExpired, CreateSession, DropRow, SaveUpdate,
      SaveInsert, AnswerRefresh, Logout, LogoutAll, SetPassword, Revoke, Refuse,
      AuthStatement
<1> QED
  BY <1>1, <1>2, <1>3, <1>4, <1>5, <1>6, <1>7, <1>8 DEF Step, AuthStep

\* And the statement that follows spends it.
LEMMA SpendNext ==
  ASSUME NEW r \in Request, Step(r), req[r].pc = "spendCode"
  PROVE  SpendCode(r)
<1>1. ~TotpStep(r)
  BY
  DEF TotpStep, Admit, At, SetupStart, StoreSecret, EnableStart,
      RegenerateStart, DisableStart, VerifyAccepts, VerifyRejects, Burn,
      SetEnabled, ClearTotp, DropCodes, IssueCodes
<1>2. ~HubUsersStep(r)
  BY
  DEF HubUsersStep, Admit, At, InviteStart, InsertUser, UpdateProfileStart,
      CheckEmail, SetAccessLevelStart, ToggleStatusStart, CountAdmins,
      ResetPasswordStart, SelectUser, UpdateUser, ReinsertUser, ResetTotpStart,
      ClearFactor, ClearCodes, SetTotpRequiredStart, StoreRequired,
      RemoveStart, RevokeUser, DeleteUser
<1>3. AuthStep(r)
  BY <1>1, <1>2 DEF Step
<1> QED
  BY <1>3
  DEF AuthStep, Admit, At, LoginStart, RecoveryStart, FindCode,
      Settle, PurgeExpired, CreateSession, RefreshStart, FindCurrent,
      FindPrevious, Judge, DropRow, SaveSelect, SaveUpdate, SaveInsert, Logout,
      LogoutAll, ChangeForced, ChangeOwn, SetPassword, Revoke

\* A spent code never becomes unused, and a new one is named after the request
\* that issues it.
LEMMA SpentStays ==
  ASSUME SerialInv, NEW r \in Request, Step(r), NEW c \in DOMAIN codes',
         c[1] # r
  PROVE  c \in DOMAIN codes /\ (codes[c].used => codes'[c].used)
<1> DEFINE q == req[r]
<1>0. \A d \in DOMAIN codes : codes[d] \in CodeRow
  BY DEF SerialInv, RowsInv, TypeOK
<1>1. CASE SpendCode(r)
  <2>1. codes' = Updated(codes, q.code, [codes[q.code] EXCEPT !.used = TRUE])
    BY <1>1 DEF SpendCode
  <2> QED
    BY <2>1, <1>0 DEF Updated, CodeRow
<1>2. CASE IssueCodes(r) /\ codes' # codes
  <2>1. codes' = Insert(codes, Batch(r), [user |-> q.uid, used |-> FALSE])
    BY <1>2 DEF IssueCodes
  <2>2. c \notin Batch(r)
    BY DEF Batch
  <2> QED
    BY <2>1, <2>2 DEF Insert
<1>3. CASE DropCodes(r) \/ ClearCodes(r) \/ DeleteUser(r)
  BY <1>3 DEF DropCodes, ClearCodes, DeleteUser, Delete, Restrict
<1>4. CASE codes' = codes
  BY <1>4
<1> QED
  BY <1>1, <1>2, <1>3, <1>4, CodesWriters

LEMMA SpendAfter ==
  ASSUME ~Overlap, SerialInv, Blanks, NewCodes, SpendInv, NEW r \in Request,
         Step(r)
  PROVE  SpendInv'
<1> DEFINE q == req[r]
<1>0. /\ req \in [Request -> RequestState]
      /\ \A d \in DOMAIN codes : codes[d] \in CodeRow /\ d \in CodeId
      /\ OthersRest(r)
      /\ q.pc # "done"
      /\ \A p \in Request \ {r} : req'[p] = req[p]
  BY StepMoves, StepsAlone DEF SerialInv, RowsInv, TypeOK, Moves
<1>1. \A p \in Request \ {r} : req[p].pc # "spendCode"
  BY <1>0 DEF OthersRest, Resting
<1>2. ASSUME NEW p \in Request, req[p].code # NULL, req'[p].code = req[p].code,
             req[p].pc # "spendCode", req'[p].pc # "spendCode"
      PROVE  LET c == req'[p].code IN
               /\ c[1] \in Request => req'[c[1]].pc = "done"
               /\ c \in DOMAIN codes' => codes'[c].used
  <2>1. req[p].code[1] # r
    BY <1>0, <1>2 DEF SpendInv, CodeHeld
  <2>2. req[p].code \in DOMAIN codes => codes[req[p].code].used
    BY <1>2 DEF SpendInv, CodeHeld
  <2> QED
    BY <2>1, <2>2, <1>0, <1>2, SpentStays DEF SpendInv, CodeHeld
<1>3. CASE FindCode(r) /\ req'[r].pc = "spendCode"
  <2>1. PICK c \in UnusedCodesOf(q.uid) :
               req' = [req EXCEPT ![r].pc = "spendCode", ![r].code = c]
    <3>1. ~Refuse(r)
      BY <1>3, <1>0 DEF Refuse, Respond, Closed, Blank
    <3> QED
      BY <1>3, <3>1 DEF FindCode
  <2>2. /\ codes' = codes
        /\ c \in DOMAIN codes
        /\ ~codes[c].used
        /\ req'[r].code = c
    <3>1. codes' = codes
      BY <1>3 DEF FindCode, tables
    <3>2. c \in DOMAIN codes /\ ~codes[c].used
      BY DEF UnusedCodesOf, CodesOf
    <3>3. req'[r].code = c
      BY <2>1, <1>0 DEF RequestState
    <3> QED
      BY <3>1, <3>2, <3>3
  <2>3. c[1] \in Request => c[1] # r /\ req[c[1]].pc = "done"
    BY <2>2, <1>0 DEF NewCodes
  <2>4. \A p \in Request \ {r} : req[p].code # c
    BY <2>2, <1>1, <1>0, NullAssumption DEF SpendInv, CodeHeld
  <2>5. CodeHeld(r)'
    BY <2>2, <2>3, <2>4, <1>0, <1>3 DEF CodeHeld
  <2>6. ASSUME NEW p \in Request \ {r}
        PROVE  CodeHeld(p)'
    BY <2>2, <2>4, <2>6, <1>0, <1>1, <1>2 DEF SpendInv, CodeHeld
  <2> QED
    BY <2>5, <2>6 DEF SpendInv
<1>4. CASE req'[r].code = q.code /\ req'[r].pc # "spendCode"
  <2>1. ASSUME NEW p \in Request \ {r}
        PROVE  CodeHeld(p)'
    BY <2>1, <1>0, <1>1, <1>2, <1>4 DEF SpendInv, CodeHeld
  <2>2. CASE q.pc = "spendCode"
    <3>1. SpendCode(r)
      BY <2>2, SpendNext
    <3>2. q.code \in DOMAIN codes
      BY <2>2 DEF SpendInv, CodeHeld
    <3>3. codes' = [codes EXCEPT ![q.code] = [codes[q.code] EXCEPT !.used = TRUE]]
      BY <3>1, <3>2 DEF SpendCode, Updated
    <3>4. codes'[q.code].used
      BY <3>2, <3>3, <1>0 DEF CodeRow
    <3>5. q.code # NULL
      BY <3>2, <1>0, NullAssumption
    <3>6. q.code[1] \in Request => q.code[1] # r /\ req[q.code[1]].pc = "done"
      BY <3>5, <1>0 DEF SpendInv, CodeHeld
    <3> QED
      BY <2>1, <3>4, <3>5, <3>6, <1>0, <1>4 DEF SpendInv, CodeHeld
  <2>3. CASE q.pc # "spendCode"
    <3>1. CodeHeld(r)'
      BY <2>3, <1>0, <1>2, <1>4 DEF SpendInv, CodeHeld
    <3> QED
      BY <2>1, <3>1 DEF SpendInv
  <2> QED
    BY <2>2, <2>3
<1>5. \/ FindCode(r) /\ req'[r].pc = "spendCode"
      \/ req'[r].code = q.code /\ req'[r].pc # "spendCode"
  <2>1. CASE FindCode(r)
    <3>1. CASE Refuse(r)
      BY <3>1, <1>0 DEF Refuse, Respond, Closed, Blank
    <3>2. CASE ~Refuse(r)
      BY <2>1, <3>2, <1>0 DEF FindCode, RequestState
    <3> QED
      BY <3>1, <3>2
  <2>2. CASE ~FindCode(r)
    <3>1. req'[r].pc # "spendCode"
      BY <2>2, <1>0, FoundFirst
    <3>2. req'[r].code = q.code
      BY <2>2, StepTraced DEF SerialInv, Traced
    <3> QED
      BY <3>1, <3>2
  <2> QED
    BY <2>1, <2>2
<1> QED
  BY <1>3, <1>4, <1>5

\* Each recovery code completes at most one sign-in, when requests do not
\* overlap and no worker dies between the look-up and the UPDATE, whatever is
\* reissued, reset or deleted in between. With one look-up at a time the code
\* that is found is unused, and one that somebody holds is used or gone.
THEOREM HubRecoveryOnce ==
  ASSUME ~Overlap, ~Crashes
  PROVE  Spec => []RecoveryCodeSpentOnce
<1>1. Init => NewCodes /\ CodesOwned /\ SpendInv
  <2> SUFFICES ASSUME Init
               PROVE  NewCodes /\ CodesOwned /\ SpendInv
    OBVIOUS
  <2>1. PICK p \in Population : users = p.users /\ codes = p.codes
    BY DEF Init
  <2>2. /\ DOMAIN codes \subseteq Seed \X (1..CodeCount)
        /\ CodesOwned
    BY <2>1, PopulationAssumption DEF WellFormed, CodesOwned
  <2>3. NewCodes
    BY <2>2, NamesAssumption DEF NewCodes
  <2>4. \A r \in Request : req[r].pc = "idle" /\ req[r].code = NULL
    BY DEF Init, Blank
  <2> QED
    BY <2>2, <2>3, <2>4 DEF SpendInv, CodeHeld
<1>2. /\ SerialInv /\ Blanks /\ NewCodes /\ CodesOwned /\ SpendInv /\ [Next]_vars
      => NewCodes' /\ CodesOwned' /\ SpendInv'
  <2> SUFFICES ASSUME SerialInv, Blanks, NewCodes, CodesOwned, SpendInv,
                      [Next]_vars
               PROVE  NewCodes' /\ CodesOwned' /\ SpendInv'
    OBVIOUS
  <2>1. CASE \E r \in Request : Step(r)
    BY <2>1, CodeRowsAfter, SpendAfter
  <2>2. CASE Tick \/ Quiet \/ UNCHANGED vars
    <3>1. users' = users /\ codes' = codes /\ req' = req
      BY <2>2 DEF Tick, Quiet, vars
    <3> QED
      BY <3>1 DEF NewCodes, CodesOwned, SpendInv, CodeHeld
  <2>3. ~\E r \in Request : Abandon(r)
    BY DEF Abandon
  <2> QED
    BY <2>1, <2>2, <2>3 DEF Next
<1>3. SpendInv => RecoveryCodeSpentOnce
  BY DEF SpendInv, CodeHeld, RecoveryCodeSpentOnce
<1> QED
  BY <1>1, <1>2, <1>3, SerialInvariance, TraceInvariance, PTL DEF Spec
=============================================================================
