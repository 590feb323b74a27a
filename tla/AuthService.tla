----------------------------- MODULE AuthService -----------------------------
(***************************************************************************)
(* Sign-in, the rotating session handles, sign-out and password changes,   *)
(* together with the second-factor operations they share rows with.        *)
(***************************************************************************)
EXTENDS TotpService

\* Access tokens are signed from the loaded copy of the account.
Sign(u, row, scope) ==
  tokens' = tokens \cup {[sub |-> u, access |-> row.level, scope |-> scope]}

SessionAnswer(s, handle, given) ==
  [kind |-> "session", shown |-> handle, sid |-> s, given |-> given]

\* The requests that were answered with a session.
SignedIn == {r \in Request : req[r].out.kind = "session"}

\* The handles clients hold: the initial ones and those in an answer.
Handles == Seed \cup {req[r].out.shown : r \in SignedIn}

\* A password the client types: any it may have heard of.
Password == Name

\* What a client picks as its new password.
NewPassword(r) == {r, DefaultPassword}
-----------------------------------------------------------------------------
(***************************************************************************)
(* login(): password and status, then the second factor when enrolled.     *)
(* The typed identifier is abstracted to the account it matches.           *)
(***************************************************************************)
PasswordAccepted(u, password) ==
  /\ u \in DOMAIN users
  /\ users[u].pw = password
  /\ users[u].active

\* loginWithRecoveryCode() is for enrolled accounts only.
RecoveryAccepted(u, password) ==
  PasswordAccepted(u, password) /\ users[u].enabled

\* Two-factor below the first-login branch (see SecondFactorFirst).
NeedsCodeUnlessFirst(row) == row.enabled /\ ~row.first

NeedsCode(row) == row.enabled

SignIn(op, pc, u) == [Loaded(op, pc, u) EXCEPT !.pw = users[u].pw]

LoginStart(r) ==
  \E u \in Targets, password \in Password, withCode \in BOOLEAN :
    /\ Admit(r, "login")
    /\ \/ /\ ~PasswordAccepted(u, password)
          /\ Refuse(r)
       \/ /\ PasswordAccepted(u, password)
          /\ NeedsCode(users[u])
          /\ ~withCode
          /\ Respond(r, Plain("challenge"))
       \/ /\ PasswordAccepted(u, password)
          /\ NeedsCode(users[u])
          /\ withCode
          /\ req' = [req EXCEPT ![r] = SignIn("login", "verify", u)]
       \/ /\ PasswordAccepted(u, password)
          /\ ~NeedsCode(users[u])
          /\ req' = [req EXCEPT ![r] = SignIn("login", "settle", u)]
    /\ UNCHANGED tables

RecoveryStart(r) ==
  \E u \in Targets, password \in Password :
    /\ Admit(r, "recovery")
    /\ \/ /\ ~RecoveryAccepted(u, password)
          /\ Refuse(r)
       \/ /\ RecoveryAccepted(u, password)
          /\ req' = [req EXCEPT ![r] = SignIn("recovery", "findCode", u)]
    /\ UNCHANGED tables

(* consumeRecoveryCode(): the unused rows are read, then the row that      *)
(* matches the typed code is marked.                                       *)
FindCode(r) ==
  /\ At(r, "findCode")
  /\ \/ \E c \in UnusedCodesOf(req[r].uid) :
          req' = [req EXCEPT ![r].pc = "spendCode", ![r].code = c]
     \/ Refuse(r)
  /\ UNCHANGED tables

SpendCode(r) ==
  /\ At(r, "spendCode")
  /\ codes' = Updated(codes, req[r].code,
                      [codes[req[r].code] EXCEPT !.used = TRUE])
  /\ Goto(r, "settle")
  /\ UNCHANGED <<users, sessions, tokens, clock, revoked>>
-----------------------------------------------------------------------------
(***************************************************************************)
(* Both factors are settled: a restricted token, or a session.             *)
(***************************************************************************)
MustChangePassword(row) == row.first

MustPair(row) == row.required /\ ~row.enabled

Settle(r) ==
  /\ At(r, "settle")
  /\ LET q == req[r] IN
     \/ /\ MustChangePassword(q.usr)
        /\ Sign(q.uid, q.usr, "password")
        /\ Respond(r, Plain("stub"))
     \/ /\ ~MustChangePassword(q.usr)
        /\ MustPair(q.usr)
        /\ Sign(q.uid, q.usr, "totp")
        /\ Respond(r, Plain("stub"))
     \/ /\ ~MustChangePassword(q.usr)
        /\ ~MustPair(q.usr)
        /\ Goto(r, "purge")
        /\ UNCHANGED tokens
  /\ UNCHANGED <<users, sessions, codes, clock, revoked>>

ExpiredSessionsOf(u) == {s \in SessionsOf(u) : sessions[s].expires < clock}

PurgeExpired(r) ==
  /\ At(r, "purge")
  /\ sessions' = Delete(sessions, ExpiredSessionsOf(req[r].uid))
  /\ Goto(r, "createSession")
  /\ UNCHANGED <<users, codes, tokens, clock, revoked>>

\* A session whose grace window is null, not a time (see TypeOK).
NewSessionNullGrace(r) ==
  [user |-> req[r].uid, token |-> r, prev |-> NULL, prevExp |-> NULL,
   expires |-> clock + RefreshLife, under |-> req[r].pw]

NewSession(r) ==
  [user |-> req[r].uid, token |-> r, prev |-> NULL, prevExp |-> 0,
   expires |-> clock + RefreshLife, under |-> req[r].pw]

\* createRefreshToken(): the foreign key fails when the account is gone.
CreateSession(r) ==
  /\ At(r, "createSession")
  /\ LET q == req[r] IN
     \/ /\ q.uid \in DOMAIN users
        /\ sessions' = Insert(sessions, {r}, NewSession(r))
        /\ Sign(q.uid, q.usr, "full")
        /\ Respond(r, SessionAnswer(r, r, NULL))
     \/ /\ q.uid \notin DOMAIN users
        /\ Respond(r, Plain("failed"))
        /\ UNCHANGED <<sessions, tokens>>
  /\ UNCHANGED <<users, codes, clock, revoked>>
-----------------------------------------------------------------------------
(***************************************************************************)
(* refreshSession().                                                       *)
(***************************************************************************)
RefreshStart(r) ==
  \E handle \in Handles :
    /\ Admit(r, "refresh")
    /\ req' = [req EXCEPT ![r] = [Opened("refresh", "findCurrent", NULL) EXCEPT
                                    !.handle = handle, !.now = clock]]
    /\ UNCHANGED tables

\* findOne() with the account joined in.
LoadSession(r, s) ==
  req' = [req EXCEPT ![r].pc = "judge", ![r].sid = s, ![r].ses = sessions[s],
                     ![r].uid = sessions[s].user,
                     ![r].usr = users[sessions[s].user]]

HoldersOf(handle) == {s \in DOMAIN sessions : sessions[s].token = handle}

InGrace(handle, now) ==
  {s \in DOMAIN sessions :
     sessions[s].prev = handle /\ sessions[s].prevExp > now}

FindCurrent(r) ==
  /\ At(r, "findCurrent")
  /\ \/ \E s \in HoldersOf(req[r].handle) : LoadSession(r, s)
     \/ /\ HoldersOf(req[r].handle) = {}
        /\ Goto(r, "findPrevious")
  /\ UNCHANGED tables

\* A lookup that tries again until it finds the row (see RequestsAnswered).
FindPreviousRetrying(r) ==
  /\ At(r, "findPrevious")
  /\ LET found == InGrace(req[r].handle, req[r].now) IN
     \/ \E s \in found : LoadSession(r, s)
     \/ found = {} /\ Goto(r, "findCurrent")
  /\ UNCHANGED tables

FindPrevious(r) ==
  /\ At(r, "findPrevious")
  /\ LET found == InGrace(req[r].handle, req[r].now) IN
     \/ \E s \in found : LoadSession(r, s)
     \/ found = {} /\ Refuse(r)
  /\ UNCHANGED tables

\* The checks that end a session instead of refreshing it.
Spent(q) ==
  \/ q.now > q.ses.expires
  \/ q.usr.first
  \/ MustPair(q.usr)
  \/ ~q.usr.active

Rotated(r, ses, now) ==
  [ses EXCEPT !.prev = ses.token, !.prevExp = now + Grace, !.token = r]

Prolonged(ses) == [ses EXCEPT !.expires = clock + RefreshLife]

\* A replay inside the grace window keeps the handle the row rotated to.
Judge(r) ==
  /\ At(r, "judge")
  /\ LET q == req[r] IN
     \/ Spent(q) /\ Goto(r, "dropRow")
     \/ /\ ~Spent(q)
        /\ req' = [req EXCEPT
             ![r].pc = "saveSelect",
             ![r].ses = Prolonged(IF q.ses.token = q.handle
                                    THEN Rotated(r, q.ses, q.now) ELSE q.ses)]
  /\ UNCHANGED tables

DropRow(r) ==
  /\ At(r, "dropRow")
  /\ sessions' = Delete(sessions, {req[r].sid})
  /\ Refuse(r)
  /\ UNCHANGED <<users, codes, tokens, clock, revoked>>

(* save(): SELECT by id, then UPDATE the columns in which the loaded       *)
(* entity differs from the row just read, or INSERT it when there is none. *)
\* A save() that misses the rotated handle (see DeliveredHandlesWork).
SessionColumnsWithoutToken == {"prev", "prevExp", "expires"}

SessionColumns == {"token", "prev", "prevExp", "expires"}

\* Times just computed differ from the row by milliseconds, if not by ticks.
FreshTimes(r) ==
  IF req[r].ses.token = r THEN {"prevExp", "expires"} ELSE {"expires"}

SaveSelect(r) ==
  /\ At(r, "saveSelect")
  /\ LET q == req[r] IN
     \/ /\ q.sid \in DOMAIN sessions
        /\ req' = [req EXCEPT
             ![r].pc = "saveUpdate",
             ![r].cols = {c \in SessionColumns : q.ses[c] # sessions[q.sid][c]}
                           \cup FreshTimes(r)]
     \/ /\ q.sid \notin DOMAIN sessions
        /\ Goto(r, "saveInsert")
  /\ UNCHANGED tables

Merge(row, copy, cols) ==
  [row EXCEPT !.token   = IF "token"   \in cols THEN copy.token   ELSE @,
              !.prev    = IF "prev"    \in cols THEN copy.prev    ELSE @,
              !.prevExp = IF "prevExp" \in cols THEN copy.prevExp ELSE @,
              !.expires = IF "expires" \in cols THEN copy.expires ELSE @]

\* The answer is made from the entity in memory, whatever the row holds.
AnswerRefresh(r) ==
  /\ Sign(req[r].uid, req[r].usr, "full")
  /\ Respond(r, SessionAnswer(req[r].sid, req[r].ses.token, req[r].handle))

SaveUpdate(r) ==
  /\ At(r, "saveUpdate")
  /\ LET q == req[r] IN
     sessions' = Updated(sessions, q.sid, Merge(sessions[q.sid], q.ses, q.cols))
  /\ AnswerRefresh(r)
  /\ UNCHANGED <<users, codes, clock, revoked>>

SaveInsert(r) ==
  /\ At(r, "saveInsert")
  /\ LET q == req[r] IN
     \/ /\ q.sid \notin DOMAIN sessions
        /\ q.uid \in DOMAIN users
        /\ sessions' = Insert(sessions, {q.sid}, q.ses)
        /\ AnswerRefresh(r)
     \/ /\ q.sid \in DOMAIN sessions \/ q.uid \notin DOMAIN users
        /\ Respond(r, Plain("failed"))
        /\ UNCHANGED <<sessions, tokens>>
  /\ UNCHANGED <<users, codes, clock, revoked>>
-----------------------------------------------------------------------------
(***************************************************************************)
(* logout() and logoutAll().                                               *)
(***************************************************************************)
Logout(r) ==
  \E handle \in Handles :
    /\ Admit(r, "logout")
    /\ EndSessions(HoldersOf(handle))
    /\ Respond(r, Plain("done"))
    /\ UNCHANGED <<users, codes, tokens, clock>>

LogoutAll(r) ==
  \E t \in Bearers("logoutAll", "VIEW") :
    /\ Admit(r, "logoutAll")
    /\ EndSessions(SessionsOf(t.sub))
    /\ Respond(r, Plain("done"))
    /\ UNCHANGED <<users, codes, tokens, clock>>
-----------------------------------------------------------------------------
(***************************************************************************)
(* changePassword() and changePasswordWithCurrent().                       *)
(***************************************************************************)
ChangeForced(r) ==
  \E t \in Bearers("changePassword", "VIEW"), new \in NewPassword(r) :
    /\ Admit(r, "changeForced")
    /\ t.scope = "password"
    /\ req' = [req EXCEPT ![r] =
                 [Opened("changeForced", "setPassword", t.sub) EXCEPT !.pw = new]]
    /\ UNCHANGED tables

MayChange(u, current, new) ==
  /\ u \in DOMAIN users
  /\ users[u].pw = current
  /\ current # new

ChangeOwn(r) ==
  \E t \in Bearers("changePassword", "VIEW"), current \in Password,
     new \in NewPassword(r) :
    /\ Admit(r, "changeOwn")
    /\ t.scope # "password"
    /\ \/ /\ ~MayChange(t.sub, current, new)
          /\ Refuse(r)
       \/ /\ MayChange(t.sub, current, new)
          /\ req' = [req EXCEPT ![r] = [Loaded("changeOwn", "setPassword", t.sub)
                                          EXCEPT !.pw = new]]
    /\ UNCHANGED tables

WithPassword(row, pw) == [row EXCEPT !.pw = pw, !.first = FALSE]

SetPassword(r) ==
  /\ At(r, "setPassword")
  /\ LET q == req[r] IN
     users' = Updated(users, q.uid, WithPassword(users[q.uid], q.pw))
  /\ Goto(r, "revoke")
  /\ UNCHANGED <<sessions, codes, tokens, clock, revoked>>

\* Every session of the account, the caller's own included.
Revoke(r) ==
  /\ At(r, "revoke")
  /\ EndSessions(SessionsOf(req[r].uid))
  /\ \/ /\ req[r].op = "changeOwn"
        /\ Goto(r, "createSession")
     \/ /\ req[r].op # "changeOwn"
        /\ Respond(r, Plain("done"))
  /\ UNCHANGED <<users, codes, tokens, clock>>
-----------------------------------------------------------------------------
AuthStep(r) ==
  \/ LoginStart(r) \/ RecoveryStart(r) \/ FindCode(r) \/ SpendCode(r)
  \/ Settle(r) \/ PurgeExpired(r) \/ CreateSession(r)
  \/ RefreshStart(r) \/ FindCurrent(r) \/ FindPrevious(r) \/ Judge(r)
  \/ DropRow(r) \/ SaveSelect(r) \/ SaveUpdate(r) \/ SaveInsert(r)
  \/ Logout(r) \/ LogoutAll(r)
  \/ ChangeForced(r) \/ ChangeOwn(r) \/ SetPassword(r) \/ Revoke(r)

AuthNext ==
  \/ \E r \in Request : TotpStep(r) \/ AuthStep(r) \/ Abandon(r)
  \/ Tick
  \/ Quiet

AuthSpec == Init /\ [][AuthNext]_vars
-----------------------------------------------------------------------------
(***************************************************************************)
(* Properties.                                                             *)
(***************************************************************************)
\* A session that was signed out or revoked while no refresh was holding a
\* copy of it never comes back: no save() resurrects its row.
RevokedStaysRevoked == revoked \cap DOMAIN sessions = {}

\* A delivered handle has been traded in: some later refresh presented it
\* and was answered with another.
TradedIn(handle) ==
  \E q \in Request : /\ req[q].out.kind = "session"
                    /\ req[q].out.given = handle
                    /\ req[q].out.shown # handle

\* While its session lives, a handle that a client was given and has not
\* traded in is one the next refresh will find.
DeliveredHandlesWork ==
  \A r \in Request :
    LET out == req[r].out IN
      /\ out.kind = "session"
      /\ out.sid \in DOMAIN sessions
      => \/ out.shown \in {sessions[out.sid].token, sessions[out.sid].prev}
         \/ TradedIn(out.shown)

\* One request at a time, the session handles implement their specification:
\* what is over is every session a client has heard of and that has no row.
OpenSessions ==
  [s \in DOMAIN sessions |->
     [user |-> sessions[s].user, handle |-> sessions[s].token]]

EndedSessions ==
  (Seed \cup {req[r].out.sid : r \in SignedIn}) \ DOMAIN sessions

SpentHandles == Handles \ {sessions[s].token : s \in DOMAIN sessions}

Ledger == INSTANCE SessionLedger
            WITH open <- OpenSessions, ended <- EndedSessions,
                 spent <- SpentHandles

HandlesAreLedgered == Ledger!Spec

\* Between requests, every session of an account was minted under the
\* password the account has now.
SessionsMatchPassword ==
  InFlight = {} =>
    \A s \in DOMAIN sessions :
      sessions[s].under = users[sessions[s].user].pw

\* A recovery code completes at most one sign-in.
RecoveryCodeSpentOnce ==
  \A p, q \in Request :
    /\ p # q
    /\ req[p].code # NULL
    /\ req[p].code = req[q].code
    => "spendCode" \in {req[p].pc, req[q].pc}

\* No token leaves sign-in for an account whose loaded row is enrolled unless
\* the request has got a code accepted or spent a recovery code.
SecondFactorFirst ==
  [][\A r \in Request :
       /\ req[r].op \in {"login", "recovery"}
       /\ req'[r].out.kind \in {"stub", "session"}
       /\ req[r].usr.enabled
       => req[r].accepted # NULL \/ req[r].code # NULL]_vars

\* Every request that has begun ends: with an answer, or with its worker.
RequestsAnswered ==
  \A r \in Request : r \in InFlight ~> At(r, "done")
=============================================================================
