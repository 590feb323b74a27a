--------------------------- MODULE HubUsersService ---------------------------
(***************************************************************************)
(* What an administrator does to accounts.  Most writes load the row, set  *)
(* a field on the loaded entity and save() it; the others are UPDATEs by   *)
(* id.  Every route needs a token of level ADMIN.                          *)
(***************************************************************************)
EXTENDS HubTables

\* The request has done its part: an answer, or one more statement.
Finish(r, pc) ==
  IF pc = "done" THEN Respond(r, Plain("done")) ELSE Goto(r, pc)
-----------------------------------------------------------------------------
(***************************************************************************)
(* invite(), and create() behind it.                                       *)
(***************************************************************************)
\* An account without an access level (see TypeOK).
NewUserWithoutLevel(email, pw, level, required) ==
  [email |-> email, pw |-> pw, level |-> NULL, active |-> TRUE,
   first |-> TRUE, required |-> required, secret |-> NULL,
   enabled |-> FALSE, last |-> 0]

NewUser(email, pw, level, required) ==
  [email |-> email, pw |-> pw, level |-> level, active |-> TRUE,
   first |-> TRUE, required |-> required, secret |-> NULL,
   enabled |-> FALSE, last |-> 0]

EmailTaken(email, others) ==
  \E u \in DOMAIN users \cap others : users[u].email = email

\* The temporary password is fresh, the default one is shared.
InviteStart(r) ==
  \E t \in Bearers("create", "ADMIN"), email \in Emails, level \in HubAccessLevel,
     required \in BOOLEAN, pw \in {r, DefaultPassword} :
    /\ Admit(r, "invite")
    /\ \/ /\ EmailTaken(email, Name)
          /\ Refuse(r)
       \/ /\ ~EmailTaken(email, Name)
          /\ req' = [req EXCEPT ![r] = [Opened("invite", "insertUser", r)
                       EXCEPT !.usr = NewUser(email, pw, level, required)]]
    /\ UNCHANGED tables

\* The unique index on email decides between two invitations.
InsertUser(r) ==
  /\ At(r, "insertUser")
  /\ LET row == req[r].usr IN
     \/ /\ ~EmailTaken(row.email, Name)
        /\ users' = Insert(users, {r}, row)
        /\ Respond(r, Plain("done"))
     \/ /\ EmailTaken(row.email, Name)
        /\ Respond(r, Plain("failed"))
        /\ UNCHANGED users
  /\ UNCHANGED <<sessions, codes, tokens, clock, revoked>>
-----------------------------------------------------------------------------
(***************************************************************************)
(* assertNotLastActiveAdmin().                                             *)
(***************************************************************************)
ActiveAdmin(row) == row.level = "ADMIN" /\ row.active

ActiveAdmins == {u \in DOMAIN users : ActiveAdmin(users[u])}

\* A count that forgets isActive (see SomeoneAdministers).
OtherAdmins(u) == {v \in DOMAIN users : users[v].level = "ADMIN"} \ {u}

OtherActiveAdmins(u) == ActiveAdmins \ {u}

CountAdmins(r) ==
  /\ At(r, "countAdmins")
  /\ \/ /\ OtherActiveAdmins(req[r].uid) = {}
        /\ Refuse(r)
     \/ /\ OtherActiveAdmins(req[r].uid) # {}
        /\ Goto(r, IF req[r].op = "remove" THEN "revokeUser" ELSE "selectUser")
  /\ UNCHANGED tables

\* Whether the count is taken depends on the row as it was loaded.
Guarded(u, next) == IF ActiveAdmin(users[u]) THEN "countAdmins" ELSE next
-----------------------------------------------------------------------------
(***************************************************************************)
(* The handlers that save() the loaded entity.                             *)
(***************************************************************************)
\* An administrator may not demote, deactivate or delete themselves.
OthersOnly(token, id) == id # token.sub /\ id \in DOMAIN users

UpdateProfileStart(r) ==
  \E t \in Bearers("update", "ADMIN"), id \in Targets, email \in OrNull(Emails) :
    /\ Admit(r, "updateProfile")
    /\ \/ /\ id \notin DOMAIN users
          /\ Refuse(r)
       \/ /\ id \in DOMAIN users
          /\ email = NULL     \* only the name or the mobile is given
          /\ req' = [req EXCEPT ![r] = Loaded("updateProfile", "selectUser", id)]
       \/ /\ id \in DOMAIN users
          /\ email # NULL
          /\ req' = [req EXCEPT ![r] = [Loaded("updateProfile", "checkEmail", id)
                                          EXCEPT !.usr.email = email]]
    /\ UNCHANGED tables

CheckEmail(r) ==
  /\ At(r, "checkEmail")
  /\ LET taken == EmailTaken(req[r].usr.email, Name \ {req[r].uid}) IN
     \/ taken /\ Refuse(r)
     \/ ~taken /\ Goto(r, "selectUser")
  /\ UNCHANGED tables

SetAccessLevelStart(r) ==
  \E t \in Bearers("setAccessLevel", "ADMIN"), id \in Targets,
     level \in HubAccessLevel :
    /\ Admit(r, "setAccessLevel")
    /\ \/ /\ ~OthersOnly(t, id)
          /\ Refuse(r)
       \/ /\ OthersOnly(t, id)
          /\ req' = [req EXCEPT ![r] =
               [Loaded("setAccessLevel",
                       IF level = "ADMIN" THEN "selectUser"
                                          ELSE Guarded(id, "selectUser"), id)
                  EXCEPT !.usr.level = level]]
    /\ UNCHANGED tables

ToggleStatusStart(r) ==
  \E t \in Bearers("toggleStatus", "ADMIN"), id \in Targets :
    /\ Admit(r, "toggleStatus")
    /\ \/ /\ ~OthersOnly(t, id)
          /\ Refuse(r)
       \/ /\ OthersOnly(t, id)
          /\ req' = [req EXCEPT ![r] =
               [Loaded("toggleStatus", Guarded(id, "selectUser"), id)
                  EXCEPT !.usr.active = ~@]]
    /\ UNCHANGED tables

ResetPasswordStart(r) ==
  \E t \in Bearers("resetPassword", "ADMIN"), id \in Targets,
     pw \in {r, DefaultPassword} :
    /\ Admit(r, "resetPassword")
    /\ \/ /\ id \notin DOMAIN users
          /\ Refuse(r)
       \/ /\ id \in DOMAIN users
          /\ req' = [req EXCEPT ![r] = [Loaded("resetPassword", "selectUser", id)
                                  EXCEPT !.usr.pw = pw, !.usr.first = TRUE]]
    /\ UNCHANGED tables

(* save(): as for sessions, over the columns of hub_user.                  *)
UserColumns == {"email", "pw", "level", "active", "first", "required",
                "secret", "enabled", "last"}

MergeUser(row, copy, cols) ==
  [email    |-> IF "email"    \in cols THEN copy.email    ELSE row.email,
   pw       |-> IF "pw"       \in cols THEN copy.pw       ELSE row.pw,
   level    |-> IF "level"    \in cols THEN copy.level    ELSE row.level,
   active   |-> IF "active"   \in cols THEN copy.active   ELSE row.active,
   first    |-> IF "first"    \in cols THEN copy.first    ELSE row.first,
   required |-> IF "required" \in cols THEN copy.required ELSE row.required,
   secret   |-> IF "secret"   \in cols THEN copy.secret   ELSE row.secret,
   enabled  |-> IF "enabled"  \in cols THEN copy.enabled  ELSE row.enabled,
   last     |-> IF "last"     \in cols THEN copy.last     ELSE row.last]

\* A new bcrypt hash differs from the old one of the very same password.
FreshHash(r) == IF req[r].op = "resetPassword" THEN {"pw"} ELSE {}

SelectUser(r) ==
  /\ At(r, "selectUser")
  /\ LET q == req[r] IN
     \/ /\ q.uid \in DOMAIN users
        /\ req' = [req EXCEPT
             ![r].pc = "updateUser",
             ![r].cols = {c \in UserColumns : q.usr[c] # users[q.uid][c]}
                           \cup FreshHash(r)]
     \/ /\ q.uid \notin DOMAIN users
        /\ Goto(r, "reinsertUser")
  /\ UNCHANGED tables

\* A reset that leaves the sessions (see NoSessionBeforePasswordChange and
\* SessionsMatchPassword).
AfterSaveToggleOnly(q) ==
  IF q.op = "toggleStatus" /\ ~q.usr.active THEN "revokeUser" ELSE "done"

\* toggleStatus() revokes when it deactivated, resetPassword() always.
AfterSave(q) ==
  IF q.op = "resetPassword" \/ (q.op = "toggleStatus" /\ ~q.usr.active)
    THEN "revokeUser" ELSE "done"

UpdateUser(r) ==
  /\ At(r, "updateUser")
  /\ LET q == req[r]
         clash == "email" \in q.cols /\ EmailTaken(q.usr.email, Name \ {q.uid})
     IN
     \/ /\ ~clash
        /\ users' = Updated(users, q.uid, MergeUser(users[q.uid], q.usr, q.cols))
        /\ Finish(r, AfterSave(q))
     \/ /\ clash
        /\ Respond(r, Plain("failed"))
        /\ UNCHANGED users
  /\ UNCHANGED <<sessions, codes, tokens, clock, revoked>>

ReinsertUser(r) ==
  /\ At(r, "reinsertUser")
  /\ LET q == req[r]
         clash == q.uid \in DOMAIN users \/ EmailTaken(q.usr.email, Name)
     IN
     \/ /\ ~clash
        /\ users' = Insert(users, {q.uid}, q.usr)
        /\ Finish(r, AfterSave(q))
     \/ /\ clash
        /\ Respond(r, Plain("failed"))
        /\ UNCHANGED users
  /\ UNCHANGED <<sessions, codes, tokens, clock, revoked>>
-----------------------------------------------------------------------------
(***************************************************************************)
(* resetTotp(), setTotpRequired() and remove(): statements by id.          *)
(***************************************************************************)
ResetTotpStart(r) ==
  \E t \in Bearers("resetTotp", "ADMIN"), id \in Targets :
    /\ Admit(r, "resetTotp")
    /\ \/ /\ id \notin DOMAIN users
          /\ Refuse(r)
       \/ /\ id \in DOMAIN users
          /\ req' = [req EXCEPT ![r] = Loaded("resetTotp", "clearFactor", id)]
    /\ UNCHANGED tables

\* The enrolment stamp is left behind (see PairingConfirmed).
UnpairedButEnabled(row) == [row EXCEPT !.secret = NULL, !.last = 0]

\* A reset that leaves the secret for the next pairing (see CodesOnce).
UnpairedButKept(row) == [row EXCEPT !.enabled = FALSE, !.last = 0]

Unpaired(row) == [row EXCEPT !.secret = NULL, !.enabled = FALSE, !.last = 0]

ClearFactor(r) ==
  /\ At(r, "clearFactor")
  /\ users' = Updated(users, req[r].uid, Unpaired(users[req[r].uid]))
  /\ Goto(r, "clearCodes")
  /\ UNCHANGED <<sessions, codes, tokens, clock, revoked>>

HadTotpState(row) == row.enabled \/ row.secret # NULL

\* The used codes stay (see OneWholeSet).
ClearUnusedCodes(r) ==
  /\ At(r, "clearCodes")
  /\ codes' = Delete(codes, UnusedCodesOf(req[r].uid))
  /\ Finish(r, IF HadTotpState(req[r].usr) THEN "revokeUser" ELSE "done")
  /\ UNCHANGED <<users, sessions, tokens, clock, revoked>>

ClearCodes(r) ==
  /\ At(r, "clearCodes")
  /\ codes' = Delete(codes, CodesOf(req[r].uid))
  /\ Finish(r, IF HadTotpState(req[r].usr) THEN "revokeUser" ELSE "done")
  /\ UNCHANGED <<users, sessions, tokens, clock, revoked>>

SetTotpRequiredStart(r) ==
  \E t \in Bearers("setTotpRequired", "ADMIN"), id \in Targets,
     required \in BOOLEAN :
    /\ Admit(r, "setTotpRequired")
    /\ \/ /\ id \notin DOMAIN users
          /\ Refuse(r)
       \/ /\ id \in DOMAIN users
          /\ users[id].required = required
          /\ Respond(r, Plain("done"))
       \/ /\ id \in DOMAIN users
          /\ users[id].required # required
          /\ req' = [req EXCEPT ![r] = [Loaded("setTotpRequired", "storeRequired", id)
                                          EXCEPT !.usr.required = required]]
    /\ UNCHANGED tables

\* Sessions of an account that is now made to pair are revoked.
AfterRequired(row) ==
  IF row.required /\ ~row.enabled THEN "revokeUser" ELSE "done"

StoreRequired(r) ==
  /\ At(r, "storeRequired")
  /\ LET q == req[r] IN
     /\ users' = Updated(users, q.uid,
                         [users[q.uid] EXCEPT !.required = q.usr.required])
     /\ Finish(r, AfterRequired(q.usr))
  /\ UNCHANGED <<sessions, codes, tokens, clock, revoked>>

RemoveStart(r) ==
  \E t \in Bearers("remove", "ADMIN"), id \in Targets :
    /\ Admit(r, "remove")
    /\ \/ /\ ~OthersOnly(t, id)
          /\ Refuse(r)
       \/ /\ OthersOnly(t, id)
          /\ req' = [req EXCEPT ![r] = Loaded("remove", Guarded(id, "revokeUser"), id)]
    /\ UNCHANGED tables

\* revokeSessions(), the tail of four handlers and the middle of remove().
RevokeUser(r) ==
  /\ At(r, "revokeUser")
  /\ EndSessions(SessionsOf(req[r].uid))
  /\ Finish(r, IF req[r].op = "remove" THEN "deleteUser" ELSE "done")
  /\ UNCHANGED <<users, codes, tokens, clock>>

\* The foreign keys cascade to the sessions and the recovery codes.
DeleteUser(r) ==
  /\ At(r, "deleteUser")
  /\ users' = Delete(users, {req[r].uid})
  /\ EndSessions(SessionsOf(req[r].uid))
  /\ codes' = Delete(codes, CodesOf(req[r].uid))
  /\ Respond(r, Plain("done"))
  /\ UNCHANGED <<tokens, clock>>
-----------------------------------------------------------------------------
HubUsersStep(r) ==
  \/ InviteStart(r) \/ InsertUser(r)
  \/ UpdateProfileStart(r) \/ CheckEmail(r)
  \/ SetAccessLevelStart(r) \/ ToggleStatusStart(r) \/ CountAdmins(r)
  \/ ResetPasswordStart(r)
  \/ SelectUser(r) \/ UpdateUser(r) \/ ReinsertUser(r)
  \/ ResetTotpStart(r) \/ ClearFactor(r) \/ ClearCodes(r)
  \/ SetTotpRequiredStart(r) \/ StoreRequired(r)
  \/ RemoveStart(r) \/ RevokeUser(r) \/ DeleteUser(r)

HubUsersNext ==
  \/ \E r \in Request : HubUsersStep(r) \/ Abandon(r)
  \/ Tick
  \/ Quiet

HubUsersSpec == Init /\ [][HubUsersNext]_vars
=============================================================================
