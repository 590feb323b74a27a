--------------------------- MODULE Accounts_proofs ---------------------------
(***************************************************************************)
(* What stays true of the accounts when requests do not overlap, for any   *)
(* number of them: somebody administers the hub, a second factor is one    *)
(* that was confirmed, its recovery codes are one whole set, and no code   *)
(* of it passes twice.                                                     *)
(***************************************************************************)
EXTENDS HubBackend_proofs

-----------------------------------------------------------------------------
(***************************************************************************)
(* Accounts come from invitations only, each with an id of its own.        *)
(***************************************************************************)
\* An account named after a request is the one it invited.
NewIds == \A r \in Request : r \in DOMAIN users => req[r].pc = "done"

LEMMA AccountsAfter ==
  ASSUME SerialInv, NEW r \in Request, Step(r)
  PROVE  \/ DOMAIN users' \subseteq DOMAIN users
         \/ /\ InsertUser(r)
            /\ DOMAIN users' = DOMAIN users \cup {r}
            /\ req'[r].pc = "done"
<1>1. CASE InsertUser(r)
  BY <1>1
  DEF InsertUser, Insert, Respond, Closed, Blank, SerialInv, RowsInv, TypeOK
<1>2. CASE DeleteUser(r)
  BY <1>2 DEF DeleteUser, Delete, Restrict
<1>3. ~ReinsertUser(r)
  BY DEF ReinsertUser, At, SerialInv, Known, RowThere
<1> QED
  BY <1>1, <1>2, <1>3, UsersWriters
  DEF StoreSecret, Burn, SetEnabled, ClearTotp, SetPassword, UpdateUser,
      ClearFactor, StoreRequired, Updated

LEMMA NewIdsInvariance ==
  ASSUME ~Overlap
  PROVE  Spec => []NewIds
<1>1. Init => NewIds
  <2> SUFFICES ASSUME Init PROVE NewIds
    OBVIOUS
  <2>1. PICK p \in Population : users = p.users
    BY DEF Init
  <2>2. DOMAIN users \subseteq Seed
    BY <2>1, PopulationAssumption DEF WellFormed
  <2> QED
    BY <2>2, NamesAssumption DEF NewIds
<1>2. SerialInv /\ NewIds /\ [Next]_vars => NewIds'
  <2> SUFFICES ASSUME SerialInv, NewIds, [Next]_vars
               PROVE  NewIds'
    OBVIOUS
  <2>1. ASSUME NEW r \in Request, Step(r) \/ Abandon(r)
        PROVE  NewIds'
    <3>1. /\ req[r].pc # "done"
          /\ \A p \in Request \ {r} : req'[p] = req[p]
      BY <2>1, StepMoves DEF SerialInv, Moves
    <3>2. \/ DOMAIN users' \subseteq DOMAIN users
          \/ DOMAIN users' = DOMAIN users \cup {r} /\ req'[r].pc = "done"
      BY <2>1, AccountsAfter DEF Abandon, tables
    <3> QED
      BY <3>1, <3>2 DEF NewIds
  <2>2. CASE Tick \/ Quiet \/ UNCHANGED vars
    BY <2>2 DEF Tick, Quiet, vars, NewIds
  <2> QED
    BY <2>1, <2>2 DEF Next
<1> QED
  BY <1>1, <1>2, SerialInvariance, PTL DEF Spec

-----------------------------------------------------------------------------
(***************************************************************************)
(* Somebody administers.                                                   *)
(***************************************************************************)
\* Whoever may lose the level, the status or the account is not the last one.
NotTheLast(r) ==
  LET q == req[r] IN
    /\ q.pc \in {"checkEmail", "selectUser", "updateUser"} =>
         ActiveAdmin(q.usr) \/ OtherActiveAdmins(q.uid) # {}
    /\ q.pc = "deleteUser" \/ (q.pc = "revokeUser" /\ q.op = "remove") =>
         OtherActiveAdmins(q.uid) # {}
    /\ q.pc \in {"checkEmail", "selectUser", "updateUser", "clearFactor",
                 "clearCodes", "storeRequired"} => q.op # "remove"

AdminsInv == SomeoneAdministers /\ \A r \in Request : NotTheLast(r)

LEMMA AdminsKept ==
  ASSUME NEW u, NEW row, users' = Updated(users, u, row),
         u \in DOMAIN users => /\ row.level = users[u].level
                               /\ row.active = users[u].active
  PROVE  DOMAIN users' = DOMAIN users /\ ActiveAdmins' = ActiveAdmins
<1>1. DOMAIN users' = DOMAIN users
  BY DEF Updated
<1>2. \A v \in DOMAIN users : /\ users'[v].level = users[v].level
                              /\ users'[v].active = users[v].active
  BY DEF Updated
<1> QED
  BY <1>1, <1>2 DEF ActiveAdmins, ActiveAdmin

\* Only save() and the last statement of remove() can cost the hub an
\* administrator, and an invitation never overwrites an account.
LEMMA AdminsAfter ==
  ASSUME SerialInv, NewIds, AdminsInv, NEW r \in Request, Step(r)
  PROVE  \/ DOMAIN users' = DOMAIN users /\ ActiveAdmins' = ActiveAdmins
         \/ InsertUser(r) /\ ActiveAdmins \subseteq ActiveAdmins'
         \/ /\ UpdateUser(r)
            /\ DOMAIN users' = DOMAIN users
            /\ ActiveAdmins' # {}
         \/ /\ DeleteUser(r)
            /\ DOMAIN users' \subseteq DOMAIN users
            /\ ActiveAdmins' # {}
<1> DEFINE q == req[r]
<1>0. /\ q \in RequestState
      /\ users \in [DOMAIN users -> UserRow]
      /\ \A u \in DOMAIN users : users[u] \in UserRow
      /\ Known(r)
  BY DEF SerialInv, RowsInv, TypeOK
<1>1. CASE users' = users
  BY <1>1 DEF ActiveAdmins
<1>2. ASSUME NEW row, users' = Updated(users, q.uid, row),
             q.uid \in DOMAIN users => /\ row.level = users[q.uid].level
                                       /\ row.active = users[q.uid].active
      PROVE  DOMAIN users' = DOMAIN users /\ ActiveAdmins' = ActiveAdmins
  BY <1>2, AdminsKept
<1>3. CASE StoreSecret(r)
  BY <1>3, <1>2, <1>0 DEF StoreSecret, WithSecret, UserRow
<1>4. CASE Burn(r)
  <2>1. CASE q.uid \in DOMAIN users
                /\ users' = Updated(users, q.uid, [users[q.uid] EXCEPT !.last = q.step])
    BY <2>1, <1>2, <1>0 DEF UserRow
  <2> QED
    BY <2>1, <1>1, <1>4 DEF Burn, Burnable, Updated
<1>5. CASE SetEnabled(r)
  BY <1>5, <1>2, <1>0 DEF SetEnabled, UserRow
<1>6. CASE ClearTotp(r)
  BY <1>6, <1>2, <1>0 DEF ClearTotp, WithoutTotp, UserRow
<1>7. CASE SetPassword(r)
  BY <1>7, <1>2, <1>0 DEF SetPassword, WithPassword, UserRow
<1>8. CASE ClearFactor(r)
  BY <1>8, <1>2, <1>0 DEF ClearFactor, Unpaired, UserRow
<1>9. CASE StoreRequired(r)
  BY <1>9, <1>2, <1>0 DEF StoreRequired, UserRow
<1>10. CASE InsertUser(r)
  <2>1. r \notin DOMAIN users
    BY <1>10 DEF InsertUser, At, NewIds
  <2>2. /\ DOMAIN users \subseteq DOMAIN users'
        /\ \A u \in DOMAIN users : users'[u] = users[u]
    BY <2>1, <1>10 DEF InsertUser, Insert
  <2> QED
    BY <2>2, <1>10 DEF ActiveAdmins
<1>11. CASE UpdateUser(r)
  <2>1. /\ q.pc = "updateUser"
        /\ q.uid \in DOMAIN users
        /\ MergeUser(users[q.uid], q.usr, q.cols) = q.usr
        /\ ActiveAdmin(q.usr) \/ OtherActiveAdmins(q.uid) # {}
    BY <1>11, <1>0
    DEF UpdateUser, At, Known, RowThere, OnAccount, CopyIsEdited, AdminsInv,
        NotTheLast
  <2>2. CASE users' = Updated(users, q.uid, q.usr)
    <3>1. /\ DOMAIN users' = DOMAIN users
          /\ users'[q.uid] = q.usr
          /\ \A v \in DOMAIN users \ {q.uid} : users'[v] = users[v]
      BY <2>1, <2>2, UpdatedRow
    <3>2. ActiveAdmins' # {}
      BY <3>1, <2>1 DEF OtherActiveAdmins, ActiveAdmins
    <3> QED
      BY <3>1, <3>2, <1>11
  <2> QED
    BY <2>1, <2>2, <1>1, <1>11 DEF UpdateUser
<1>12. CASE DeleteUser(r)
  <2>1. OtherActiveAdmins(q.uid) # {}
    BY <1>12 DEF DeleteUser, At, AdminsInv, NotTheLast
  <2>2. /\ DOMAIN users' = DOMAIN users \ {q.uid}
        /\ \A v \in DOMAIN users' : users'[v] = users[v]
    BY <1>12 DEF DeleteUser, Delete, Restrict
  <2>3. ActiveAdmins' # {}
    BY <2>1, <2>2 DEF OtherActiveAdmins, ActiveAdmins
  <2> QED
    BY <2>2, <2>3, <1>12
<1>13. ~ReinsertUser(r)
  BY <1>0 DEF ReinsertUser, At, Known, RowThere
<1> QED
  BY <1>1, <1>3, <1>4, <1>5, <1>6, <1>7, <1>8, <1>9, <1>10, <1>11, <1>12, <1>13,
     UsersWriters

\* Where a request may next stand, and what the copy it holds then leaves.
LEMMA NotTheLastAfter ==
  ASSUME SerialInv, AdminsInv, NEW r \in Request, Step(r)
  PROVE  NotTheLast(r)'
<1> DEFINE q == req[r]
<1>0. /\ req \in [Request -> RequestState]
      /\ users \in [DOMAIN users -> UserRow]
      /\ NotTheLast(r)
      /\ ActiveAdmins # {}
  BY DEF SerialInv, RowsInv, TypeOK, AdminsInv, SomeoneAdministers
<1>o. \A u \in DOMAIN users :
        ActiveAdmin(users[u]) \/ OtherActiveAdmins(u) # {}
  BY <1>0 DEF ActiveAdmins, OtherActiveAdmins
<1>u. CASE req'[r].pc \notin
             {"checkEmail", "selectUser", "updateUser", "deleteUser",
              "revokeUser", "clearFactor", "clearCodes", "storeRequired"}
  BY <1>u DEF NotTheLast
<1>a. CASE \E answer : Respond(r, answer)
  BY <1>a, <1>0, <1>u, RespondRests DEF Resting
<1>1. CASE TotpStep(r)
  BY <1>1, <1>0, <1>u, TotpPcs DEF TotpStatement
<1>2. CASE AuthStep(r)
  BY <1>2, <1>0, <1>u, AuthPcs DEF AuthStatement
<1>3. CASE InviteStart(r) /\ ~Refuse(r)
  <2>1. PICK row : req' = [req EXCEPT ![r] =
                     [Opened("invite", "insertUser", r) EXCEPT !.usr = row]]
    BY <1>3 DEF InviteStart
  <2>2. req'[r].pc = "insertUser"
    BY <2>1, <1>0 DEF Opened, Blank
  <2> QED
    BY <2>2, <1>u
<1>4. CASE /\ \/ UpdateProfileStart(r) \/ SetAccessLevelStart(r)
              \/ ToggleStatusStart(r) \/ ResetPasswordStart(r)
           /\ ~Refuse(r)
  <2>1. /\ users' = users
        /\ req'[r].pc \in {"countAdmins", "checkEmail", "selectUser"}
        /\ req'[r].op \in {"updateProfile", "setAccessLevel", "toggleStatus",
                           "resetPassword"}
        /\ req'[r].uid \in DOMAIN users
        /\ req'[r].pc # "countAdmins" /\ ActiveAdmin(users[req'[r].uid])
             => ActiveAdmin(req'[r].usr)
    BY <1>4, <1>0, EditStarts
  <2> QED
    BY <2>1, <1>o DEF NotTheLast, OtherActiveAdmins, ActiveAdmins
<1>5. CASE (CheckEmail(r) \/ CountAdmins(r)) /\ ~Refuse(r)
  <2>1. \/ q.pc = "checkEmail" /\ Goto(r, "selectUser")
        \/ /\ OtherActiveAdmins(q.uid) # {}
           /\ q.op = "remove" /\ Goto(r, "revokeUser")
        \/ /\ OtherActiveAdmins(q.uid) # {}
           /\ q.op # "remove" /\ Goto(r, "selectUser")
    BY <1>5 DEF CheckEmail, CountAdmins, At
  <2>2. users' = users
    BY <1>5 DEF CheckEmail, CountAdmins, tables
  <2>3. /\ req'[r].op = q.op
        /\ req'[r].uid = q.uid
        /\ req'[r].usr = q.usr
        /\ \A pc : Goto(r, pc) => req'[r].pc = pc
    BY <2>1, <1>0, GotoFields
  <2> QED
    BY <2>1, <2>2, <2>3, <1>0 DEF NotTheLast, OtherActiveAdmins, ActiveAdmins
<1>6. CASE SelectUser(r)
  <2>1. \/ Goto(r, "reinsertUser")
        \/ \E cols : req' = [req EXCEPT ![r].pc = "updateUser", ![r].cols = cols]
    BY <1>6 DEF SelectUser
  <2>2. q.pc = "selectUser" /\ users' = users
    BY <1>6 DEF SelectUser, At, tables
  <2>3. /\ req'[r].pc \in {"reinsertUser", "updateUser"}
        /\ req'[r].op = q.op
        /\ req'[r].uid = q.uid
        /\ req'[r].usr = q.usr
    BY <2>1, <1>0, GotoFields DEF RequestState
  <2> QED
    BY <2>2, <2>3, <1>0 DEF NotTheLast, OtherActiveAdmins, ActiveAdmins
<1>7. CASE \/ UpdateUser(r) \/ ReinsertUser(r) \/ ClearCodes(r)
           \/ StoreRequired(r) \/ ClearFactor(r)
  <2>1. ~ReinsertUser(r)
    BY DEF SerialInv, Known, RowThere, ReinsertUser, At
  <2>2. q.op # "remove"
    BY <2>1, <1>7, <1>0
    DEF NotTheLast, UpdateUser, ClearCodes, StoreRequired, ClearFactor, At
  <2>3. \/ \E answer : Respond(r, answer)
        \/ \E pc \in {"revokeUser", "clearCodes"} : Goto(r, pc)
    BY <2>1, <1>7
    DEF UpdateUser, ClearCodes, StoreRequired, ClearFactor, Finish, AfterSave,
        AfterRequired
  <2>4. CASE \E pc \in {"revokeUser", "clearCodes"} : Goto(r, pc)
    <3>1. req'[r].op # "remove" /\ req'[r].pc \in {"revokeUser", "clearCodes"}
      BY <2>4, <2>2, <1>0, GotoFields
    <3> QED
      BY <3>1 DEF NotTheLast
  <2> QED
    BY <2>3, <2>4, <1>a
<1>8. CASE \/ ResetTotpStart(r)
           \/ SetTotpRequiredStart(r) /\ ~Respond(r, Plain("done"))
  <2>1. \/ Refuse(r)
        \/ \E u : req' = [req EXCEPT ![r] = Loaded("resetTotp", "clearFactor", u)]
        \/ \E u, flag : req' = [req EXCEPT ![r] =
             [Loaded("setTotpRequired", "storeRequired", u)
                EXCEPT !.usr.required = flag]]
    BY <1>8 DEF ResetTotpStart, SetTotpRequiredStart
  <2>2. CASE \E u : req' = [req EXCEPT ![r] = Loaded("resetTotp", "clearFactor", u)]
    <3>1. req'[r].op = "resetTotp" /\ req'[r].pc = "clearFactor"
      BY <2>2, <1>0, LoadedFields
    <3> QED
      BY <3>1 DEF NotTheLast
  <2>3. CASE \E u, flag : req' = [req EXCEPT ![r] =
               [Loaded("setTotpRequired", "storeRequired", u)
                  EXCEPT !.usr.required = flag]]
    <3>1. req'[r].op = "setTotpRequired" /\ req'[r].pc = "storeRequired"
      BY <2>3, <1>0 DEF Loaded, Blank
    <3> QED
      BY <3>1 DEF NotTheLast
  <2> QED
    BY <2>1, <2>2, <2>3, <1>a DEF Refuse
<1>9. CASE RemoveStart(r) /\ ~Refuse(r)
  <2>1. PICK u \in DOMAIN users, pc \in {"revokeUser", "countAdmins"} :
          /\ pc = "countAdmins" \/ ~ActiveAdmin(users[u])
          /\ req' = [req EXCEPT ![r] = Loaded("remove", pc, u)]
    BY <1>9 DEF RemoveStart, OthersOnly, Guarded
  <2>2. users' = users
    BY <1>9 DEF RemoveStart, tables
  <2>3. req'[r].pc = pc /\ req'[r].uid = u
    BY <2>1, <1>0, LoadedFields
  <2> QED
    BY <2>1, <2>2, <2>3, <1>o DEF NotTheLast, OtherActiveAdmins, ActiveAdmins
<1>10. CASE RevokeUser(r)
  <2>1. CASE q.op = "remove" /\ Goto(r, "deleteUser")
    <3>1. q.pc = "revokeUser" /\ users' = users
      BY <1>10 DEF RevokeUser, At
    <3>2. /\ req'[r].pc = "deleteUser"
          /\ req'[r].uid = q.uid
          /\ OtherActiveAdmins(q.uid) # {}
      BY <2>1, <3>1, <1>0, GotoFields DEF NotTheLast
    <3> QED
      BY <3>1, <3>2 DEF NotTheLast, OtherActiveAdmins, ActiveAdmins
  <2> QED
    BY <2>1, <1>a, <1>10 DEF RevokeUser, Finish
<1>11. CASE InsertUser(r) \/ DeleteUser(r)
  BY <1>11, <1>a DEF InsertUser, DeleteUser
<1> QED
  BY <1>1, <1>2, <1>3, <1>4, <1>5, <1>6, <1>7, <1>8, <1>9, <1>10, <1>11, <1>a
  DEF Step, HubUsersStep, Refuse

LEMMA AdminsStep ==
  ASSUME ~Overlap, SerialInv, NewIds, AdminsInv, [Next]_vars
  PROVE  AdminsInv'
<1>1. ASSUME NEW r \in Request, Step(r)
      PROVE  AdminsInv'
  <2>1. OthersRest(r)
    BY <1>1, StepsAlone DEF SerialInv
  <2>2. SomeoneAdministers'
    BY <1>1, AdminsAfter DEF AdminsInv, SomeoneAdministers
  <2>3. ASSUME NEW p \in Request
        PROVE  NotTheLast(p)'
    <3>1. CASE p = r
      BY <3>1, <1>1, NotTheLastAfter
    <3>2. CASE p # r
      BY <3>2, <2>1 DEF OthersRest, Resting, NotTheLast
    <3> QED
      BY <3>1, <3>2
  <2> QED
    BY <2>2, <2>3 DEF AdminsInv
<1>2. ASSUME NEW r \in Request, Abandon(r)
      PROVE  AdminsInv'
  <2>1. users' = users /\ Respond(r, Plain("lost"))
    BY <1>2 DEF Abandon, tables
  <2>2. Resting(r)' /\ OthersRest(r)
    BY <2>1, <1>2, RespondRests, StepsAlone DEF SerialInv, RowsInv, TypeOK
  <2>3. \A p \in Request : NotTheLast(p)'
    BY <2>2 DEF OthersRest, Resting, NotTheLast
  <2> QED
    BY <2>1, <2>3 DEF AdminsInv, SomeoneAdministers, ActiveAdmins
<1>3. CASE Tick \/ Quiet \/ UNCHANGED vars
  BY <1>3
  DEF Tick, Quiet, vars, AdminsInv, SomeoneAdministers, ActiveAdmins,
      NotTheLast, OtherActiveAdmins
<1> QED
  BY <1>1, <1>2, <1>3 DEF Next

LEMMA InitAdmins ==
  ASSUME Init, SomeoneAdministers
  PROVE  AdminsInv
<1>1. \A r \in Request : req[r].pc = "idle"
  BY DEF Init, Blank
<1> QED
  BY <1>1 DEF AdminsInv, NotTheLast

\* A hub that somebody administers stays one, whatever demotions,
\* deactivations and removals administrators ask for and wherever workers
\* die, as long as no two of those requests overlap:
\* assertNotLastActiveAdmin() counts before the write it guards.
THEOREM HubAdministered ==
  ASSUME ~Overlap
  PROVE  Spec /\ SomeoneAdministers => []SomeoneAdministers
<1>1. Init /\ SomeoneAdministers => AdminsInv
  BY InitAdmins
<1>2. SerialInv /\ NewIds /\ AdminsInv /\ [Next]_vars => AdminsInv'
  BY AdminsStep
<1>3. AdminsInv => SomeoneAdministers
  BY DEF AdminsInv
<1> QED
  BY <1>1, <1>2, <1>3, SerialInvariance, NewIdsInvariance, PTL DEF Spec

-----------------------------------------------------------------------------
(***************************************************************************)
(* The second factor is one that was confirmed.                            *)
(***************************************************************************)
Confirmed(secret) ==
  \/ secret \in Seed
  \/ \E r \in Request : req[r].accepted # NULL /\ req[r].accepted.secret = secret

\* An accepted code is never forgotten.
LEMMA ConfirmedStays ==
  ASSUME RowsInv, Blanks, Unclaimed, NEW r \in Request, Step(r) \/ Abandon(r),
         NEW secret, Confirmed(secret)
  PROVE  Confirmed(secret)'
<1>1. Traced(r) /\ Moves(r)
  BY StepTraced, StepMoves
<1>2. Burn(r) => req[r].accepted = NULL
  BY DEF Burn, At, Unclaimed
<1>3. \A p \in Request :
        req[p].accepted # NULL => req'[p].accepted = req[p].accepted
  BY <1>1, <1>2 DEF Traced, Moves
<1> QED
  BY <1>3 DEF Confirmed

\* Who is enrolled after a statement was enrolled before, with the same secret,
\* or has just confirmed it.
LEMMA EnrolledAfter ==
  ASSUME SerialInv, NEW r \in Request, Step(r), NEW u \in DOMAIN users',
         users'[u].enabled
  PROVE  \/ /\ u \in DOMAIN users
            /\ users[u].enabled
            /\ users'[u].secret = users[u].secret
         \/ Confirmed(users'[u].secret)
<1> DEFINE q == req[r]
<1>0. /\ q \in RequestState
      /\ users \in [DOMAIN users -> UserRow]
      /\ \A v \in DOMAIN users : users[v] \in UserRow
      /\ Known(r)
  BY DEF SerialInv, RowsInv, TypeOK
<1>1. CASE u \in DOMAIN users /\ users'[u] = users[u]
  BY <1>1
<1>2. ASSUME NEW row, users' = Updated(users, q.uid, row), u = q.uid,
             /\ row.enabled => users[u].enabled
             /\ row.enabled => row.secret = users[u].secret
      PROVE  u \in DOMAIN users /\ users[u].enabled /\ users'[u].secret = users[u].secret
  BY <1>2 DEF Updated
<1>3. ASSUME NEW row, users' = Updated(users, q.uid, row), u # q.uid
      PROVE  u \in DOMAIN users /\ users'[u] = users[u]
  BY <1>3 DEF Updated
<1> DEFINE Same(row) == /\ row.enabled => users[u].enabled
                        /\ row.enabled => row.secret = users[u].secret
<1>4. ASSUME NEW row, users' = Updated(users, q.uid, row),
             q.uid \in DOMAIN users /\ u = q.uid => Same(row)
      PROVE  \/ u \in DOMAIN users /\ users'[u] = users[u]
             \/ /\ u \in DOMAIN users
                /\ users[u].enabled
                /\ users'[u].secret = users[u].secret
  BY <1>4 DEF Updated
<1>5. CASE StoreSecret(r)
  <2>1. users[q.uid].enabled = FALSE /\ q.uid \in DOMAIN users
    BY <1>5, <1>0
    DEF StoreSecret, At, Known, RowThere, OnAccount, FactorChecked, UserRow
  <2>2. WithSecret(users[q.uid], r).enabled = FALSE
    BY <2>1, <1>0 DEF WithSecret, UserRow
  <2> QED
    BY <2>2, <1>4, <1>5 DEF StoreSecret
<1>6. CASE Burn(r)
  <2>1. CASE users' = Updated(users, q.uid, [users[q.uid] EXCEPT !.last = q.step])
    <3>1. q.uid \in DOMAIN users => Same([users[q.uid] EXCEPT !.last = q.step]) \/ u # q.uid
      BY <1>0 DEF UserRow
    <3> QED
      BY <2>1, <3>1, <1>4
  <2> QED
    BY <2>1, <1>1, <1>6 DEF Burn, Burnable, Updated
<1>7. CASE SetEnabled(r)
  <2>1. /\ q.uid \in DOMAIN users
        /\ q.accepted # NULL
        /\ q.accepted.secret = users[q.uid].secret
        /\ users' = Updated(users, q.uid, [users[q.uid] EXCEPT !.enabled = TRUE])
    BY <1>7, <1>0
    DEF SetEnabled, At, Known, RowThere, OnAccount, FactorChecked
  <2>2. CASE u = q.uid
    <3>1. users'[u] = [users[u] EXCEPT !.enabled = TRUE]
      BY <2>1, <2>2, UpdatedRow
    <3>2. users'[u].secret = users[u].secret
      BY <3>1, <2>1, <2>2, <1>0 DEF UserRow
    <3> QED
      BY <2>1, <2>2, <3>2 DEF Confirmed
  <2> QED
    BY <2>1, <2>2, <1>1, <1>3
<1>8. CASE ClearTotp(r)
  <2>1. q.uid \in DOMAIN users => ~WithoutTotp(users[q.uid]).enabled
    BY <1>0 DEF WithoutTotp, UserRow
  <2> QED
    BY <2>1, <1>8, <1>4 DEF ClearTotp
<1>9. CASE ClearFactor(r)
  <2>1. q.uid \in DOMAIN users => ~Unpaired(users[q.uid]).enabled
    BY <1>0 DEF Unpaired, UserRow
  <2> QED
    BY <2>1, <1>9, <1>4 DEF ClearFactor
<1>10. CASE SetPassword(r)
  <2>1. q.uid \in DOMAIN users /\ u = q.uid => Same(WithPassword(users[q.uid], q.pw))
    BY <1>0 DEF WithPassword, UserRow
  <2> QED
    BY <2>1, <1>10, <1>4 DEF SetPassword
<1>11. CASE StoreRequired(r)
  <2>1. q.uid \in DOMAIN users /\ u = q.uid
          => Same([users[q.uid] EXCEPT !.required = q.usr.required])
    BY <1>0 DEF UserRow
  <2> QED
    BY <2>1, <1>11, <1>4 DEF StoreRequired
<1>12. CASE UpdateUser(r)
  <2>1. /\ q.uid \in DOMAIN users
        /\ MergeUser(users[q.uid], q.usr, q.cols) = q.usr
        /\ EditOf(users[q.uid], q.usr, q.op)
    BY <1>12, <1>0
    DEF UpdateUser, At, Known, RowThere, OnAccount, CopyIsEdited
  <2>2. u = q.uid => Same(q.usr)
    BY <2>1 DEF EditOf
  <2>3. CASE users' = Updated(users, q.uid, q.usr)
    BY <2>2, <2>3, <1>4
  <2> QED
    BY <2>1, <2>3, <1>1, <1>12 DEF UpdateUser
<1>13. CASE InsertUser(r)
  <2>1. ~q.usr.enabled
    BY <1>13, <1>0 DEF InsertUser, At, Known, FactorChecked
  <2>2. \/ users' = users
        \/ users' = Insert(users, {r}, q.usr)
    BY <1>13 DEF InsertUser
  <2> QED
    BY <2>1, <2>2, <1>1 DEF Insert
<1>14. CASE DeleteUser(r)
  BY <1>14, <1>1 DEF DeleteUser, Delete, Restrict
<1>15. ~ReinsertUser(r)
  BY <1>0 DEF ReinsertUser, At, Known, RowThere
<1> HIDE DEF Same
<1> QED
  BY <1>1, <1>5, <1>6, <1>7, <1>8, <1>9, <1>10, <1>11, <1>12, <1>13, <1>14,
     <1>15, UsersWriters

\* With requests that do not overlap, no account is ever enrolled in a secret
\* that nobody has shown a code of: enable() verifies the code against the
\* secret it then leaves in place, and nothing swaps the secret of an enrolled
\* account.
THEOREM HubPairing ==
  ASSUME ~Overlap
  PROVE  Spec => []PairingConfirmed
<1>1. Init => PairingConfirmed
  <2> SUFFICES ASSUME Init, NEW u \in DOMAIN users, users[u].enabled
               PROVE  users[u].secret \in Seed
    BY DEF PairingConfirmed
  <2>1. PICK p \in Population : users = p.users
    BY DEF Init
  <2> QED
    BY <2>1, PopulationAssumption DEF WellFormed, OrNull
<1>2. SerialInv /\ Blanks /\ Unclaimed /\ PairingConfirmed /\ [Next]_vars
        => PairingConfirmed'
  <2> SUFFICES ASSUME SerialInv, Blanks, Unclaimed, PairingConfirmed,
                      [Next]_vars,
                      NEW u \in DOMAIN users', users'[u].enabled,
                      NEW secret, secret = users'[u].secret
               PROVE  Confirmed(secret)'
    BY DEF PairingConfirmed, Confirmed
  <2>0. /\ RowsInv
        /\ \A v \in DOMAIN users :
             users[v].enabled => Confirmed(users[v].secret)
    BY DEF SerialInv, PairingConfirmed, Confirmed
  <2>1. ASSUME NEW r \in Request, Step(r)
        PROVE  Confirmed(secret)'
    <3>1. Confirmed(secret)
      BY <2>0, <2>1, EnrolledAfter
    <3> QED
      BY <3>1, <2>0, <2>1, ConfirmedStays
  <2>2. ASSUME NEW r \in Request, Abandon(r)
        PROVE  Confirmed(secret)'
    <3>1. users' = users
      BY <2>2 DEF Abandon, tables
    <3>2. Confirmed(secret)
      BY <2>0, <3>1
    <3> QED
      BY <3>2, <2>0, <2>2, ConfirmedStays
  <2>3. CASE Tick \/ Quiet \/ UNCHANGED vars
    <3>1. users' = users /\ req' = req
      BY <2>3 DEF Tick, Quiet, vars
    <3> QED
      BY <2>0, <3>1 DEF Confirmed
  <2> QED
    BY <2>1, <2>2, <2>3 DEF Next
<1> QED
  BY <1>1, <1>2, SerialInvariance, TraceInvariance, PTL DEF Spec

-----------------------------------------------------------------------------
(***************************************************************************)
(* The recovery codes of an account are one whole set.                     *)
(***************************************************************************)
OneSet(u) == \E b \in Name : CodesOf(u) = {b} \X (1..CodeCount)

Whole(u) == IF users[u].enabled THEN OneSet(u) ELSE CodesOf(u) = {}

\* The account changed and its codes are still to follow.
Unsettled(r, u) ==
  req[r].uid = u /\ req[r].pc \in {"dropCodes", "issueCodes", "clearCodes"}

\* A set named after a request is the one it issued.
NewCodes == \A c \in DOMAIN codes : c[1] \in Request => req[c[1]].pc = "done"

CodesOwned == \A c \in DOMAIN codes : codes[c].user \in DOMAIN users

CodesInv ==
  /\ \A u \in DOMAIN users : Whole(u) \/ \E r \in Request : Unsettled(r, u)
  /\ NewCodes
  /\ CodesOwned

LEMMA UnsettledSteps ==
  ASSUME NEW r \in Request, Step(r),
         req[r].pc \in {"dropCodes", "issueCodes", "clearCodes"}
  PROVE  DropCodes(r) \/ IssueCodes(r) \/ ClearCodes(r)
<1>1. CASE TotpStep(r)
  BY <1>1
  DEF TotpStep, Admit, At, SetupStart, StoreSecret, EnableStart,
      RegenerateStart, DisableStart, VerifyAccepts, VerifyRejects, Burn,
      SetEnabled, ClearTotp
<1>2. CASE AuthStep(r)
  BY <1>2
  DEF AuthStep, Admit, At, LoginStart, RecoveryStart, FindCode, SpendCode,
      Settle, PurgeExpired, CreateSession, RefreshStart, FindCurrent,
      FindPrevious, Judge, DropRow, SaveSelect, SaveUpdate, SaveInsert, Logout,
      LogoutAll, ChangeForced, ChangeOwn, SetPassword, Revoke
<1>3. CASE HubUsersStep(r)
  BY <1>3
  DEF HubUsersStep, Admit, At, InviteStart, InsertUser, UpdateProfileStart,
      CheckEmail, SetAccessLevelStart, ToggleStatusStart, CountAdmins,
      ResetPasswordStart, SelectUser, UpdateUser, ReinsertUser, ResetTotpStart,
      ClearFactor, SetTotpRequiredStart, StoreRequired, RemoveStart,
      RevokeUser, DeleteUser
<1> QED
  BY <1>1, <1>2, <1>3 DEF Step

\* The codes of an account after a statement.
LEMMA CodesAfter ==
  ASSUME SerialInv, NewCodes, NEW r \in Request, Step(r), NEW u
  PROVE  \/ CodesOf(u)' = CodesOf(u)
         \/ /\ DropCodes(r) \/ ClearCodes(r)
            /\ u = req[r].uid
            /\ CodesOf(u)' = {}
         \/ /\ IssueCodes(r)
            /\ u = req[r].uid
            /\ CodesOf(u)' = {r} \X (1..CodeCount)
         \/ DeleteUser(r) /\ u = req[r].uid
<1> DEFINE q == req[r]
<1>0. /\ \A c \in DOMAIN codes : codes[c] \in CodeRow
      /\ Known(r)
  BY DEF SerialInv, RowsInv, TypeOK
<1>1. CASE codes' = codes
  BY <1>1 DEF CodesOf
<1>2. ASSUME codes' = Delete(codes, CodesOf(q.uid))
      PROVE  IF u = q.uid THEN CodesOf(u)' = {} ELSE CodesOf(u)' = CodesOf(u)
  BY <1>2 DEF CodesOf, Delete, Restrict
<1>3. CASE DropCodes(r) \/ ClearCodes(r) \/ DeleteUser(r)
  BY <1>2, <1>3 DEF DropCodes, ClearCodes, DeleteUser
<1>4. CASE SpendCode(r)
  <2>1. codes' = Updated(codes, q.code, [codes[q.code] EXCEPT !.used = TRUE])
    BY <1>4 DEF SpendCode
  <2>2. /\ DOMAIN codes' = DOMAIN codes
        /\ \A c \in DOMAIN codes : codes'[c].user = codes[c].user
    BY <2>1, <1>0 DEF Updated, CodeRow
  <2> QED
    BY <2>2 DEF CodesOf
<1>5. CASE IssueCodes(r) /\ codes' # codes
  <2>1. /\ q.pc = "issueCodes"
        /\ codes' = Insert(codes, Batch(r), [user |-> q.uid, used |-> FALSE])
    BY <1>5 DEF IssueCodes, At
  <2>2. CodesOf(q.uid) = {}
    BY <2>1, <1>0 DEF Known, FactorChecked
  <2>3. \A c \in Batch(r) : c \notin DOMAIN codes
    BY <2>1 DEF Batch, NewCodes
  <2>4. /\ DOMAIN codes' = DOMAIN codes \cup Batch(r)
        /\ \A c \in Batch(r) : codes'[c].user = q.uid
        /\ \A c \in DOMAIN codes : codes'[c] = codes[c]
    BY <2>1, <2>3 DEF Insert
  <2>5. CASE u = q.uid
    BY <2>2, <2>4, <2>5, <1>5 DEF CodesOf, Batch
  <2>6. CASE u # q.uid
    BY <2>4, <2>6 DEF CodesOf
  <2> QED
    BY <2>5, <2>6
<1> QED
  BY <1>1, <1>3, <1>4, <1>5, CodesWriters

\* Whether an account is enrolled after a statement.
LEMMA FactorAfter ==
  ASSUME SerialInv, NewIds, NEW r \in Request, Step(r), NEW u \in DOMAIN users'
  PROVE  \/ u \in DOMAIN users /\ (users'[u].enabled <=> users[u].enabled)
         \/ Unsettled(r, u)'
         \/ /\ u \notin DOMAIN users
            /\ ~users'[u].enabled
            /\ codes' = codes
<1> DEFINE q == req[r]
<1>0. /\ q \in RequestState
      /\ req \in [Request -> RequestState]
      /\ users \in [DOMAIN users -> UserRow]
      /\ \A v \in DOMAIN users : users[v] \in UserRow
      /\ Known(r)
  BY DEF SerialInv, RowsInv, TypeOK
<1>1. CASE u \in DOMAIN users /\ users'[u] = users[u]
  BY <1>1
<1>2. ASSUME NEW row, users' = Updated(users, q.uid, row),
             q.uid \in DOMAIN users /\ u = q.uid =>
               \/ row.enabled <=> users[u].enabled
               \/ Unsettled(r, u)'
      PROVE  \/ u \in DOMAIN users /\ (users'[u].enabled <=> users[u].enabled)
             \/ Unsettled(r, u)'
  BY <1>2 DEF Updated
<1>3. CASE StoreSecret(r)
  <2>1. q.uid \in DOMAIN users =>
          WithSecret(users[q.uid], r).enabled = users[q.uid].enabled
    BY <1>0 DEF WithSecret, UserRow
  <2> QED
    BY <2>1, <1>2, <1>3 DEF StoreSecret
<1>4. CASE Burn(r)
  <2>1. CASE users' = Updated(users, q.uid, [users[q.uid] EXCEPT !.last = q.step])
    <3>1. q.uid \in DOMAIN users =>
            [users[q.uid] EXCEPT !.last = q.step].enabled = users[q.uid].enabled
      BY <1>0 DEF UserRow
    <3> QED
      BY <2>1, <3>1, <1>2
  <2> QED
    BY <2>1, <1>1, <1>4 DEF Burn, Burnable, Updated
<1>5. CASE SetEnabled(r) \/ ClearTotp(r) \/ ClearFactor(r)
  <2>1. PICK row : users' = Updated(users, q.uid, row)
    BY <1>5 DEF SetEnabled, ClearTotp, ClearFactor
  <2>2. \E pc \in {"dropCodes", "clearCodes"} : Goto(r, pc)
    BY <1>5 DEF SetEnabled, ClearTotp, ClearFactor
  <2>3. req'[r].pc \in {"dropCodes", "clearCodes"} /\ req'[r].uid = q.uid
    BY <2>2, <1>0, GotoFields
  <2>4. u = q.uid => Unsettled(r, u)'
    BY <2>3 DEF Unsettled
  <2> QED
    BY <2>1, <2>4, <1>2
<1>6. CASE SetPassword(r)
  <2>1. q.uid \in DOMAIN users =>
          WithPassword(users[q.uid], q.pw).enabled = users[q.uid].enabled
    BY <1>0 DEF WithPassword, UserRow
  <2> QED
    BY <2>1, <1>2, <1>6 DEF SetPassword
<1>7. CASE StoreRequired(r)
  <2>1. q.uid \in DOMAIN users =>
          [users[q.uid] EXCEPT !.required = q.usr.required].enabled
            = users[q.uid].enabled
    BY <1>0 DEF UserRow
  <2> QED
    BY <2>1, <1>2, <1>7 DEF StoreRequired
<1>8. CASE UpdateUser(r)
  <2>1. /\ q.uid \in DOMAIN users
        /\ MergeUser(users[q.uid], q.usr, q.cols) = q.usr
        /\ q.usr.enabled = users[q.uid].enabled
    BY <1>8, <1>0
    DEF UpdateUser, At, Known, RowThere, OnAccount, CopyIsEdited, EditOf
  <2>2. CASE users' = Updated(users, q.uid, q.usr)
    BY <2>1, <2>2, <1>2
  <2> QED
    BY <2>1, <2>2, <1>1, <1>8 DEF UpdateUser
<1>9. CASE InsertUser(r)
  <2>1. ~q.usr.enabled /\ r \notin DOMAIN users
    BY <1>9, <1>0 DEF InsertUser, At, Known, FactorChecked, NewIds
  <2>2. codes' = codes
    BY <1>9 DEF InsertUser
  <2>3. \/ users' = users
        \/ users' = Insert(users, {r}, q.usr)
    BY <1>9 DEF InsertUser
  <2> QED
    BY <2>1, <2>2, <2>3, <1>1 DEF Insert
<1>10. CASE DeleteUser(r)
  BY <1>10, <1>1 DEF DeleteUser, Delete, Restrict
<1>11. ~ReinsertUser(r)
  BY <1>0 DEF ReinsertUser, At, Known, RowThere
<1> QED
  BY <1>1, <1>3, <1>4, <1>5, <1>6, <1>7, <1>8, <1>9, <1>10, <1>11, UsersWriters

\* The statement that settles an account's codes.
LEMMA Settled ==
  ASSUME SerialInv, NewCodes, NEW r \in Request,
         NEW u, u = req[r].uid,
         DropCodes(r) \/ IssueCodes(r) \/ ClearCodes(r)
  PROVE  Whole(u)' \/ Unsettled(r, u)'
<1> DEFINE q == req[r]
<1>0. /\ req \in [Request -> RequestState]
      /\ Known(r)
  BY DEF SerialInv, RowsInv, TypeOK
<1>2. CASE DropCodes(r)
  <2>1. users' = users /\ (users[u].enabled <=> q.op # "disable")
    BY <1>2, <1>0 DEF DropCodes, At, Known, FactorChecked
  <2>2. CASE q.op = "disable"
    <3>1. CodesOf(u)' = {}
      BY <1>2 DEF DropCodes, CodesOf, Delete, Restrict
    <3> QED
      BY <2>1, <2>2, <3>1 DEF Whole
  <2>3. CASE q.op # "disable"
    <3>1. req'[r].pc = "issueCodes" /\ req'[r].uid = u
      BY <1>0, <1>2, <2>3, GotoFields DEF DropCodes
    <3> QED
      BY <3>1 DEF Unsettled
  <2> QED
    BY <2>2, <2>3
<1>3. CASE ClearCodes(r)
  <2>1. /\ users' = users
        /\ ~users[u].enabled
        /\ codes' = Delete(codes, CodesOf(u))
    BY <1>3, <1>0 DEF ClearCodes, At, Known, FactorChecked
  <2> QED
    BY <2>1 DEF Whole, CodesOf, Delete, Restrict
<1>4. CASE IssueCodes(r)
  <2>1. /\ users' = users
        /\ u \in DOMAIN users
        /\ users[u].enabled
        /\ q.pc = "issueCodes"
    BY <1>4, <1>0
    DEF IssueCodes, At, Known, RowThere, OnAccount, FactorChecked
  <2>3. codes' = Insert(codes, Batch(r), [user |-> u, used |-> FALSE])
    BY <2>1, <1>4 DEF IssueCodes
  <2>4. CodesOf(u) = {}
    BY <2>1, <1>0 DEF Known, FactorChecked
  <2>5. \A c \in Batch(r) : c \notin DOMAIN codes
    BY <2>1 DEF Batch, NewCodes
  <2>6. CodesOf(u)' = {r} \X (1..CodeCount)
    BY <2>3, <2>4, <2>5 DEF CodesOf, Insert, Batch
  <2> QED
    BY <2>1, <2>6, NameTypes DEF Whole, OneSet
<1> QED
  BY <1>2, <1>3, <1>4

LEMMA WholeAfter ==
  ASSUME ~Overlap, SerialInv, NewIds, CodesInv, NEW r \in Request, Step(r),
         NEW u \in DOMAIN users'
  PROVE  Whole(u)' \/ \E p \in Request : Unsettled(p, u)'
<1> DEFINE q == req[r]
<1>0. OthersRest(r)
  BY StepsAlone DEF SerialInv
<1>1. CASE Unsettled(r, u)'
  BY <1>1
<1>2. CASE u = q.uid /\ (DropCodes(r) \/ IssueCodes(r) \/ ClearCodes(r))
  BY <1>2, Settled DEF CodesInv
<1>3. CASE CodesOf(u)' = CodesOf(u) /\ ~Unsettled(r, u)'
  <2>1. CASE u \in DOMAIN users /\ (users'[u].enabled <=> users[u].enabled)
    <3>1. CASE Whole(u)
      BY <1>3, <2>1, <3>1 DEF Whole, OneSet
    <3>2. ASSUME NEW p \in Request, Unsettled(p, u)
          PROVE  Whole(u)' \/ Unsettled(r, u)'
      <4>1. p = r
        BY <1>0, <3>2 DEF OthersRest, Unsettled, Resting
      <4>2. DropCodes(r) \/ IssueCodes(r) \/ ClearCodes(r)
        BY <3>2, <4>1, UnsettledSteps DEF Unsettled
      <4> QED
        BY <3>2, <4>1, <4>2, <1>2, Settled DEF CodesInv, Unsettled
    <3> QED
      BY <2>1, <3>1, <3>2 DEF CodesInv
  <2>2. CASE /\ u \notin DOMAIN users
             /\ ~users'[u].enabled
             /\ codes' = codes
    <3>1. CodesOf(u) = {}
      BY <2>2 DEF CodesInv, CodesOwned, CodesOf
    <3> QED
      BY <1>3, <2>2, <3>1 DEF Whole
  <2> QED
    BY <1>3, <2>1, <2>2, FactorAfter
<1>4. CASE DeleteUser(r) /\ u = q.uid
  BY <1>4 DEF DeleteUser, Delete, Restrict
<1> QED
  BY <1>1, <1>2, <1>3, <1>4, CodesAfter DEF CodesInv

\* No set is issued twice, and the foreign key of a code resolves.
LEMMA CodeRowsAfter ==
  ASSUME SerialInv, NewCodes, CodesOwned, NEW r \in Request, Step(r)
  PROVE  NewCodes' /\ CodesOwned'
<1> DEFINE q == req[r]
<1>0. /\ req \in [Request -> RequestState]
      /\ \A c \in DOMAIN codes : codes[c] \in CodeRow
      /\ \A p \in Request \ {r} : req'[p] = req[p]
      /\ q.pc # "done"
      /\ Known(r)
  BY StepMoves DEF SerialInv, RowsInv, TypeOK, Moves
<1>1. \A c \in DOMAIN codes : c[1] \in Request => req'[c[1]].pc = "done"
  BY <1>0 DEF NewCodes
<1>2. DeleteUser(r) \/ DOMAIN users \subseteq DOMAIN users'
  <2>1. ~ReinsertUser(r)
    BY <1>0 DEF ReinsertUser, At, Known, RowThere
  <2> QED
    BY <2>1, UsersWriters
    DEF StoreSecret, Burn, SetEnabled, ClearTotp, SetPassword, InsertUser,
        UpdateUser, ClearFactor, StoreRequired, Updated, Insert
<1>3. ASSUME DOMAIN codes' \subseteq DOMAIN codes,
             \A c \in DOMAIN codes' : codes'[c].user = codes[c].user,
             ~DeleteUser(r)
      PROVE  NewCodes' /\ CodesOwned'
  BY <1>1, <1>2, <1>3 DEF NewCodes, CodesOwned
<1>4. CASE codes' = codes /\ ~DeleteUser(r)
  BY <1>3, <1>4
<1>5. CASE DropCodes(r) \/ ClearCodes(r)
  <2>1. /\ codes' = Delete(codes, CodesOf(q.uid))
        /\ q.pc # "deleteUser"
    BY <1>5 DEF DropCodes, ClearCodes, At
  <2> QED
    BY <2>1, <1>3 DEF Delete, Restrict, DeleteUser, At
<1>6. CASE SpendCode(r)
  <2>1. /\ codes' = Updated(codes, q.code, [codes[q.code] EXCEPT !.used = TRUE])
        /\ ~DeleteUser(r)
    BY <1>6 DEF SpendCode, DeleteUser, At
  <2>2. /\ DOMAIN codes' = DOMAIN codes
        /\ \A c \in DOMAIN codes : codes'[c].user = codes[c].user
    BY <2>1, <1>0 DEF Updated, CodeRow
  <2> QED
    BY <2>1, <2>2, <1>3
<1>7. CASE IssueCodes(r) /\ codes' # codes
  <2>1. /\ codes' = Insert(codes, Batch(r), [user |-> q.uid, used |-> FALSE])
        /\ q.uid \in DOMAIN users
        /\ users' = users
        /\ Respond(r, Plain("codes"))
    BY <1>7 DEF IssueCodes
  <2>2. req'[r].pc = "done"
    BY <2>1, <1>0 DEF Respond, Closed, Blank
  <2>3. /\ DOMAIN codes' = DOMAIN codes \cup Batch(r)
        /\ \A c \in Batch(r) : c[1] = r
        /\ \A c \in DOMAIN codes' :
             \/ codes'[c].user = q.uid
             \/ /\ c \in DOMAIN codes
                /\ codes'[c] = codes[c]
    BY <2>1 DEF Insert, Batch
  <2> QED
    BY <2>1, <2>2, <2>3, <1>1 DEF NewCodes, CodesOwned
<1>8. CASE DeleteUser(r)
  <2>1. /\ DOMAIN users' = DOMAIN users \ {q.uid}
        /\ DOMAIN codes' = DOMAIN codes \ CodesOf(q.uid)
        /\ \A c \in DOMAIN codes' : codes'[c] = codes[c]
    BY <1>8 DEF DeleteUser, Delete, Restrict
  <2> QED
    BY <2>1, <1>1 DEF NewCodes, CodesOwned, CodesOf
<1> QED
  BY <1>4, <1>5, <1>6, <1>7, <1>8, CodesWriters

\* Between requests an enrolled account has one whole set of recovery codes and
\* any other account has none, when requests do not overlap and no worker dies
\* in one: whatever order accounts enrol, regenerate, disable and are reset in.
THEOREM HubWholeSets ==
  ASSUME ~Overlap, ~Crashes
  PROVE  Spec /\ OneWholeSet => []OneWholeSet
<1>1. Init /\ OneWholeSet => CodesInv
  <2> SUFFICES ASSUME Init, OneWholeSet
               PROVE  CodesInv
    OBVIOUS
  <2>1. PICK p \in Population : users = p.users /\ codes = p.codes
    BY DEF Init
  <2>2. /\ DOMAIN codes \subseteq Seed \X (1..CodeCount)
        /\ CodesOwned
    BY <2>1, PopulationAssumption DEF WellFormed, CodesOwned
  <2>3. NewCodes
    BY <2>2, NamesAssumption DEF NewCodes
  <2>4. InFlight = {}
    BY DEF Init, Blank, InFlight
  <2> QED
    BY <2>2, <2>3, <2>4 DEF OneWholeSet, CodesInv, Whole, OneSet
<1>2. SerialInv /\ NewIds /\ CodesInv /\ [Next]_vars => CodesInv'
  <2> SUFFICES ASSUME SerialInv, NewIds, CodesInv, [Next]_vars
               PROVE  CodesInv'
    OBVIOUS
  <2>1. CASE \E r \in Request : Step(r)
    BY <2>1, WholeAfter, CodeRowsAfter DEF CodesInv
  <2>2. CASE Tick \/ Quiet \/ UNCHANGED vars
    <3>1. users' = users /\ codes' = codes /\ req' = req
      BY <2>2 DEF Tick, Quiet, vars
    <3> QED
      BY <3>1
      DEF CodesInv, Whole, OneSet, Unsettled, NewCodes, CodesOwned, CodesOf
  <2>3. ~\E r \in Request : Abandon(r)
    BY DEF Abandon
  <2> QED
    BY <2>1, <2>2, <2>3 DEF Next
<1>3. CodesInv => OneWholeSet
  BY DEF CodesInv, OneWholeSet, Whole, OneSet, Unsettled, InFlight
<1> QED
  BY <1>1, <1>2, <1>3, SerialInvariance, NewIdsInvariance, PTL DEF Spec
-----------------------------------------------------------------------------
(***************************************************************************)
(* The codes of the second factor, with administrators about.              *)
(***************************************************************************)
\* What an administrator's statement makes of an account: an account as new, one
\* without a second factor, or one with the secret and the watermark it had.
LEMMA AdminRows ==
  ASSUME SerialInv, NEW r \in Request, HubUsersStep(r), NEW u \in DOMAIN users'
  PROVE  \/ users'[u].secret = NULL
         \/ /\ u \in DOMAIN users
            /\ users'[u].secret = users[u].secret
            /\ users'[u].last = users[u].last
<1> DEFINE q == req[r]
           Same(row) == /\ row.secret = users[q.uid].secret
                        /\ row.last = users[q.uid].last
<1>0. /\ q \in RequestState
      /\ users \in [DOMAIN users -> UserRow]
      /\ \A v \in DOMAIN users : users[v] \in UserRow
      /\ Known(r)
  BY DEF SerialInv, RowsInv, TypeOK
<1>1. CASE u \in DOMAIN users /\ users'[u] = users[u]
  BY <1>1
<1>2. ASSUME NEW row, users' = Updated(users, q.uid, row),
             q.uid \in DOMAIN users => row.secret = NULL \/ Same(row)
      PROVE  \/ users'[u].secret = NULL
             \/ /\ u \in DOMAIN users
                /\ users'[u].secret = users[u].secret
                /\ users'[u].last = users[u].last
  BY <1>2 DEF Updated
<1>3. CASE UpdateUser(r)
  <2>1. /\ MergeUser(users[q.uid], q.usr, q.cols) = q.usr
        /\ EditOf(users[q.uid], q.usr, q.op)
    BY <1>3, <1>0 DEF UpdateUser, At, Known, CopyIsEdited
  <2>2. Same(q.usr)
    BY <2>1 DEF EditOf
  <2>3. users' = Updated(users, q.uid, q.usr) \/ users' = users
    BY <1>3, <2>1 DEF UpdateUser
  <2> QED
    BY <2>2, <2>3, <1>1, <1>2
<1>4. CASE ClearFactor(r)
  <2>1. q.uid \in DOMAIN users => Unpaired(users[q.uid]).secret = NULL
    BY <1>0 DEF Unpaired, UserRow
  <2> QED
    BY <2>1, <1>2, <1>4 DEF ClearFactor
<1>5. CASE StoreRequired(r)
  <2>1. q.uid \in DOMAIN users
          => Same([users[q.uid] EXCEPT !.required = q.usr.required])
    BY <1>0 DEF UserRow
  <2> QED
    BY <2>1, <1>2, <1>5 DEF StoreRequired
<1>6. CASE InsertUser(r)
  <2>1. q.usr.secret = NULL
    BY <1>6, <1>0 DEF InsertUser, At, Known, FactorChecked
  <2>2. users' = users \/ users' = Insert(users, {r}, q.usr)
    BY <1>6 DEF InsertUser
  <2>3. \/ users'[u] = q.usr
        \/ u \in DOMAIN users /\ users'[u] = users[u]
    BY <2>2 DEF Insert
  <2> QED
    BY <2>1, <2>3, <1>1
<1>7. CASE DeleteUser(r)
  BY <1>7, <1>1 DEF DeleteUser, Delete, Restrict
<1>8. ~ReinsertUser(r)
  BY <1>0 DEF ReinsertUser, At, Known, RowThere
<1>9. CASE users' = users
  BY <1>9, <1>1
<1> HIDE DEF Same
<1> QED
  BY <1>3, <1>4, <1>5, <1>6, <1>7, <1>8, <1>9
  DEF HubUsersStep, tables, InviteStart, UpdateProfileStart, CheckEmail,
      SetAccessLevelStart, ToggleStatusStart, CountAdmins, ResetPasswordStart,
      SelectUser, ResetTotpStart, ClearCodes, SetTotpRequiredStart, RemoveStart,
      RevokeUser

\* The secret in the copy of an administrator's request is one of a row, as it
\* was loaded.
LEMMA AdminCopies ==
  ASSUME RowsInv, NEW r \in Request, HubUsersStep(r)
  PROVE  req'[r].usr.secret \in {NULL, req[r].usr.secret}
                                  \cup {users[u].secret : u \in DOMAIN users}
<1>0. /\ req \in [Request -> RequestState]
      /\ users \in [DOMAIN users -> UserRow]
      /\ \A u \in DOMAIN users : users[u] \in UserRow
  BY DEF RowsInv, TypeOK
<1>a. CASE \E answer : Respond(r, answer)
  BY <1>a, <1>0 DEF Respond, Closed, Blank, NoUser
<1>g. CASE \E pc : Goto(r, pc)
  BY <1>g, <1>0, GotoFields
<1>1. CASE InviteStart(r) /\ ~Refuse(r)
  <2>1. PICK email, pw, level, required :
          req' = [req EXCEPT ![r] = [Opened("invite", "insertUser", r)
                    EXCEPT !.usr = NewUser(email, pw, level, required)]]
    BY <1>1 DEF InviteStart
  <2>2. req'[r].usr = NewUser(email, pw, level, required)
    BY <2>1, <1>0 DEF Opened, Blank
  <2> QED
    BY <2>2 DEF NewUser
<1>2. CASE /\ \/ UpdateProfileStart(r) \/ SetAccessLevelStart(r)
              \/ ToggleStatusStart(r) \/ ResetPasswordStart(r)
           /\ ~Refuse(r)
  BY <1>2, <1>0, EditStarts DEF EditOf
<1>3. CASE (ResetTotpStart(r) \/ RemoveStart(r)) /\ ~Refuse(r)
  <2>1. PICK op, pc, id : id \in DOMAIN users /\ req' = [req EXCEPT ![r] = Loaded(op, pc, id)]
    BY <1>3 DEF ResetTotpStart, RemoveStart, OthersOnly
  <2> QED
    BY <2>1, <1>0, LoadedFields
<1>4. CASE SetTotpRequiredStart(r) /\ ~Refuse(r) /\ ~Respond(r, Plain("done"))
  <2>1. PICK id \in DOMAIN users, flag \in BOOLEAN :
          req' = [req EXCEPT ![r] = [Loaded("setTotpRequired", "storeRequired", id)
                                       EXCEPT !.usr.required = flag]]
    BY <1>4 DEF SetTotpRequiredStart
  <2>2. req'[r].usr = [users[id] EXCEPT !.required = flag]
    BY <2>1, <1>0 DEF Loaded, Blank
  <2>3. [users[id] EXCEPT !.required = flag].secret = users[id].secret
    BY <1>0 DEF UserRow
  <2> QED
    BY <2>2, <2>3
<1>5. CASE SelectUser(r)
  <2>1. \/ Goto(r, "reinsertUser")
        \/ \E cols : req' = [req EXCEPT ![r].pc = "updateUser", ![r].cols = cols]
    BY <1>5 DEF SelectUser
  <2>2. CASE \E cols :
               req' = [req EXCEPT ![r].pc = "updateUser", ![r].cols = cols]
    <3>1. req'[r].usr = req[r].usr
      BY <2>2, <1>0 DEF RequestState
    <3> QED
      BY <3>1
  <2> QED
    BY <2>1, <2>2, <1>g
<1>6. CASE \/ CheckEmail(r) \/ CountAdmins(r) \/ UpdateUser(r)
           \/ ReinsertUser(r) \/ ClearFactor(r) \/ ClearCodes(r)
           \/ StoreRequired(r) \/ RevokeUser(r) \/ InsertUser(r) \/ DeleteUser(r)
  BY <1>6, <1>a, <1>g
  DEF CheckEmail, CountAdmins, UpdateUser, ReinsertUser, ClearFactor,
      ClearCodes, StoreRequired, RevokeUser, InsertUser, DeleteUser, Finish, Refuse
<1> QED
  BY <1>1, <1>2, <1>3, <1>4, <1>5, <1>6, <1>a DEF HubUsersStep, Refuse

\* An administrator's request verifies no code.
LEMMA AdminAccepts ==
  ASSUME RowsInv, Blanks, NEW r \in Request, HubUsersStep(r)
  PROVE  /\ req'[r].accepted = req[r].accepted
         /\ req'[r].pc \notin {"idle", "storeSecret", "verify", "burn"}
         /\ \A p \in Request \ {r} : req'[p] = req[p]
<1>0. TypeOK /\ req \in [Request -> RequestState]
  BY DEF RowsInv, TypeOK
<1>1. req[r].pc # "burn"
  <2>1. CASE \/ InviteStart(r) \/ UpdateProfileStart(r) \/ SetAccessLevelStart(r)
             \/ ToggleStatusStart(r) \/ ResetPasswordStart(r)
             \/ ResetTotpStart(r) \/ SetTotpRequiredStart(r) \/ RemoveStart(r)
    <3>1. InviteStart(r) => At(r, "idle")
      BY Zenon DEF InviteStart, Admit
    <3>2. UpdateProfileStart(r) => At(r, "idle")
      BY Zenon DEF UpdateProfileStart, Admit
    <3>3. SetAccessLevelStart(r) => At(r, "idle")
      BY Zenon DEF SetAccessLevelStart, Admit
    <3>4. ToggleStatusStart(r) => At(r, "idle")
      BY Zenon DEF ToggleStatusStart, Admit
    <3>5. ResetPasswordStart(r) => At(r, "idle")
      BY Zenon DEF ResetPasswordStart, Admit
    <3>6. ResetTotpStart(r) => At(r, "idle")
      BY Zenon DEF ResetTotpStart, Admit
    <3>7. SetTotpRequiredStart(r) => At(r, "idle")
      BY Zenon DEF SetTotpRequiredStart, Admit
    <3>8. RemoveStart(r) => At(r, "idle")
      BY Zenon DEF RemoveStart, Admit
    <3> QED
      BY <2>1, <3>1, <3>2, <3>3, <3>4, <3>5, <3>6, <3>7, <3>8 DEF At
  <2>2. CASE \/ InsertUser(r) \/ CheckEmail(r) \/ CountAdmins(r) \/ SelectUser(r)
             \/ UpdateUser(r) \/ ReinsertUser(r) \/ ClearFactor(r)
             \/ ClearCodes(r) \/ StoreRequired(r) \/ RevokeUser(r)
             \/ DeleteUser(r)
    <3>1. \E pc \in AdminStatement : At(r, pc)
      BY <2>2
      DEF InsertUser, CheckEmail, CountAdmins, SelectUser, UpdateUser,
          ReinsertUser, ClearFactor, ClearCodes, StoreRequired, RevokeUser,
          DeleteUser, AdminStatement
    <3> QED
      BY <3>1 DEF At, AdminStatement
  <2> QED
    BY <2>1, <2>2 DEF HubUsersStep
<1>2. req'[r].accepted = req[r].accepted
  BY <1>0, <1>1, AdminTraced DEF Traced, Burn, At
<1>3. req'[r].pc \notin {"idle", "storeSecret", "verify", "burn"}
  BY <1>0, AdminPcs DEF AdminStatement
<1> QED
  BY <1>2, <1>3, StepMoves DEF Step, Moves

\* Between the rows and the copies an administrator's statement moves no secret to
\* another account, and lowers no watermark but of an account it unpairs.
LEMMA AdminFactor ==
  ASSUME SerialInv, Blanks, FactorInv, NEW r \in Request, HubUsersStep(r)
  PROVE  FactorInv'
<1> USE DEF FactorInv
<1>0. RowsInv /\ TypeOK
  BY DEF SerialInv, RowsInv
<1>1. \A u \in DOMAIN users' :
        \/ users'[u].secret = NULL
        \/ /\ u \in DOMAIN users
           /\ users'[u].secret = users[u].secret
           /\ users'[u].last = users[u].last
  BY AdminRows
<1>2. /\ req'[r].accepted = req[r].accepted
      /\ req'[r].pc \notin {"idle", "storeSecret", "verify", "burn"}
      /\ \A p \in Request \ {r} : req'[p] = req[p]
  BY <1>0, AdminAccepts
<1>3. req'[r].usr.secret \in {NULL, req[r].usr.secret}
                               \cup {users[u].secret : u \in DOMAIN users}
  BY <1>0, AdminCopies
<1>4. \A p \in Request : req'[p].accepted = req[p].accepted
  BY <1>2
<1>5. NoSharedSecret'
  BY <1>1 DEF NoSharedSecret
<1>6. CopiesTheirOwn'
  BY <1>1, <1>2 DEF CopiesTheirOwn, Verifying
<1>7. RealSecrets'
  BY <1>2, <1>4 DEF RealSecrets
<1>8. Unminted'
  <2> SUFFICES ASSUME NEW p \in Request, req'[p].pc \in {"idle", "storeSecret"}
               PROVE  Fresh(p)'
    BY DEF Unminted
  <2>1. p # r /\ req'[p] = req[p] /\ p # NULL
    BY <1>2, NameTypes
  <2>2. Fresh(p)
    BY <2>1 DEF Unminted
  <2>3. \A u \in DOMAIN users' : users'[u].secret # p
    BY <1>1, <2>1, <2>2 DEF Fresh
  <2>4. \A o \in Request : req'[o].usr.secret # p
    BY <1>2, <1>3, <2>1, <2>2 DEF Fresh
  <2> QED
    BY <1>4, <2>2, <2>3, <2>4 DEF Fresh
<1>9. WatermarkCovers'
  <2> SUFFICES ASSUME NEW p \in Request, NEW u \in DOMAIN users',
                      req'[p].accepted # NULL,
                      req'[p].accepted.secret = users'[u].secret
               PROVE  req'[p].accepted.step <= users'[u].last
    BY DEF WatermarkCovers
  <2>1. users'[u].secret # NULL
    BY <1>4 DEF RealSecrets
  <2> QED
    BY <1>1, <1>4, <2>1 DEF WatermarkCovers
<1> QED
  BY <1>5, <1>6, <1>7, <1>8, <1>9

\* So without overlap the invariant behind the watermark holds of the whole hub.
LEMMA HubFactorInvariance ==
  ASSUME ~Overlap
  PROVE  Spec => [](SerialInv /\ Blanks /\ Unclaimed /\ FactorInv)
<1>1. SerialInv /\ Blanks /\ FactorInv /\ [Next]_vars => FactorInv'
  <2> SUFFICES ASSUME SerialInv, Blanks, FactorInv, [Next]_vars
               PROVE  FactorInv'
    OBVIOUS
  <2>0. RowsInv /\ TypeOK
    BY DEF SerialInv, RowsInv
  <2>1. CASE \E r \in Request : Step(r) \/ Abandon(r)
    BY <2>0, <2>1, FactorStep, AuthFactor, AdminFactor, FactorAbandon DEF Step
  <2>2. CASE Tick \/ UNCHANGED vars
    BY <2>2, FactorStutter DEF Tick, vars
  <2> QED
    BY <2>1, <2>2 DEF Next, Quiet
<1> QED
  BY <1>1, InitFactor, SerialInvariance, TraceInvariance, PTL DEF Spec

\* As long as requests do not overlap, the watermark also covers every accepted
\* code with administrators about: the save() of an edited account writes back the
\* watermark it has, and only a reset of its second factor lowers it, with the
\* secret gone.
THEOREM HubWatermark ==
  ASSUME ~Overlap
  PROVE  Spec => []WatermarkCovers
<1>1. FactorInv => WatermarkCovers
  BY DEF FactorInv
<1> QED
  BY <1>1, HubFactorInvariance, PTL

\* The statements of administrators keep the codes OneTimeCodes sees, and bring no
\* secret back.
LEMMA AdminCodes ==
  ASSUME SerialInv, TypeOK', Blanks, FactorInv, NEW r \in Request, HubUsersStep(r)
  PROVE  [Codes!Next]_<<LiveSecrets, AcceptedCodes>>
<1>0. RowsInv
  BY DEF SerialInv
<1>1. Keeps(r)
  BY <1>0, AdminAccepts DEF Keeps
<1>2. \A u \in DOMAIN users' :
        \/ users'[u].secret = NULL
        \/ u \in DOMAIN users /\ users'[u].secret = users[u].secret
  BY AdminRows
<1>3. \A p \in Request : req[p].accepted # NULL => req[p].accepted.secret # NULL
  BY DEF FactorInv, RealSecrets
<1> QED
  BY <1>1, <1>2, <1>3, KeepsCodes

\* The second factor of the whole hub implements OneTimeCodes as long as requests do
\* not overlap: whatever administrators do to the accounts in between, a secret takes
\* the codes of a time step once, in order, and never comes back once given up.
THEOREM HubCodesOnce ==
  ASSUME ~Overlap
  PROVE  Spec => CodesOnce
<1>1. SerialInv /\ SerialInv' /\ Blanks /\ Unclaimed /\ FactorInv /\ [Next]_vars
        => [Codes!Next]_<<LiveSecrets, AcceptedCodes>>
  <2> SUFFICES ASSUME SerialInv, SerialInv', Blanks, Unclaimed, FactorInv,
                      [Next]_vars
               PROVE  [Codes!Next]_<<LiveSecrets, AcceptedCodes>>
    OBVIOUS
  <2>0. RowsInv /\ TypeOK /\ TypeOK'
    BY DEF SerialInv, RowsInv
  <2>1. CASE \E r \in Request : Step(r) \/ Abandon(r)
    BY <2>0, <2>1, TotpCodes, AuthCodes, AdminCodes, AbandonCodes DEF Step
  <2>2. CASE Tick \/ UNCHANGED vars
    BY <2>2, StutterCodes DEF Tick, vars
  <2> QED
    BY <2>1, <2>2 DEF Next, Quiet
<1> QED
  BY <1>1, InitCodes, HubFactorInvariance, PTL DEF Spec, CodesOnce, Codes!Spec
=============================================================================
