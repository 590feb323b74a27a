-------------------------- MODULE HubBackend_proofs --------------------------
(***************************************************************************)
(* The whole hub, for any number of accounts, requests and ticks: the      *)
(* administrators' statements keep the types, the foreign keys and the     *)
(* ledger of revoked sessions as the account holders' do.                  *)
(*                                                                         *)
(* Then what the handlers keep when requests do not overlap.  Everything   *)
(* rests on one fact: the copy a request holds of a row is the row, but    *)
(* for the columns the request has itself changed, since nobody else has   *)
(* written in between.                                                     *)
(***************************************************************************)
EXTENDS HubBackend, AuthService_proofs

\* The statements that an administrator's request may stand at.
LEMMA AdminTypes ==
  /\ {"insertUser", "countAdmins", "checkEmail", "selectUser", "updateUser",
      "reinsertUser", "clearFactor", "clearCodes", "storeRequired",
      "revokeUser", "deleteUser", "done"} \subseteq Statement
  /\ {"invite", "updateProfile", "setAccessLevel", "toggleStatus",
      "resetPassword", "resetTotp", "setTotpRequired", "remove"}
        \subseteq Operation
  /\ {Plain("done"), Plain("failed"), Plain("refused")} \subseteq Answer
BY PlainType DEF Statement, Operation, Kind

LEMMA FinishMoves ==
  ASSUME RowsInv, NEW r \in Request, req[r].pc # "done",
         NEW pc \in {"done", "revokeUser", "deleteUser"}, Finish(r, pc)
  PROVE  Moves(r)
<1>1. /\ pc \in Statement
      /\ Plain("done") \in Answer
      /\ ~Refreshing([pc |-> pc])
      /\ ~Saving([pc |-> pc])
  BY AdminTypes DEF Refreshing, Saving
<1>2. TypeOK
  BY DEF RowsInv
<1>3. Respond(r, Plain("done")) \/ Goto(r, pc)
  BY DEF Finish
<1> QED
  BY <1>1, <1>2, <1>3, RespondMoves, GotoMoves

\* A request that starts out with a changed copy of an account's row.
LEMMA EditedMoves ==
  ASSUME TypeOK, NEW r \in Request, req[r].pc # "done",
         NEW op \in Operation,
         NEW pc \in {"countAdmins", "checkEmail", "selectUser", "clearFactor",
                     "storeRequired", "revokeUser"},
         NEW u \in DOMAIN users, NEW row \in UserRow,
         req' = [req EXCEPT ![r] = [Loaded(op, pc, u) EXCEPT !.usr = row]]
  PROVE  Moves(r)
<1> DEFINE q == Loaded(op, pc, u)
<1>1. q \in RequestState /\ q.pc = pc /\ q.sid = NULL /\ q.uid = u
  BY LoadedType, AdminTypes DEF TypeOK
<1>2. u \in Name
  BY DEF TypeOK
<1> HIDE DEF q
<1>3. /\ [q EXCEPT !.usr = row] \in RequestState
      /\ [q EXCEPT !.usr = row].pc = pc
      /\ [q EXCEPT !.usr = row].sid = NULL
      /\ [q EXCEPT !.usr = row].uid = u
  BY <1>1, RequestFields DEF RequestState
<1>4. ~Refreshing([q EXCEPT !.usr = row])
  BY <1>3 DEF Refreshing
<1> QED
  BY <1>2, <1>3, <1>4, StartMoves DEF q

LEMMA UnchangedCopyMoves ==
  ASSUME TypeOK, NEW r \in Request, req[r].pc # "done",
         NEW op \in Operation,
         NEW pc \in {"countAdmins", "selectUser", "clearFactor", "revokeUser"},
         NEW u \in DOMAIN users,
         req' = [req EXCEPT ![r] = Loaded(op, pc, u)]
  PROVE  Moves(r)
<1>1. /\ Loaded(op, pc, u) \in RequestState
      /\ Loaded(op, pc, u).pc = pc
      /\ Loaded(op, pc, u).sid = NULL
      /\ Loaded(op, pc, u).uid = u
  BY LoadedType, AdminTypes DEF TypeOK
<1>2. ~Refreshing(Loaded(op, pc, u)) /\ u \in Name
  BY <1>1 DEF Refreshing, TypeOK
<1> QED
  BY <1>1, <1>2, StartMoves

\* The rows that administrators' requests make of a row.
LEMMA EditedRows ==
  ASSUME NEW row \in UserRow
  PROVE  /\ \A x \in OrNull(Name) : [row EXCEPT !.email = x] \in UserRow
         /\ \A x \in HubAccessLevel : [row EXCEPT !.level = x] \in UserRow
         /\ \A x \in BOOLEAN : [row EXCEPT !.active = x] \in UserRow
         /\ \A x \in BOOLEAN : [row EXCEPT !.required = x] \in UserRow
         /\ \A x \in OrNull(Name) :
              [row EXCEPT !.pw = x, !.first = TRUE] \in UserRow
         /\ Unpaired(row) \in UserRow
         /\ \A copy \in UserRow : \A cols : MergeUser(row, copy, cols) \in UserRow
<1>1. Unpaired(row) \in UserRow
  BY NameTypes, UserFields DEF Unpaired
<1>2. \A copy \in UserRow : \A cols : MergeUser(row, copy, cols) \in UserRow
  BY DEF MergeUser, UserRow
<1> QED
  BY <1>1, <1>2 DEF UserRow

LEMMA AdminStartMoves ==
  ASSUME RowsInv, NEW r \in Request,
         \/ InviteStart(r) \/ UpdateProfileStart(r) \/ SetAccessLevelStart(r)
         \/ ToggleStatusStart(r) \/ ResetPasswordStart(r) \/ ResetTotpStart(r)
         \/ SetTotpRequiredStart(r) \/ RemoveStart(r)
  PROVE  Moves(r)
<1>0. /\ TypeOK
      /\ {r, DefaultPassword} \subseteq OrNull(Name)
      /\ Emails \subseteq OrNull(Name)
      /\ \A u \in DOMAIN users : users[u] \in UserRow
  BY NameTypes, NamesAssumption DEF RowsInv, TypeOK
<1>a. req[r].pc # "done"
  BY DEF InviteStart, UpdateProfileStart, SetAccessLevelStart,
         ToggleStatusStart, ResetPasswordStart, ResetTotpStart,
         SetTotpRequiredStart, RemoveStart, Admit, At
<1>b. \A op, pc : \A u \in DOMAIN users : Loaded(op, pc, u).usr = users[u]
  BY DEF Loaded, Blank
<1>r. CASE Refuse(r)
  BY <1>r, <1>a, <1>0, RefuseMoves
<1>d. CASE Respond(r, Plain("done"))
  BY <1>d, <1>a, <1>0, AdminTypes, RespondMoves
<1>1. CASE InviteStart(r) /\ ~Refuse(r)
  <2>1. PICK email \in Emails, level \in HubAccessLevel, required \in BOOLEAN,
             pw \in {r, DefaultPassword} :
          req' = [req EXCEPT ![r] = [Opened("invite", "insertUser", r)
                    EXCEPT !.usr = NewUser(email, pw, level, required)]]
    BY <1>1 DEF InviteStart
  <2> DEFINE q == Opened("invite", "insertUser", r)
             row == NewUser(email, pw, level, required)
  <2>2. row \in UserRow
    BY <1>0, NameTypes DEF NewUser, UserRow
  <2>3. q \in RequestState /\ q.pc = "insertUser" /\ q.sid = NULL
    BY <1>0, AdminTypes, OpenedType
  <2> HIDE DEF q, row
  <2>4. /\ [q EXCEPT !.usr = row] \in RequestState
        /\ [q EXCEPT !.usr = row].pc = "insertUser"
        /\ [q EXCEPT !.usr = row].sid = NULL
    BY <2>2, <2>3, RequestFields DEF RequestState
  <2>5. req' = [req EXCEPT ![r] = [q EXCEPT !.usr = row]]
    BY <2>1 DEF q, row
  <2> QED
    BY <2>4, <2>5, <1>0, <1>a, StartMoves DEF Refreshing, Saving
<1>2. CASE UpdateProfileStart(r) /\ ~Refuse(r)
  <2>1. PICK id \in DOMAIN users, email \in OrNull(Emails) :
          \/ req' = [req EXCEPT ![r] = Loaded("updateProfile", "selectUser", id)]
          \/ /\ email # NULL
             /\ req' = [req EXCEPT ![r] =
                  [Loaded("updateProfile", "checkEmail", id)
                     EXCEPT !.usr.email = email]]
    BY <1>2 DEF UpdateProfileStart
  <2> DEFINE q == Loaded("updateProfile", "checkEmail", id)
  <2>2. email # NULL => [users[id] EXCEPT !.email = email] \in UserRow
    BY <1>0, EditedRows DEF OrNull
  <2>3. [q EXCEPT !.usr.email = email]
          = [q EXCEPT !.usr = [users[id] EXCEPT !.email = email]]
    BY <1>b
  <2> QED
    BY <2>1, <2>2, <2>3, <1>0, <1>a, AdminTypes, EditedMoves, UnchangedCopyMoves
<1>3. CASE SetAccessLevelStart(r) /\ ~Refuse(r)
  <2>1. PICK id \in DOMAIN users, level \in HubAccessLevel,
             pc \in {"selectUser", "countAdmins"} :
          req' = [req EXCEPT ![r] = [Loaded("setAccessLevel", pc, id)
                                       EXCEPT !.usr.level = level]]
    BY <1>3 DEF SetAccessLevelStart, OthersOnly, Guarded
  <2> DEFINE q == Loaded("setAccessLevel", pc, id)
  <2>2. [q EXCEPT !.usr.level = level]
          = [q EXCEPT !.usr = [users[id] EXCEPT !.level = level]]
    BY <1>b
  <2>3. [users[id] EXCEPT !.level = level] \in UserRow
    BY <1>0, EditedRows
  <2> QED
    BY <2>1, <2>2, <2>3, <1>0, <1>a, AdminTypes, EditedMoves
<1>4. CASE ToggleStatusStart(r) /\ ~Refuse(r)
  <2>1. PICK id \in DOMAIN users, pc \in {"selectUser", "countAdmins"} :
          req' = [req EXCEPT ![r] = [Loaded("toggleStatus", pc, id)
                                       EXCEPT !.usr.active = ~@]]
    BY <1>4 DEF ToggleStatusStart, OthersOnly, Guarded
  <2> DEFINE q == Loaded("toggleStatus", pc, id)
             flipped == ~users[id].active
  <2>2. [q EXCEPT !.usr.active = ~@]
          = [q EXCEPT !.usr = [users[id] EXCEPT !.active = flipped]]
    BY <1>b
  <2>3. flipped \in BOOLEAN
    OBVIOUS
  <2> HIDE DEF flipped
  <2>4. [users[id] EXCEPT !.active = flipped] \in UserRow
    BY <2>3, <1>0, EditedRows
  <2>5. req' = [req EXCEPT ![r] = [q EXCEPT !.usr =
                  [users[id] EXCEPT !.active = flipped]]]
    BY <2>1, <2>2
  <2> QED
    BY <2>4, <2>5, <1>0, <1>a, AdminTypes, EditedMoves
<1>5. CASE ResetPasswordStart(r) /\ ~Refuse(r)
  <2>1. PICK id \in DOMAIN users, pw \in {r, DefaultPassword} :
          req' = [req EXCEPT ![r] = [Loaded("resetPassword", "selectUser", id)
                               EXCEPT !.usr.pw = pw, !.usr.first = TRUE]]
    BY <1>5 DEF ResetPasswordStart
  <2> DEFINE q == Loaded("resetPassword", "selectUser", id)
  <2>2. [q EXCEPT !.usr.pw = pw, !.usr.first = TRUE]
          = [q EXCEPT !.usr = [users[id] EXCEPT !.pw = pw, !.first = TRUE]]
    BY <1>b DEF Loaded, Blank
  <2>3. [users[id] EXCEPT !.pw = pw, !.first = TRUE] \in UserRow
    BY <1>0, EditedRows
  <2> QED
    BY <2>1, <2>2, <2>3, <1>0, <1>a, AdminTypes, EditedMoves
<1>6. CASE ResetTotpStart(r) /\ ~Refuse(r)
  <2>1. PICK id \in DOMAIN users :
          req' = [req EXCEPT ![r] = Loaded("resetTotp", "clearFactor", id)]
    BY <1>6 DEF ResetTotpStart
  <2> QED
    BY <2>1, <1>0, <1>a, AdminTypes, UnchangedCopyMoves
<1>7. CASE SetTotpRequiredStart(r) /\ ~Refuse(r) /\ ~Respond(r, Plain("done"))
  <2>1. PICK id \in DOMAIN users, required \in BOOLEAN :
          req' = [req EXCEPT ![r] = [Loaded("setTotpRequired", "storeRequired", id)
                                       EXCEPT !.usr.required = required]]
    BY <1>7 DEF SetTotpRequiredStart
  <2> DEFINE q == Loaded("setTotpRequired", "storeRequired", id)
  <2>2. [q EXCEPT !.usr.required = required]
          = [q EXCEPT !.usr = [users[id] EXCEPT !.required = required]]
    BY <1>b
  <2>3. [users[id] EXCEPT !.required = required] \in UserRow
    BY <1>0, EditedRows
  <2> QED
    BY <2>1, <2>2, <2>3, <1>0, <1>a, AdminTypes, EditedMoves
<1>8. CASE RemoveStart(r) /\ ~Refuse(r)
  <2>1. PICK id \in DOMAIN users, pc \in {"revokeUser", "countAdmins"} :
          req' = [req EXCEPT ![r] = Loaded("remove", pc, id)]
    BY <1>8 DEF RemoveStart, OthersOnly, Guarded
  <2> QED
    BY <2>1, <1>0, <1>a, AdminTypes, UnchangedCopyMoves
<1> QED
  BY <1>r, <1>d, <1>1, <1>2, <1>3, <1>4, <1>5, <1>6, <1>7, <1>8

LEMMA AdminMoves ==
  ASSUME RowsInv, NEW r \in Request, HubUsersStep(r)
  PROVE  Moves(r)
<1> DEFINE q == req[r]
<1>0. /\ TypeOK
      /\ req \in [Request -> RequestState]
      /\ q \in RequestState
  BY DEF RowsInv, TypeOK
<1>1. CASE \/ InviteStart(r) \/ UpdateProfileStart(r) \/ SetAccessLevelStart(r)
           \/ ToggleStatusStart(r) \/ ResetPasswordStart(r)
           \/ ResetTotpStart(r) \/ SetTotpRequiredStart(r) \/ RemoveStart(r)
  BY <1>1, AdminStartMoves
<1>2. CASE InsertUser(r) \/ DeleteUser(r)
  <2>1. /\ q.pc # "done"
        /\ Respond(r, Plain("done")) \/ Respond(r, Plain("failed"))
    BY <1>2 DEF InsertUser, DeleteUser, At
  <2> QED
    BY <2>1, <1>0, AdminTypes, RespondMoves
<1>3. CASE CheckEmail(r) \/ CountAdmins(r)
  <2>1. q.pc # "done" /\ Saving(q)
    BY <1>3 DEF CheckEmail, CountAdmins, At, Saving
  <2>2. \/ Refuse(r)
        \/ \E pc \in {"revokeUser", "selectUser"} : Goto(r, pc)
    BY <1>3 DEF CheckEmail, CountAdmins
  <2>3. \A pc \in {"revokeUser", "selectUser"} : ~Refreshing([pc |-> pc])
    BY DEF Refreshing
  <2> QED
    BY <2>1, <2>2, <2>3, <1>0, AdminTypes, RefuseMoves, GotoMoves
<1>4. CASE SelectUser(r)
  <2>1. q.pc # "done" /\ Saving(q)
    BY <1>4 DEF SelectUser, At, Saving
  <2>2. CASE Goto(r, "reinsertUser")
    BY <2>1, <2>2, AdminTypes, GotoMoves DEF Refreshing
  <2>3. ASSUME NEW cols \in SUBSET Column,
               req' = [req EXCEPT ![r].pc = "updateUser", ![r].cols = cols]
        PROVE  Moves(r)
    <3> DEFINE q1 == [q EXCEPT !.pc = "updateUser", !.cols = cols]
    <3>1. q1 \in RequestState
      BY <1>0, AdminTypes, RequestFields
    <3>2. q1.pc = "updateUser" /\ q1.sid = q.sid
      BY <1>0 DEF RequestState
    <3>3. req' = [req EXCEPT ![r] = q1]
      BY <2>3, <1>0
    <3> HIDE DEF q1
    <3> QED
      BY <3>1, <3>2, <3>3, <2>1, <1>0 DEF Moves, Refreshing, Saving
  <2>4. {c \in UserColumns : q.usr[c] # users[q.uid][c]} \cup FreshHash(r)
          \in SUBSET Column
    BY DEF UserColumns, FreshHash, Column
  <2> QED
    BY <2>2, <2>3, <2>4, <1>4 DEF SelectUser
<1>5. CASE UpdateUser(r) \/ ReinsertUser(r)
  <2>1. q.pc # "done"
    BY <1>5 DEF UpdateUser, ReinsertUser, At
  <2>2. \/ Respond(r, Plain("failed"))
        \/ \E pc \in {"revokeUser", "done"} : Finish(r, pc)
    BY <1>5 DEF UpdateUser, ReinsertUser, AfterSave
  <2> QED
    BY <2>1, <2>2, <1>0, AdminTypes, RespondMoves, FinishMoves
<1>6. CASE ClearFactor(r)
  <2>1. q.pc # "done" /\ Goto(r, "clearCodes")
    BY <1>6 DEF ClearFactor, At
  <2> QED
    BY <2>1, AdminTypes, GotoMoves DEF Refreshing, Saving
<1>7. CASE ClearCodes(r) \/ StoreRequired(r) \/ RevokeUser(r)
  <2>1. /\ q.pc # "done"
        /\ \E pc \in {"revokeUser", "deleteUser", "done"} : Finish(r, pc)
    <3>1. CASE ClearCodes(r)
      BY <3>1 DEF ClearCodes, At
    <3>2. CASE StoreRequired(r)
      <4>1. q.pc = "storeRequired" /\ Finish(r, AfterRequired(q.usr))
        BY <3>2 DEF StoreRequired, At
      <4>2. AfterRequired(q.usr) \in {"revokeUser", "done"}
        BY DEF AfterRequired
      <4> QED
        BY <4>1, <4>2
    <3>3. CASE RevokeUser(r)
      <4>1. /\ q.pc = "revokeUser"
            /\ Finish(r, IF q.op = "remove" THEN "deleteUser" ELSE "done")
        BY <3>3 DEF RevokeUser, At
      <4> QED
        BY <4>1
    <3> QED
      BY <1>7, <3>1, <3>2, <3>3
  <2> QED
    BY <2>1, FinishMoves
<1> QED
  BY <1>1, <1>2, <1>3, <1>4, <1>5, <1>6, <1>7 DEF HubUsersStep

-----------------------------------------------------------------------------
(***************************************************************************)
(* What the administrators' statements do to the tables.                   *)
(***************************************************************************)
LEMMA AdminTables ==
  ASSUME RowsInv, NEW r \in Request, HubUsersStep(r)
  PROVE  TypeOK' /\ ForeignKeys'
<1> DEFINE q == req[r]
<1>0. /\ TypeOK
      /\ ForeignKeys
      /\ q.usr \in UserRow
      /\ req' \in [Request -> RequestState]
      /\ r \in Name
  BY AdminMoves, NameTypes DEF RowsInv, TypeOK, RequestState, Moves
<1>1. CASE UNCHANGED tables
  BY <1>0, <1>1 DEF TypeOK, ForeignKeys, tables
<1>2. ASSUME NEW u \in Name, users' = Insert(users, {u}, q.usr),
             UNCHANGED <<sessions, codes, tokens, clock, revoked>>
      PROVE  TypeOK' /\ ForeignKeys'
  <2>1. /\ DOMAIN users' = DOMAIN users \cup {u}
        /\ users' \in [DOMAIN users' -> UserRow]
    BY <1>2, <1>0 DEF Insert, TypeOK
  <2> QED
    BY <2>1, <1>0, <1>2 DEF TypeOK, ForeignKeys
<1>3. ASSUME NEW u, NEW row, u \in DOMAIN users => row \in UserRow,
             users' = Updated(users, u, row),
             UNCHANGED <<sessions, codes, tokens, clock, revoked>>
      PROVE  TypeOK' /\ ForeignKeys'
  <2>1. DOMAIN users' = DOMAIN users
    BY <1>3 DEF Updated
  <2> QED
    BY <2>1, <1>0, <1>3, OnlyUsers DEF ForeignKeys
<1>4. CASE UNCHANGED users /\ UNCHANGED <<sessions, codes, tokens, clock, revoked>>
  BY <1>0, <1>4 DEF TypeOK, ForeignKeys
<1>5. q.uid \in DOMAIN users => users[q.uid] \in UserRow
  BY <1>0 DEF TypeOK
<1>6. CASE InsertUser(r)
  BY <1>6, <1>2, <1>4, <1>0 DEF InsertUser
<1>7. CASE UpdateUser(r)
  <2>1. q.uid \in DOMAIN users => MergeUser(users[q.uid], q.usr, q.cols) \in UserRow
    BY <1>0, <1>5, EditedRows
  <2> QED
    BY <2>1, <1>7, <1>3, <1>4 DEF UpdateUser
<1>8. CASE ReinsertUser(r)
  <2>1. q.uid \in Name
    BY <1>8 DEF ReinsertUser, At, Saving, RowsInv, Copies
  <2> QED
    BY <2>1, <1>8, <1>2, <1>4 DEF ReinsertUser
<1>9. CASE ClearFactor(r)
  <2>1. q.uid \in DOMAIN users => Unpaired(users[q.uid]) \in UserRow
    BY <1>5, EditedRows
  <2> QED
    BY <2>1, <1>9, <1>3 DEF ClearFactor
<1>10. CASE ClearCodes(r)
  <2>1. /\ DOMAIN codes' \subseteq CodeId
        /\ codes' \in [DOMAIN codes' -> CodeRow]
    BY <1>0, <1>10 DEF ClearCodes, Delete, Restrict, TypeOK
  <2> QED
    BY <2>1, <1>0, <1>10 DEF ClearCodes, TypeOK, ForeignKeys
<1>11. CASE StoreRequired(r)
  <2>1. q.usr.required \in BOOLEAN
    BY <1>0 DEF UserRow
  <2>2. q.uid \in DOMAIN users =>
          [users[q.uid] EXCEPT !.required = q.usr.required] \in UserRow
    BY <2>1, <1>5, EditedRows
  <2> QED
    BY <2>2, <1>11, <1>3 DEF StoreRequired
<1>12. CASE RevokeUser(r)
  <2>1. SessionsOf(q.uid) \in SUBSET DOMAIN sessions
    BY DEF SessionsOf
  <2>2. /\ DOMAIN sessions' = DOMAIN sessions \ SessionsOf(q.uid)
        /\ sessions' \in [DOMAIN sessions' -> SessionRow]
        /\ revoked' \subseteq Name
        /\ ForeignKeys'
    BY <2>1, <1>0, <1>12, EndSessionsType DEF RevokeUser
  <2> QED
    BY <2>2, <1>0, <1>12 DEF RevokeUser, TypeOK
<1>13. CASE DeleteUser(r)
  <2>1. /\ DOMAIN users' = DOMAIN users \ {q.uid}
        /\ users' \in [DOMAIN users' -> UserRow]
        /\ DOMAIN codes' \subseteq CodeId
        /\ codes' \in [DOMAIN codes' -> CodeRow]
    BY <1>0, <1>13 DEF DeleteUser, Delete, Restrict, TypeOK
  <2>2. /\ DOMAIN sessions' = DOMAIN sessions \ SessionsOf(q.uid)
        /\ \A s \in DOMAIN sessions' : sessions'[s] = sessions[s]
        /\ sessions' \in [DOMAIN sessions' -> SessionRow]
        /\ revoked' \subseteq Name
    BY <1>0, <1>13
    DEF DeleteUser, EndSessions, SessionsOf, Delete, Restrict, TypeOK
  <2>3. ForeignKeys'
    <3>1. \A s \in DOMAIN sessions' :
            /\ s \in DOMAIN sessions
            /\ sessions[s].user # q.uid
            /\ sessions'[s].user = sessions[s].user
      BY <2>2 DEF SessionsOf
    <3>2. \A s \in DOMAIN sessions' : sessions'[s].user \in DOMAIN users'
      <4>1. \A s \in DOMAIN sessions : sessions[s].user \in DOMAIN users
        BY <1>0 DEF ForeignKeys
      <4> QED
        BY <2>1, <3>1, <4>1
    <3> QED
      BY <3>2 DEF ForeignKeys
  <2> QED
    BY <2>1, <2>2, <2>3, <1>0, <1>13 DEF DeleteUser, TypeOK
<1> QED
  BY <1>1, <1>6, <1>7, <1>8, <1>9, <1>10, <1>11, <1>12, <1>13
  DEF HubUsersStep, InviteStart, UpdateProfileStart, CheckEmail,
      SetAccessLevelStart, ToggleStatusStart, CountAdmins, ResetPasswordStart,
      SelectUser, ResetTotpStart, SetTotpRequiredStart, RemoveStart

LEMMA AdminLedger ==
  ASSUME NEW r \in Request, HubUsersStep(r)
  PROVE  KeepsLedger(r)
<1>1. CASE sessions' = sessions /\ revoked' = revoked
  BY <1>1 DEF KeepsLedger
<1>2. CASE RevokeUser(r) \/ DeleteUser(r)
  <2>1. SessionsOf(req[r].uid) \in SUBSET DOMAIN sessions
    BY DEF SessionsOf
  <2> QED
    BY <2>1, <1>2, DeletionLedger DEF RevokeUser, DeleteUser
<1> QED
  BY <1>1, <1>2
  DEF HubUsersStep, tables, InviteStart, InsertUser, UpdateProfileStart,
      CheckEmail, SetAccessLevelStart, ToggleStatusStart, CountAdmins,
      ResetPasswordStart, SelectUser, UpdateUser, ReinsertUser, ResetTotpStart,
      ClearFactor, ClearCodes, SetTotpRequiredStart, StoreRequired, RemoveStart

-----------------------------------------------------------------------------
(***************************************************************************)
(* The theorems.                                                           *)
(***************************************************************************)
LEMMA HubInvariance ==
  ASSUME RowsInv, LedgerInv, [Next]_vars
  PROVE  RowsInv' /\ LedgerInv'
<1>0. TypeOK
  BY DEF RowsInv
<1>1. ASSUME NEW r \in Request, HubUsersStep(r)
      PROVE  RowsInv' /\ LedgerInv'
  <2>1. RowsInv'
    BY <1>1, AdminTables, AdminMoves, MovesCopies DEF RowsInv
  <2> QED
    BY <2>1, <1>0, <1>1, AdminMoves, AdminLedger, LedgerStep
<1>2. ASSUME ~\E r \in Request : HubUsersStep(r)
      PROVE  RowsInv' /\ LedgerInv'
  <2>1. [AuthNext]_vars
    BY <1>2 DEF Next, Step, AuthNext
  <2> QED
    BY <2>1, RowsStep, LedgerInvariance
<1> QED
  BY <1>1, <1>2

LEMMA HubInv == Spec => [](RowsInv /\ LedgerInv)
<1>1. Init => RowsInv /\ LedgerInv
  BY InitRows, InitLedger
<1>2. (RowsInv /\ LedgerInv) /\ [Next]_vars => (RowsInv /\ LedgerInv)'
  BY HubInvariance
<1> QED
  BY <1>1, <1>2, PTL DEF Spec

\* Whatever administrators and account holders do at once, and wherever
\* workers die, the three tables keep rows of their schema.
THEOREM HubTypeOK == Spec => []TypeOK
<1>1. RowsInv => TypeOK
  BY DEF RowsInv
<1> QED
  BY <1>1, HubInv, PTL

\* A session that was signed out, or revoked by any of the handlers that
\* revoke, while no refresh held a copy of it, is gone for good.
THEOREM HubRevocation == Spec => []RevokedStaysRevoked
<1>1. LedgerInv => RevokedStaysRevoked
  BY DEF LedgerInv
<1> QED
  BY <1>1, HubInv, PTL

\* A hub in which nobody administers accounts is a hub: what holds of Spec
\* holds of AuthSpec.
LEMMA AuthWithinHub == AuthSpec => Spec
<1>1. [AuthNext]_vars => [Next]_vars
  BY DEF AuthNext, Next, Step
<1> QED
  BY <1>1, PTL DEF AuthSpec, Spec
-----------------------------------------------------------------------------
(***************************************************************************)
(* The request that is running, and what it may rely on.                   *)
(***************************************************************************)
Alone == \A p, q \in InFlight : p = q

Resting(r) == req[r].pc \in {"idle", "done"}

\* The statements that are about an account, or a session, in the table.
OnAccount ==
  {"storeSecret", "verify", "burn", "setEnabled", "clearTotp", "dropCodes",
   "issueCodes", "findCode", "spendCode", "settle", "purge", "createSession",
   "judge", "countAdmins", "checkEmail", "selectUser", "updateUser",
   "clearFactor", "clearCodes", "storeRequired", "revokeUser", "deleteUser"}

OnSession == {"judge", "dropRow", "saveSelect", "saveUpdate"}

\* The row it was loaded from is still there, so that no save() inserts.
RowThere(r) ==
  LET q == req[r] IN
    /\ q.pc \in OnAccount => q.uid \in DOMAIN users
    /\ q.pc \in {"setPassword", "revoke"} /\ q.op = "changeOwn"
         => q.uid \in DOMAIN users
    /\ q.pc \in OnSession => q.sid \in DOMAIN sessions
    /\ q.pc \notin {"reinsertUser", "saveInsert"}

\* The copy of a handler that reads only.
CopyIsRow(r) ==
  LET q == req[r] IN
    /\ q.pc \in {"verify", "burn", "findCode", "spendCode", "judge"}
         => q.usr = users[q.uid]
    /\ q.pc = "settle" => q.usr.first = users[q.uid].first

\* A handler that save()s holds a copy that differs from the row in the
\* columns of its operation.
EditOf(row, copy, op) ==
  /\ copy.required = row.required
  /\ copy.secret = row.secret
  /\ copy.enabled = row.enabled
  /\ copy.last = row.last
  /\ op # "resetPassword" => copy.pw = row.pw /\ copy.first = row.first
  /\ op # "setAccessLevel" => copy.level = row.level
  /\ op # "toggleStatus" => copy.active = row.active
  /\ op = "resetPassword" => copy.first

\* That copy, and what the save() will make of the row.
CopyIsEdited(r) ==
  LET q   == req[r]
      row == users[q.uid]
  IN
    q.pc \in {"countAdmins", "checkEmail", "selectUser", "updateUser"} =>
      /\ EditOf(row, q.usr, q.op)
      /\ q.pc = "updateUser" => MergeUser(row, q.usr, q.cols) = q.usr

\* What the early returns of the second factor have made sure of.
FactorChecked(r) ==
  LET q   == req[r]
      row == users[q.uid]
  IN
    /\ q.pc \in {"verify", "burn"} =>
         /\ q.op \in {"enable", "regenerate", "disable", "login"}
         /\ row.enabled <=> q.op # "enable"
    /\ q.pc = "storeSecret" => ~row.enabled
    /\ q.pc = "setEnabled" =>
         /\ q.op = "enable"
         /\ ~row.enabled
         /\ q.accepted # NULL
         /\ q.accepted.secret = row.secret
    /\ q.pc = "clearTotp" => q.op = "disable"
    /\ q.pc = "dropCodes" =>
         /\ q.op \in {"enable", "regenerate", "disable"}
         /\ row.enabled <=> q.op # "disable"
    /\ q.pc = "issueCodes" => row.enabled /\ CodesOf(q.uid) = {}
    /\ q.pc \in {"findCode", "spendCode"} => row.enabled
    /\ q.pc = "clearCodes" => ~row.enabled
    /\ q.pc = "insertUser" => ~q.usr.enabled /\ q.usr.secret = NULL

Known(r) == RowThere(r) /\ CopyIsRow(r) /\ CopyIsEdited(r) /\ FactorChecked(r)

SerialInv ==
  /\ RowsInv
  /\ Alone
  /\ \A r \in Request : Known(r)
-----------------------------------------------------------------------------
\* The fields of a request that a statement moves on, starts or ends.
LEMMA GotoFields ==
  ASSUME req \in [Request -> RequestState], NEW r \in Request, NEW pc, Goto(r, pc)
  PROVE  /\ req'[r].pc = pc
         /\ req'[r].op = req[r].op
         /\ req'[r].uid = req[r].uid
         /\ req'[r].usr = req[r].usr
         /\ req'[r].sid = req[r].sid
         /\ req'[r].ses = req[r].ses
         /\ req'[r].cols = req[r].cols
         /\ req'[r].pw = req[r].pw
         /\ req'[r].handle = req[r].handle
         /\ req'[r].code = req[r].code
         /\ req'[r].accepted = req[r].accepted
         /\ req'[r].out = req[r].out
BY DEF Goto, RequestState

LEMMA LoadedFields ==
  \A op, pc, u :
    /\ Loaded(op, pc, u).op = op
    /\ Loaded(op, pc, u).pc = pc
    /\ Loaded(op, pc, u).uid = u
    /\ Loaded(op, pc, u).usr = users[u]
    /\ Loaded(op, pc, u).accepted = NULL
    /\ Loaded(op, pc, u).code = NULL
    /\ Loaded(op, pc, u).out = Plain("none")
BY DEF Loaded, Blank

LEMMA RespondRests ==
  ASSUME req \in [Request -> RequestState], NEW r \in Request, NEW answer,
         Respond(r, answer)
  PROVE  Resting(r)'
BY DEF Respond, Closed, Blank, Resting

LEMMA RestsKnown ==
  ASSUME NEW r \in Request, Resting(r)'
  PROVE  Known(r)'
BY DEF Resting, Known, RowThere, CopyIsRow, CopyIsEdited, FactorChecked,
       OnAccount, OnSession

LEMMA RespondKnown ==
  ASSUME req \in [Request -> RequestState], NEW r \in Request, NEW answer,
         Respond(r, answer)
  PROVE  Known(r)'
BY RespondRests, RestsKnown

LEMMA RefuseKnown ==
  ASSUME req \in [Request -> RequestState], NEW r \in Request, Refuse(r)
  PROVE  Known(r)'
BY RespondKnown DEF Refuse

\* An UPDATE of a row that is there.
LEMMA UpdatedRow ==
  ASSUME NEW u \in DOMAIN users, NEW row, users' = Updated(users, u, row)
  PROVE  /\ DOMAIN users' = DOMAIN users
         /\ users'[u] = row
         /\ \A v \in DOMAIN users \ {u} : users'[v] = users[v]
BY DEF Updated

LEMMA TotpKnown ==
  ASSUME SerialInv, NEW r \in Request, TotpStep(r)
  PROVE  Known(r)'
<1> DEFINE q == req[r]
<1>0. /\ req \in [Request -> RequestState]
      /\ Known(r)
      /\ users \in [DOMAIN users -> UserRow]
  BY DEF SerialInv, RowsInv, TypeOK
<1> USE DEF Known, RowThere, OnAccount, OnSession
<1>1. CASE SetupStart(r)
  <2>1. PICK t \in tokens, op \in {"setup", "rotate"} :
          \/ Refuse(r)
          \/ \E answer : Respond(r, answer)
          \/ MayPair(t.sub) /\ req' = [req EXCEPT ![r] = Loaded(op, "storeSecret", t.sub)]
    BY <1>1 DEF SetupStart, Bearers
  <2>2. CASE MayPair(t.sub) /\ req' = [req EXCEPT ![r] = Loaded(op, "storeSecret", t.sub)]
    <3>1. /\ req'[r].pc = "storeSecret"
          /\ req'[r].uid = t.sub
          /\ t.sub \in DOMAIN users
          /\ ~users[t.sub].enabled
          /\ users' = users
      BY <2>2, <1>0, <1>1, LoadedFields DEF MayPair, SetupStart, tables
    <3> QED
      BY <3>1 DEF CopyIsRow, CopyIsEdited, FactorChecked
  <2> QED
    BY <2>1, <2>2, <1>0, RespondKnown, RefuseKnown
<1>2. CASE StoreSecret(r) \/ VerifyRejects(r) \/ IssueCodes(r)
  <2>1. \E answer : Respond(r, answer)
    BY <1>2 DEF StoreSecret, VerifyRejects, IssueCodes, Refuse
  <2> QED
    BY <2>1, <1>0, RespondKnown
<1>3. CASE EnableStart(r) \/ RegenerateStart(r) \/ DisableStart(r)
  <2>1. PICK op \in {"enable", "regenerate", "disable"} :
          \/ Refuse(r)
          \/ \E u \in DOMAIN users :
             /\ users[u].enabled <=> op # "enable"
             /\ req' = [req EXCEPT ![r] = Loaded(op, "verify", u)]
             /\ users' = users
    <3>1. CASE EnableStart(r)
      BY <3>1, <1>0 DEF EnableStart, MayPair, tables, UserRow
    <3>2. CASE RegenerateStart(r)
      BY <3>2, <1>0 DEF RegenerateStart, Enrolled, tables, UserRow
    <3>3. CASE DisableStart(r)
      BY <3>3, <1>0 DEF DisableStart, MayDisable, Enrolled, tables, UserRow
    <3> QED
      BY <3>1, <3>2, <3>3, <1>3
  <2>2. ASSUME NEW u \in DOMAIN users,
               users[u].enabled <=> op # "enable",
               req' = [req EXCEPT ![r] = Loaded(op, "verify", u)],
               users' = users
        PROVE  Known(r)'
    <3>1. /\ req'[r].pc = "verify"
          /\ req'[r].op = op
          /\ req'[r].uid = u
          /\ req'[r].usr = users[u]
      BY <2>2, <1>0, LoadedFields
    <3> QED
      BY <3>1, <2>2 DEF CopyIsRow, CopyIsEdited, FactorChecked
  <2> QED
    BY <2>1, <2>2, <1>0, RefuseKnown
<1>4. CASE VerifyAccepts(r)
  <2>1. PICK t : req' = [req EXCEPT ![r].pc = "burn", ![r].step = t]
    BY <1>4 DEF VerifyAccepts
  <2>2. /\ req'[r].pc = "burn"
        /\ req'[r].op = q.op
        /\ req'[r].uid = q.uid
        /\ req'[r].usr = q.usr
    BY <2>1, <1>0 DEF RequestState
  <2>3. users' = users /\ q.pc = "verify"
    BY <1>4 DEF VerifyAccepts, tables, At
  <2> QED
    BY <2>2, <2>3, <1>0 DEF CopyIsRow, CopyIsEdited, FactorChecked
<1>5. CASE Burn(r)
  <2>1. CASE Refuse(r)
    BY <2>1, <1>0, RefuseKnown
  <2>2. CASE /\ q.uid \in DOMAIN users
             /\ users' = [users EXCEPT ![q.uid].last = q.step]
             /\ req' = [req EXCEPT ![r].pc = AfterVerify(q.op),
                              ![r].accepted = [user |-> q.uid,
                                               secret |-> q.usr.secret,
                                               step |-> q.step]]
    <3>1. /\ req'[r].pc = AfterVerify(q.op)
          /\ req'[r].op = q.op
          /\ req'[r].uid = q.uid
          /\ req'[r].usr = q.usr
          /\ req'[r].accepted = [user |-> q.uid, secret |-> q.usr.secret,
                                 step |-> q.step]
      BY <2>2, <1>0 DEF RequestState
    <3>2. /\ DOMAIN users' = DOMAIN users
          /\ users[q.uid] \in UserRow
          /\ users'[q.uid] = [users[q.uid] EXCEPT !.last = q.step]
      BY <2>2, <1>0
    <3>3. /\ users'[q.uid].enabled = users[q.uid].enabled
          /\ users'[q.uid].secret = users[q.uid].secret
          /\ users'[q.uid].first = users[q.uid].first
      BY <3>2 DEF UserRow
    <3>4. /\ q.pc = "burn"
          /\ q.usr = users[q.uid]
          /\ q.op \in {"enable", "regenerate", "disable", "login"}
          /\ users[q.uid].enabled <=> q.op # "enable"
      BY <1>5, <1>0 DEF Burn, At, CopyIsRow, FactorChecked
    <3>5. /\ req'[r].accepted # NULL
          /\ req'[r].accepted.secret = users[q.uid].secret
      <4>1. [user |-> q.uid, secret |-> q.usr.secret, step |-> q.step] \in AcceptedCode
        BY <1>0 DEF RequestState, UserRow, AcceptedCode
      <4> QED
        BY <4>1, <3>1, <3>4, NullAssumption
    <3> QED
      BY <3>1, <3>2, <3>3, <3>4, <3>5, <2>2
      DEF AfterVerify, CopyIsRow, CopyIsEdited, FactorChecked
  <2> QED
    BY <2>1, <2>2, <1>5 DEF Burn, Burnable
<1>6. CASE SetEnabled(r)
  <2>1. /\ q.pc = "setEnabled"
        /\ q.uid \in DOMAIN users
        /\ q.op = "enable"
        /\ Goto(r, "dropCodes")
        /\ users' = Updated(users, q.uid, [users[q.uid] EXCEPT !.enabled = TRUE])
    BY <1>6, <1>0 DEF SetEnabled, At, FactorChecked
  <2>2. DOMAIN users' = DOMAIN users /\ users'[q.uid].enabled = TRUE
    <3>1. /\ DOMAIN users' = DOMAIN users
          /\ users'[q.uid] = [users[q.uid] EXCEPT !.enabled = TRUE]
      BY <2>1, UpdatedRow
    <3> QED
      BY <3>1, <2>1, <1>0 DEF UserRow
  <2>3. /\ req'[r].pc = "dropCodes"
        /\ req'[r].op = "enable"
        /\ req'[r].uid = q.uid
    BY <2>1, <1>0, GotoFields
  <2> QED
    BY <2>1, <2>2, <2>3 DEF CopyIsRow, CopyIsEdited, FactorChecked
<1>7. CASE ClearTotp(r)
  <2>1. /\ q.pc = "clearTotp"
        /\ q.uid \in DOMAIN users
        /\ q.op = "disable"
        /\ Goto(r, "dropCodes")
        /\ users' = Updated(users, q.uid, WithoutTotp(users[q.uid]))
    BY <1>7, <1>0 DEF ClearTotp, At, FactorChecked
  <2>2. DOMAIN users' = DOMAIN users /\ users'[q.uid].enabled = FALSE
    <3>1. /\ DOMAIN users' = DOMAIN users
          /\ users'[q.uid] = WithoutTotp(users[q.uid])
      BY <2>1, UpdatedRow
    <3> QED
      BY <3>1, <2>1, <1>0 DEF UserRow, WithoutTotp
  <2>3. /\ req'[r].pc = "dropCodes"
        /\ req'[r].op = "disable"
        /\ req'[r].uid = q.uid
    BY <2>1, <1>0, GotoFields
  <2> QED
    BY <2>1, <2>2, <2>3 DEF CopyIsRow, CopyIsEdited, FactorChecked
<1>8. CASE DropCodes(r)
  <2>1. /\ q.pc = "dropCodes"
        /\ users' = users
        /\ codes' = Delete(codes, CodesOf(q.uid))
    BY <1>8 DEF DropCodes, At
  <2>2. CASE q.op # "disable" /\ Goto(r, "issueCodes")
    <3>1. CodesOf(q.uid)' = {}
      <4>1. req'[r].uid = q.uid
        BY <2>2, <1>0, GotoFields
      <4> QED
        BY <4>1, <2>1 DEF CodesOf, Delete, Restrict
    <3> QED
      BY <3>1, <2>1, <2>2, <1>0, GotoFields
      DEF CopyIsRow, CopyIsEdited, FactorChecked
  <2>3. CASE Respond(r, Plain("done"))
    BY <2>3, <1>0, RespondKnown
  <2> QED
    BY <2>2, <2>3, <1>8 DEF DropCodes
<1> QED
  BY <1>1, <1>2, <1>3, <1>4, <1>5, <1>6, <1>7, <1>8 DEF TotpStep

LEMMA SignInKnown ==
  ASSUME SerialInv, NEW r \in Request,
         \/ LoginStart(r) \/ RecoveryStart(r) \/ FindCode(r) \/ SpendCode(r)
         \/ Settle(r) \/ PurgeExpired(r) \/ CreateSession(r)
  PROVE  Known(r)'
<1> DEFINE q == req[r]
<1>0. /\ req \in [Request -> RequestState]
      /\ Known(r)
      /\ users \in [DOMAIN users -> UserRow]
  BY DEF SerialInv, RowsInv, TypeOK
<1> USE DEF Known, RowThere, OnAccount, OnSession
<1>a. CASE \E answer : Respond(r, answer)
  BY <1>a, <1>0, RespondKnown
<1>r. CASE Refuse(r)
  BY <1>r, <1>0, RefuseKnown
<1>1. CASE LoginStart(r) \/ RecoveryStart(r)
  <2>1. \/ Refuse(r)
        \/ \E answer : Respond(r, answer)
        \/ \E u \in DOMAIN users :
             /\ users' = users
             /\ \/ /\ users[u].enabled
                   /\ req' = [req EXCEPT ![r] = SignIn("login", "verify", u)]
                \/ req' = [req EXCEPT ![r] = SignIn("login", "settle", u)]
                \/ /\ users[u].enabled
                   /\ req' = [req EXCEPT ![r] = SignIn("recovery", "findCode", u)]
    BY <1>1
    DEF LoginStart, RecoveryStart, PasswordAccepted, RecoveryAccepted,
        NeedsCode, tables
  <2>2. \A op, pc, u : /\ SignIn(op, pc, u).op = op
                       /\ SignIn(op, pc, u).pc = pc
                       /\ SignIn(op, pc, u).uid = u
                       /\ SignIn(op, pc, u).usr = users[u]
    BY DEF SignIn, Loaded, Blank
  <2>3. ASSUME NEW u \in DOMAIN users, users' = users,
               \/ /\ users[u].enabled
                  /\ req' = [req EXCEPT ![r] = SignIn("login", "verify", u)]
               \/ req' = [req EXCEPT ![r] = SignIn("login", "settle", u)]
               \/ /\ users[u].enabled
                  /\ req' = [req EXCEPT ![r] = SignIn("recovery", "findCode", u)]
        PROVE  Known(r)'
    <3>1. /\ req'[r].uid = u
          /\ req'[r].usr = users[u]
          /\ \/ req'[r].pc = "verify" /\ req'[r].op = "login" /\ users[u].enabled
             \/ req'[r].pc = "settle"
             \/ req'[r].pc = "findCode" /\ users[u].enabled
      BY <2>2, <2>3, <1>0
    <3> QED
      BY <3>1, <2>3 DEF CopyIsRow, CopyIsEdited, FactorChecked
  <2> QED
    BY <2>1, <2>3, <1>a, <1>r
<1>2. CASE FindCode(r) /\ ~Refuse(r)
  <2>1. PICK c : req' = [req EXCEPT ![r].pc = "spendCode", ![r].code = c]
    BY <1>2 DEF FindCode
  <2>2. /\ req'[r].pc = "spendCode"
        /\ req'[r].uid = q.uid
        /\ req'[r].usr = q.usr
    BY <2>1, <1>0 DEF RequestState
  <2>3. q.pc = "findCode" /\ users' = users
    BY <1>2 DEF FindCode, At, tables
  <2> QED
    BY <2>2, <2>3, <1>0 DEF CopyIsRow, CopyIsEdited, FactorChecked
<1>3. CASE SpendCode(r)
  <2>1. q.pc = "spendCode" /\ users' = users /\ Goto(r, "settle")
    BY <1>3 DEF SpendCode, At
  <2>2. /\ req'[r].pc = "settle"
        /\ req'[r].uid = q.uid
        /\ req'[r].usr = q.usr
    BY <2>1, <1>0, GotoFields
  <2> QED
    BY <2>1, <2>2, <1>0 DEF CopyIsRow, CopyIsEdited, FactorChecked
<1>4. CASE (Settle(r) \/ PurgeExpired(r)) /\ ~\E answer : Respond(r, answer)
  <2>1. PICK pc \in {"purge", "createSession"} : Goto(r, pc)
    BY <1>4 DEF Settle, PurgeExpired
  <2>2. q.pc \in {"settle", "purge"} /\ users' = users
    BY <1>4 DEF Settle, PurgeExpired, At
  <2>3. req'[r].pc = pc /\ req'[r].uid = q.uid
    BY <2>1, <1>0, GotoFields
  <2> QED
    BY <2>1, <2>2, <2>3, <1>0 DEF CopyIsRow, CopyIsEdited, FactorChecked
<1>5. CASE CreateSession(r)
  BY <1>5, <1>a DEF CreateSession
<1> QED
  BY <1>1, <1>2, <1>3, <1>4, <1>5, <1>a, <1>r

LEMMA RefreshKnown ==
  ASSUME SerialInv, NEW r \in Request,
         \/ RefreshStart(r) \/ FindCurrent(r) \/ FindPrevious(r) \/ Judge(r)
         \/ DropRow(r) \/ SaveSelect(r) \/ SaveUpdate(r) \/ SaveInsert(r)
  PROVE  Known(r)'
<1> DEFINE q == req[r]
<1>0. /\ req \in [Request -> RequestState]
      /\ Known(r)
      /\ ForeignKeys
  BY DEF SerialInv, RowsInv, TypeOK
<1> USE DEF Known, RowThere, OnAccount, OnSession
<1>a. CASE \E answer : Respond(r, answer)
  BY <1>a, <1>0, RespondKnown
<1>r. CASE Refuse(r)
  BY <1>r, <1>0, RefuseKnown
<1>1. CASE RefreshStart(r)
  <2>1. PICK handle : req' = [req EXCEPT ![r] =
           [Opened("refresh", "findCurrent", NULL) EXCEPT !.handle = handle,
                                                          !.now = clock]]
    BY <1>1 DEF RefreshStart
  <2>2. req'[r].pc = "findCurrent"
    BY <2>1, <1>0 DEF Opened, Blank
  <2> QED
    BY <2>2 DEF CopyIsRow, CopyIsEdited, FactorChecked
<1>2. CASE (FindCurrent(r) \/ FindPrevious(r)) /\ ~Refuse(r)
  <2>1. users' = users /\ sessions' = sessions
    BY <1>2 DEF FindCurrent, FindPrevious, tables
  <2>2. CASE Goto(r, "findPrevious")
    <3>1. req'[r].pc = "findPrevious"
      BY <2>2, <1>0, GotoFields
    <3> QED
      BY <3>1 DEF CopyIsRow, CopyIsEdited, FactorChecked
  <2>3. ASSUME NEW s \in DOMAIN sessions, LoadSession(r, s)
        PROVE  Known(r)'
    <3>1. /\ req'[r].pc = "judge"
          /\ req'[r].sid = s
          /\ req'[r].uid = sessions[s].user
          /\ req'[r].usr = users[sessions[s].user]
      BY <2>3, <1>0 DEF LoadSession, RequestState
    <3>2. sessions[s].user \in DOMAIN users
      BY <1>0 DEF ForeignKeys
    <3> QED
      BY <3>1, <3>2, <2>1 DEF CopyIsRow, CopyIsEdited, FactorChecked
  <2> QED
    BY <2>2, <2>3, <1>2 DEF FindCurrent, FindPrevious, HoldersOf, InGrace
<1>3. CASE Judge(r)
  <2>1. \/ Goto(r, "dropRow")
        \/ \E ses : req' = [req EXCEPT ![r].pc = "saveSelect", ![r].ses = ses]
    BY <1>3 DEF Judge
  <2>2. /\ req'[r].pc \in {"dropRow", "saveSelect"}
        /\ req'[r].sid = q.sid
    BY <2>1, <1>0, GotoFields DEF RequestState
  <2>3. q.pc = "judge" /\ sessions' = sessions
    BY <1>3 DEF Judge, At, tables
  <2> QED
    BY <2>2, <2>3, <1>0 DEF CopyIsRow, CopyIsEdited, FactorChecked
<1>4. CASE SaveSelect(r)
  <2>1. q.pc = "saveSelect" /\ sessions' = sessions /\ q.sid \in DOMAIN sessions
    BY <1>4, <1>0 DEF SaveSelect, At, tables
  <2>2. PICK cols : req' = [req EXCEPT ![r].pc = "saveUpdate", ![r].cols = cols]
    BY <2>1, <1>4 DEF SaveSelect
  <2>3. req'[r].pc = "saveUpdate" /\ req'[r].sid = q.sid
    BY <2>2, <1>0 DEF RequestState
  <2> QED
    BY <2>1, <2>3 DEF CopyIsRow, CopyIsEdited, FactorChecked
<1>5. CASE SaveUpdate(r) \/ SaveInsert(r)
  BY <1>5, <1>a DEF SaveUpdate, SaveInsert, AnswerRefresh
<1>6. CASE DropRow(r)
  BY <1>6, <1>r DEF DropRow
<1> QED
  BY <1>1, <1>2, <1>3, <1>4, <1>5, <1>6, <1>r

LEMMA PasswordKnown ==
  ASSUME SerialInv, NEW r \in Request,
         \/ Logout(r) \/ LogoutAll(r)
         \/ ChangeForced(r) \/ ChangeOwn(r) \/ SetPassword(r) \/ Revoke(r)
  PROVE  Known(r)'
<1> DEFINE q == req[r]
<1>0. /\ req \in [Request -> RequestState]
      /\ Known(r)
  BY DEF SerialInv, RowsInv, TypeOK
<1> USE DEF Known, RowThere, OnAccount, OnSession
<1>a. CASE \E answer : Respond(r, answer)
  BY <1>a, <1>0, RespondKnown
<1>r. CASE Refuse(r)
  BY <1>r, <1>0, RefuseKnown
<1>1. CASE (ChangeForced(r) \/ ChangeOwn(r)) /\ ~Refuse(r)
  <2>1. users' = users
    BY <1>1 DEF ChangeForced, ChangeOwn, tables
  <2>2. CASE ChangeForced(r)
    <3>1. PICK t, new : req' = [req EXCEPT ![r] =
             [Opened("changeForced", "setPassword", t.sub) EXCEPT !.pw = new]]
      BY <2>2 DEF ChangeForced
    <3>2. req'[r].pc = "setPassword" /\ req'[r].op = "changeForced"
      BY <3>1, <1>0 DEF Opened, Blank
    <3> QED
      BY <3>2 DEF CopyIsRow, CopyIsEdited, FactorChecked
  <2>3. CASE ChangeOwn(r)
    <3>1. PICK t, new :
             /\ t.sub \in DOMAIN users
             /\ req' = [req EXCEPT ![r] =
                  [Loaded("changeOwn", "setPassword", t.sub) EXCEPT !.pw = new]]
      BY <2>3, <1>1 DEF ChangeOwn, MayChange
    <3>2. req'[r].pc = "setPassword" /\ req'[r].uid = t.sub
      BY <3>1, <1>0 DEF Loaded, Blank
    <3> QED
      BY <3>1, <3>2, <2>1 DEF CopyIsRow, CopyIsEdited, FactorChecked
  <2> QED
    BY <2>2, <2>3, <1>1
<1>2. CASE SetPassword(r)
  <2>1. /\ q.pc = "setPassword"
        /\ DOMAIN users' = DOMAIN users
        /\ Goto(r, "revoke")
    BY <1>2 DEF SetPassword, At, Updated
  <2>2. /\ req'[r].pc = "revoke"
        /\ req'[r].op = q.op
        /\ req'[r].uid = q.uid
    BY <2>1, <1>0, GotoFields
  <2> QED
    BY <2>1, <2>2, <1>0 DEF CopyIsRow, CopyIsEdited, FactorChecked
<1>3. CASE Revoke(r) /\ ~\E answer : Respond(r, answer)
  <2>1. /\ q.pc = "revoke"
        /\ q.op = "changeOwn"
        /\ users' = users
        /\ Goto(r, "createSession")
    BY <1>3 DEF Revoke, At
  <2>2. req'[r].pc = "createSession" /\ req'[r].uid = q.uid
    BY <2>1, <1>0, GotoFields
  <2> QED
    BY <2>1, <2>2, <1>0 DEF CopyIsRow, CopyIsEdited, FactorChecked
<1>4. CASE Logout(r) \/ LogoutAll(r)
  BY <1>4, <1>a DEF Logout, LogoutAll
<1> QED
  BY <1>1, <1>2, <1>3, <1>4, <1>a, <1>r

LEMMA AuthKnown ==
  ASSUME SerialInv, NEW r \in Request, AuthStep(r)
  PROVE  Known(r)'
BY SignInKnown, RefreshKnown, PasswordKnown DEF AuthStep

\* save() makes the row of the copy, as the columns it leaves out do not differ.
LEMMA MergeIsCopy ==
  ASSUME NEW row \in UserRow, NEW copy \in UserRow, NEW more,
         NEW cols, cols = {c \in UserColumns : copy[c] # row[c]} \cup more
  PROVE  MergeUser(row, copy, cols) = copy
<1>1. \A c \in UserColumns : c \notin cols => copy[c] = row[c]
  OBVIOUS
<1>2. /\ "email" \notin cols => copy.email = row.email
      /\ "pw" \notin cols => copy.pw = row.pw
      /\ "level" \notin cols => copy.level = row.level
      /\ "active" \notin cols => copy.active = row.active
      /\ "first" \notin cols => copy.first = row.first
      /\ "required" \notin cols => copy.required = row.required
      /\ "secret" \notin cols => copy.secret = row.secret
      /\ "enabled" \notin cols => copy.enabled = row.enabled
      /\ "last" \notin cols => copy.last = row.last
  BY <1>1 DEF UserColumns
<1>3. MergeUser(row, copy, cols) =
        [email |-> copy.email, pw |-> copy.pw, level |-> copy.level,
         active |-> copy.active, first |-> copy.first,
         required |-> copy.required, secret |-> copy.secret,
         enabled |-> copy.enabled, last |-> copy.last]
  BY <1>2 DEF MergeUser
<1> QED
  BY <1>3 DEF UserRow

\* A request that begins: it has accepted and found no code yet.
Traceless(q) == q.accepted = NULL /\ q.code = NULL /\ q.out = Plain("none")

LEMMA EditStarts ==
  ASSUME req \in [Request -> RequestState], users \in [DOMAIN users -> UserRow],
         NEW r \in Request,
         \/ UpdateProfileStart(r) \/ SetAccessLevelStart(r)
         \/ ToggleStatusStart(r) \/ ResetPasswordStart(r),
         ~Refuse(r)
  PROVE  /\ users' = users
         /\ req'[r].pc \in {"countAdmins", "checkEmail", "selectUser"}
         /\ req'[r].op \in {"updateProfile", "setAccessLevel", "toggleStatus",
                            "resetPassword"}
         /\ req'[r].uid \in DOMAIN users
         /\ EditOf(users[req'[r].uid], req'[r].usr, req'[r].op)
         /\ req'[r].pc # "countAdmins" /\ ActiveAdmin(users[req'[r].uid])
              => ActiveAdmin(req'[r].usr)
         /\ Traceless(req'[r])
<1>u. users' = users
  BY DEF UpdateProfileStart, SetAccessLevelStart, ToggleStatusStart,
         ResetPasswordStart, tables
<1>l. \A id \in DOMAIN users :
        /\ users[id] \in UserRow
        /\ \A op, pc : Loaded(op, pc, id).usr \in UserRow
  BY LoadedFields
<1>1. CASE UpdateProfileStart(r)
  <2>1. PICK id \in DOMAIN users, email \in OrNull(Emails) :
          \/ req' = [req EXCEPT ![r] = Loaded("updateProfile", "selectUser", id)]
          \/ req' = [req EXCEPT ![r] =
               [Loaded("updateProfile", "checkEmail", id)
                  EXCEPT !.usr.email = email]]
    BY <1>1 DEF UpdateProfileStart
  <2>2. CASE req' = [req EXCEPT ![r] = Loaded("updateProfile", "selectUser", id)]
    <3>1. /\ req'[r].pc = "selectUser"
          /\ req'[r].op = "updateProfile"
          /\ req'[r].uid = id
          /\ req'[r].usr = users[id]
          /\ Traceless(req'[r])
      BY <2>2 DEF Loaded, Blank, Traceless
    <3> QED
      BY <3>1, <1>u DEF EditOf, ActiveAdmin
  <2>3. CASE req' = [req EXCEPT ![r] =
               [Loaded("updateProfile", "checkEmail", id)
                  EXCEPT !.usr.email = email]]
    <3>1. /\ req'[r].pc = "checkEmail"
          /\ req'[r].op = "updateProfile"
          /\ req'[r].uid = id
          /\ req'[r].usr = [users[id] EXCEPT !.email = email]
          /\ Traceless(req'[r])
      BY <2>3 DEF Loaded, Blank, Traceless
    <3>2. users[id] \in UserRow
      BY <1>l
    <3>3. /\ EditOf(users[id], req'[r].usr, "updateProfile")
          /\ ActiveAdmin(users[id]) => ActiveAdmin(req'[r].usr)
      BY <3>1, <3>2 DEF EditOf, ActiveAdmin, UserRow
    <3> QED
      BY <3>1, <3>3, <1>u
  <2> QED
    BY <2>1, <2>2, <2>3
<1>2. CASE SetAccessLevelStart(r)
  <2>1. PICK id \in DOMAIN users, level \in HubAccessLevel,
             pc \in {"selectUser", "countAdmins"} :
          /\ pc = "countAdmins" \/ level = "ADMIN" \/ ~ActiveAdmin(users[id])
          /\ req' = [req EXCEPT ![r] = [Loaded("setAccessLevel", pc, id)
                                       EXCEPT !.usr.level = level]]
    BY <1>2 DEF SetAccessLevelStart, OthersOnly, Guarded
  <2>2. /\ req'[r].pc = pc
        /\ req'[r].op = "setAccessLevel"
        /\ req'[r].uid = id
        /\ req'[r].usr = [users[id] EXCEPT !.level = level]
        /\ Traceless(req'[r])
    BY <2>1 DEF Loaded, Blank, Traceless
  <2>3. /\ EditOf(users[id], req'[r].usr, "setAccessLevel")
        /\ level = "ADMIN" /\ ActiveAdmin(users[id]) => ActiveAdmin(req'[r].usr)
    <3>1. users[id] \in UserRow
      BY <1>l
    <3> QED
      BY <3>1, <2>2 DEF EditOf, ActiveAdmin, UserRow
  <2> QED
    BY <2>1, <2>2, <2>3, <1>u
<1>3. CASE ToggleStatusStart(r)
  <2>1. PICK id \in DOMAIN users, pc \in {"selectUser", "countAdmins"} :
          /\ pc = "countAdmins" \/ ~ActiveAdmin(users[id])
          /\ req' = [req EXCEPT ![r] = [Loaded("toggleStatus", pc, id)
                                       EXCEPT !.usr.active = ~@]]
    BY <1>3 DEF ToggleStatusStart, OthersOnly, Guarded
  <2>2. PICK flag : /\ req'[r].pc = pc
                    /\ req'[r].op = "toggleStatus"
                    /\ req'[r].uid = id
                    /\ req'[r].usr = [users[id] EXCEPT !.active = flag]
                    /\ Traceless(req'[r])
    BY <2>1 DEF Loaded, Blank, Traceless
  <2>3. EditOf(users[id], req'[r].usr, "toggleStatus")
    <3>1. users[id] \in UserRow
      BY <1>l
    <3> QED
      BY <3>1, <2>2 DEF EditOf, UserRow
  <2> QED
    BY <2>1, <2>2, <2>3, <1>u
<1>4. CASE ResetPasswordStart(r)
  <2>1. PICK id \in DOMAIN users, pw \in {r, DefaultPassword} :
          req' = [req EXCEPT ![r] = [Loaded("resetPassword", "selectUser", id)
                               EXCEPT !.usr.pw = pw, !.usr.first = TRUE]]
    BY <1>4 DEF ResetPasswordStart
  <2>2. /\ req'[r].pc = "selectUser"
        /\ req'[r].op = "resetPassword"
        /\ req'[r].uid = id
        /\ req'[r].usr = [users[id] EXCEPT !.pw = pw, !.first = TRUE]
        /\ Traceless(req'[r])
    BY <2>1 DEF Loaded, Blank, Traceless
  <2> QED
    BY <2>2, <1>u, <1>l DEF EditOf, ActiveAdmin, UserRow
<1> QED
  BY <1>1, <1>2, <1>3, <1>4

LEMMA FinishKnown ==
  ASSUME SerialInv, NEW r \in Request,
         NEW pc \in {"done", "revokeUser", "deleteUser"}, Finish(r, pc),
         req[r].pc \in OnAccount, DOMAIN users' = DOMAIN users
  PROVE  Known(r)'
<1>0. /\ req \in [Request -> RequestState]
      /\ req[r].uid \in DOMAIN users
  BY DEF SerialInv, RowsInv, TypeOK, Known, RowThere
<1>1. CASE Respond(r, Plain("done"))
  BY <1>1, <1>0, RespondKnown
<1>2. CASE pc # "done" /\ Goto(r, pc)
  <2>1. req'[r].pc \in {"revokeUser", "deleteUser"} /\ req'[r].uid = req[r].uid
    BY <1>2, <1>0, GotoFields
  <2> QED
    BY <2>1, <1>0
    DEF Known, RowThere, CopyIsRow, CopyIsEdited, FactorChecked, OnAccount,
        OnSession
<1> QED
  BY <1>1, <1>2 DEF Finish

LEMMA EditKnown ==
  ASSUME SerialInv, NEW r \in Request,
         \/ UpdateProfileStart(r) \/ SetAccessLevelStart(r)
         \/ ToggleStatusStart(r) \/ ResetPasswordStart(r) \/ CheckEmail(r)
         \/ CountAdmins(r) \/ SelectUser(r) \/ UpdateUser(r) \/ ReinsertUser(r)
  PROVE  Known(r)'
<1> DEFINE q == req[r]
<1>0. /\ req \in [Request -> RequestState]
      /\ Known(r)
      /\ users \in [DOMAIN users -> UserRow]
  BY DEF SerialInv, RowsInv, TypeOK
<1> USE DEF Known, RowThere, OnAccount, OnSession
<1>r. CASE Refuse(r)
  BY <1>r, <1>0, RefuseKnown
<1>1. CASE /\ \/ UpdateProfileStart(r) \/ SetAccessLevelStart(r)
              \/ ToggleStatusStart(r) \/ ResetPasswordStart(r)
           /\ ~Refuse(r)
  <2>1. /\ users' = users
        /\ req'[r].pc \in {"countAdmins", "checkEmail", "selectUser"}
        /\ req'[r].uid \in DOMAIN users
        /\ EditOf(users[req'[r].uid], req'[r].usr, req'[r].op)
    BY <1>1, <1>0, EditStarts
  <2> QED
    BY <2>1 DEF CopyIsRow, CopyIsEdited, FactorChecked
<1>2. CASE (CheckEmail(r) \/ CountAdmins(r)) /\ ~Refuse(r)
  <2>1. PICK pc \in {"selectUser", "revokeUser"} : Goto(r, pc)
    BY <1>2 DEF CheckEmail, CountAdmins
  <2>2. /\ req'[r].pc = pc
        /\ req'[r].op = q.op
        /\ req'[r].uid = q.uid
        /\ req'[r].usr = q.usr
    BY <2>1, <1>0, GotoFields
  <2>3. q.pc \in {"checkEmail", "countAdmins"} /\ users' = users
    BY <1>2 DEF CheckEmail, CountAdmins, At, tables
  <2> QED
    BY <2>2, <2>3, <1>0 DEF CopyIsRow, CopyIsEdited, FactorChecked
<1>3. CASE SelectUser(r)
  <2>1. /\ q.pc = "selectUser"
        /\ users' = users
        /\ q.uid \in DOMAIN users
        /\ EditOf(users[q.uid], q.usr, q.op)
    BY <1>3, <1>0 DEF SelectUser, At, tables, CopyIsEdited
  <2> DEFINE cols == {c \in UserColumns : q.usr[c] # users[q.uid][c]}
                       \cup FreshHash(r)
  <2>2. req' = [req EXCEPT ![r].pc = "updateUser", ![r].cols = cols]
    BY <2>1, <1>3 DEF SelectUser
  <2>3. MergeUser(users[q.uid], q.usr, cols) = q.usr
    <3>1. users[q.uid] \in UserRow /\ q.usr \in UserRow
      BY <2>1, <1>0 DEF RequestState
    <3> QED
      BY <3>1, MergeIsCopy
  <2> HIDE DEF cols
  <2>4. /\ req'[r].pc = "updateUser"
        /\ req'[r].op = q.op
        /\ req'[r].uid = q.uid
        /\ req'[r].usr = q.usr
        /\ req'[r].cols = cols
    BY <2>2, <1>0 DEF RequestState
  <2> QED
    BY <2>1, <2>3, <2>4 DEF CopyIsRow, CopyIsEdited, FactorChecked
<1>4. CASE UpdateUser(r)
  <2>1. q.pc = "updateUser" /\ DOMAIN users' = DOMAIN users
    BY <1>4 DEF UpdateUser, At, Updated
  <2>2. CASE Respond(r, Plain("failed"))
    BY <2>2, <1>0, RespondKnown
  <2>3. CASE Finish(r, AfterSave(q))
    BY <2>1, <2>3, FinishKnown DEF AfterSave
  <2> QED
    BY <2>2, <2>3, <1>4 DEF UpdateUser
<1>5. ~ReinsertUser(r)
  BY <1>0 DEF ReinsertUser, At
<1> QED
  BY <1>r, <1>1, <1>2, <1>3, <1>4, <1>5

LEMMA AdminKnown ==
  ASSUME SerialInv, NEW r \in Request, HubUsersStep(r)
  PROVE  Known(r)'
<1> DEFINE q == req[r]
<1>0. /\ req \in [Request -> RequestState]
      /\ Known(r)
      /\ users \in [DOMAIN users -> UserRow]
  BY DEF SerialInv, RowsInv, TypeOK
<1> USE DEF Known, RowThere, OnAccount, OnSession
<1>a. CASE \E answer : Respond(r, answer)
  BY <1>a, <1>0, RespondKnown
<1>r. CASE Refuse(r)
  BY <1>r, <1>0, RefuseKnown
<1>1. CASE \/ UpdateProfileStart(r) \/ SetAccessLevelStart(r)
           \/ ToggleStatusStart(r) \/ ResetPasswordStart(r) \/ CheckEmail(r)
           \/ CountAdmins(r) \/ SelectUser(r) \/ UpdateUser(r) \/ ReinsertUser(r)
  BY <1>1, EditKnown
<1>2. CASE InviteStart(r) /\ ~Refuse(r)
  <2>1. PICK email, pw, level, required :
          req' = [req EXCEPT ![r] = [Opened("invite", "insertUser", r)
                    EXCEPT !.usr = NewUser(email, pw, level, required)]]
    BY <1>2 DEF InviteStart
  <2>2. /\ req'[r].pc = "insertUser"
        /\ req'[r].usr = NewUser(email, pw, level, required)
    BY <2>1, <1>0 DEF Opened, Blank
  <2> QED
    BY <2>2 DEF NewUser, CopyIsRow, CopyIsEdited, FactorChecked
<1>3. CASE (ResetTotpStart(r) \/ RemoveStart(r)) /\ ~Refuse(r)
  <2>1. PICK id \in DOMAIN users, op \in {"resetTotp", "remove"},
             pc \in {"clearFactor", "countAdmins", "revokeUser"} :
          req' = [req EXCEPT ![r] = Loaded(op, pc, id)]
    BY <1>3 DEF ResetTotpStart, RemoveStart, Guarded, OthersOnly
  <2>2. users' = users
    BY <1>3 DEF ResetTotpStart, RemoveStart, tables
  <2>3. /\ req'[r].op = op
        /\ req'[r].pc = pc
        /\ req'[r].uid = id
        /\ req'[r].usr = users[id]
    BY <2>1, <1>0, LoadedFields
  <2> QED
    BY <2>2, <2>3 DEF CopyIsRow, CopyIsEdited, EditOf, FactorChecked
<1>4. CASE SetTotpRequiredStart(r) /\ ~Refuse(r) /\ ~Respond(r, Plain("done"))
  <2>1. PICK id \in DOMAIN users, flag \in BOOLEAN :
          req' = [req EXCEPT ![r] =
                    [Loaded("setTotpRequired", "storeRequired", id)
                       EXCEPT !.usr.required = flag]]
    BY <1>4 DEF SetTotpRequiredStart
  <2>2. users' = users
    BY <1>4 DEF SetTotpRequiredStart, tables
  <2>3. req'[r].pc = "storeRequired" /\ req'[r].uid = id
    BY <2>1, <1>0 DEF Loaded, Blank
  <2> QED
    BY <2>2, <2>3 DEF CopyIsRow, CopyIsEdited, FactorChecked
<1>5. CASE ClearFactor(r)
  <2>1. /\ q.pc = "clearFactor"
        /\ q.uid \in DOMAIN users
        /\ users' = Updated(users, q.uid, Unpaired(users[q.uid]))
        /\ Goto(r, "clearCodes")
    BY <1>5, <1>0 DEF ClearFactor, At
  <2>2. DOMAIN users' = DOMAIN users /\ users'[q.uid].enabled = FALSE
    <3>1. /\ DOMAIN users' = DOMAIN users
          /\ users'[q.uid] = Unpaired(users[q.uid])
      BY <2>1, UpdatedRow
    <3> QED
      BY <3>1, <2>1, <1>0 DEF UserRow, Unpaired
  <2>3. req'[r].pc = "clearCodes" /\ req'[r].uid = q.uid
    BY <2>1, <1>0, GotoFields
  <2> QED
    BY <2>1, <2>2, <2>3 DEF CopyIsRow, CopyIsEdited, FactorChecked
<1>6. CASE ClearCodes(r) \/ StoreRequired(r) \/ RevokeUser(r)
  <2>1. /\ q.pc \in OnAccount
        /\ DOMAIN users' = DOMAIN users
        /\ \E pc \in {"done", "revokeUser", "deleteUser"} : Finish(r, pc)
    BY <1>6 DEF ClearCodes, StoreRequired, RevokeUser, AfterRequired, At, Updated
  <2> QED
    BY <2>1, FinishKnown
<1>7. CASE InsertUser(r) \/ DeleteUser(r)
  BY <1>7, <1>a DEF InsertUser, DeleteUser
<1> QED
  BY <1>a, <1>r, <1>1, <1>2, <1>3, <1>4, <1>5, <1>6, <1>7 DEF HubUsersStep

-----------------------------------------------------------------------------
(***************************************************************************)
(* Nobody else runs, and so the running request keeps what it knows.       *)
(***************************************************************************)
\* A request that begins is admitted, which takes an idle hub.
LEMMA BeginsAlone ==
  ASSUME ~Overlap, NEW r \in Request, Step(r), req[r].pc = "idle"
  PROVE  InFlight = {}
<1>1. CASE TotpStep(r)
  BY <1>1
  DEF TotpStep, Admit, At, SetupStart, StoreSecret, EnableStart,
      RegenerateStart, DisableStart, VerifyAccepts, VerifyRejects, Burn,
      SetEnabled, ClearTotp, DropCodes, IssueCodes
<1>2. CASE AuthStep(r)
  BY <1>2
  DEF AuthStep, Admit, At, LoginStart, RecoveryStart, FindCode, SpendCode,
      Settle, PurgeExpired, CreateSession, RefreshStart, FindCurrent,
      FindPrevious, Judge, DropRow, SaveSelect, SaveUpdate, SaveInsert, Logout,
      LogoutAll, ChangeForced, ChangeOwn, SetPassword, Revoke
<1>3. CASE HubUsersStep(r)
  BY <1>3
  DEF HubUsersStep, Admit, At, InviteStart, InsertUser, UpdateProfileStart,
      CheckEmail, SetAccessLevelStart, ToggleStatusStart, CountAdmins,
      ResetPasswordStart, SelectUser, UpdateUser, ReinsertUser, ResetTotpStart,
      ClearFactor, ClearCodes, SetTotpRequiredStart, StoreRequired, RemoveStart,
      RevokeUser, DeleteUser
<1> QED
  BY <1>1, <1>2, <1>3 DEF Step

LEMMA StepMoves ==
  ASSUME RowsInv, NEW r \in Request, Step(r) \/ Abandon(r)
  PROVE  Moves(r)
<1> TypeOK
  BY DEF RowsInv
<1> QED
  BY TotpMoves, AuthMoves, AdminMoves, AbandonMoves DEF Step

\* Whoever takes a step is the only request that is not at rest.
OthersRest(r) == \A p \in Request \ {r} : Resting(p) /\ req'[p] = req[p]

LEMMA StepsAlone ==
  ASSUME ~Overlap, RowsInv, Alone, NEW r \in Request, Step(r) \/ Abandon(r)
  PROVE  OthersRest(r)
<1>1. req[r].pc # "done" /\ \A p \in Request \ {r} : req'[p] = req[p]
  BY StepMoves DEF Moves
<1>2. CASE r \in InFlight
  BY <1>1, <1>2 DEF Alone, InFlight, Resting, OthersRest
<1>3. CASE r \notin InFlight
  <2>1. Step(r) /\ req[r].pc = "idle"
    BY <1>1, <1>3 DEF Abandon, InFlight
  <2>2. InFlight = {}
    BY <2>1, BeginsAlone
  <2> QED
    BY <1>1, <2>2 DEF InFlight, Resting, OthersRest
<1> QED
  BY <1>2, <1>3

LEMMA SerialStep ==
  ASSUME ~Overlap, SerialInv, RowsInv', [Next]_vars
  PROVE  SerialInv'
<1>1. ASSUME NEW r \in Request, Step(r) \/ Abandon(r)
      PROVE  SerialInv'
  <2>1. OthersRest(r)
    BY <1>1, StepsAlone DEF SerialInv
  <2>2. Alone'
    BY <2>1 DEF OthersRest, Alone, InFlight, Resting
  <2>3. Known(r)'
    <3>1. CASE Step(r)
      BY <3>1, TotpKnown, AuthKnown, AdminKnown DEF Step
    <3>2. CASE Abandon(r)
      BY <3>2, RespondKnown DEF Abandon, SerialInv, RowsInv, TypeOK
    <3> QED
      BY <1>1, <3>1, <3>2
  <2>4. ASSUME NEW p \in Request \ {r}
        PROVE  Known(p)'
    BY <2>1, RestsKnown DEF OthersRest, Resting
  <2> QED
    BY <2>2, <2>3, <2>4 DEF SerialInv
<1>2. CASE Tick \/ Quiet \/ UNCHANGED vars
  <2>1. /\ req' = req
        /\ users' = users
        /\ sessions' = sessions
        /\ codes' = codes
    BY <1>2 DEF Tick, Quiet, vars
  <2>2. Alone'
    BY <2>1 DEF SerialInv, Alone, InFlight
  <2>3. ASSUME NEW p \in Request
        PROVE  Known(p)'
    BY <2>1
    DEF SerialInv, Known, RowThere, CopyIsRow, CopyIsEdited, FactorChecked,
        CodesOf
  <2> QED
    BY <2>2, <2>3 DEF SerialInv
<1> QED
  BY <1>1, <1>2 DEF Next

LEMMA InitSerial == Init => SerialInv
<1> SUFFICES ASSUME Init PROVE SerialInv
  OBVIOUS
<1>1. \A r \in Request : req[r].pc = "idle"
  BY DEF Init, Blank
<1>2. Alone
  BY <1>1 DEF Alone, InFlight
<1>3. ASSUME NEW r \in Request
      PROVE  Known(r)
  BY <1>1
  DEF Known, RowThere, CopyIsRow, CopyIsEdited, FactorChecked, OnAccount,
      OnSession
<1> QED
  BY <1>2, <1>3, InitRows DEF SerialInv

LEMMA SerialInvariance ==
  ASSUME ~Overlap
  PROVE  Spec => [](SerialInv /\ LedgerInv)
<1>1. Init => SerialInv /\ LedgerInv
  BY InitSerial, InitLedger
<1>2. (SerialInv /\ LedgerInv) /\ [Next]_vars => (SerialInv /\ LedgerInv)'
  <2> SUFFICES ASSUME SerialInv, LedgerInv, [Next]_vars
               PROVE  (SerialInv /\ LedgerInv)'
    OBVIOUS
  <2>1. RowsInv' /\ LedgerInv'
    BY HubInvariance DEF SerialInv
  <2> QED
    BY <2>1, SerialStep
<1> QED
  BY <1>1, <1>2, PTL DEF Spec

-----------------------------------------------------------------------------
(***************************************************************************)
(* The statements that write each table.                                   *)
(***************************************************************************)
LEMMA UsersWriters ==
  ASSUME NEW r \in Request, Step(r)
  PROVE  \/ users' = users
         \/ StoreSecret(r) \/ Burn(r) \/ SetEnabled(r) \/ ClearTotp(r)
         \/ SetPassword(r)
         \/ InsertUser(r) \/ UpdateUser(r) \/ ReinsertUser(r)
         \/ ClearFactor(r) \/ StoreRequired(r) \/ DeleteUser(r)
<1>1. CASE TotpStep(r)
  BY <1>1
  DEF TotpStep, tables, SetupStart, EnableStart, RegenerateStart, DisableStart,
      VerifyAccepts, VerifyRejects, DropCodes, IssueCodes
<1>2. CASE AuthStep(r)
  BY <1>2
  DEF AuthStep, tables, LoginStart, RecoveryStart, FindCode, SpendCode, Settle,
      PurgeExpired, CreateSession, RefreshStart, FindCurrent, FindPrevious,
      Judge, DropRow, SaveSelect, SaveUpdate, SaveInsert, Logout, LogoutAll,
      ChangeForced, ChangeOwn, Revoke
<1>3. CASE HubUsersStep(r)
  BY <1>3
  DEF HubUsersStep, tables, InviteStart, UpdateProfileStart, CheckEmail,
      SetAccessLevelStart, ToggleStatusStart, CountAdmins, ResetPasswordStart,
      SelectUser, ResetTotpStart, ClearCodes, SetTotpRequiredStart, RemoveStart,
      RevokeUser
<1> QED
  BY <1>1, <1>2, <1>3 DEF Step

LEMMA SessionsWriters ==
  ASSUME NEW r \in Request, Step(r)
  PROVE  \/ sessions' = sessions
         \/ PurgeExpired(r) \/ CreateSession(r) \/ DropRow(r) \/ SaveUpdate(r)
         \/ SaveInsert(r) \/ Logout(r) \/ LogoutAll(r) \/ Revoke(r)
         \/ RevokeUser(r) \/ DeleteUser(r)
<1>1. CASE TotpStep(r)
  BY <1>1
  DEF TotpStep, tables, SetupStart, StoreSecret, EnableStart, RegenerateStart,
      DisableStart, VerifyAccepts, VerifyRejects, Burn, SetEnabled, ClearTotp,
      DropCodes, IssueCodes
<1>2. CASE AuthStep(r)
  BY <1>2
  DEF AuthStep, tables, LoginStart, RecoveryStart, FindCode, SpendCode, Settle,
      RefreshStart, FindCurrent, FindPrevious, Judge, SaveSelect, ChangeForced,
      ChangeOwn, SetPassword
<1>3. CASE HubUsersStep(r)
  BY <1>3
  DEF HubUsersStep, tables, InviteStart, InsertUser, UpdateProfileStart,
      CheckEmail, SetAccessLevelStart, ToggleStatusStart, CountAdmins,
      ResetPasswordStart, SelectUser, UpdateUser, ReinsertUser, ResetTotpStart,
      ClearFactor, ClearCodes, SetTotpRequiredStart, StoreRequired, RemoveStart
<1> QED
  BY <1>1, <1>2, <1>3 DEF Step

LEMMA CodesWriters ==
  ASSUME NEW r \in Request, Step(r)
  PROVE  \/ codes' = codes
         \/ DropCodes(r) \/ IssueCodes(r) \/ SpendCode(r) \/ ClearCodes(r)
         \/ DeleteUser(r)
<1>1. CASE TotpStep(r)
  BY <1>1
  DEF TotpStep, tables, SetupStart, StoreSecret, EnableStart, RegenerateStart,
      DisableStart, VerifyAccepts, VerifyRejects, Burn, SetEnabled, ClearTotp
<1>2. CASE AuthStep(r)
  BY <1>2
  DEF AuthStep, tables, LoginStart, RecoveryStart, FindCode, Settle,
      PurgeExpired, CreateSession, RefreshStart, FindCurrent, FindPrevious,
      Judge, DropRow, SaveSelect, SaveUpdate, SaveInsert, Logout, LogoutAll,
      ChangeForced, ChangeOwn, SetPassword, Revoke
<1>3. CASE HubUsersStep(r)
  BY <1>3
  DEF HubUsersStep, tables, InviteStart, InsertUser, UpdateProfileStart,
      CheckEmail, SetAccessLevelStart, ToggleStatusStart, CountAdmins,
      ResetPasswordStart, SelectUser, UpdateUser, ReinsertUser, ResetTotpStart,
      ClearFactor, SetTotpRequiredStart, StoreRequired, RemoveStart, RevokeUser
<1> QED
  BY <1>1, <1>2, <1>3 DEF Step

-----------------------------------------------------------------------------
(***************************************************************************)
(* The statements that each service moves a request on to.                 *)
(***************************************************************************)
TotpStatement ==
  {"storeSecret", "verify", "burn", "setEnabled", "clearTotp", "dropCodes",
   "issueCodes", "settle", "done"}

AuthStatement ==
  {"verify", "settle", "findCode", "spendCode", "purge", "createSession",
   "findCurrent", "findPrevious", "judge", "dropRow", "saveSelect",
   "saveUpdate", "saveInsert", "setPassword", "revoke", "done"}

LEMMA TotpPcs ==
  ASSUME req \in [Request -> RequestState], NEW r \in Request, TotpStep(r)
  PROVE  req'[r].pc \in TotpStatement
<1>a. CASE \E answer : Respond(r, answer)
  BY <1>a, RespondRests DEF Respond, Closed, Blank, TotpStatement
<1>g. CASE \E pc \in TotpStatement : Goto(r, pc)
  BY <1>g, GotoFields
<1>l. CASE \E op : \E pc \in TotpStatement : \E u :
             req' = [req EXCEPT ![r] = Loaded(op, pc, u)]
  BY <1>l, LoadedFields
<1>v. CASE \E t : req' = [req EXCEPT ![r].pc = "burn", ![r].step = t]
  BY <1>v DEF RequestState, TotpStatement
<1>b. CASE \E pc \in TotpStatement : \E c :
             req' = [req EXCEPT ![r].pc = pc, ![r].accepted = c]
  BY <1>b DEF RequestState
<1>1. CASE SetupStart(r) \/ EnableStart(r) \/ RegenerateStart(r) \/ DisableStart(r)
  BY <1>1, <1>a, <1>l
  DEF SetupStart, EnableStart, RegenerateStart, DisableStart, Refuse,
      TotpStatement
<1>2. CASE VerifyAccepts(r)
  BY <1>2, <1>v DEF VerifyAccepts
<1>3. CASE Burn(r)
  <2>1. AfterVerify(req[r].op) \in TotpStatement
    BY DEF AfterVerify, TotpStatement
  <2> QED
    BY <2>1, <1>3, <1>a, <1>b DEF Burn, Refuse
<1>4. CASE \/ StoreSecret(r) \/ VerifyRejects(r) \/ SetEnabled(r)
           \/ ClearTotp(r) \/ DropCodes(r) \/ IssueCodes(r)
  BY <1>4, <1>a, <1>g
  DEF StoreSecret, VerifyRejects, SetEnabled, ClearTotp, DropCodes, IssueCodes,
      Refuse, TotpStatement
<1> QED
  BY <1>1, <1>2, <1>3, <1>4 DEF TotpStep

LEMMA AuthPcs ==
  ASSUME req \in [Request -> RequestState], NEW r \in Request, AuthStep(r)
  PROVE  req'[r].pc \in AuthStatement
<1>a. CASE \E answer : Respond(r, answer)
  BY <1>a DEF Respond, Closed, Blank, AuthStatement
<1>g. CASE \E pc \in AuthStatement : Goto(r, pc)
  BY <1>g, GotoFields
<1>1. CASE LoginStart(r) \/ RecoveryStart(r)
  <2>1. \/ \E answer : Respond(r, answer)
        \/ \E op : \E pc \in AuthStatement : \E u :
             req' = [req EXCEPT ![r] = SignIn(op, pc, u)]
    BY <1>1 DEF LoginStart, RecoveryStart, Refuse, AuthStatement
  <2>2. \A op, pc, u : SignIn(op, pc, u).pc = pc
    BY DEF SignIn, Loaded, Blank
  <2> QED
    BY <2>1, <2>2, <1>a
<1>2. CASE FindCode(r)
  <2>1. \/ Refuse(r)
        \/ \E c : req' = [req EXCEPT ![r].pc = "spendCode", ![r].code = c]
    BY <1>2 DEF FindCode
  <2> QED
    BY <2>1, <1>a DEF Refuse, RequestState, AuthStatement
<1>3. CASE RefreshStart(r)
  <2>1. \E handle : req' = [req EXCEPT ![r] =
           [Opened("refresh", "findCurrent", NULL) EXCEPT !.handle = handle,
                                                          !.now = clock]]
    BY <1>3 DEF RefreshStart
  <2> QED
    BY <2>1 DEF Opened, Blank, AuthStatement
<1>4. CASE FindCurrent(r) \/ FindPrevious(r)
  <2>1. \/ Refuse(r)
        \/ Goto(r, "findPrevious")
        \/ \E s : LoadSession(r, s)
    BY <1>4 DEF FindCurrent, FindPrevious
  <2>2. ASSUME NEW s, LoadSession(r, s)
        PROVE  req'[r].pc = "judge"
    BY <2>2 DEF LoadSession, RequestState
  <2> QED
    BY <2>1, <2>2, <1>a, <1>g DEF Refuse, AuthStatement
<1>5. CASE Judge(r)
  <2>1. \/ Goto(r, "dropRow")
        \/ \E ses : req' = [req EXCEPT ![r].pc = "saveSelect", ![r].ses = ses]
    BY <1>5 DEF Judge
  <2> QED
    BY <2>1, <1>g DEF RequestState, AuthStatement
<1>6. CASE SaveSelect(r)
  <2>1. \/ Goto(r, "saveInsert")
        \/ \E cols : req' = [req EXCEPT ![r].pc = "saveUpdate", ![r].cols = cols]
    BY <1>6 DEF SaveSelect
  <2> QED
    BY <2>1, <1>g DEF RequestState, AuthStatement
<1>7. CASE ChangeForced(r) \/ ChangeOwn(r)
  <2>1. \/ Refuse(r)
        \/ \E u, new : req' = [req EXCEPT ![r] =
             [Opened("changeForced", "setPassword", u) EXCEPT !.pw = new]]
        \/ \E u, new : req' = [req EXCEPT ![r] =
             [Loaded("changeOwn", "setPassword", u) EXCEPT !.pw = new]]
    BY <1>7 DEF ChangeForced, ChangeOwn
  <2> QED
    BY <2>1, <1>a DEF Refuse, Opened, Loaded, Blank, AuthStatement
<1>8. CASE \/ SpendCode(r) \/ Settle(r) \/ PurgeExpired(r) \/ CreateSession(r)
           \/ DropRow(r) \/ SaveUpdate(r) \/ SaveInsert(r) \/ Logout(r)
           \/ LogoutAll(r) \/ SetPassword(r) \/ Revoke(r)
  BY <1>8, <1>a, <1>g
  DEF SpendCode, Settle, PurgeExpired, CreateSession, DropRow, SaveUpdate,
      SaveInsert, AnswerRefresh, Logout, LogoutAll, SetPassword, Revoke, Refuse,
      AuthStatement
<1> QED
  BY <1>1, <1>2, <1>3, <1>4, <1>5, <1>6, <1>7, <1>8 DEF AuthStep

\* The statements an administrator's request moves on to, its operation
\* and what it is answered.
AdminStatement ==
  {"insertUser", "countAdmins", "checkEmail", "selectUser", "updateUser",
   "reinsertUser", "clearFactor", "clearCodes", "storeRequired", "revokeUser",
   "deleteUser", "done"}

AdminOperation ==
  {"invite", "updateProfile", "setAccessLevel", "toggleStatus",
   "resetPassword", "resetTotp", "setTotpRequired", "remove"}

AdminAnswer == {"none", "refused", "done", "failed"}

LEMMA AdminPcs ==
  ASSUME req \in [Request -> RequestState], NEW r \in Request, HubUsersStep(r)
  PROVE  /\ req'[r].pc \in AdminStatement
         /\ req'[r].op \in {NULL, req[r].op} \cup AdminOperation
         /\ req'[r].out.kind \in {req[r].out.kind} \cup AdminAnswer
<1>a. CASE \E kind \in AdminAnswer : Respond(r, Plain(kind))
  BY <1>a
  DEF Respond, Closed, Blank, Plain, AdminStatement, AdminOperation, AdminAnswer
<1>g. CASE \E pc \in AdminStatement : Goto(r, pc)
  BY <1>g, GotoFields
<1>1. CASE InviteStart(r) /\ ~Refuse(r)
  <2>1. \E row : req' = [req EXCEPT ![r] =
                   [Opened("invite", "insertUser", r) EXCEPT !.usr = row]]
    BY <1>1 DEF InviteStart
  <2> QED
    BY <2>1 DEF Opened, Blank, Plain, AdminStatement, AdminOperation, AdminAnswer
<1>2. CASE UpdateProfileStart(r) /\ ~Refuse(r)
  <2>1. CASE \E u : req' = [req EXCEPT ![r] =
                           Loaded("updateProfile", "selectUser", u)]
    BY <2>1, LoadedFields DEF Plain, AdminStatement, AdminOperation, AdminAnswer
  <2>2. CASE \E u, email : req' = [req EXCEPT ![r] =
                                  [Loaded("updateProfile", "checkEmail", u)
                                     EXCEPT !.usr.email = email]]
    BY <2>2 DEF Loaded, Blank, Plain, AdminStatement, AdminOperation, AdminAnswer
  <2> QED
    BY <1>2, <2>1, <2>2 DEF UpdateProfileStart
<1>3. CASE SetAccessLevelStart(r) /\ ~Refuse(r)
  <2>1. \E u, level : \E pc \in {"selectUser", "countAdmins"} :
          req' = [req EXCEPT ![r] = [Loaded("setAccessLevel", pc, u)
                                       EXCEPT !.usr.level = level]]
    BY <1>3 DEF SetAccessLevelStart, Guarded
  <2> QED
    BY <2>1 DEF Loaded, Blank, Plain, AdminStatement, AdminOperation, AdminAnswer
<1>4. CASE ToggleStatusStart(r) /\ ~Refuse(r)
  <2>1. \E u : \E pc \in {"selectUser", "countAdmins"} :
          req' = [req EXCEPT ![r] = [Loaded("toggleStatus", pc, u)
                                       EXCEPT !.usr.active = ~@]]
    BY <1>4 DEF ToggleStatusStart, Guarded
  <2> QED
    BY <2>1 DEF Loaded, Blank, Plain, AdminStatement, AdminOperation, AdminAnswer
<1>5. CASE ResetPasswordStart(r) /\ ~Refuse(r)
  <2>1. \E u, pw : req' = [req EXCEPT ![r] =
                     [Loaded("resetPassword", "selectUser", u)
                        EXCEPT !.usr.pw = pw, !.usr.first = TRUE]]
    BY <1>5 DEF ResetPasswordStart
  <2> QED
    BY <2>1 DEF Loaded, Blank, Plain, AdminStatement, AdminOperation, AdminAnswer
<1>6. CASE (ResetTotpStart(r) \/ RemoveStart(r)) /\ ~Refuse(r)
  <2>1. \E u : \E op \in {"resetTotp", "remove"} :
        \E pc \in {"clearFactor", "countAdmins", "revokeUser"} :
          req' = [req EXCEPT ![r] = Loaded(op, pc, u)]
    BY <1>6 DEF ResetTotpStart, RemoveStart, Guarded
  <2> QED
    BY <2>1, LoadedFields
    DEF Plain, AdminStatement, AdminOperation, AdminAnswer
<1>7. CASE SetTotpRequiredStart(r) /\ ~Refuse(r) /\ ~Respond(r, Plain("done"))
  <2>1. \E u, flag : req' = [req EXCEPT ![r] =
             [Loaded("setTotpRequired", "storeRequired", u)
                EXCEPT !.usr.required = flag]]
    BY <1>7 DEF SetTotpRequiredStart
  <2> QED
    BY <2>1 DEF Loaded, Blank, Plain, AdminStatement, AdminOperation, AdminAnswer
<1>8. CASE SelectUser(r)
  <2>1. \/ Goto(r, "reinsertUser")
        \/ \E cols : req' = [req EXCEPT ![r].pc = "updateUser", ![r].cols = cols]
    BY <1>8 DEF SelectUser
  <2>2. CASE \E cols :
               req' = [req EXCEPT ![r].pc = "updateUser", ![r].cols = cols]
    <3>1. /\ req'[r].pc = "updateUser"
          /\ req'[r].op = req[r].op
          /\ req'[r].out = req[r].out
      BY <2>2 DEF RequestState
    <3> QED
      BY <3>1 DEF AdminStatement
  <2> QED
    BY <2>1, <2>2, <1>g DEF AdminStatement
<1>9. CASE \/ CheckEmail(r) \/ CountAdmins(r) \/ UpdateUser(r)
           \/ ReinsertUser(r) \/ ClearFactor(r) \/ ClearCodes(r)
           \/ StoreRequired(r) \/ RevokeUser(r)
  BY <1>9, <1>a, <1>g
  DEF CheckEmail, CountAdmins, UpdateUser, ReinsertUser, ClearFactor,
      ClearCodes, StoreRequired, RevokeUser, Finish, AfterSave, AfterRequired,
      Refuse, AdminStatement, AdminAnswer
<1>10. CASE InsertUser(r) \/ DeleteUser(r)
  BY <1>10, <1>a DEF InsertUser, DeleteUser, AdminAnswer
<1> QED
  BY <1>1, <1>2, <1>3, <1>4, <1>5, <1>6, <1>7, <1>8, <1>9, <1>10, <1>a
  DEF HubUsersStep, Refuse, AdminAnswer
-----------------------------------------------------------------------------
(***************************************************************************)
(* The trace a request leaves: only verifyCode() accepts a code, only the  *)
(* look-up of a recovery code finds one, and an answer is the end.         *)
(***************************************************************************)
Blanks == \A r \in Request : req[r].pc = "idle" => req[r] = Blank

Traced(r) ==
  /\ req'[r].pc # "idle"
  /\ req'[r].accepted = req[r].accepted \/ Burn(r)
  /\ req'[r].code = req[r].code \/ FindCode(r)
  /\ req'[r].out = req[r].out \/ req'[r].pc = "done"
  /\ req'[r].pc \in {"verify", "burn"} => req[r].pc \in {"idle", "verify"}

LEMMA RespondTraced ==
  ASSUME req \in [Request -> RequestState], NEW r \in Request, NEW answer,
         Respond(r, answer)
  PROVE  Traced(r) /\ req'[r].out = answer
BY DEF Respond, Closed, Blank, Traced

LEMMA GotoTraced ==
  ASSUME req \in [Request -> RequestState], NEW r \in Request,
         NEW pc, pc \notin {"idle", "verify", "burn"}, Goto(r, pc)
  PROVE  Traced(r)
BY GotoFields DEF Traced

\* A request that begins has left no trace yet.
LEMMA BeginTraced ==
  ASSUME req \in [Request -> RequestState], Blanks, NEW r \in Request,
         At(r, "idle"),
         NEW q, req' = [req EXCEPT ![r] = q],
         q.pc # "idle", Traceless(q)
  PROVE  Traced(r)
<1>1. Traceless(req[r])
  BY DEF Blanks, At, Blank, Traceless
<1> QED
  BY <1>1 DEF Traced, Traceless, At

LEMMA TotpTraced ==
  ASSUME req \in [Request -> RequestState], Blanks, NEW r \in Request, TotpStep(r)
  PROVE  Traced(r)
<1>a. CASE \E answer : Respond(r, answer)
  BY <1>a, RespondTraced
<1>l. ASSUME NEW op, NEW pc, pc # "idle", NEW u, At(r, "idle"),
             req' = [req EXCEPT ![r] = Loaded(op, pc, u)]
      PROVE  Traced(r)
  <2>1. Traceless(Loaded(op, pc, u)) /\ Loaded(op, pc, u).pc # "idle"
    BY <1>l, LoadedFields DEF Traceless
  <2> QED
    BY <2>1, <1>l, BeginTraced
<1>1. CASE SetupStart(r) \/ EnableStart(r) \/ RegenerateStart(r) \/ DisableStart(r)
  <2>1. At(r, "idle")
    BY <1>1
    DEF SetupStart, EnableStart, RegenerateStart, DisableStart, Admit
  <2>2. \/ \E answer : Respond(r, answer)
        \/ \E op, u : \E pc \in {"storeSecret", "verify"} :
             req' = [req EXCEPT ![r] = Loaded(op, pc, u)]
    BY <1>1
    DEF SetupStart, EnableStart, RegenerateStart, DisableStart, Refuse
  <2> QED
    BY <2>1, <2>2, <1>a, <1>l
<1>2. CASE VerifyAccepts(r)
  <2>1. \E t : req' = [req EXCEPT ![r].pc = "burn", ![r].step = t]
    BY <1>2 DEF VerifyAccepts
  <2> QED
    BY <2>1, <1>2 DEF RequestState, Traced, VerifyAccepts, At
<1>3. CASE Burn(r) /\ ~Refuse(r)
  <2>1. \E c : req' = [req EXCEPT ![r].pc = AfterVerify(req[r].op),
                                  ![r].accepted = c]
    BY <1>3 DEF Burn
  <2>2. AfterVerify(req[r].op) \notin {"idle", "verify", "burn"}
    BY DEF AfterVerify
  <2> QED
    BY <2>1, <2>2, <1>3 DEF RequestState, Traced
<1>4. CASE SetEnabled(r) \/ ClearTotp(r) \/ DropCodes(r)
  BY <1>4, <1>a, GotoTraced DEF SetEnabled, ClearTotp, DropCodes
<1>5. CASE StoreSecret(r) \/ VerifyRejects(r) \/ IssueCodes(r)
  BY <1>5, <1>a DEF StoreSecret, VerifyRejects, IssueCodes, Refuse
<1> QED
  BY <1>1, <1>2, <1>3, <1>4, <1>5, <1>a DEF TotpStep, Refuse

LEMMA AuthTraced ==
  ASSUME req \in [Request -> RequestState], Blanks, NEW r \in Request, AuthStep(r)
  PROVE  Traced(r)
<1>a. CASE \E answer : Respond(r, answer)
  BY <1>a, RespondTraced
<1>1. CASE LoginStart(r) \/ RecoveryStart(r)
  <2>1. \/ \E answer : Respond(r, answer)
        \/ \E op : \E pc \in {"verify", "settle", "findCode"} : \E u :
             req' = [req EXCEPT ![r] = SignIn(op, pc, u)]
    BY <1>1 DEF LoginStart, RecoveryStart, Refuse
  <2>2. \A op, pc, u : /\ SignIn(op, pc, u).pc = pc
                       /\ Traceless(SignIn(op, pc, u))
    BY DEF SignIn, Loaded, Blank, Traceless
  <2>3. At(r, "idle")
    BY <1>1 DEF LoginStart, RecoveryStart, Admit
  <2> QED
    BY <2>1, <2>2, <2>3, <1>a, BeginTraced
<1>2. CASE FindCode(r) /\ ~Refuse(r)
  <2>1. \E c : req' = [req EXCEPT ![r].pc = "spendCode", ![r].code = c]
    BY <1>2 DEF FindCode
  <2> QED
    BY <2>1, <1>2 DEF RequestState, Traced
<1>3. CASE RefreshStart(r)
  <2>1. PICK handle : req' = [req EXCEPT ![r] =
           [Opened("refresh", "findCurrent", NULL) EXCEPT !.handle = handle,
                                                          !.now = clock]]
    BY <1>3 DEF RefreshStart
  <2>2. /\ req'[r].pc = "findCurrent"
        /\ Traceless(req'[r])
    BY <2>1 DEF Opened, Blank, Traceless
  <2> QED
    BY <2>1, <2>2, <1>3, BeginTraced DEF RefreshStart, Admit
<1>4. CASE FindCurrent(r) \/ FindPrevious(r)
  <2>1. \/ Refuse(r)
        \/ Goto(r, "findPrevious")
        \/ \E s : LoadSession(r, s)
    BY <1>4 DEF FindCurrent, FindPrevious
  <2>2. ASSUME NEW s, LoadSession(r, s)
        PROVE  Traced(r)
    BY <2>2 DEF LoadSession, RequestState, Traced
  <2> QED
    BY <2>1, <2>2, <1>a, GotoTraced DEF Refuse
<1>5. CASE Judge(r)
  <2>1. \/ Goto(r, "dropRow")
        \/ \E ses : req' = [req EXCEPT ![r].pc = "saveSelect", ![r].ses = ses]
    BY <1>5 DEF Judge
  <2>2. CASE \E ses : req' = [req EXCEPT ![r].pc = "saveSelect", ![r].ses = ses]
    BY <2>2 DEF RequestState, Traced
  <2> QED
    BY <2>1, <2>2, GotoTraced
<1>6. CASE SaveSelect(r)
  <2>1. \/ Goto(r, "saveInsert")
        \/ \E cols : req' = [req EXCEPT ![r].pc = "saveUpdate", ![r].cols = cols]
    BY <1>6 DEF SaveSelect
  <2>2. CASE \E cols :
               req' = [req EXCEPT ![r].pc = "saveUpdate", ![r].cols = cols]
    BY <2>2 DEF RequestState, Traced
  <2> QED
    BY <2>1, <2>2, GotoTraced
<1>7. CASE (ChangeForced(r) \/ ChangeOwn(r)) /\ ~Refuse(r)
  <2>1. PICK u, new :
          \/ req' = [req EXCEPT ![r] =
               [Opened("changeForced", "setPassword", u) EXCEPT !.pw = new]]
          \/ req' = [req EXCEPT ![r] =
               [Loaded("changeOwn", "setPassword", u) EXCEPT !.pw = new]]
    BY <1>7 DEF ChangeForced, ChangeOwn
  <2>2. /\ req'[r].pc = "setPassword"
        /\ Traceless(req'[r])
    BY <2>1 DEF Opened, Loaded, Blank, Traceless
  <2>3. At(r, "idle")
    BY <1>7 DEF ChangeForced, ChangeOwn, Admit
  <2> QED
    BY <2>1, <2>2, <2>3, BeginTraced
<1>8. CASE SpendCode(r) \/ Settle(r) \/ PurgeExpired(r) \/ SetPassword(r) \/ Revoke(r)
  BY <1>8, <1>a, GotoTraced DEF SpendCode, Settle, PurgeExpired, SetPassword, Revoke
<1>9. CASE \/ CreateSession(r) \/ DropRow(r) \/ SaveUpdate(r) \/ SaveInsert(r)
           \/ Logout(r) \/ LogoutAll(r)
  BY <1>9, <1>a
  DEF CreateSession, DropRow, SaveUpdate, SaveInsert, AnswerRefresh, Logout,
      LogoutAll, Refuse
<1> QED
  BY <1>1, <1>2, <1>3, <1>4, <1>5, <1>6, <1>7, <1>8, <1>9, <1>a
  DEF AuthStep, Refuse

LEMMA AdminTraced ==
  ASSUME TypeOK, Blanks, NEW r \in Request, HubUsersStep(r)
  PROVE  Traced(r)
<1>0. /\ req \in [Request -> RequestState]
      /\ users \in [DOMAIN users -> UserRow]
  BY DEF TypeOK
<1>a. CASE \E answer : Respond(r, answer)
  BY <1>a, <1>0, RespondTraced
<1>g. CASE \E pc \in {"selectUser", "revokeUser", "reinsertUser", "clearCodes",
                      "deleteUser"} : Goto(r, pc)
  BY <1>g, <1>0, GotoTraced
<1>1. CASE InviteStart(r) /\ ~Refuse(r)
  <2>1. PICK row : req' = [req EXCEPT ![r] =
                     [Opened("invite", "insertUser", r) EXCEPT !.usr = row]]
    BY <1>1 DEF InviteStart
  <2>2. /\ req'[r].pc = "insertUser"
        /\ Traceless(req'[r])
    BY <2>1, <1>0 DEF Opened, Blank, Traceless
  <2> QED
    BY <2>1, <2>2, <1>0, <1>1, BeginTraced DEF InviteStart, Admit
<1>2. CASE /\ \/ UpdateProfileStart(r) \/ SetAccessLevelStart(r)
              \/ ToggleStatusStart(r) \/ ResetPasswordStart(r)
           /\ ~Refuse(r)
  <2>1. /\ req'[r].pc # "idle"
        /\ Traceless(req'[r])
    BY <1>2, <1>0, EditStarts
  <2>2. At(r, "idle")
    BY <1>2
    DEF UpdateProfileStart, SetAccessLevelStart, ToggleStatusStart,
        ResetPasswordStart, Admit
  <2> QED
    BY <2>1, <2>2, <1>0 DEF Traced, Traceless, Blanks, At, Blank
<1>3. CASE (ResetTotpStart(r) \/ RemoveStart(r)) /\ ~Refuse(r)
  <2>1. PICK op, u : \E pc \in {"clearFactor", "countAdmins", "revokeUser"} :
          req' = [req EXCEPT ![r] = Loaded(op, pc, u)]
    BY <1>3 DEF ResetTotpStart, RemoveStart, Guarded
  <2>2. At(r, "idle")
    BY <1>3 DEF ResetTotpStart, RemoveStart, Admit
  <2>3. PICK pc \in {"clearFactor", "countAdmins", "revokeUser"} :
          req' = [req EXCEPT ![r] = Loaded(op, pc, u)]
    BY <2>1
  <2>4. Traceless(Loaded(op, pc, u)) /\ Loaded(op, pc, u).pc # "idle"
    BY LoadedFields DEF Traceless
  <2> QED
    BY <2>2, <2>3, <2>4, <1>0, BeginTraced
<1>4. CASE SetTotpRequiredStart(r) /\ ~Refuse(r) /\ ~Respond(r, Plain("done"))
  <2>1. PICK u, flag : req' = [req EXCEPT ![r] =
             [Loaded("setTotpRequired", "storeRequired", u)
                EXCEPT !.usr.required = flag]]
    BY <1>4 DEF SetTotpRequiredStart
  <2>2. /\ req'[r].pc = "storeRequired"
        /\ Traceless(req'[r])
    BY <2>1, <1>0 DEF Loaded, Blank, Traceless
  <2> QED
    BY <2>1, <2>2, <1>0, <1>4, BeginTraced DEF SetTotpRequiredStart, Admit
<1>5. CASE SelectUser(r)
  <2>1. \/ Goto(r, "reinsertUser")
        \/ \E cols : req' = [req EXCEPT ![r].pc = "updateUser", ![r].cols = cols]
    BY <1>5 DEF SelectUser
  <2>2. CASE \E cols :
               req' = [req EXCEPT ![r].pc = "updateUser", ![r].cols = cols]
    BY <2>2, <1>0 DEF RequestState, Traced
  <2> QED
    BY <2>1, <2>2, <1>g
<1>6. CASE \/ CheckEmail(r) \/ CountAdmins(r) \/ UpdateUser(r)
           \/ ReinsertUser(r) \/ ClearFactor(r) \/ ClearCodes(r)
           \/ StoreRequired(r) \/ RevokeUser(r)
  BY <1>6, <1>a, <1>g
  DEF CheckEmail, CountAdmins, UpdateUser, ReinsertUser, ClearFactor,
      ClearCodes, StoreRequired, RevokeUser, Finish, AfterSave, AfterRequired,
      Refuse
<1>7. CASE InsertUser(r) \/ DeleteUser(r)
  BY <1>7, <1>a DEF InsertUser, DeleteUser
<1> QED
  BY <1>1, <1>2, <1>3, <1>4, <1>5, <1>6, <1>7, <1>a DEF HubUsersStep, Refuse

LEMMA StepTraced ==
  ASSUME RowsInv, Blanks, NEW r \in Request, Step(r) \/ Abandon(r)
  PROVE  Traced(r) /\ Blanks'
<1>0. TypeOK /\ req \in [Request -> RequestState]
  BY DEF RowsInv, TypeOK
<1>1. Traced(r)
  BY <1>0, TotpTraced, AuthTraced, AdminTraced, RespondTraced DEF Step, Abandon
<1> QED
  BY <1>1, StepMoves DEF Traced, Blanks, Moves

\* So no request accepts a second code.
LEMMA StepUnclaimed ==
  ASSUME RowsInv, Blanks, Unclaimed, NEW r \in Request, Step(r) \/ Abandon(r)
  PROVE  Unclaimed'
<1>1. Traced(r) /\ Moves(r)
  BY StepTraced, StepMoves
<1>2. req'[r].pc \in {"idle", "verify", "burn"} => ~Burn(r)
  BY <1>1 DEF Burn, At, Traced
<1> QED
  BY <1>1, <1>2 DEF Traced, Moves, Unclaimed

LEMMA TraceInvariance == Spec => [](Blanks /\ Unclaimed)
<1>1. Init => Blanks /\ Unclaimed
  BY DEF Init, Blanks, Unclaimed, Blank
<1>2. RowsInv /\ Blanks /\ Unclaimed /\ [Next]_vars => Blanks' /\ Unclaimed'
  BY StepTraced, StepUnclaimed DEF Next, Tick, Quiet, vars, Blanks, Unclaimed
<1> QED
  BY <1>1, <1>2, HubInv, PTL DEF Spec
=============================================================================
