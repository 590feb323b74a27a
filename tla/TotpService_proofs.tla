-------------------------- MODULE TotpService_proofs --------------------------
(***************************************************************************)
(* The second factor, for any number of accounts, requests and ticks:      *)
(* rows keep their type, and no code is accepted twice.  First, what the   *)
(* statements and the request helpers of HubTables preserve: the lemmas    *)
(* behind every proof about a service.                                     *)
(***************************************************************************)
EXTENDS TotpService, TLAPS

-----------------------------------------------------------------------------
(***************************************************************************)
(* The statements of the tables, and the helpers of a request.             *)
(***************************************************************************)
\* Names, NULL and the empty rows have the types they are used at.
LEMMA NameTypes ==
  /\ Request \subseteq Name
  /\ DefaultPassword \in Name
  /\ Name \subseteq OrNull(Name)
  /\ NULL \in OrNull(Name)
  /\ \A r \in Request : r # NULL
BY NamesAssumption DEF Name, OrNull

LEMMA PlainType == \A kind \in Kind : Plain(kind) \in Answer
BY NameTypes DEF Plain, Answer

LEMMA BlankType ==
  /\ NoUser \in UserRow
  /\ NoSession \in SessionRow
  /\ Blank \in RequestState
<1>1. NoUser \in UserRow
  BY NameTypes DEF NoUser, UserRow, HubAccessLevel
<1>2. NoSession \in SessionRow
  BY NameTypes DEF NoSession, SessionRow
<1>3. Plain("none") \in Answer
  BY PlainType DEF Kind
<1>4. /\ NULL \in OrNull(CodeId)
      /\ NULL \in OrNull(AcceptedCode)
      /\ NULL \in OrNull(Operation)
  BY DEF OrNull
<1>5. Blank \in RequestState
  BY <1>1, <1>2, <1>3, <1>4, NameTypes DEF Blank, RequestState, Statement
<1> QED
  BY <1>1, <1>2, <1>5

\* A request stays one when any of its fields is assigned.
LEMMA RequestFields ==
  ASSUME NEW q \in RequestState
  PROVE  /\ \A x \in OrNull(Operation) : [q EXCEPT !.op = x] \in RequestState
         /\ \A x \in Statement : [q EXCEPT !.pc = x] \in RequestState
         /\ \A x \in OrNull(Name) : [q EXCEPT !.uid = x] \in RequestState
         /\ \A x \in UserRow : [q EXCEPT !.usr = x] \in RequestState
         /\ \A x \in OrNull(Name) : [q EXCEPT !.sid = x] \in RequestState
         /\ \A x \in SessionRow : [q EXCEPT !.ses = x] \in RequestState
         /\ \A x \in SUBSET Column : [q EXCEPT !.cols = x] \in RequestState
         /\ \A x \in OrNull(Name) : [q EXCEPT !.pw = x] \in RequestState
         /\ \A x \in OrNull(Name) : [q EXCEPT !.handle = x] \in RequestState
         /\ \A x \in Nat : [q EXCEPT !.now = x] \in RequestState
         /\ \A x \in Nat : [q EXCEPT !.step = x] \in RequestState
         /\ \A x \in OrNull(CodeId) : [q EXCEPT !.code = x] \in RequestState
         /\ \A x \in OrNull(AcceptedCode) : [q EXCEPT !.accepted = x] \in RequestState
         /\ \A x \in Answer : [q EXCEPT !.out = x] \in RequestState
BY DEF RequestState

\* So does the row of an account, in the columns the services assign.
LEMMA UserFields ==
  ASSUME NEW row \in UserRow
  PROVE  /\ \A x \in OrNull(Name) : [row EXCEPT !.secret = x] \in UserRow
         /\ \A x \in BOOLEAN : [row EXCEPT !.enabled = x] \in UserRow
         /\ \A x \in Nat : [row EXCEPT !.last = x] \in UserRow
BY DEF UserRow

-----------------------------------------------------------------------------
(***************************************************************************)
(* Requests.                                                               *)
(***************************************************************************)
\* Answering a request keeps its type, and the trace it leaves.
LEMMA ClosedType ==
  ASSUME NEW q \in RequestState, NEW answer \in Answer
  PROVE  /\ Closed(q, answer) \in RequestState
         /\ Closed(q, answer).pc = "done"
         /\ Closed(q, answer).usr = NoUser
         /\ Closed(q, answer).sid = NULL
         /\ Closed(q, answer).accepted = q.accepted
         /\ Closed(q, answer).code = q.code
         /\ Closed(q, answer).out = answer
<1>1. q.code \in OrNull(CodeId) /\ q.accepted \in OrNull(AcceptedCode)
  BY DEF RequestState
<1>2. Closed(q, answer) \in RequestState
  BY <1>1, BlankType, RequestFields DEF Closed, Statement
<1> QED
  BY <1>2 DEF Closed, Blank

\* Respond, Refuse and Goto touch the request they are given and no other.
LEMMA RespondType ==
  ASSUME req \in [Request -> RequestState], NEW r \in Request,
         NEW answer \in Answer, Respond(r, answer)
  PROVE  /\ req' \in [Request -> RequestState]
         /\ req'[r].pc = "done"
         /\ req'[r].usr = NoUser
         /\ req'[r].sid = NULL
         /\ req'[r].accepted = req[r].accepted
         /\ req'[r].code = req[r].code
         /\ req'[r].out = answer
         /\ \A q \in Request \ {r} : req'[q] = req[q]
<1>1. /\ req' \in [Request -> RequestState]
      /\ req'[r] = Closed(req[r], answer)
      /\ \A q \in Request \ {r} : req'[q] = req[q]
  BY ClosedType DEF Respond
<1> QED
  BY <1>1, ClosedType

LEMMA RefuseType ==
  ASSUME req \in [Request -> RequestState], NEW r \in Request, Refuse(r)
  PROVE  /\ req' \in [Request -> RequestState]
         /\ req'[r].pc = "done"
         /\ req'[r].usr = NoUser
         /\ req'[r].sid = NULL
         /\ req'[r].accepted = req[r].accepted
         /\ req'[r].code = req[r].code
         /\ req'[r].out = Plain("refused")
         /\ \A q \in Request \ {r} : req'[q] = req[q]
<1>1. Plain("refused") \in Answer
  BY PlainType DEF Kind
<1> QED
  BY <1>1, RespondType DEF Refuse

LEMMA GotoType ==
  ASSUME req \in [Request -> RequestState], NEW r \in Request,
         NEW pc \in Statement, Goto(r, pc)
  PROVE  /\ req' \in [Request -> RequestState]
         /\ req'[r] = [req[r] EXCEPT !.pc = pc]
         /\ req'[r].pc = pc
         /\ req'[r].uid = req[r].uid
         /\ req'[r].sid = req[r].sid
         /\ req'[r].ses = req[r].ses
         /\ req'[r].usr = req[r].usr
         /\ req'[r].accepted = req[r].accepted
         /\ \A q \in Request \ {r} : req'[q] = req[q]
<1>1. /\ req' \in [Request -> RequestState]
      /\ req'[r] = [req[r] EXCEPT !.pc = pc]
      /\ \A q \in Request \ {r} : req'[q] = req[q]
  BY RequestFields DEF Goto
<1> QED
  BY <1>1 DEF RequestState

\* A request that starts out with the row of an account has its type.
LEMMA LoadedType ==
  ASSUME DOMAIN users \subseteq Name, users \in [DOMAIN users -> UserRow],
         NEW op \in Operation, NEW pc \in Statement, NEW u \in DOMAIN users
  PROVE  /\ Loaded(op, pc, u) \in RequestState
         /\ Loaded(op, pc, u).op = op
         /\ Loaded(op, pc, u).pc = pc
         /\ Loaded(op, pc, u).uid = u
         /\ Loaded(op, pc, u).usr = users[u]
         /\ Loaded(op, pc, u).sid = NULL
         /\ Loaded(op, pc, u).accepted = NULL
<1>1. op \in OrNull(Operation) /\ u \in OrNull(Name) /\ users[u] \in UserRow
  BY DEF OrNull
<1>2. Loaded(op, pc, u) \in RequestState
  BY <1>1, BlankType, RequestFields DEF Loaded
<1> QED
  BY <1>2 DEF Loaded, Blank

\* An account's row is loaded by a request that is admitted.
LEMMA StartsLoaded ==
  ASSUME TypeOK, NEW r \in Request, NEW op \in Operation,
         NEW pc \in Statement, NEW u \in DOMAIN users,
         req' = [req EXCEPT ![r] = Loaded(op, pc, u)]
  PROVE  /\ req' \in [Request -> RequestState]
         /\ req'[r] = Loaded(op, pc, u)
         /\ \A q \in Request \ {r} : req'[q] = req[q]
BY LoadedType DEF TypeOK

-----------------------------------------------------------------------------
(***************************************************************************)
(* Steps.                                                                  *)
(***************************************************************************)
\* A statement that writes no table keeps the type if the request does.
LEMMA OnlyRequests ==
  ASSUME TypeOK, UNCHANGED tables, req' \in [Request -> RequestState]
  PROVE  TypeOK'
BY DEF TypeOK, tables

\* An UPDATE of hub_user by id.
LEMMA OnlyUsers ==
  ASSUME TypeOK, NEW u, NEW row, u \in DOMAIN users => row \in UserRow,
         users' = Updated(users, u, row),
         UNCHANGED <<sessions, codes, tokens, clock, revoked>>,
         req' \in [Request -> RequestState]
  PROVE  TypeOK'
<1>1. /\ DOMAIN users' = DOMAIN users
      /\ users' \in [DOMAIN users -> UserRow]
  BY DEF TypeOK, Updated
<1> QED
  BY <1>1 DEF TypeOK

\* A worker that dies leaves the tables as they are.
LEMMA AbandonType ==
  ASSUME TypeOK, NEW r \in Request, Abandon(r)
  PROVE  TypeOK'
<1>1. Plain("lost") \in Answer
  BY PlainType DEF Kind
<1>2. req' \in [Request -> RequestState]
  BY <1>1, RespondType DEF Abandon, TypeOK
<1> QED
  BY <1>2, OnlyRequests DEF Abandon

\* The initial states have the type.
LEMMA InitType == Init => TypeOK
<1> SUFFICES ASSUME Init PROVE TypeOK
  OBVIOUS
<1>1. PICK p \in Population : /\ users = p.users
                              /\ sessions = p.sessions
                              /\ codes = p.codes
                              /\ tokens = InitialTokens(p.users)
  BY DEF Init
<1>2. WellFormed(p)
  BY PopulationAssumption
<1>3. /\ DOMAIN users \subseteq Name
      /\ users \in [DOMAIN users -> UserRow]
      /\ DOMAIN sessions \subseteq Name
      /\ sessions \in [DOMAIN sessions -> SessionRow]
  BY <1>1, <1>2 DEF WellFormed, Name
<1>4. /\ DOMAIN codes \subseteq CodeId
      /\ codes \in [DOMAIN codes -> CodeRow]
  <2>1. Seed \X (1..CodeCount) \subseteq CodeId
    BY DEF CodeId, Name
  <2> QED
    BY <1>1, <1>2, <2>1 DEF WellFormed
<1>5. tokens \subseteq AccessToken
  BY <1>1, <1>3, NameTypes DEF InitialTokens, AccessToken, UserRow, Scope
<1>6. /\ clock \in Nat
      /\ req \in [Request -> RequestState]
      /\ revoked \subseteq Name
  BY BlankType DEF Init, StartClock
<1> QED
  BY <1>3, <1>4, <1>5, <1>6 DEF TypeOK
-----------------------------------------------------------------------------
(***************************************************************************)
(* Types.                                                                  *)
(***************************************************************************)
\* The rows an UPDATE of TotpService writes.
LEMMA FactorRows ==
  ASSUME NEW row \in UserRow, NEW secret \in Name
  PROVE  /\ WithSecret(row, secret) \in UserRow
         /\ WithoutTotp(row) \in UserRow
         /\ [row EXCEPT !.enabled = TRUE] \in UserRow
BY UserFields, NameTypes DEF WithSecret, WithoutTotp

LEMMA AfterVerifyType == \A op : AfterVerify(op) \in Statement
BY DEF AfterVerify, Statement

\* Every statement of TotpService keeps the type.
LEMMA TotpStepType ==
  ASSUME TypeOK, NEW r \in Request, TotpStep(r)
  PROVE  TypeOK'
<1> USE DEF TypeOK
<1> DEFINE q == req[r]
<1>0. /\ req \in [Request -> RequestState]
      /\ q \in RequestState
      /\ q.uid \in DOMAIN users => users[q.uid] \in UserRow
      /\ r \in Name
      /\ clock \in Nat
  BY NameTypes
<1>1. CASE SetupStart(r)
  <2>1. PICK t \in Bearers("totpSetup", "VIEW"), op \in {"setup", "rotate"} :
          \/ Refuse(r)
          \/ /\ MayPair(t.sub)
             /\ PendingSecret(op, t.sub) # NULL
             /\ Respond(r, [Plain("paired") EXCEPT
                                     !.shown = PendingSecret(op, t.sub)])
          \/ /\ MayPair(t.sub)
             /\ req' = [req EXCEPT ![r] = Loaded(op, "storeSecret", t.sub)]
    BY <1>1 DEF SetupStart
  <2>2. CASE Refuse(r)
    BY <2>2, <1>0, <1>1, RefuseType, OnlyRequests DEF SetupStart
  <2>3. CASE /\ MayPair(t.sub)
             /\ Respond(r, [Plain("paired") EXCEPT
                                     !.shown = PendingSecret(op, t.sub)])
    <3>1. PendingSecret(op, t.sub) \in OrNull(Name)
      BY <2>3, NameTypes DEF PendingSecret, MayPair, UserRow
    <3>2. [Plain("paired") EXCEPT !.shown = PendingSecret(op, t.sub)] \in Answer
      BY <3>1, NameTypes DEF Plain, Answer, Kind
    <3> QED
      BY <3>2, <2>3, <1>0, <1>1, RespondType, OnlyRequests DEF SetupStart
  <2>4. CASE /\ MayPair(t.sub)
             /\ req' = [req EXCEPT ![r] = Loaded(op, "storeSecret", t.sub)]
    <3>1. op \in Operation /\ "storeSecret" \in Statement
      BY DEF Operation, Statement
    <3> QED
      BY <3>1, <2>4, <1>1, StartsLoaded, OnlyRequests DEF MayPair, SetupStart
  <2> QED
    BY <2>1, <2>2, <2>3, <2>4
<1>2. CASE StoreSecret(r)
  <2>1. [Plain("paired") EXCEPT !.shown = r] \in Answer
    BY NameTypes DEF Plain, Answer, Kind
  <2>2. req' \in [Request -> RequestState]
    BY <2>1, <1>0, <1>2, RespondType DEF StoreSecret
  <2> QED
    BY <2>2, <1>0, <1>2, FactorRows, OnlyUsers DEF StoreSecret
<1>3. CASE EnableStart(r)
  <2>1. "enable" \in Operation /\ "verify" \in Statement
    BY DEF Operation, Statement
  <2>2. req' \in [Request -> RequestState]
    BY <2>1, <1>0, <1>3, RefuseType, StartsLoaded DEF EnableStart, MayPair
  <2> QED
    BY <2>2, <1>3, OnlyRequests DEF EnableStart
<1>4. CASE RegenerateStart(r)
  <2>1. "regenerate" \in Operation /\ "verify" \in Statement
    BY DEF Operation, Statement
  <2>2. req' \in [Request -> RequestState]
    BY <2>1, <1>0, <1>4, RefuseType, StartsLoaded DEF RegenerateStart, Enrolled
  <2> QED
    BY <2>2, <1>4, OnlyRequests DEF RegenerateStart
<1>5. CASE DisableStart(r)
  <2>1. "disable" \in Operation /\ "verify" \in Statement
    BY DEF Operation, Statement
  <2>2. req' \in [Request -> RequestState]
    BY <2>1, <1>0, <1>5, RefuseType, StartsLoaded
       DEF DisableStart, MayDisable, Enrolled
  <2> QED
    BY <2>2, <1>5, OnlyRequests DEF DisableStart
<1>6. CASE VerifyAccepts(r)
  <2>1. PICK t \in Window :
          req' = [req EXCEPT ![r].pc = "burn", ![r].step = t]
    BY <1>6 DEF VerifyAccepts
  <2>2. t \in Nat /\ "burn" \in Statement
    BY <1>0 DEF Window, Statement
  <2>3. [q EXCEPT !.pc = "burn", !.step = t] \in RequestState
    BY <2>2, <1>0, RequestFields
  <2>4. req' \in [Request -> RequestState]
    BY <2>1, <2>3, <1>0
  <2> QED
    BY <2>4, <1>6, OnlyRequests DEF VerifyAccepts
<1>7. CASE VerifyRejects(r)
  BY <1>7, <1>0, RefuseType, OnlyRequests DEF VerifyRejects
<1>8. CASE Burn(r)
  <2>1. CASE /\ Burnable(q.uid, q.step)
             /\ users' = [users EXCEPT ![q.uid].last = q.step]
             /\ req' = [req EXCEPT ![r].pc = AfterVerify(q.op),
                                   ![r].accepted = [user |-> q.uid,
                                                    secret |-> q.usr.secret,
                                                    step |-> q.step]]
    <3> DEFINE code == [user |-> q.uid, secret |-> q.usr.secret, step |-> q.step]
    <3>1. q.step \in Nat /\ q.uid \in DOMAIN users
      BY <2>1, <1>0 DEF RequestState, Burnable
    <3>2. /\ DOMAIN users' = DOMAIN users
          /\ users' \in [DOMAIN users -> UserRow]
      BY <2>1, <3>1, <1>0, UserFields
    <3>3. code \in OrNull(AcceptedCode)
      BY <1>0 DEF RequestState, UserRow, AcceptedCode, OrNull
    <3>4. [q EXCEPT !.pc = AfterVerify(q.op), !.accepted = code] \in RequestState
      BY <3>3, <1>0, AfterVerifyType, RequestFields
    <3>5. req' \in [Request -> RequestState]
      BY <2>1, <3>4, <1>0
    <3> QED
      BY <3>2, <3>5, <1>8 DEF Burn
  <2>2. CASE Refuse(r) /\ UNCHANGED users
    BY <2>2, <1>0, <1>8, RefuseType DEF Burn
  <2> QED
    BY <2>1, <2>2, <1>8 DEF Burn
<1>9. CASE SetEnabled(r)
  <2>1. req' \in [Request -> RequestState]
    BY <1>0, <1>9, GotoType DEF SetEnabled, Statement
  <2> QED
    BY <2>1, <1>0, <1>9, FactorRows, NameTypes, OnlyUsers DEF SetEnabled
<1>10. CASE ClearTotp(r)
  <2>1. req' \in [Request -> RequestState]
    BY <1>0, <1>10, GotoType DEF ClearTotp, Statement
  <2> QED
    BY <2>1, <1>0, <1>10, FactorRows, NameTypes, OnlyUsers DEF ClearTotp
<1>11. CASE DropCodes(r)
  <2>1. Plain("done") \in Answer /\ "issueCodes" \in Statement
    BY PlainType DEF Kind, Statement
  <2>2. req' \in [Request -> RequestState]
    BY <2>1, <1>0, <1>11, RespondType, GotoType DEF DropCodes
  <2>3. /\ DOMAIN codes' \subseteq CodeId
        /\ codes' \in [DOMAIN codes' -> CodeRow]
    BY <1>11 DEF DropCodes, Delete, Restrict
  <2> QED
    BY <2>2, <2>3, <1>11 DEF DropCodes
<1>12. CASE IssueCodes(r)
  <2>1. Plain("codes") \in Answer /\ Plain("failed") \in Answer
    BY PlainType DEF Kind
  <2>2. req' \in [Request -> RequestState]
    BY <2>1, <1>0, <1>12, RespondType DEF IssueCodes
  <2>3. [user |-> q.uid, used |-> FALSE] \in CodeRow
    BY <1>0 DEF RequestState, CodeRow
  <2>4. Batch(r) \subseteq CodeId
    BY NameTypes DEF Batch, CodeId
  <2>5. /\ DOMAIN codes' \subseteq CodeId
        /\ codes' \in [DOMAIN codes' -> CodeRow]
    <3>1. CASE codes' = Insert(codes, Batch(r), [user |-> q.uid, used |-> FALSE])
      BY <3>1, <2>3, <2>4 DEF Insert
    <3>2. CASE UNCHANGED codes
      BY <3>2
    <3> QED
      BY <3>1, <3>2, <1>12 DEF IssueCodes
  <2> QED
    BY <2>2, <2>5, <1>12 DEF IssueCodes
<1> QED
  BY <1>1, <1>2, <1>3, <1>4, <1>5, <1>6, <1>7, <1>8, <1>9, <1>10, <1>11,
     <1>12 DEF TotpStep

\* Whatever the second-factor requests do, in any interleaving and with
\* workers dying in the middle, the tables keep rows of their schema.
THEOREM TotpTypeOK == TotpSpec => []TypeOK
<1>1. TypeOK /\ [TotpNext]_vars => TypeOK'
  <2> SUFFICES ASSUME TypeOK, [TotpNext]_vars PROVE TypeOK'
    OBVIOUS
  <2>1. CASE \E r \in Request : TotpStep(r) \/ Abandon(r)
    BY <2>1, TotpStepType, AbandonType
  <2>2. CASE Tick
    BY <2>2 DEF Tick, TypeOK
  <2>3. CASE UNCHANGED vars
    BY <2>3 DEF vars, TypeOK
  <2> QED
    BY <2>1, <2>2, <2>3 DEF TotpNext, Quiet
<1> QED
  BY <1>1, InitType, PTL DEF TotpSpec
-----------------------------------------------------------------------------
(***************************************************************************)
(* The inductive invariant behind WatermarkCovers and CodeAcceptedOnce: a  *)
(* secret, minted once, is only ever one account's, in the table as in the *)
(* copies that requests hold while a code is being verified.               *)
(***************************************************************************)
Verifying(q) == q.pc \in {"verify", "burn"}

NoSharedSecret ==
  \A u, v \in DOMAIN users :
    users[u].secret = users[v].secret /\ users[u].secret # NULL => u = v

CopiesTheirOwn ==
  \A r \in Request, u \in DOMAIN users :
    /\ Verifying(req[r])
    /\ req[r].usr.secret = users[u].secret
    /\ users[u].secret # NULL
    => u = req[r].uid

RealSecrets ==
  \A r \in Request :
    /\ req[r].pc = "burn" => req[r].usr.secret # NULL
    /\ req[r].accepted # NULL => req[r].accepted.secret # NULL

\* A secret that r is still to mint is nowhere yet.
Fresh(r) ==
  /\ \A u \in DOMAIN users : users[u].secret # r
  /\ \A q \in Request :
       /\ req[q].usr.secret # r
       /\ req[q].accepted # NULL => req[q].accepted.secret # r

Unminted == \A r \in Request : req[r].pc \in {"idle", "storeSecret"} => Fresh(r)

FactorInv ==
  /\ NoSharedSecret
  /\ CopiesTheirOwn
  /\ RealSecrets
  /\ Unminted
  /\ WatermarkCovers

LEMMA InitFactor == Init => FactorInv
<1> SUFFICES ASSUME Init PROVE FactorInv
  OBVIOUS
<1>1. PICK p \in Population : users = p.users
  BY DEF Init
<1>2. WellFormed(p)
  BY PopulationAssumption
<1>3. \A r \in Request : req[r] = Blank
  BY DEF Init
<1>4. \A r \in Request : /\ req[r].pc = "idle"
                         /\ req[r].accepted = NULL
                         /\ req[r].usr.secret = NULL
  BY <1>3 DEF Blank, NoUser
<1>5. NoSharedSecret
  BY <1>1, <1>2 DEF WellFormed, NoSharedSecret
<1>6. CopiesTheirOwn /\ RealSecrets /\ WatermarkCovers
  BY <1>4 DEF CopiesTheirOwn, RealSecrets, WatermarkCovers, Verifying
<1>7. \A r \in Request, u \in DOMAIN users : users[u].secret # r
  BY <1>1, <1>2, NamesAssumption DEF WellFormed, OrNull, Name
<1>8. Unminted
  BY <1>4, <1>7, NameTypes DEF Unminted, Fresh
<1> QED
  BY <1>5, <1>6, <1>8 DEF FactorInv

\* Steps that write no account: one request is answered, moves on with the
\* copy it has, or starts out with a copy of an account's row.
LEMMA FactorFrame ==
  ASSUME TypeOK, FactorInv, NEW r \in Request, users' = users,
         \A q \in Request \ {r} : req'[q] = req[q],
         req'[r].accepted \in {req[r].accepted, NULL},
         req'[r].pc # "idle",
         \/ /\ req'[r].usr = NoUser
            /\ req'[r].pc \notin {"storeSecret", "verify", "burn"}
         \/ /\ req'[r].usr = req[r].usr
            /\ req'[r].pc \notin {"storeSecret", "verify", "burn"}
         \/ /\ req'[r].usr = req[r].usr
            /\ req'[r].uid = req[r].uid
            /\ req[r].pc = "verify" /\ req'[r].pc = "burn"
            /\ req[r].usr.secret # NULL
         \/ \E u \in DOMAIN users :
              /\ req'[r].usr = users[u]
              /\ req'[r].uid = u
              /\ req'[r].pc # "burn"
              /\ req'[r].pc = "storeSecret" => req[r].pc = "idle"
  PROVE  FactorInv'
<1> USE DEF FactorInv
<1>1. NoSharedSecret'
  BY DEF NoSharedSecret
<1>2. CopiesTheirOwn'
  <2> SUFFICES ASSUME NEW q \in Request, NEW u \in DOMAIN users,
                      Verifying(req'[q]), req'[q].usr.secret = users[u].secret,
                      users[u].secret # NULL
               PROVE  u = req'[q].uid
    BY DEF CopiesTheirOwn
  <2>1. CASE q # r
    BY <2>1 DEF CopiesTheirOwn
  <2>2. CASE q = r
    BY <2>2 DEF CopiesTheirOwn, NoSharedSecret, Verifying
  <2> QED
    BY <2>1, <2>2
<1>3. RealSecrets'
  <2> SUFFICES ASSUME NEW q \in Request
               PROVE  /\ req'[q].pc = "burn" => req'[q].usr.secret # NULL
                      /\ req'[q].accepted # NULL => req'[q].accepted.secret # NULL
    BY DEF RealSecrets
  <2>1. CASE q # r
    BY <2>1 DEF RealSecrets
  <2>2. CASE q = r
    BY <2>2 DEF RealSecrets
  <2> QED
    BY <2>1, <2>2
<1>4. Unminted'
  <2> SUFFICES ASSUME NEW p \in Request, req'[p].pc \in {"idle", "storeSecret"}
               PROVE  Fresh(p)'
    BY DEF Unminted
  <2>1. req[p].pc \in {"idle", "storeSecret"}
    BY DEF Verifying
  <2>2. Fresh(p)
    BY <2>1 DEF Unminted
  <2>3. NoUser.secret # p
    BY NameTypes DEF NoUser
  <2>4. \A q \in Request : req'[q].usr.secret # p
    BY <2>2, <2>3 DEF Fresh
  <2>5. \A q \in Request :
          req'[q].accepted # NULL => req'[q].accepted.secret # p
    BY <2>2 DEF Fresh
  <2> QED
    BY <2>2, <2>4, <2>5 DEF Fresh
<1>5. WatermarkCovers'
  <2>1. \A q \in Request : req'[q].accepted \in {req[q].accepted, NULL}
    OBVIOUS
  <2> QED
    BY <2>1 DEF WatermarkCovers
<1> QED
  BY <1>1, <1>2, <1>3, <1>4, <1>5
\* Statements that keep or clear the secret of one account, after which the
\* request moves on with no code to burn.
LEMMA FactorUpdate ==
  ASSUME TypeOK, FactorInv, NEW r \in Request, NEW row,
         users' = Updated(users, req[r].uid, row),
         req[r].uid \in DOMAIN users =>
           \/ row.secret = NULL
           \/ /\ row.secret = users[req[r].uid].secret
              /\ row.last = users[req[r].uid].last,
         \A q \in Request \ {r} : req'[q] = req[q],
         req'[r].accepted = req[r].accepted,
         req'[r].usr = req[r].usr,
         req'[r].pc \notin {"idle", "storeSecret", "verify", "burn"}
  PROVE  FactorInv'
<1> USE DEF FactorInv
<1>1. /\ DOMAIN users' = DOMAIN users
      /\ \A u \in DOMAIN users :
           \/ users'[u].secret = NULL
           \/ /\ users'[u].secret = users[u].secret
              /\ users'[u].last = users[u].last
  BY DEF Updated, TypeOK
<1>2. NoSharedSecret'
  BY <1>1 DEF NoSharedSecret
<1>3. CopiesTheirOwn'
  BY <1>1 DEF CopiesTheirOwn, Verifying
<1>4. RealSecrets'
  <2>1. \A q \in Request : req'[q].pc = "burn" => req'[q] = req[q]
    OBVIOUS
  <2>2. \A q \in Request : req'[q].accepted = req[q].accepted
    OBVIOUS
  <2> QED
    BY <2>1, <2>2 DEF RealSecrets
<1>5. Unminted'
  <2> SUFFICES ASSUME NEW p \in Request, req'[p].pc \in {"idle", "storeSecret"}
               PROVE  Fresh(p)'
    BY DEF Unminted
  <2>1. Fresh(p)
    BY DEF Unminted
  <2>2. \A q \in Request : /\ req'[q].usr = req[q].usr
                           /\ req'[q].accepted = req[q].accepted
    OBVIOUS
  <2>3. \A u \in DOMAIN users' : users'[u].secret # p
    BY <1>1, <2>1, NameTypes DEF Fresh
  <2> QED
    BY <2>1, <2>2, <2>3 DEF Fresh
<1>6. WatermarkCovers'
  <2> SUFFICES ASSUME NEW q \in Request, NEW u \in DOMAIN users',
                      req'[q].accepted # NULL,
                      req'[q].accepted.secret = users'[u].secret
               PROVE  req'[q].accepted.step <= users'[u].last
    BY DEF WatermarkCovers
  <2>1. req'[q].accepted = req[q].accepted
    OBVIOUS
  <2>2. users'[u].secret # NULL
    BY <2>1 DEF RealSecrets
  <2> QED
    BY <1>1, <2>1, <2>2 DEF WatermarkCovers
<1> QED
  BY <1>2, <1>3, <1>4, <1>5, <1>6

\* storeSecret: the secret is new to the whole system, so a watermark of 0
\* covers every code accepted against it: there is none.
LEMMA FactorStore ==
  ASSUME TypeOK, FactorInv, NEW r \in Request, StoreSecret(r)
  PROVE  FactorInv'
<1> USE DEF FactorInv
<1> DEFINE id == req[r].uid
<1>0. [Plain("paired") EXCEPT !.shown = r] \in Answer
  BY NameTypes DEF Plain, Answer, Kind
<1>1. /\ \A q \in Request \ {r} : req'[q] = req[q]
      /\ req'[r].pc = "done"
      /\ req'[r].usr = NoUser
      /\ req'[r].accepted = req[r].accepted
  BY <1>0, RespondType DEF StoreSecret, TypeOK
<1>2. /\ DOMAIN users' = DOMAIN users
      /\ id \in DOMAIN users => /\ users'[id].secret = r
                                /\ users'[id].last = 0
      /\ \A u \in DOMAIN users : u # id => users'[u] = users[u]
  BY DEF StoreSecret, Updated, WithSecret, TypeOK, UserRow
<1>3. Fresh(r)
  BY DEF StoreSecret, At, Unminted
<1>4. NoSharedSecret'
  BY <1>2, <1>3 DEF NoSharedSecret, Fresh
<1>5. CopiesTheirOwn'
  BY <1>1, <1>2, <1>3 DEF CopiesTheirOwn, Verifying, Fresh
<1>6. RealSecrets'
  BY <1>1 DEF RealSecrets
<1>7. Unminted'
  <2> SUFFICES ASSUME NEW p \in Request, req'[p].pc \in {"idle", "storeSecret"}
               PROVE  Fresh(p)'
    BY DEF Unminted
  <2>1. p # r /\ Fresh(p)
    BY <1>1 DEF Unminted
  <2>2. NoUser.secret # p
    BY NameTypes DEF NoUser
  <2>3. \A u \in DOMAIN users' : users'[u].secret # p
    BY <1>2, <2>1 DEF Fresh
  <2>4. \A q \in Request : req'[q].usr.secret # p
    BY <1>1, <2>1, <2>2 DEF Fresh
  <2>5. \A q \in Request :
          req'[q].accepted # NULL => req'[q].accepted.secret # p
    BY <1>1, <2>1 DEF Fresh
  <2> QED
    BY <2>3, <2>4, <2>5 DEF Fresh
<1>8. WatermarkCovers'
  <2> SUFFICES ASSUME NEW q \in Request, NEW u \in DOMAIN users,
                      req[q].accepted # NULL,
                      req[q].accepted.secret = users'[u].secret
               PROVE  req[q].accepted.step <= users'[u].last
    BY <1>1, <1>2 DEF WatermarkCovers
  <2>1. u # id
    BY <1>2, <1>3 DEF Fresh
  <2> QED
    BY <1>2, <2>1 DEF WatermarkCovers
<1> QED
  BY <1>4, <1>5, <1>6, <1>7, <1>8

\* The conditional UPDATE of verifyCode(): the request holds a copy of the
\* account's own secret, and the step it burns is above every accepted one.
LEMMA FactorBurn ==
  ASSUME TypeOK, FactorInv, NEW r \in Request, Burn(r)
  PROVE  FactorInv'
<1> USE DEF FactorInv
<1> DEFINE q == req[r]
           id == q.uid
           code == [user |-> q.uid, secret |-> q.usr.secret, step |-> q.step]
<1>0. q \in RequestState /\ q.pc = "burn" /\ q.usr.secret # NULL
  BY DEF Burn, At, TypeOK, RealSecrets
<1>1. CASE /\ Burnable(id, q.step)
           /\ users' = [users EXCEPT ![id].last = q.step]
           /\ req' = [req EXCEPT ![r].pc = AfterVerify(q.op),
                                 ![r].accepted = code]
  <2>1. /\ req'[r].accepted = code
        /\ req'[r].usr = q.usr
        /\ req'[r].pc = AfterVerify(q.op)
        /\ \A p \in Request \ {r} : req'[p] = req[p]
    BY <1>1, <1>0 DEF TypeOK, RequestState
  <2>2. req'[r].pc \notin {"idle", "storeSecret", "verify", "burn"}
    BY <2>1 DEF AfterVerify
  <2>3. /\ DOMAIN users' = DOMAIN users
        /\ id \in DOMAIN users
        /\ \A u \in DOMAIN users : users'[u].secret = users[u].secret
        /\ \A u \in DOMAIN users : u # id => users'[u] = users[u]
        /\ users'[id].last = q.step
        /\ users[id].last < q.step
    BY <1>1 DEF Burnable, TypeOK, UserRow
  <2>4. NoSharedSecret'
    BY <2>3 DEF NoSharedSecret
  <2>5. CopiesTheirOwn'
    BY <2>1, <2>2, <2>3 DEF CopiesTheirOwn, Verifying
  <2>6. RealSecrets'
    BY <2>1, <2>2, <1>0 DEF RealSecrets
  <2>7. Unminted'
    <3> SUFFICES ASSUME NEW p \in Request, req'[p].pc \in {"idle", "storeSecret"}
                 PROVE  Fresh(p)'
      BY DEF Unminted
    <3>1. Fresh(p)
      BY <2>1, <2>2 DEF Unminted
    <3> QED
      BY <3>1, <2>1, <2>3 DEF Fresh
  <2>8. WatermarkCovers'
    <3> SUFFICES ASSUME NEW p \in Request, NEW u \in DOMAIN users,
                        req'[p].accepted # NULL,
                        req'[p].accepted.secret = users[u].secret
                 PROVE  req'[p].accepted.step <= users'[u].last
      BY <2>3 DEF WatermarkCovers
    <3>1. CASE p = r
      <4>1. u = id
        BY <3>1, <2>1, <1>0 DEF CopiesTheirOwn, Verifying
      <4> QED
        BY <4>1, <3>1, <2>1, <2>3, <1>0 DEF RequestState
    <3>2. CASE p # r
      <4>1. req[p].accepted.step <= users[u].last
        BY <3>2, <2>1 DEF WatermarkCovers
      <4>2. req[p].accepted \in AcceptedCode
        BY <3>2, <2>1 DEF TypeOK, RequestState, OrNull
      <4>3. req[p].accepted.step \in Nat /\ users[u].last \in Nat /\ q.step \in Nat
        BY <4>2, <1>0 DEF AcceptedCode, TypeOK, UserRow, RequestState
      <4> QED
        BY <4>1, <4>3, <3>2, <2>1, <2>3
    <3> QED
      BY <3>1, <3>2
  <2> QED
    BY <2>4, <2>5, <2>6, <2>7, <2>8
<1>2. CASE Refuse(r) /\ UNCHANGED users
  <2>1. /\ req'[r].pc = "done"
        /\ req'[r].usr = NoUser
        /\ req'[r].accepted = req[r].accepted
        /\ \A p \in Request \ {r} : req'[p] = req[p]
    BY <1>2, RefuseType DEF TypeOK
  <2> QED
    BY <2>1, <1>2, FactorFrame
<1> QED
  BY <1>1, <1>2 DEF Burn
\* The starts of the second-factor handlers load the row of the account they
\* go on with, or answer at once.
LEMMA FactorStart ==
  ASSUME TypeOK, FactorInv, NEW r \in Request, At(r, "idle"), users' = users,
         \/ Refuse(r)
         \/ \E answer \in Answer : Respond(r, answer)
         \/ \E op \in Operation, pc \in Statement, u \in DOMAIN users :
              /\ req' = [req EXCEPT ![r] = Loaded(op, pc, u)]
              /\ pc \notin {"idle", "burn"}
  PROVE  FactorInv'
<1>1. CASE Refuse(r) \/ \E answer \in Answer : Respond(r, answer)
  <2>1. /\ req'[r].pc = "done"
        /\ req'[r].usr = NoUser
        /\ req'[r].accepted = req[r].accepted
        /\ \A p \in Request \ {r} : req'[p] = req[p]
    BY <1>1, RefuseType, RespondType DEF TypeOK
  <2> QED
    BY <2>1, FactorFrame
<1>2. CASE \E op \in Operation, pc \in Statement, u \in DOMAIN users :
              /\ req' = [req EXCEPT ![r] = Loaded(op, pc, u)]
              /\ pc \notin {"idle", "burn"}
  <2>1. PICK op \in Operation, pc \in Statement, u \in DOMAIN users :
              /\ req' = [req EXCEPT ![r] = Loaded(op, pc, u)]
              /\ pc \notin {"idle", "burn"}
    BY <1>2
  <2>2. /\ req'[r] = Loaded(op, pc, u)
        /\ \A p \in Request \ {r} : req'[p] = req[p]
    BY <2>1, StartsLoaded
  <2>3. /\ req'[r].pc = pc
        /\ req'[r].uid = u
        /\ req'[r].usr = users[u]
        /\ req'[r].accepted = NULL
    BY <2>2, LoadedType DEF TypeOK
  <2> QED
    BY <2>1, <2>2, <2>3, FactorFrame DEF At
<1> QED
  BY <1>1, <1>2

\* Every statement of TotpService keeps the invariant.
LEMMA FactorStep ==
  ASSUME TypeOK, FactorInv, NEW r \in Request, TotpStep(r)
  PROVE  FactorInv'
<1>0. /\ req \in [Request -> RequestState]
      /\ req[r] \in RequestState
  BY DEF TypeOK
<1>1. CASE SetupStart(r)
  <2>1. At(r, "idle") /\ users' = users
    BY <1>1 DEF SetupStart, Admit, tables
  <2>2. "storeSecret" \in Statement /\ {"setup", "rotate"} \subseteq Operation
    BY DEF Statement, Operation
  <2>3. \A op, u : u \in DOMAIN users =>
          [Plain("paired") EXCEPT !.shown = PendingSecret(op, u)] \in Answer
    BY NameTypes DEF PendingSecret, Plain, Answer, Kind, TypeOK, UserRow
  <2> QED
    BY <1>1, <2>1, <2>2, <2>3, FactorStart DEF SetupStart, MayPair
<1>2. CASE StoreSecret(r)
  BY <1>2, FactorStore
<1>3. CASE EnableStart(r)
  <2>1. At(r, "idle") /\ users' = users
    BY <1>3 DEF EnableStart, Admit, tables
  <2>2. "verify" \in Statement /\ "enable" \in Operation
    BY DEF Statement, Operation
  <2> QED
    BY <1>3, <2>1, <2>2, FactorStart DEF EnableStart, MayPair
<1>4. CASE RegenerateStart(r)
  <2>1. At(r, "idle") /\ users' = users
    BY <1>4 DEF RegenerateStart, Admit, tables
  <2>2. "verify" \in Statement /\ "regenerate" \in Operation
    BY DEF Statement, Operation
  <2> QED
    BY <1>4, <2>1, <2>2, FactorStart DEF RegenerateStart, Enrolled
<1>5. CASE DisableStart(r)
  <2>1. At(r, "idle") /\ users' = users
    BY <1>5 DEF DisableStart, Admit, tables
  <2>2. "verify" \in Statement /\ "disable" \in Operation
    BY DEF Statement, Operation
  <2> QED
    BY <1>5, <2>1, <2>2, FactorStart DEF DisableStart, MayDisable, Enrolled
<1>6. CASE VerifyAccepts(r)
  <2>1. PICK t \in Window :
          /\ req[r].usr.secret # NULL
          /\ req' = [req EXCEPT ![r].pc = "burn", ![r].step = t]
    BY <1>6 DEF VerifyAccepts, Acceptable
  <2>2. /\ req'[r].pc = "burn"
        /\ req'[r].usr = req[r].usr
        /\ req'[r].uid = req[r].uid
        /\ req'[r].accepted = req[r].accepted
        /\ \A p \in Request \ {r} : req'[p] = req[p]
    BY <2>1, <1>0 DEF RequestState
  <2> QED
    BY <1>6, <2>1, <2>2, FactorFrame DEF VerifyAccepts, At, tables
<1>7. CASE VerifyRejects(r)
  <2>1. /\ req'[r].pc = "done"
        /\ req'[r].usr = NoUser
        /\ req'[r].accepted = req[r].accepted
        /\ \A p \in Request \ {r} : req'[p] = req[p]
    BY <1>7, <1>0, RefuseType DEF VerifyRejects
  <2> QED
    BY <1>7, <2>1, FactorFrame DEF VerifyRejects, tables
<1>8. CASE Burn(r)
  BY <1>8, FactorBurn
<1>9. CASE SetEnabled(r)
  <2>1. /\ req'[r] = [req[r] EXCEPT !.pc = "dropCodes"]
        /\ \A p \in Request \ {r} : req'[p] = req[p]
    BY <1>9, <1>0, GotoType DEF SetEnabled, Statement
  <2>2. /\ req'[r].pc = "dropCodes"
        /\ req'[r].usr = req[r].usr
        /\ req'[r].accepted = req[r].accepted
    BY <2>1, <1>0 DEF RequestState
  <2> DEFINE row == [users[req[r].uid] EXCEPT !.enabled = TRUE]
  <2>3. req[r].uid \in DOMAIN users => /\ row.secret = users[req[r].uid].secret
                                       /\ row.last = users[req[r].uid].last
    BY DEF TypeOK, UserRow
  <2> QED
    BY <1>9, <2>1, <2>2, <2>3, FactorUpdate DEF SetEnabled
<1>10. CASE ClearTotp(r)
  <2>1. /\ req'[r] = [req[r] EXCEPT !.pc = "dropCodes"]
        /\ \A p \in Request \ {r} : req'[p] = req[p]
    BY <1>10, <1>0, GotoType DEF ClearTotp, Statement
  <2>2. /\ req'[r].pc = "dropCodes"
        /\ req'[r].usr = req[r].usr
        /\ req'[r].accepted = req[r].accepted
    BY <2>1, <1>0 DEF RequestState
  <2> DEFINE row == WithoutTotp(users[req[r].uid])
  <2>3. req[r].uid \in DOMAIN users => row.secret = NULL
    BY DEF TypeOK, UserRow, WithoutTotp
  <2> QED
    BY <1>10, <2>1, <2>2, <2>3, FactorUpdate DEF ClearTotp
<1>11. CASE DropCodes(r) \/ IssueCodes(r)
  <2>1. Plain("done") \in Answer /\ Plain("codes") \in Answer
        /\ Plain("failed") \in Answer /\ "issueCodes" \in Statement
    BY PlainType DEF Kind, Statement
  <2>2. CASE Goto(r, "issueCodes")
    <3>1. /\ req'[r] = [req[r] EXCEPT !.pc = "issueCodes"]
          /\ \A p \in Request \ {r} : req'[p] = req[p]
      BY <2>1, <2>2, <1>0, GotoType
    <3>2. /\ req'[r].pc = "issueCodes"
          /\ req'[r].usr = req[r].usr
          /\ req'[r].accepted = req[r].accepted
      BY <3>1, <1>0 DEF RequestState
    <3> QED
      BY <1>11, <3>1, <3>2, FactorFrame DEF DropCodes, IssueCodes
  <2>3. CASE \E answer \in Answer : Respond(r, answer)
    <3>1. /\ req'[r].pc = "done"
          /\ req'[r].usr = NoUser
          /\ req'[r].accepted = req[r].accepted
          /\ \A p \in Request \ {r} : req'[p] = req[p]
      BY <2>3, <1>0, RespondType
    <3> QED
      BY <1>11, <3>1, FactorFrame DEF DropCodes, IssueCodes
  <2> QED
    BY <1>11, <2>1, <2>2, <2>3 DEF DropCodes, IssueCodes
<1> QED
  BY <1>1, <1>2, <1>3, <1>4, <1>5, <1>6, <1>7, <1>8, <1>9, <1>10, <1>11
     DEF TotpStep

LEMMA FactorAbandon ==
  ASSUME TypeOK, FactorInv, NEW r \in Request, Abandon(r)
  PROVE  FactorInv'
<1>1. Plain("lost") \in Answer
  BY PlainType DEF Kind
<1>2. /\ req'[r].pc = "done"
      /\ req'[r].usr = NoUser
      /\ req'[r].accepted = req[r].accepted
      /\ \A p \in Request \ {r} : req'[p] = req[p]
  BY <1>1, RespondType DEF Abandon, TypeOK
<1> QED
  BY <1>2, FactorFrame DEF Abandon, tables

\* Nothing in the invariant depends on the clock.
LEMMA FactorStutter ==
  FactorInv /\ UNCHANGED <<users, req>> => FactorInv'
BY DEF FactorInv, NoSharedSecret, CopiesTheirOwn, RealSecrets, Unminted, Fresh,
       WatermarkCovers, Verifying

LEMMA FactorInvariance == TotpSpec => [](TypeOK /\ FactorInv)
<1>1. TypeOK /\ FactorInv /\ [TotpNext]_vars => FactorInv'
  <2> SUFFICES ASSUME TypeOK, FactorInv, [TotpNext]_vars PROVE FactorInv'
    OBVIOUS
  <2>1. CASE \E r \in Request : TotpStep(r) \/ Abandon(r)
    BY <2>1, FactorStep, FactorAbandon
  <2>2. CASE Tick \/ UNCHANGED vars
    BY <2>2, FactorStutter DEF Tick, vars
  <2> QED
    BY <2>1, <2>2 DEF TotpNext, Quiet
<1> QED
  BY <1>1, InitFactor, TotpTypeOK, PTL DEF TotpSpec

\* However many verifications, pairings and removals overlap, and wherever
\* workers die, the watermark is at or above every accepted code.
THEOREM TotpWatermark == TotpSpec => []WatermarkCovers
<1>1. FactorInv => WatermarkCovers
  BY DEF FactorInv
<1> QED
  BY <1>1, FactorInvariance, PTL

\* The only statement that records an accepted code is the conditional UPDATE.
LEMMA OnlyBurnAccepts ==
  ASSUME TypeOK, NEW r \in Request, TotpStep(r), ~Burn(r), NEW p \in Request
  PROVE  req'[p].accepted \in {req[p].accepted, NULL}
<1>0. req \in [Request -> RequestState]
  BY DEF TypeOK
<1>1. ASSUME NEW answer, Respond(r, answer)
      PROVE  req'[p].accepted = req[p].accepted
  BY <1>0, <1>1 DEF Respond, Closed, Blank
<1>2. ASSUME NEW pc, Goto(r, pc)
      PROVE  req'[p].accepted = req[p].accepted
  BY <1>0, <1>2 DEF Goto, RequestState
<1>3. ASSUME NEW op, NEW pc, NEW u, req' = [req EXCEPT ![r] = Loaded(op, pc, u)]
      PROVE  req'[p].accepted \in {req[p].accepted, NULL}
  BY <1>0, <1>3 DEF Loaded, Blank
<1>4. ASSUME NEW t, req' = [req EXCEPT ![r].pc = "burn", ![r].step = t]
      PROVE  req'[p].accepted = req[p].accepted
  BY <1>0, <1>4 DEF RequestState
<1>5. CASE SetupStart(r)
  BY <1>5, <1>1, <1>3 DEF SetupStart, Refuse
<1>6. CASE EnableStart(r) \/ RegenerateStart(r) \/ DisableStart(r)
  BY <1>6, <1>1, <1>3 DEF EnableStart, RegenerateStart, DisableStart, Refuse
<1>7. CASE VerifyAccepts(r) \/ VerifyRejects(r)
  BY <1>7, <1>1, <1>4 DEF VerifyAccepts, VerifyRejects, Refuse
<1>8. CASE StoreSecret(r) \/ SetEnabled(r) \/ ClearTotp(r)
  BY <1>8, <1>1, <1>2 DEF StoreSecret, SetEnabled, ClearTotp
<1>9. CASE DropCodes(r) \/ IssueCodes(r)
  BY <1>9, <1>1, <1>2 DEF DropCodes, IssueCodes
<1> QED
  BY <1>5, <1>6, <1>7, <1>8, <1>9 DEF TotpStep

\* It records a code only above the watermark, which covers the older ones.
LEMMA BurnsFreshCodes ==
  ASSUME TypeOK, FactorInv, NEW r \in Request, Burn(r)
  PROVE  AcceptsOnlyFreshCodes
<1> DEFINE q == req[r]
           code == [user |-> q.uid, secret |-> q.usr.secret, step |-> q.step]
<1>0. req \in [Request -> RequestState] /\ q \in RequestState
  BY DEF TypeOK
<1>1. CASE /\ Burnable(q.uid, q.step)
           /\ req' = [req EXCEPT ![r].pc = AfterVerify(q.op),
                                 ![r].accepted = code]
  <2> SUFFICES ASSUME NEW p \in Request, NEW o \in Request,
                      req[p].accepted = NULL,
                      req'[p].accepted # NULL,
                      req'[p].accepted.user \in DOMAIN users,
                      req'[p].accepted.secret
                        = users[req'[p].accepted.user].secret,
                      req[o].accepted = req'[p].accepted
               PROVE  FALSE
    BY DEF AcceptsOnlyFreshCodes
  <2>1. req'[r].accepted = code /\ \A x \in Request \ {r} : req'[x] = req[x]
    BY <1>0, <1>1 DEF RequestState
  <2>2. req[o].accepted = code
    BY <2>1
  <2>3. /\ q.uid \in DOMAIN users
        /\ q.usr.secret = users[q.uid].secret
    BY <2>2
  <2>4. q.step <= users[q.uid].last
    BY <2>1, <2>2, <2>3 DEF FactorInv, WatermarkCovers
  <2>5. users[q.uid].last < q.step
    BY <1>1 DEF Burnable
  <2>6. q.step \in Nat /\ users[q.uid].last \in Nat
    BY <2>3, <1>0 DEF RequestState, UserRow, TypeOK
  <2> QED
    BY <2>4, <2>5, <2>6
<1>2. CASE Refuse(r)
  <2>1. \A p \in Request : req'[p].accepted = req[p].accepted
    BY <1>0, <1>2, RefuseType
  <2> QED
    BY <2>1 DEF AcceptsOnlyFreshCodes
<1> QED
  BY <1>1, <1>2 DEF Burn

\* verifyCode() never accepts a code twice while its secret stands.
THEOREM TotpCodeOnce == TotpSpec => CodeAcceptedOnce
<1>1. TypeOK /\ FactorInv /\ [TotpNext]_vars => [AcceptsOnlyFreshCodes]_vars
  <2> SUFFICES ASSUME TypeOK, FactorInv, TotpNext PROVE AcceptsOnlyFreshCodes
    OBVIOUS
  <2>1. ASSUME NEW r \in Request, TotpStep(r) PROVE AcceptsOnlyFreshCodes
    BY <2>1, OnlyBurnAccepts, BurnsFreshCodes DEF AcceptsOnlyFreshCodes
  <2>2. ASSUME NEW r \in Request, Abandon(r) PROVE AcceptsOnlyFreshCodes
    <3>1. Plain("lost") \in Answer
      BY PlainType DEF Kind
    <3>2. \A p \in Request : req'[p].accepted = req[p].accepted
      BY <2>2, <3>1, RespondType DEF Abandon, TypeOK
    <3> QED
      BY <3>2 DEF AcceptsOnlyFreshCodes
  <2>3. CASE Tick \/ Quiet
    BY <2>3 DEF Tick, Quiet, vars, AcceptsOnlyFreshCodes
  <2> QED
    BY <2>1, <2>2, <2>3 DEF TotpNext
<1> QED
  BY <1>1, FactorInvariance, PTL DEF TotpSpec, CodeAcceptedOnce
-----------------------------------------------------------------------------
(***************************************************************************)
(* The refinement: seen through LiveSecrets and AcceptedCodes, every step  *)
(* is one of OneTimeCodes or changes nothing there.                        *)
(***************************************************************************)
\* A request that is still to burn a code has had none accepted, so that
\* AcceptedCodes only ever grows.
Unclaimed ==
  \A r \in Request :
    req[r].pc \in {"idle", "verify", "burn"} => req[r].accepted = NULL

\* What a statement other than the UPDATE of verifyCode() does to the trace of
\* accepted codes: nothing.
Keeps(r) ==
  /\ \A p \in Request \ {r} : req'[p] = req[p]
  /\ req'[r].accepted = req[r].accepted
  /\ req'[r].pc \in {"idle", "verify", "burn"} => req[r].accepted = NULL

LEMMA KeepsUnclaimed ==
  ASSUME Unclaimed, NEW r \in Request, Keeps(r)
  PROVE  Unclaimed'
BY DEF Unclaimed, Keeps

LEMMA TotpKeeps ==
  ASSUME TypeOK, Unclaimed, NEW r \in Request, TotpStep(r), ~Burn(r)
  PROVE  Keeps(r)
<1>0. req \in [Request -> RequestState]
  BY DEF TypeOK
<1>1. ASSUME NEW answer, Respond(r, answer)
      PROVE  Keeps(r)
  BY <1>0, <1>1 DEF Respond, Closed, Blank, Keeps
<1>2. ASSUME NEW pc \in {"dropCodes", "issueCodes"}, Goto(r, pc)
      PROVE  Keeps(r)
  BY <1>0, <1>2 DEF Goto, RequestState, Keeps
<1>3. ASSUME NEW op, NEW pc, NEW u, At(r, "idle"),
             req' = [req EXCEPT ![r] = Loaded(op, pc, u)]
      PROVE  Keeps(r)
  BY <1>0, <1>3 DEF Loaded, Blank, Keeps, Unclaimed, At
<1>4. ASSUME NEW t, At(r, "verify"),
             req' = [req EXCEPT ![r].pc = "burn", ![r].step = t]
      PROVE  Keeps(r)
  BY <1>0, <1>4 DEF RequestState, Keeps, Unclaimed, At
<1>5. CASE SetupStart(r)
  BY <1>5, <1>1, <1>3 DEF SetupStart, Refuse, Admit
<1>6. CASE EnableStart(r) \/ RegenerateStart(r) \/ DisableStart(r)
  BY <1>6, <1>1, <1>3
  DEF EnableStart, RegenerateStart, DisableStart, Refuse, Admit
<1>7. CASE VerifyAccepts(r) \/ VerifyRejects(r)
  BY <1>7, <1>1, <1>4 DEF VerifyAccepts, VerifyRejects, Refuse
<1>8. CASE StoreSecret(r) \/ SetEnabled(r) \/ ClearTotp(r)
  BY <1>8, <1>1, <1>2 DEF StoreSecret, SetEnabled, ClearTotp
<1>9. CASE DropCodes(r) \/ IssueCodes(r)
  BY <1>9, <1>1, <1>2 DEF DropCodes, IssueCodes
<1> QED
  BY <1>5, <1>6, <1>7, <1>8, <1>9 DEF TotpStep

LEMMA AbandonKeeps ==
  ASSUME TypeOK, NEW r \in Request, Abandon(r)
  PROVE  Keeps(r)
BY DEF TypeOK, Abandon, Respond, Closed, Blank, Keeps

\* A step that accepts no code is a Change of the live secrets, provided it
\* brings no secret of an accepted code back.
LEMMA KeepsCodes ==
  ASSUME TypeOK', NEW r \in Request, Keeps(r),
         \A p \in Request, u \in DOMAIN users' :
           /\ req[p].accepted # NULL
           /\ users'[u].secret = req[p].accepted.secret
           => \E v \in DOMAIN users : users[v].secret = users'[u].secret
  PROVE  Codes!Next
<1>1. \A p \in Request : req'[p].accepted = req[p].accepted
  BY DEF Keeps
<1>2. AcceptedCodes' = AcceptedCodes
  BY <1>1 DEF AcceptedCodes
<1>3. LiveSecrets' \subseteq Name
  BY DEF LiveSecrets, TypeOK, UserRow, OrNull
<1>4. ASSUME NEW code \in AcceptedCodes, code.secret \in LiveSecrets'
      PROVE  code.secret \in LiveSecrets
  <2>1. PICK p \in Request : /\ req[p].accepted # NULL
                             /\ code.secret = req[p].accepted.secret
    BY <1>4 DEF AcceptedCodes
  <2>2. PICK u \in DOMAIN users' : users'[u].secret = code.secret
    BY <1>4 DEF LiveSecrets
  <2>3. PICK v \in DOMAIN users : users[v].secret = code.secret
    BY <2>1, <2>2
  <2>4. code.secret # NULL
    BY <1>4 DEF LiveSecrets
  <2> QED
    BY <2>3, <2>4 DEF LiveSecrets
<1>5. Codes!Change(LiveSecrets')
  BY <1>2, <1>3, <1>4 DEF Codes!Change
<1> QED
  BY <1>5 DEF Codes!Next

\* If the secret of a request's copy is still live it is the account's own, and
\* the account's watermark covers the older codes of it.
LEMMA BurnsNewest ==
  ASSUME TypeOK, FactorInv, NEW r \in Request, Burn(r),
         users[req[r].uid].last < req[r].step,
         users[req[r].uid].last \in Nat,
         req[r].usr.secret \in LiveSecrets
  PROVE  Codes!Newest([secret |-> req[r].usr.secret, step |-> req[r].step])
<1> DEFINE id == req[r].uid
           taken == [secret |-> req[r].usr.secret, step |-> req[r].step]
<1>0. req[r] \in RequestState /\ req[r].pc = "burn" /\ req[r].usr.secret # NULL
  BY DEF TypeOK, FactorInv, RealSecrets, Burn, At
<1>1. PICK u \in DOMAIN users : users[u].secret = req[r].usr.secret
  BY DEF LiveSecrets
<1>2. u = id
  BY <1>0, <1>1 DEF FactorInv, CopiesTheirOwn, Verifying
<1>3. ASSUME NEW old \in AcceptedCodes, old.secret = taken.secret
      PROVE  old.step < taken.step
  <2>1. PICK p \in Request : /\ req[p].accepted # NULL
                             /\ old.secret = req[p].accepted.secret
                             /\ old.step = req[p].accepted.step
    BY <1>3 DEF AcceptedCodes
  <2>2. old.step <= users[id].last
    BY <2>1, <1>1, <1>2, <1>3 DEF FactorInv, WatermarkCovers
  <2>3. old.step \in Nat /\ req[r].step \in Nat
    <3>1. req[p].accepted \in AcceptedCode
      BY <2>1 DEF TypeOK, RequestState, OrNull
    <3> QED
      BY <3>1, <2>1, <1>0 DEF RequestState, AcceptedCode
  <2> QED
    BY <2>2, <2>3
<1> QED
  BY <1>3 DEF Codes!Newest

\* The UPDATE of verifyCode() is an Accept, whose code becomes the only new one.
LEMMA BurnCodes ==
  ASSUME TypeOK, FactorInv, Unclaimed, NEW r \in Request, Burn(r)
  PROVE  /\ [Codes!Next]_<<LiveSecrets, AcceptedCodes>>
         /\ Unclaimed'
<1> DEFINE q == req[r]
           id == q.uid
           code == [user |-> q.uid, secret |-> q.usr.secret, step |-> q.step]
           taken == [secret |-> q.usr.secret, step |-> q.step]
<1>0. /\ req \in [Request -> RequestState] /\ q \in RequestState
      /\ q.pc = "burn" /\ q.usr.secret # NULL /\ q.accepted = NULL
  BY DEF TypeOK, FactorInv, RealSecrets, Unclaimed, Burn, At
<1>1. CASE /\ Burnable(id, q.step)
           /\ users' = [users EXCEPT ![id].last = q.step]
           /\ req' = [req EXCEPT ![r].pc = AfterVerify(q.op),
                                 ![r].accepted = code]
  <2>1. /\ req'[r].accepted = code
        /\ req'[r].pc \notin {"idle", "verify", "burn"}
        /\ \A p \in Request \ {r} : req'[p] = req[p]
    BY <1>0, <1>1 DEF RequestState, AfterVerify
  <2>2. /\ DOMAIN users' = DOMAIN users
        /\ \A u \in DOMAIN users : users'[u].secret = users[u].secret
        /\ id \in DOMAIN users
        /\ users[id].last < q.step
        /\ users[id].last \in Nat /\ q.step \in Nat
    BY <1>0, <1>1 DEF Burnable, TypeOK, UserRow, RequestState
  <2>3. LiveSecrets' = LiveSecrets
    BY <2>2 DEF LiveSecrets
  <2>4. CASE code = NULL
    <3>1. \A p \in Request : req'[p].accepted = req[p].accepted
      BY <2>1, <2>4, <1>0
    <3> QED
      BY <2>1, <2>3, <2>4, <3>1 DEF AcceptedCodes, Unclaimed
  <2>5. CASE code # NULL
    <3>1. AcceptedCodes' = AcceptedCodes \cup {taken}
      <4>1. taken \in AcceptedCodes'
        BY <2>1, <2>5 DEF AcceptedCodes
      <4>2. AcceptedCodes \subseteq AcceptedCodes'
        BY <1>0, <2>1 DEF AcceptedCodes
      <4>3. ASSUME NEW c \in AcceptedCodes' PROVE c \in AcceptedCodes \cup {taken}
        <5>1. PICK p \in Request :
                /\ req'[p].accepted # NULL
                /\ c = [secret |-> req'[p].accepted.secret,
                        step |-> req'[p].accepted.step]
          BY <4>3 DEF AcceptedCodes
        <5> QED
          BY <5>1, <2>1 DEF AcceptedCodes
      <4> QED
        BY <4>1, <4>2, <4>3
    <3>2. taken.secret \in LiveSecrets => Codes!Newest(taken)
      BY <2>2, BurnsNewest
    <3>3. Codes!Accept(taken)
      BY <2>3, <3>1, <3>2 DEF Codes!Accept
    <3>4. Codes!Next
      BY <3>1, <3>3 DEF Codes!Next
    <3> QED
      BY <2>1, <3>4 DEF Unclaimed
  <2> QED
    BY <2>4, <2>5
<1>2. CASE Refuse(r) /\ UNCHANGED users
  <2>1. Keeps(r)
    BY <1>0, <1>2 DEF Refuse, Respond, Closed, Blank, Keeps
  <2>2. \A p \in Request : req'[p].accepted = req[p].accepted
    BY <2>1 DEF Keeps
  <2>3. UNCHANGED <<LiveSecrets, AcceptedCodes>>
    BY <1>2, <2>2 DEF LiveSecrets, AcceptedCodes
  <2> QED
    BY <2>1, <2>3, KeepsUnclaimed
<1> QED
  BY <1>1, <1>2 DEF Burn

\* Every statement of TotpService is a step of OneTimeCodes or none at all.
LEMMA TotpCodes ==
  ASSUME TypeOK, TypeOK', FactorInv, Unclaimed, NEW r \in Request, TotpStep(r)
  PROVE  /\ [Codes!Next]_<<LiveSecrets, AcceptedCodes>>
         /\ Unclaimed'
<1>1. CASE Burn(r)
  BY <1>1, BurnCodes
<1>2. CASE ~Burn(r)
  <2>1. Keeps(r)
    BY <1>2, TotpKeeps
  <2>2. CASE StoreSecret(r)
    <3>1. \A p \in Request :
            req[p].accepted # NULL => req[p].accepted.secret # r
      BY <2>2 DEF StoreSecret, At, FactorInv, Unminted, Fresh
    <3>2. \A u \in DOMAIN users' :
            u \in DOMAIN users /\ users'[u].secret \in {users[u].secret, r}
      BY <2>2 DEF StoreSecret, Updated, WithSecret, TypeOK, UserRow
    <3> QED
      BY <2>1, <3>1, <3>2, KeepsCodes, KeepsUnclaimed
  <2>3. CASE ~StoreSecret(r)
    <3>1. \A u \in DOMAIN users' :
            u \in DOMAIN users /\ users'[u].secret \in {users[u].secret, NULL}
      <4>1. CASE SetEnabled(r) \/ ClearTotp(r)
        <5>1. PICK row : /\ users' = Updated(users, req[r].uid, row)
                         /\ req[r].uid \in DOMAIN users =>
                              row.secret \in {users[req[r].uid].secret, NULL}
          <6>1. \A row \in UserRow :
                  /\ [row EXCEPT !.enabled = TRUE].secret = row.secret
                  /\ WithoutTotp(row).secret = NULL
            BY DEF UserRow, WithoutTotp
          <6> QED
            BY <4>1, <6>1 DEF SetEnabled, ClearTotp, TypeOK
        <5> QED
          BY <5>1 DEF Updated
      <4>2. CASE users' = users
        BY <4>2
      <4>3. SetEnabled(r) \/ ClearTotp(r) \/ users' = users
        BY <1>2, <2>3
        DEF TotpStep, tables, SetupStart, EnableStart, RegenerateStart,
            DisableStart, VerifyAccepts, VerifyRejects, DropCodes, IssueCodes
      <4> QED
        BY <4>1, <4>2, <4>3
    <3> QED
      BY <2>1, <3>1, KeepsCodes, KeepsUnclaimed DEF FactorInv, RealSecrets
  <2> QED
    BY <2>2, <2>3
<1> QED
  BY <1>1, <1>2

LEMMA AbandonCodes ==
  ASSUME TypeOK, TypeOK', Unclaimed, NEW r \in Request, Abandon(r)
  PROVE  /\ [Codes!Next]_<<LiveSecrets, AcceptedCodes>>
         /\ Unclaimed'
<1>1. Keeps(r) /\ users' = users
  BY AbandonKeeps DEF Abandon, tables
<1> QED
  BY <1>1, KeepsCodes, KeepsUnclaimed

LEMMA StutterCodes ==
  ASSUME UNCHANGED <<users, req>>, Unclaimed
  PROVE  /\ [Codes!Next]_<<LiveSecrets, AcceptedCodes>>
         /\ Unclaimed'
BY DEF LiveSecrets, AcceptedCodes, Unclaimed

LEMMA InitCodes == Init => Codes!Init /\ Unclaimed
<1> SUFFICES ASSUME Init PROVE Codes!Init /\ Unclaimed
  OBVIOUS
<1>1. TypeOK /\ \A r \in Request : req[r].accepted = NULL
  BY InitType DEF Init, Blank
<1> QED
  BY <1>1
  DEF Codes!Init, Unclaimed, LiveSecrets, AcceptedCodes, TypeOK, UserRow, OrNull

\* The second factor implements OneTimeCodes.
THEOREM TotpCodesOnce == TotpSpec => CodesOnce
<1>1. TypeOK /\ TypeOK' /\ FactorInv /\ Unclaimed /\ [TotpNext]_vars
        => [Codes!Next]_<<LiveSecrets, AcceptedCodes>> /\ Unclaimed'
  <2> SUFFICES ASSUME TypeOK, TypeOK', FactorInv, Unclaimed, [TotpNext]_vars
               PROVE  /\ [Codes!Next]_<<LiveSecrets, AcceptedCodes>>
                      /\ Unclaimed'
    OBVIOUS
  <2>1. CASE \E r \in Request : TotpStep(r) \/ Abandon(r)
    BY <2>1, TotpCodes, AbandonCodes
  <2>2. CASE Tick \/ UNCHANGED vars
    BY <2>2, StutterCodes DEF Tick, vars
  <2> QED
    BY <2>1, <2>2 DEF TotpNext, Quiet
<1> QED
  BY <1>1, InitCodes, FactorInvariance, PTL DEF TotpSpec, CodesOnce, Codes!Spec
=============================================================================
