------------------------------ MODULE HubTables ------------------------------
(***************************************************************************)
(* The state every handler of the hub shares: the three tables in          *)
(* Postgres, the access tokens that have been signed, the clock, and the   *)
(* requests that the workers of the PM2 cluster are serving.               *)
(*                                                                         *)
(* A handler runs one statement at a time against the database and no      *)
(* handler opens a transaction, so one action is one statement and         *)
(* whatever the handler read earlier it keeps as a copy in its request     *)
(* record.  Any number of requests, in any workers, interleave between     *)
(* statements.                                                             *)
(*                                                                         *)
(* Every request mints at most one of each kind of fresh value (a row id,  *)
(* a session handle, a TOTP secret, a password, a set of recovery codes),  *)
(* so a fresh value is named after the request that minted it.             *)
(***************************************************************************)
EXTENDS Naturals, FiniteSets, Functions, HubGuards

CONSTANTS
  Seed,            \* names that occur in the initial rows
  Request,         \* the requests the clients may send
  NULL,            \* SQL NULL, and "nothing here yet"
  DefaultPassword, \* HUB_DEFAULT_PASSWORD
  Population,      \* the possible initial contents of the tables
  Traffic,         \* the operations the clients call
  Emails,          \* the addresses administrators type
  Overlap,         \* FALSE: a request starts only when no other is running
  Crashes,         \* TRUE: a worker may die in the middle of a request
  CodeCount,       \* RECOVERY_CODE_COUNT
  Grace,           \* ROTATION_GRACE_MS, in ticks of the clock
  RefreshLife,     \* JWT_REFRESH_EXPIRES_IN, in ticks of the clock
  MaxClock         \* bound: the last tick of the clock

VARIABLES
  users,     \* hub_user, by id
  sessions,  \* hub_refresh_token, by id
  codes,     \* hub_user_recovery_code, by <<issuing request, index>>
  tokens,    \* the access tokens signed so far
  clock,     \* in TOTP periods of 30 s
  req,       \* the requests in the workers
  revoked    \* history: sessions deleted while no request held a copy

tables == <<users, sessions, codes, tokens, clock, revoked>>
vars == <<users, sessions, codes, tokens, clock, req, revoked>>
-----------------------------------------------------------------------------
(***************************************************************************)
(* Rows and records.                                                       *)
(***************************************************************************)
Name == Seed \cup Request

OrNull(S) == S \cup {NULL}

\* A null watermark is 0: the steps of real codes are positive.
UserRow ==
  [email : OrNull(Name), pw : OrNull(Name), level : HubAccessLevel,
   active : BOOLEAN, first : BOOLEAN, required : BOOLEAN,
   secret : OrNull(Name), enabled : BOOLEAN, last : Nat]

\* `under' is history: the password the session was minted under.
SessionRow ==
  [user : OrNull(Name), token : OrNull(Name), prev : OrNull(Name),
   prevExp : Nat, expires : Nat, under : OrNull(Name)]

CodeId == Name \X (1..CodeCount)
CodeRow == [user : OrNull(Name), used : BOOLEAN]

AccessToken == [sub : OrNull(Name), access : HubAccessLevel, scope : Scope]

\* A TOTP code that verifyCode accepted: for which account, of which secret.
AcceptedCode == [user : OrNull(Name), secret : OrNull(Name), step : Nat]

\* The handlers a client may call.
Operation ==
  {"setup", "rotate", "enable", "regenerate", "disable", "login", "recovery",
   "refresh", "logout", "logoutAll", "changeForced", "changeOwn", "invite",
   "updateProfile", "setAccessLevel", "toggleStatus", "resetPassword",
   "resetTotp", "setTotpRequired", "remove"}

\* Where a request stands: the statement it is about to run.
Statement ==
  {"idle", "storeSecret", "verify", "burn", "setEnabled", "clearTotp",
   "dropCodes", "issueCodes", "findCode", "spendCode", "settle", "purge",
   "createSession", "findCurrent", "findPrevious", "judge", "dropRow",
   "saveSelect", "saveUpdate", "saveInsert", "setPassword", "revoke",
   "insertUser", "countAdmins", "checkEmail", "selectUser", "updateUser",
   "reinsertUser", "clearFactor", "clearCodes", "storeRequired",
   "revokeUser", "deleteUser", "done"}

\* The columns save() compares, of a session or of an account.
Column ==
  {"token", "prev", "prevExp", "expires", "email", "pw", "level", "active",
   "first", "required", "secret", "enabled", "last"}

Kind ==
  {"none", "refused", "challenge", "stub", "session", "paired", "codes",
   "done", "failed", "lost"}

\* What the client is told: `shown' is a session handle or a TOTP secret,
\* `given' the handle a refresh was asked to trade in.
Answer ==
  [kind : Kind, shown : OrNull(Name), sid : OrNull(Name),
   given : OrNull(Name)]

RequestState ==
  [op : OrNull(Operation), pc : Statement,
   uid : OrNull(Name), usr : UserRow,      \* the account, the loaded entity
   sid : OrNull(Name), ses : SessionRow,   \* the session, the loaded entity
   cols : SUBSET Column,                   \* the columns a save() will write
   pw : OrNull(Name), handle : OrNull(Name), now : Nat, step : Nat,
   code : OrNull(CodeId), accepted : OrNull(AcceptedCode), out : Answer]

NoUser ==
  [email |-> NULL, pw |-> NULL, level |-> "VIEW", active |-> FALSE,
   first |-> FALSE, required |-> FALSE, secret |-> NULL, enabled |-> FALSE,
   last |-> 0]

NoSession ==
  [user |-> NULL, token |-> NULL, prev |-> NULL, prevExp |-> 0,
   expires |-> 0, under |-> NULL]

Plain(kind) == [kind |-> kind, shown |-> NULL, sid |-> NULL, given |-> NULL]

Blank ==
  [op |-> NULL, pc |-> "idle", uid |-> NULL, usr |-> NoUser, sid |-> NULL,
   ses |-> NoSession, cols |-> {}, pw |-> NULL, handle |-> NULL, now |-> 0,
   step |-> 0, code |-> NULL, accepted |-> NULL, out |-> Plain("none")]
-----------------------------------------------------------------------------
(***************************************************************************)
(* Statements.                                                             *)
(***************************************************************************)
Insert(table, ids, row) ==
  [i \in DOMAIN table \cup ids |-> IF i \in ids THEN row ELSE table[i]]

\* UPDATE ... WHERE id: no row matches when the id is gone, and no error.
Updated(table, id, row) ==
  IF id \in DOMAIN table THEN [table EXCEPT ![id] = row] ELSE table

Delete(table, ids) == Restrict(table, DOMAIN table \ ids)

\* The sessions that were never rotated only (see SessionsMatchPassword).
UnrotatedSessionsOf(u) ==
  {s \in DOMAIN sessions : sessions[s].user = u /\ sessions[s].prev = NULL}

SessionsOf(u) == {s \in DOMAIN sessions : sessions[s].user = u}

CodesOf(u) == {c \in DOMAIN codes : codes[c].user = u}

\* Codes looked up without usedAt IS NULL (see RecoveryCodeSpentOnce).
CodesUsedOrNot(u) == CodesOf(u)

UnusedCodesOf(u) == {c \in CodesOf(u) : ~codes[c].used}

\* A request that has loaded session s and may still save() its copy.
Held(s) == \E q \in Request : req[q].sid = s

\* A deletion that skips the rows in their grace window (see
\* RevokedStaysRevoked).
EndUnrotatedSessions(ids) ==
  /\ sessions' = Delete(sessions, {s \in ids : sessions[s].prev = NULL})
  /\ revoked' = revoked \cup {s \in ids : ~Held(s)}

\* DELETE FROM hub_refresh_token, by someone who means to end the sessions.
EndSessions(ids) ==
  /\ sessions' = Delete(sessions, ids)
  /\ revoked' = revoked \cup {s \in ids : ~Held(s)}
-----------------------------------------------------------------------------
(***************************************************************************)
(* Requests.                                                               *)
(***************************************************************************)
InFlight == {q \in Request : req[q].pc \notin {"idle", "done"}}

At(r, pc) == req[r].pc = pc

Admit(r, op) ==
  /\ At(r, "idle")
  /\ op \in Traffic
  /\ Overlap \/ InFlight = {}

\* The access tokens the guards let through to a handler.
Bearers(handler, minAccess) ==
  {t \in tokens : JwtAuthGuard(t, handler) /\ HubAccessGuard(t, minAccess)}

\* The accounts a request may name; NULL stands for any that does not exist.
Targets == DOMAIN users \cup {NULL}

\* The request as it starts, and as it starts with the account row loaded.
Opened(op, pc, u) == [Blank EXCEPT !.op = op, !.pc = pc, !.uid = u]

Loaded(op, pc, u) ==
  [Blank EXCEPT !.op = op, !.pc = pc, !.uid = u, !.usr = users[u]]

\* What is left of a request once it is answered: the trace the properties
\* read, none of the handler's locals.
Closed(q, answer) ==
  [Blank EXCEPT !.pc = "done", !.code = q.code, !.accepted = q.accepted,
                !.out = answer]

Goto(r, pc) == req' = [req EXCEPT ![r].pc = pc]

Respond(r, answer) == req' = [req EXCEPT ![r] = Closed(@, answer)]

Refuse(r) == Respond(r, Plain("refused"))

\* PM2 restarts a worker, or its connection drops, between two statements:
\* what was written stays written, the client gets no answer.
Abandon(r) ==
  /\ Crashes
  /\ r \in InFlight
  /\ Respond(r, Plain("lost"))
  /\ UNCHANGED tables

Tick ==
  /\ clock < MaxClock
  /\ clock' = clock + 1
  /\ UNCHANGED <<users, sessions, codes, tokens, req, revoked>>

\* The workers are idle and the bounded clock has run out.
Quiet ==
  /\ InFlight = {}
  /\ clock = MaxClock
  /\ UNCHANGED vars
-----------------------------------------------------------------------------
(***************************************************************************)
(* Initial states.                                                         *)
(***************************************************************************)
\* Two steps back, so that the first window of codes has positive steps.
StartClock == 2

\* Everyone starts out signed in, with a token of the level of the row.
InitialTokens(us) ==
  {[sub |-> u, access |-> us[u].level, scope |-> "full"] : u \in DOMAIN us}

Init ==
  /\ \E p \in Population :
       /\ users = p.users
       /\ sessions = p.sessions
       /\ codes = p.codes
       /\ tokens = InitialTokens(p.users)
  /\ clock = StartClock
  /\ req = [r \in Request |-> Blank]
  /\ revoked = {}

ASSUME NamesAssumption ==
  /\ Seed \cap Request = {}
  /\ NULL \notin Name
  /\ DefaultPassword \in Seed
  /\ Emails \subseteq Name
  /\ Traffic \subseteq Operation

\* NULL is no record, no tuple and no operation.
ASSUME NullAssumption == NULL \notin CodeId \cup AcceptedCode \cup Operation

ASSUME BoundsAssumption ==
  /\ CodeCount \in Nat \ {0}
  /\ Grace \in Nat
  /\ RefreshLife \in Nat
  /\ MaxClock \in Nat
  /\ Overlap \in BOOLEAN
  /\ Crashes \in BOOLEAN

\* Rows a deployed hub can hold: foreign keys resolve, the values are older
\* than every request, no two accounts share a secret and no two sessions a
\* handle (UQ_hub_refresh_token_token), and an enrolled account has a secret.
WellFormed(p) ==
  /\ DOMAIN p.users \subseteq Seed
  /\ p.users \in [DOMAIN p.users -> UserRow]
  /\ DOMAIN p.sessions \subseteq Seed
  /\ p.sessions \in [DOMAIN p.sessions -> SessionRow]
  /\ DOMAIN p.codes \subseteq Seed \X (1..CodeCount)
  /\ p.codes \in [DOMAIN p.codes -> CodeRow]
  /\ \A s \in DOMAIN p.sessions : p.sessions[s].user \in DOMAIN p.users
  /\ \A c \in DOMAIN p.codes : p.codes[c].user \in DOMAIN p.users
  /\ \A s \in DOMAIN p.sessions : p.sessions[s].token \in Seed
  /\ \A s, t \in DOMAIN p.sessions :
       p.sessions[s].token = p.sessions[t].token => s = t
  /\ \A u \in DOMAIN p.users :
       /\ p.users[u].secret \in OrNull(Seed)
       /\ p.users[u].enabled => p.users[u].secret # NULL
  /\ \A u, v \in DOMAIN p.users :
       p.users[u].secret = p.users[v].secret /\ p.users[u].secret # NULL
         => u = v

ASSUME PopulationAssumption == \A p \in Population : WellFormed(p)
-----------------------------------------------------------------------------
\* The tables hold rows of their schema and the requests records of theirs.
TypeOK ==
  /\ DOMAIN users \subseteq Name
  /\ users \in [DOMAIN users -> UserRow]
  /\ DOMAIN sessions \subseteq Name
  /\ sessions \in [DOMAIN sessions -> SessionRow]
  /\ DOMAIN codes \subseteq CodeId
  /\ codes \in [DOMAIN codes -> CodeRow]
  /\ tokens \subseteq AccessToken
  /\ clock \in Nat
  /\ req \in [Request -> RequestState]
  /\ revoked \subseteq Name
=============================================================================
