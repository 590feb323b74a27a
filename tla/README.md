# The hub backend in TLA+

`sms-hub-backend` is the service behind an administration console: a NestJS
application that signs administrators in, keeps their sessions and second
factor, and lets them manage each other's accounts. It runs as several Node.js
workers (PM2 cluster mode, `ecosystem.config.js`: `instances: 'max'`) over one
Postgres database. No handler opens a transaction of its own and no worker
shares memory with another, so everything that can go wrong between two requests
goes wrong in three tables:

| table | entity | rows |
|---|---|---|
| `hub_user` | `hub-users/entities/hub-user.entity.ts` | one account: password hash, access level, status, forced change, second factor with its replay watermark |
| `hub_refresh_token` | `auth/entities/hub-refresh-token.entity.ts` | one session: the current handle, the previous one and until when it is still taken, expiry |
| `hub_user_recovery_code` | `hub-users/entities/hub-user-recovery-code.entity.ts` | one recovery code: account, hash, when it was used |

The modules model what the handlers do to these tables statement by statement,
under requests that overlap and workers that die. A second group models how the
hub is operated: the workflow that deploys it, its migrations, the boot of its
workers and their seeding of the first administrator, and the calls it relays to
the AI service. TLC checks all of it on small instances and TLAPS proves all of it
but liveness for every instance.

## 1. Inventory

### Components

| component (under `src/src/`) | state it owns | operations | status |
|---|---|---|---|
| Second factor, `modules/auth/totp.service.ts` | secret, enrolment stamp and watermark of an account; its recovery codes | `setup`, `enable`, `regenerateRecoveryCodes`, `disable`, `verifyCode`, `consumeRecoveryCode` | modelled: `TotpService` |
| Sign-in and sessions, `modules/auth/auth.service.ts` | session rows; signs access tokens | `login`, `loginWithRecoveryCode`, `refreshSession`, `logout`, `logoutAll`, `changePassword`, `changePasswordWithCurrent` | modelled: `AuthService` |
| Account administration, `modules/hub-users/hub-users.service.ts` | account rows | `invite`, `updateProfile`, `setAccessLevel`, `toggleStatus`, `resetPassword`, `resetTotp`, `setTotpRequired`, `remove` | modelled: `HubUsersService` |
| Token guards, `modules/auth/jwt-auth.guard.ts`, `hub-access.guard.ts` | none; they read the claims of a token | `JwtAuthGuard`, `HubAccessGuard` | modelled: `HubGuards` |
| Entities, TypeORM, the worker | rows, requests in flight | the SQL statements; `save()` | modelled: `HubTables` |
| Controllers of the above | none | routing: which guard, which caller | partly: the start actions carry the guard and the caller; `me`, `sessions`, `status` and list only read and are left out |
| Capabilities, `modules/auth/hub-capabilities.ts` | none | a table of levels per feature, published to the console | modelled: `AiAdmin` |
| AI administration proxy, `modules/ai-admin` | none; calls in flight | guard, forward, answer | modelled: `AiAdmin`, composed in `Platform` |
| Migrations, `database/migrations` | the schema; the migrations table | seven `up()`, seven `down()`, the runner | modelled: `Migrations` |
| Bootstrap and deployment, `main.ts`, `ecosystem.config.js`, `.github/workflows/deploy-ec2.yml` (beside `src/src/`) | `dist/`, the processes | jobs, PM2 restarts, boot | modelled: `Deployment`, composed in `Platform` |
| Seeder, `modules/seeder` | inserts the first administrator at boot | check, then insert, in every worker | modelled: `Deployment` |
| Roles guard, `modules/auth/roles.guard.ts` | none | compares the role claim | not modelled: every hub account has the one role, so it never decides |
| S3, utilities, configuration | none at run time | I/O, string functions, wiring | not modelled: pure I/O and wiring; the settings that matter are constants of the models |

### How they interact

* **Shared rows.** All services write `hub_user`. `TotpService` burns watermarks
  and rotates secrets by `UPDATE ... WHERE id`; `HubUsersService` loads an
  entity, changes a field and calls `save()`, which selects the row again and
  writes each column in which the loaded copy differs.
* **Calls.** `login` calls `verifyCode` between its password check and the
  session; `changePasswordWithCurrent` calls `changePassword` (write, revoke) and
  then creates a session; five administration handlers end in `revokeSessions`.
* **Tokens.** An access token is a snapshot: the guards look only at its claims,
  so it outlives a demotion, a deactivation or a removal of its account.
* **Cascades.** Deleting an account deletes its sessions and recovery codes.
* **Build and schema.** A job replaces `dist/`, then `node_modules/`, then
  migrates, then restarts. In between, PM2 restarts any worker that dies from
  whatever the two directories hold, and the worker's first query needs the
  columns of the build it runs.
* **Relayed calls.** A call of the console lives on one worker, and school-ai may
  have performed it when the worker or the connection goes.

### What is hard here, and what must hold

The list with lines is `hazards` in `PROJECT.json`. In short:

* *Second factor.* Several workers verify codes against copies of one row: no
  code may be accepted twice, and the watermark may never fall behind an
  accepted code, also when secrets rotate and enrolments are removed meanwhile.
  Enrolment must end with the secret that was confirmed, and one whole set of
  recovery codes.
* *Sessions.* Handles rotate, with a grace window for replays; `save()` writes
  stale copies back. A delivered handle must be found by the next refresh, a
  revoked session must not come back, and a password change must leave no
  session of the old password.
* *Sign-in.* Four checks in an order that matters: the second factor has to be
  settled above the forced-change branch.
* *Administration.* Check-then-act over other accounts by callers whose tokens
  are snapshots: the console must keep an active administrator; a reset must
  leave no session and no half of a second factor.
* *Everywhere.* A worker may die between two statements and nothing repairs what
  it left; rows may vanish under a running request.
* *Migrations.* They meet fresh databases, databases made by hand before
  migrations were tracked, and reverted ones; the backfill of access levels must
  run exactly when its column is added, or it re-promotes everybody or leaves
  nobody who can administer.
* *Deployment.* Two jobs may overlap. Their `npm ci`s share one `node_modules/`;
  a job may apply a list of pending migrations that another has applied since, or
  run it in a transaction beside the other's, whose uncommitted objects its guards
  do not see. Any step may fail. Through all of it no list may be rejected by what
  others have committed, a run that loses to another must leave a migrated
  database, and a green job must mean a migrated schema and, in the end, serving
  workers.
* *Boot.* All workers seed at once and only one insert succeeds.
* *Relayed calls.* The answer may be lost after the request was performed, and
  the client is asked to try again. What the console shows must be what the
  guards admit, and two tables kept by hand say so.

## 2. How the code becomes actions

```
HubGuards <- HubTables <- TotpService <- AuthService <- HubBackend      EXTENDS
             HubTables <- HubUsersService            <- HubBackend
HubGuards <- AiAdmin
Migrations <- Deployment <- Platform
AiAdmin is instantiated by Platform
TotpService_proofs <- AuthService_proofs <- HubBackend_proofs
HubBackend_proofs <- Accounts_proofs <- Sessions_proofs
Migrations_proofs <- Platform_proofs
SequenceFold_proofs is instantiated by Migrations_proofs, once for each fold
OneTimeCodes  is instantiated by TotpService (Codes)   with a refinement mapping
SessionLedger is instantiated by AuthService (Ledger)  with a refinement mapping
```

`MCTotp`, `MCAuth`, `MCHub` and `MCPlatform` are the instances for TLC;
`*_proofs` hold the theorems.

### Requests over the three tables

* **One action is one SQL statement.** A handler becomes a start action and one
  action per further statement; `req[r].pc` names the statement it is about to
  run. The start action covers the guards, the first `findOne` and the early
  returns that depend on it alone. Checks that only read the loaded copy are
  evaluated with the action that follows or precedes them, as no other request
  can tell the difference.
* **Copies.** What a handler read stays in its request record: `usr` and `ses`
  are the loaded entities, so a later statement that uses them uses what was
  read and not what the row has become.
* **`save()`.** `SaveSelect`/`SelectUser` compare copy and row,
  `SaveUpdate`/`UpdateUser` write the differing columns, `SaveInsert`/`ReinsertUser`
  insert the copy under its old id when the row is gone. That is TypeORM's
  behaviour, modelled from the way the handlers use it. Values that differ from
  the row although the model's coarse values agree (a time in milliseconds, a
  fresh bcrypt salt) are added to the written columns (`FreshTimes`,
  `FreshHash`).
* **Fresh values** (ids, handles, secrets, passwords, sets of codes) are named
  after the request that minted them. A request mints at most one of each kind.
* **Time** is a clock in TOTP periods of 30 s. A typed code is abstracted to its
  time step: `verifyCode` rejects it, or finds it at an acceptable step of the
  window around the clock.
* **Tokens.** `tokens` collects every access token signed; a start action picks
  any of them that `JwtAuthGuard` and `HubAccessGuard` let through.
* **Dying workers.** `Abandon` ends a request between two statements.
* **History.** `revoked` records the sessions deleted by someone who meant to
  end them while no refresh held a copy; `under` on a session records the
  password it was minted under. No handler reads them.
* `Quiet` lets the finished system stutter, so TLC's deadlock check stays on and
  finds any request that could not go on.

Left out as data: names, mobile numbers (their uniqueness check has the form of
the one on e-mail), device and address columns, `lastLoginAt`, `lastActive`, the
legacy `totpBypassedAt`, response bodies beyond what is shown to the client.

### The platform

| state | code |
|---|---|
| `db.objects`, `db.rows`, `db.history`, `db.ok` | what `pg_catalog` shows; role and level of each account; the migrations table; whether the transaction's statements succeeded so far |
| `dist` | the build PM2 starts workers from |
| `installed` | whether `node_modules/` holds everything a worker needs |
| `job` | how far each run of the workflow is, and the pending list its runner has read |
| `worker` | what each PM2 instance does: down, given up (`errored`), in the seeder, or serving |
| `calls` | one call of the console: request, fetch, answer |
| `owner`, `disturbances` | history: the job whose `npm ci` was the last and met no other, as long as nobody removes `dist/` behind it; the bound on crashes and edits |

* **A migration is data**: a sequence of statements, each with its guard
  (`IF NOT EXISTS` or a `DO` block that asks the catalog, `IF EXISTS`, or none)
  and the changes it runs. `Legal` and `Applied` say what Postgres does with a
  change; an illegal one aborts the transaction. Columns that no later statement
  touches come with their table.
* **The runner** reads the migrations table and opens one READ COMMITTED
  transaction for what is missing (`ReadHistory`), which it runs and commits
  (`ApplyPending`); no lock keeps others out in between. Runs that overlap have
  the same statements in the same order, so the first that writes makes the other
  wait for its commit. That is why run and commit are one step: what commits was
  run on what others had committed. The commit of a list that was not empty turns
  every other open run into an `overtaken` one (`Overtaken`). Such a run may go on, if its guards look
  only now, or may have passed a guard before it had to wait: then its statement
  meets a duplicate and it is rolled back (`Collide`). A deadlock with the queries
  of a serving worker is one of the failures of `Fail`.
* **A job** cleans `dist/`, copies the build, runs `npm ci`, migrates and restarts.
  `npm ci` deletes `node_modules/` (`Install`) and fills it again (`Installed`);
  one that fails may leave it empty, and two at once leave anything. Any step may
  fail, and `set -e` ends the job there. Every job brings the same commit. The
  removal of `dist/`, the copy and the restart of all instances are one step each.
* **A worker** boots when there is a build and its packages are there, looks for
  the seed account and inserts it; a failed insert, a missing package or a
  missing column kills the process. PM2 may restart it or give up after each
  failed boot, as its restart limit is not modelled by a count.
* **Administrators' edits** are one step each here; `HubUsersService` has them
  statement by statement.
* **A call** passes the guards and the validation of its body, is fetched, and is
  answered. `Performed` says what school-ai (external) may have done by the time
  the fetch ends; `Dropped` breaks the calls of a worker that goes down, together
  with the step that takes it down. `done`, `told` and `unsure` count what was
  performed and what was answered; no code reads them.
* `Settled` lets the platform stutter when jobs are over and nobody asks, so a
  deadlock anywhere else would be found.

## 3. Properties and runs

| run | instance | checks |
|---|---|---|
| `account_overlap` | 3 overlapping requests of an account holder: pairing, codes, sign-ins, refreshes, sign-outs, password changes; dying workers | `TypeOK`, `WatermarkCovers`, `CodeAcceptedOnce`, `CodesOnce`, `RevokedStaysRevoked` |
| `auth_serial` | any 3 requests of an account holder one after the other, every kind of account | `SessionsMatchPassword`, `DeliveredHandlesWork`, `RecoveryCodeSpentOnce`, `PairingConfirmed`, `OneWholeSet`, `SecondFactorFirst`, `HandlesAreLedgered` |
| `hub_serial` | any 3 requests of the whole hub one after the other | `SomeoneAdministers`, `NoSessionBeforePasswordChange`, `SessionsMatchPassword`, `PairingConfirmed`, `OneWholeSet`, `CodesOnce` |
| `hub_overlap` | 2 overlapping requests of the whole hub, dying workers, fair requests | `TypeOK`, `RevokedStaysRevoked`, `RequestsAnswered` |
| `platform` | 2 overlapping deployments that fail anywhere, of 5 databases; 2 workers; a console call | `PlatformTypeOK`, `MigrationsApply`, `GreenMeansMigrated`, `ServingOnTarget`, `SomeoneIsAdmin`, `LevelsKept`, `GreenMeansServing`, `DoneAsTold`, `ConsoleMirrorsGuards` |

`account_overlap` shows that the conditional `UPDATE` of `verifyCode` does what
its comment says among all other writes of the second factor and of the
sessions. `CodesOnce` says it without accounts, columns or requests: the second
factor implements `OneTimeCodes`. `RevokedStaysRevoked` shows how far revocation
reaches: a session no refresh had loaded when it was revoked does not come back
(one that a refresh had loaded *does*, by `save()`'s insert; the history variable
makes that exception explicit and nothing more is claimed).

The two serial runs hold the promises the code keeps when requests do not
overlap, which still takes sequences of several actors to break: a token signed
before a reset, a demoted administrator who acts on, a grace replay after a
second rotation, a code that is tried again after a reset. `HandlesAreLedgered`
is their summary for sessions: the rotating handles implement `SessionLedger`, in
which a session opens once and a handle that was replaced never opens anything
again.

`hub_overlap` covers every operation under overlap, so rows vanish and unique
indexes decide under running requests. `RequestsAnswered` shows that every way
through a handler ends: in an answer, or with the worker that ran it.

`platform` shows what two jobs can do to each other. No list of migrations
meets a committed database it cannot be applied to. A run may still collide with
one it overlaps and fail its job; then that other run has left the database
migrated. Green means migrated, whatever failed beside it. It means serving
workers, again and again, for a job whose `npm ci` was the last and met no other,
as long as nobody removes `dist/`: without that condition it is false, as a job
that fails in `npm ci` after another has ended green leaves no worker able to
boot. A worker of this build never serves on an old schema, there is an ADMIN as
soon as there are levels, and nothing but an administrator changes a level. The
call shows what a retry may do: more grants than the operator was told of, but
never more than the answers `ok` and `failed` together, and none the operator was
told of is missing.

### Disagreements between code and text

Each of these runs checks one statement the repository makes, and TLC finds an
execution of the code that breaks it (`findings` quotes the lines):

| run | statement | what happens |
|---|---|---|
| `two_tabs` | a second tab does not invalidate a pending secret | two loads of the screen both find no secret and both store one |
| `two_refreshes` | the grace window absorbs two tabs refreshing at once | both rotate their own copy; the handle given to the first is in neither column |
| `change_races` | a new password invalidates every session of the old one | the first change creates its session after the second has revoked |
| `one_code_twice` | a recovery code is single-use | both sign-ins read it unused, then both mark it |
| `two_demotions` | there is always somebody who can administer | two administrators count each other, then demote each other |
| `deactivated` | a deactivated user stops acting now | with its access token it changes its password and is given a new session |
| `stale_save` | the watermark is the step of the last accepted code, for replay protection | an administrator's `save()` of a copy loaded before a sign-in writes the older watermark back, and the same code is accepted again |

One more, in text only: the class comment of the AI controller
(`ai-admin.controller.ts:46-47`) gives granting and plans to EDIT; its decorators
and the capability table agree on ADMIN, and `ConsoleMirrorsGuards` holds.

### Bounds, and why they are enough

* `Request`: three (two where every operation of the hub overlaps). Every race
  listed above needs two requests; three let a third one use what two left
  behind. Requests differ only in name, so the runs without a liveness property
  use symmetry over them.
* `CodeCount` is 2 in `auth_serial` and 1 in the wider runs, where the code has
  10: two distinguish a set from a part of it.
* `Grace` is 2 ticks, the code's 60 s (1 in `account_overlap`). `RefreshLife` is 1
  or 2 ticks instead of 30 days, so that sessions expire, and are prolonged,
  within the horizon.
* `MaxClock` bounds the clock at 2 to 4, starting at 2. A grace window opened in
  the first tick closes at 4, and the window of acceptable steps moves.
* Access tokens (8 h) do not expire within the horizon of a few minutes.
* `Emails` has three addresses where accounts are administered, one of them free.
* Passwords are all names that occur; a client may type any of them, and picks a
  fresh one or the default as its new one.

Initial states are deployed hubs: everybody signed in, one session open, with the
second factor absent, pending or enrolled, an account that was just reset, and
one whose second factor has just been made mandatory by a worker that died
before revoking.

The platform:

* `Job`: two. The hazard is one job between another's steps; a third job meets
  nothing a second has not met.
* `Worker`: two, enough for one to lose the race of the seeders while the other
  wins it. `Account`: the seeded address and one other, so that the seed account
  can be renamed and somebody else can be the last ADMIN.
* `Databases`: empty; made by hand with the objects of the first or of all 7
  migrations and nothing recorded; reverted by 4 and by 6 migrations. The first
  two kinds meet each guard from both sides; of the reverts one takes the levels
  away, the other the new roles as well. A complete database is what every second
  job meets.
* `MaxDisturbances` is 1 crash or edit in all. A crash and an edit in one
  behaviour would meet only in the seeder, which reads one row by its address.
* `MaxAttempts` is 2, one retry. `Tokens`: each level, no level, and a restricted
  scope. `CalledRoutes` is one route, as routes differ only in `MinAccess`, and
  `ConsoleMirrorsGuards` looks at all of them.

### Fairness

`FairSpec` of `HubBackend` adds weak fairness of each running request's next
step: Node's event loop gets round to every continuation, and Postgres answers
every statement of a handler (none waits for a lock that another handler keeps,
as there are no transactions that span statements). Starting a request and dying
are not fair.

`PlatformFairness` is weak fairness of each worker's boot steps: PM2 restarts
what died, and the boot goes on. Nothing is assumed of the workflow, of
school-ai or of people; `BootFails` is not fair, and PM2 may give up after any
failed boot, until a job restarts every instance.

## 4. Proofs

All of it holds for every population, any number of requests and ticks, every
set of operations, and for any number of jobs, workers, calls and retries. What
is assumed of overlap and of dying workers is in the last column; nothing, where
it is empty:

| module | theorem | states | assuming |
|---|---|---|---|
| `TotpService_proofs` | `TotpTypeOK` | `TotpSpec => []TypeOK` | |
| | `TotpWatermark` | `TotpSpec => []WatermarkCovers` | |
| | `TotpCodeOnce` | `TotpSpec => CodeAcceptedOnce` | |
| | `TotpCodesOnce` | `TotpSpec => CodesOnce`, the refinement of `OneTimeCodes` | |
| `AuthService_proofs` | `AuthTypeOK` | `AuthSpec => []TypeOK` | |
| | `AuthRevocation` | `AuthSpec => []RevokedStaysRevoked` | |
| | `AuthWatermark` | `AuthSpec => []WatermarkCovers` | |
| | `AuthCodeOnce` | `AuthSpec => CodeAcceptedOnce` | |
| | `AuthCodesOnce` | `AuthSpec => CodesOnce` | |
| `HubBackend_proofs` | `HubTypeOK` | `Spec => []TypeOK` | |
| | `HubRevocation` | `Spec => []RevokedStaysRevoked` | |
| `Accounts_proofs` | `HubAdministered` | `Spec /\ SomeoneAdministers => []SomeoneAdministers` | `~Overlap` |
| | `HubPairing` | `Spec => []PairingConfirmed` | `~Overlap` |
| | `HubWholeSets` | `Spec /\ OneWholeSet => []OneWholeSet` | `~Overlap`, `~Crashes` |
| | `HubWatermark` | `Spec => []WatermarkCovers` | `~Overlap` |
| | `HubCodesOnce` | `Spec => CodesOnce` | `~Overlap` |
| `Sessions_proofs` | `HubPasswords` | `Spec /\ SessionsMatchPassword => []SessionsMatchPassword` | `~Overlap`, `~Crashes` |
| | `HubFirstPasswords` | `Spec /\ NoSessionBeforePasswordChange => []NoSessionBeforePasswordChange` | `~Overlap`, `~Crashes` |
| | `HubSecondFactor` | `Spec => SecondFactorFirst` | |
| | `HubDelivered` | `Spec => []DeliveredHandlesWork` | `~Overlap` |
| | `HubHandlesLedgered` | `Spec => HandlesAreLedgered`, the refinement of `SessionLedger` | `~Overlap` |
| | `HubRecoveryOnce` | `Spec => []RecoveryCodeSpentOnce` | `~Overlap`, `~Crashes` |
| `SequenceFold_proofs` | `FoldSteps`, `FoldConcat` | what a fold of the community modules computes | |
| `Migrations_proofs` | `Converges` | the pending migrations, run onto any schema they are written for, succeed and end in `Target` | |
| `Platform_proofs` | `PlatformTypes` | `PlatformSpec => []PlatformTypeOK` | |
| | `EveryListApplies` | `PlatformSpec => []MigrationsApply` | |
| | `GreenIsMigrated` | `PlatformSpec => []GreenMeansMigrated` | |
| | `SomeoneStaysAdmin` | `PlatformSpec => []SomeoneIsAdmin` | |
| | `OnlyEditsChangeLevels` | `PlatformSpec => LevelsKept` | |
| | `ServingHasColumns` | `PlatformSpec => []ServingFits` | `SeedEmail # NULL` |
| | `ServesOnTarget` | `PlatformSpec => []ServingOnTarget` | `SeedEmail # NULL`; a database that has the columns is migrated |
| | `CallsDoneAsTold` | `PlatformSpec => []DoneAsTold` | |
| | `ConsoleMirrors` | `PlatformSpec => []ConsoleMirrorsGuards` | |

Between them the theorems state every invariant and every action property that a
passing run checks; only liveness is left to TLC alone.

`TotpService_proofs` begins with the lemmas on rows, request records and
statements that the proofs about the tables rest on. `TotpSpec`'s steps are steps of
`AuthSpec`, and those are steps of `Spec`, so each module of proofs treats only
the statements that are new to it. `HubBackend_proofs` ends with what the two
modules of theorems about requests that do not overlap rest on. They are about
`Spec`, and
`AuthWithinHub` carries them over to `AuthSpec`, the specification of
`auth_serial`: a hub in which nobody administers accounts is a hub.

*The hypotheses.* `~Overlap` and `~Crashes` are about the model's switches of
those names, set as in the serial runs, and each is there because the property
is false without it. Overlap breaks them as `change_races`, `one_code_twice`,
`two_demotions`, `two_refreshes` and `stale_save` show, and as section 5 says of
pairing and sets. A worker that dies between two statements leaves an enrolled
account without codes, sessions of a replaced password, or a code that a sign-in
has found and not spent. What is proved with dying workers and without overlap holds
after any of these. Where the property is about the rows a hub starts with, it
is a hypothesis too: `Population` may hold a hub that nobody administers, and the
theorem says that the code never makes one of a hub that somebody does.

*Assumptions.* `NamesAssumption` (initial names and requests are disjoint, `NULL`
is neither), `NullAssumption` (`NULL` is no operation and no code either),
`BoundsAssumption` (the numeric constants are naturals) and
`PopulationAssumption` (initial rows are of their types, foreign keys resolve, no
two accounts share a secret and no two sessions a handle, an enrolled account has
a secret). TLC evaluates all four in every run over the tables.

`DatabasesAssumption` says which databases a deployment may meet: those
`Foreseen` by the folder. The migrations table lists the first n migrations, as
TypeORM records and reverts them in order (n may be 0, and is for a database made
by hand); their work is done, and of the rest any part may be there already,
which is what "whatever exists is kept, whatever is missing is created" asks of
it. Nothing lies outside a table, `hub_user` comes with its role, and where
accounts have levels one is ADMIN. `DeploymentAssumption`, `PlatformAssumption`
and `SchemaAssumption` say that `NULL` is no level, no worker and no enum, that
the seed address is an account's or absent, and that the bounds are naturals, at
least one attempt among them. TLC evaluates these four in `platform`, whose
five databases are all foreseen.

*The watermark.* `WatermarkCovers` is not inductive: after a code is accepted, a step
of another request could in principle give some account the secret of that code
together with a low watermark. `FactorInv` rules it out by where secrets come
from: the secret of a row and the secrets in the copies of requests are initial
ones or were minted by a request that has got that far (`RealSecrets`,
`Unminted`), no two rows share one (`NoSharedSecret`), and a copy loaded from an
account, as long as its secret is still in some row, is that account's
(`CopiesTheirOwn`). A fresh secret has no accepted code, a removed one is in no
row, and `Burn` raises the watermark of the one row that holds the secret.
`FactorStep` is proved per kind of write: steps that leave secrets and accepted
codes alone (`FactorFrame`), that drop them or set the enrolment stamp
(`FactorUpdate`), that store a fresh secret (`FactorStore`), that burn a step
(`FactorBurn`) and that load a row (`FactorStart`). `TotpCodeOnce` follows in one
step: a burn demands a watermark below the step, and by the invariant every
accepted code of that secret is at or below it.

*The refinement.* `live` is the set of secrets in the rows, `accepted` the codes
the requests have burned. That a step other than a burn leaves `accepted` alone
needs `Unclaimed`, that a request which may still burn has nothing accepted, as
otherwise going idle would forget a code: `Keeps` is what each such step does to
the trace, and `Unclaimed` follows from it. A burn is then `Accept` (when its
secret is live, the row that holds it is the account's own, and its watermark
covers every older code), the storing of a fresh secret is `Change` with a secret
no code was accepted of, the clearing of one is `Change` too, and every other
step stutters.

A sign-in verifies codes too, with a copy of the account loaded by `findByEmail`;
for `AuthSpec` the same `FactorInv` carries over (`Carries`: no other statement
of a sign-in, refresh or password change writes a secret or a watermark, nor
gives a request a secret that is not its account's). For `Spec` it does not
hold, as `stale_save` shows, unless requests do not overlap: then what an
administrator `save()`s carries the secret and the watermark the row still has
(`CopyIsEdited`), a reset that lowers the watermark takes the secret with it, and
an invitation brings none (`AdminRows`), so that `FactorInv` and with it
`HubWatermark` and `HubCodesOnce` hold of the whole hub (`AdminFactor`).

*Types.* `TypeOK` is not inductive by itself once there are sessions. A refresh
copies the account's columns that `findOne()` joins, so a session's account has
to be in the table (`ForeignKeys`), and `save()` of a session or an account
inserts the copy when the row is gone, so a request at such a statement holds a
row of the right account under a real id (`Copies`). `RowsInv` is the
conjunction. Most of its proof is `Moves`, what any statement does to the
requests: exactly one moves, and it holds no session but the one it held or one
that is in the table before and after.

*Revocation.* A revoked session could come back in two ways: a request inserts
the copy of it that it holds, or a request creates a session under the same id.
`LedgerInv` adds to `RevokedStaysRevoked` that no request holds a session of the
ledger (`NoneHeld`), which the step that revokes makes true and `Moves` keeps
true, and that a request which has not yet created its session has not had its
id revoked (`IdsUnminted`). The ledger has by definition only the sessions that
nobody held when they were deleted; one that was being refreshed at that moment
does come back, and the hazards list says so.

*One request at a time.* Everything rests on `SerialInv`. With one request
running (`Alone`) the row a handler loaded is still there (`RowThere`), so no
`save()` inserts; the copy of a handler that only reads is the row
(`CopyIsRow`); the copy of one that saves differs from the row only in the
columns of its operation, and merging the written columns into the row gives the
copy (`CopyIsEdited`); and the early returns of the second factor still hold of
the row (`FactorChecked`). `Traced` says what a request remembers: only
`verifyCode()` makes it accept a code, only the look-up makes it hold one, and an
answer ends it. `UsersWriters`, `SessionsWriters` and `CodesWriters` list the
statements that write each table, so a proof about one table treats those only.

*Accounts.* `SomeoneAdministers` needs to know at the write what was counted
before it: `NotTheLast` says that a save leaves its account an active
administrator or there is another one, and that a removal has another one. Between
the count and the write lie up to three statements; none writes a level or a
status. `PairingConfirmed` is inductive given `SerialInv`, as `enable` holds an
accepted code of the row's secret when it stamps it, and a code that was accepted
is never forgotten (`ConfirmedStays`). `OneWholeSet` speaks of idle moments; in
between, `CodesInv` allows an account whose set is not whole only while the
request that changed it is about to settle it (`Unsettled`), and says that no
set exists that is named after a request still running (`NewCodes`), so issuing
adds a whole set to none.

*Passwords.* A sign-in carries the password it was typed; `PasswordInv` keeps it
equal to the row's up to the session, and a change of password carries the new
one up to its revocation. `MatchInv` and `UsableInv` allow a session of an old
password, or of an account that must change it, only while the request that
wrote the row is about to end it (`Revoking`), which takes the code's order:
write, then revoke, then create.

*The second factor first* holds under any overlap, because a sign-in decides on
the copy it loaded: `FactorPassed` follows that copy from `verify` or the look-up
of a recovery code to the session.

*Handles.* A refresh that judges has the row as it is, and one that saves has
either the row's handle or a fresh one for the handle it was given, which then is
the current one (`HandleKnown`). `HandlesInv` adds that every row's handle is in
some client's hands, that no two rows share one, and that a running request has
minted none yet. By `HandlesStep` a step then does one of four things to sessions
and answers: nothing, end some (`Ends`), open one (`Opens`), or refresh one
(`Refreshes`); `EndsLedger`, `OpensLedger` and `RefreshesLedger` map them to the
actions of `SessionLedger` or a stutter. `DeliveredInv` says the stronger fact
that without overlap a delivered handle is the current one unless it was traded
in; the grace window matters only when requests overlap.

*Recovery codes.* `SpendInv`: a code that a request holds is used or gone unless
that request is about to mark it, no two requests hold the same, and no set
still to be issued can contain it (`CodeHeld`). So what a look-up finds unused is
held by nobody.

*Calls.* `DoneAsTold` speaks of calls with no fetch out; between the reply and
the answer the reply is counted as what it will become. `Counted` says so: with a
2xx on its way one more is performed than was told, with a 5xx or a broken
connection at most one more than `ok` and `failed` cover. Workers that die, the
only way the deployments reach the calls, turn any of these into a `failed`
(`BrokenCounts`). `ConsoleMirrors` needs of the state only that a call's token is
one of `Tokens`; the rest is that the two tables agree with the guards for any
claims whatever.

*Folds.* A migration is a list of statements, a statement a list of changes, the
folder a list of migrations, and what a list does is a fold of the community
modules. The library's facts about folds and its induction theorems take
operators as parameters, which none of the provers can instantiate. So
`SequenceFold_proofs` has the operator as a constant and is instantiated once for
`Change`, once for `Execute` and once for `Take`. `FoldLeft` is a `CHOOSE` of a
recursive function on the subsets of a domain: the proof constructs that function
level by level (`IterationExists`) and takes its induction from the
well-foundedness of the finite subsets of the naturals (`SmallestOfSet`).
`FoldSteps` then says that a fold is the last of a sequence of states, each
the step of the one before; `FoldConcat` that the fold of a concatenation is two
folds. Short lists are unfolded by it once and for all (`FoldTwo` and the like).

*Migrations.* The schemas between two migrations are described by what is certain
of them: `Reached(n, O)`, that the first n are done and anything else in O is of
the folder. `OneMigration` takes `Reached(n - 1, O)` to `Reached(n, P)`, one lemma
for each migration: a guarded statement adds its object or finds one of the same
key, and as every object of the folder has one type (`KnownTyped`), finding it is
as good as adding it. The exceptions are the reason for the rest. The enum of the
roles comes with two sets of labels, so `TrimHubSchema`, which is not guarded, is
followed statement by statement (`HubTrimmed`, `RoleSwapped`) from any labels, with
or without a default, to the one result. The backfill of the levels must be in
the step that adds their column: `FourthMigration` keeps the levels that are
there, and fills in ADMIN for everybody where there are none (`Carried`).
`RunReaches` is the induction over the folder, and `Converges` its result: what the
list leads to is `Target`, the schema as it is written down for this build.

*Deployments.* `DeploymentInv` says of the database that it is `Consistent`:
its history is 1..n for an n it has `Reached`, its accounts fit its schema. Of
a job that has read its list, it says that the list begins where the database
was, and that the database is still one this list may be run onto (`Prepared`):
either nobody has migrated since, or somebody has and the schema is `Target`, which
`TargetReached` shows to be one that any list can be run onto again. Of a run that
was overtaken it says besides that this is so already: what overtook it was a list
that, being prepared itself, has led to `Target` (`ListIsApplied`,
`OvertakenIsPrepared`). So a run that collides loses to one that has done all there
was to do, and `MigrationsApply` and `GreenMeansMigrated` are consequences.
`DbStepKeeps` shows that the only two things that happen to a database, an edit of
its accounts and a run of the pending migrations, disturb no other job and no
worker; the edits are lemmas on a set of accounts each
(`AccountAdded`, `LevelIsSet`, `AccountRenamed`, `AccountRemoved`), where an
administrator other than the target is what keeps `SomeoneIsAdmin`. A worker
inserts the first administrator only after a query that needs every column
(`Seeds`), so the ADMIN it writes has a column to go to.

*Serving.* What keeps a worker off an old schema is that query of the seeder, and
nothing else: where no address is set a worker opens its port without asking
the database anything. That is the hypothesis `SeedEmail # NULL` of
`ServingHasColumns`, and the property is false without it. That the columns of
`hub_user` are there does not say that every table is; for `ServesOnTarget` the
databases must have been made so that it does, as those of the run are.

*Attempts.* The bounds in `CallState` are not the guards of the actions:
`Bounded` says that a call that was answered ok is not sent again and that a call
under way has one attempt left to fail, and with `Counted` it follows that no
request is performed more than `MaxAttempts` times.

*Only model-checked.* Liveness (`RequestsAnswered`, `GreenMeansServing`), as
fairness is beyond the prover. And the runs that end in a violation, of course.

## 5. Not claimed

* `WatermarkCovers`, `CodesOnce` and `SessionsMatchPassword` with an
  administrator's `save()` overlapping: it writes back every column in which its
  copy differs from the row, so it can lower a watermark (`stale_save`) or restore
  a password.
* `PairingConfirmed` and `OneWholeSet` with overlapping requests: `enable` stamps the row by id after a rotation or
  reset may have replaced the secret it confirmed; two regenerations can both
  delete before either inserts.
* That overlapping deployments both go through. One of two runs of the same list
  may end in a duplicate key and its job red, with the schema migrated by the
  other. On a database without a `migrations` table both runners may try to create
  it, outside any transaction, and one fails before it has read anything; in the
  model that is a `Fail` before `ReadHistory`.
* That the hub keeps working while `npm ci` runs. No worker boots without
  `node_modules/`, and what a serving worker loads late, and finds gone, is outside
  the model; so is a `rm -rf dist` in the middle of another job's copy.
* Anything a worker that died half-way left undone; no code repairs it.
* An answer lost after the last statement: the handler has finished by then.
* That a reset of the second factor ends a session of an enrolment completed
  since the reset loaded the account, or that signing out with a handle in its
  grace window ends the session: nothing in the repository promises either.
* That a seeded account stays renamed or removed: the next boot seeds it again,
  and `Deployment` has the case. That a seed address with capitals can sign in:
  letter case is outside the model.
* That levels survive a revert by hand below their migration: the next deployment
  makes everybody ADMIN. That the backfill runs under `DB_SYNCHRONIZE`, which
  defaults to false and is taken to be false.
* `ConsoleMirrorsGuards` of the control `account_selfService`: restricted tokens are
  meant to reach its routes (change the password, pair an authenticator) although
  `auth/capabilities` refuses them.
* That a grant is performed once: the hub sends no key by which school-ai could
  know a retry.

## 6. Plan

Written so far, in this order: `HubGuards`, `HubTables`, `TotpService`,
`AuthService`, `HubUsersService`, `HubBackend` and the proofs about them;
`OneTimeCodes` and `SessionLedger` as what the second factor and the sessions
promise; `Migrations`, `Deployment`, `AiAdmin`, `Platform`; the proofs about calls,
folds, migrations and deployments.

Left in the model: nothing that changes state. The components still listed as
not modelled keep none, and the routes left out of the controllers only read.

Left in the proofs: liveness, which the prover cannot do.
