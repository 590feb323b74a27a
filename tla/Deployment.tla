----------------------------- MODULE Deployment -----------------------------
(***************************************************************************)
(* Deploying the hub: the jobs of the GitHub workflow against one EC2      *)
(* directory and one database, the PM2 cluster that autorestarts whatever  *)
(* is in dist/, and the boot of a worker, which ends in the seeder.        *)
(*                                                                         *)
(* The workflow sets no concurrency group, so two jobs may run at once: on *)
(* the same dist/ and node_modules/, and in transactions that overlap.     *)
(* Every job brings the build of this commit; "old" is the build before.   *)
(***************************************************************************)
EXTENDS Migrations

CONSTANTS
  Job,              \* runs of the deploy workflow
  Worker,           \* PM2 instances
  Account,          \* the addresses hub accounts may have
  SeedEmail,        \* HUB_SYSTEM_ADMIN_EMAIL, or NULL when it is not set
  Databases,        \* the databases a first deployment may meet
  MaxDisturbances   \* bound: crashes and administrators' edits together

\* A database may hold the objects of any part of the folder, whatever its
\* migrations table says of it, and accounts of before or after.
ASSUME DatabasesAssumption ==
  \A d \in Databases : Foreseen(d) /\ DOMAIN d.rows \subseteq Account

ASSUME DeploymentAssumption ==
  /\ SeedEmail \in Account \cup {NULL}
  /\ NULL \notin {"VIEW", "EDIT", "ADMIN"}
  /\ MaxDisturbances \in Nat

VARIABLES
  db,          \* the database
  dist,        \* the build in dist/: "old", "new", or "none"
  installed,   \* whether node_modules/ holds everything a worker needs
  job,         \* how far each job is, and the list its runner read
  worker,      \* what each PM2 instance is doing, and the build it runs
  owner,       \* history: the job whose npm ci was the last and met no other,
               \* or NULL: none, or dist/ was removed behind it
  disturbances

deployVars == <<db, dist, installed, job, worker, owner, disturbances>>

Ended == {"done", "failed", "rejected", "collided"}

JobStage ==
  Ended \cup {"queued", "copy", "install", "installing", "migrate", "apply",
              "overtaken", "restart"}

WorkerStage == {"down", "errored", "seeding", "inserting", "serving"}

DeploymentTypeOK ==
  /\ DOMAIN db.rows \subseteq Account
  /\ \A a \in DOMAIN db.rows :
       /\ db.rows[a].role \in {"system_admin", "school_owner", "SYSTEM_ADMIN"}
       /\ db.rows[a].level \in IF Has(db, LevelColumn) THEN {"VIEW", "EDIT", "ADMIN"}
                                                      ELSE {NULL}
  /\ db.history \subseteq Folder
  /\ db.ok
  /\ dist \in {"old", "new", "none"}
  /\ installed \in BOOLEAN
  /\ job \in [Job -> [stage : JobStage, list : SUBSET Folder]]
  /\ worker \in [Worker -> [stage : WorkerStage, build : {"old", "new"}]]
  /\ owner \in Job \cup {NULL}
  /\ disturbances \in 0..MaxDisturbances

\* Nothing runs yet in front of an empty database.
DeploymentInit ==
  /\ db \in Databases
  /\ dist = IF db = Empty THEN "none" ELSE "old"
  /\ installed = (db # Empty)
  /\ job = [j \in Job |-> [stage |-> "queued", list |-> {}]]
  /\ worker = [w \in Worker |->
                  [stage |-> IF db = Empty THEN "errored" ELSE "serving",
                   build |-> "old"]]
  /\ owner = NULL
  /\ disturbances = 0
-----------------------------------------------------------------------------
(***************************************************************************)
(* The deploy workflow.                                                    *)
(***************************************************************************)
Reach(j, stage) == job' = [job EXCEPT ![j].stage = stage]

Installing == {j \in Job : job[j].stage = "installing"}

\* rm -rf dist
Clean(j) ==
  /\ job[j].stage = "queued"
  /\ Reach(j, "copy")
  /\ dist' = "none"
  /\ owner' = IF owner \in Installing THEN owner ELSE NULL
  /\ UNCHANGED <<db, installed, worker, disturbances>>

Copy(j) ==
  /\ job[j].stage = "copy"
  /\ Reach(j, "install")
  /\ dist' = "new"
  /\ UNCHANGED <<db, installed, worker, owner, disturbances>>

\* npm ci deletes node_modules/ ...
Install(j) ==
  /\ job[j].stage = "install"
  /\ Reach(j, "installing")
  /\ installed' = FALSE
  /\ owner' = IF Installing = {} THEN j ELSE NULL
  /\ UNCHANGED <<db, dist, worker, disturbances>>

\* ... and fills it again.  What two of them leave of each other's files is
\* anybody's guess.
Installed(j) ==
  /\ job[j].stage = "installing"
  /\ Reach(j, "migrate")
  /\ installed' \in IF owner = j THEN {TRUE} ELSE BOOLEAN
  /\ UNCHANGED <<db, dist, worker, owner, disturbances>>

\* npm run migration:prod reads the migrations table, and opens one transaction
\* for all it finds missing ...  (It needs a few packages only, and may find them
\* where a worker does not boot.)
ReadHistory(j) ==
  /\ job[j].stage = "migrate"
  /\ dist = "new"
  /\ job' = [job EXCEPT ![j] = [stage |-> "apply", list |-> Pending(db)]]
  /\ UNCHANGED <<db, dist, installed, worker, owner, disturbances>>

Overtaken(state) ==
  [state EXCEPT !.stage = IF @ = "apply" THEN "overtaken" ELSE @]

\* ... and runs it, whatever was done meanwhile.  Two transactions have the
\* same statements, and the first that writes makes the other wait for it: so
\* what commits was run on what was there.  The others have been overtaken.
ApplyPending(j) ==
  LET end == Migrate(db, job[j].list)
  IN  /\ job[j].stage \in {"apply", "overtaken"}
      /\ db' = IF end.ok THEN end ELSE db
      /\ job' = [i \in Job |->
                   IF i = j
                   THEN [stage |-> IF end.ok THEN "restart" ELSE "rejected",
                         list  |-> {}]
                   ELSE IF end.ok /\ job[j].list # {} THEN Overtaken(job[i]) ELSE job[i]]
      /\ UNCHANGED <<dist, installed, worker, owner, disturbances>>

\* IF NOT EXISTS and the DO blocks do not see what another transaction has not
\* committed: a statement that passed its guard and then waited for the other
\* meets a duplicate, and the run is rolled back.
Collide(j) ==
  /\ job[j].stage = "overtaken"
  /\ job[j].list # {}
  /\ job' = [job EXCEPT ![j] = [stage |-> "collided", list |-> {}]]
  /\ UNCHANGED <<db, dist, installed, worker, owner, disturbances>>

\* pm2 start || pm2 restart: every instance, errored ones included.
Restart(j) ==
  /\ job[j].stage = "restart"
  /\ Reach(j, "done")
  /\ worker' = [w \in Worker |-> [worker[w] EXCEPT !.stage = "down"]]
  /\ UNCHANGED <<db, dist, installed, owner, disturbances>>

AfterFailureWithoutSetE(stage) ==                     \* (see GreenMeansMigrated)
  IF stage \in {"apply", "overtaken"} THEN "restart" ELSE "failed"

\* A step of the workflow fails (ssh, scp, npm, the database connection, a
\* deadlock that Postgres breaks at the cost of this run): set -e, and nothing
\* behind it runs.  A failed npm ci may take what another has put there.
AfterFailure(stage) == "failed"

Fail(j) ==
  /\ job[j].stage \in JobStage \ (Ended \cup {"queued"})
  /\ job' = [job EXCEPT ![j] = [stage |-> AfterFailure(job[j].stage), list |-> {}]]
  /\ installed' \in IF j \in Installing THEN {FALSE, installed} ELSE {installed}
  /\ UNCHANGED <<db, dist, worker, owner, disturbances>>
-----------------------------------------------------------------------------
(***************************************************************************)
(* PM2 and the boot of a worker.                                           *)
(***************************************************************************)
Become(w, stage) == worker' = [worker EXCEPT ![w].stage = stage]

\* The accounts with one more.
Stored(rows, a, account) ==
  [b \in DOMAIN rows \cup {a} |-> IF b = a THEN account ELSE rows[b]]

HubUserByEmailOnly == {}                              \* (see ServingOnTarget)

\* Every query on hub_user selects all the columns of its entity.  (Those
\* that come with the table are left out.)
HubUser ==
  {"role", "mobile", "accessLevel", "name", "isActive", "createdById", "lastLoginAt",
   "totpSecret", "totpEnabledAt", "totpLastStep", "totpRequired", "totpBypassedAt"}

Fits(database) == \A column \in HubUser : Has(database, <<"hub_user", column>>)

\* The seeder runs when everything else is up, and before the port is open.
Boot(w) ==
  /\ worker[w].stage = "down"
  /\ dist # "none"
  /\ installed
  /\ worker' = [worker EXCEPT ![w] =
                  [stage |-> IF dist = "old" \/ SeedEmail = NULL
                             THEN "serving" ELSE "seeding",
                   build |-> dist]]
  /\ UNCHANGED <<db, dist, installed, job, owner, disturbances>>

\* seedSystemAdmin: findByEmail, and nothing to do if the account exists.
FindSeed(w) ==
  /\ worker[w].stage = "seeding"
  /\ Fits(db)
  /\ Become(w, IF SeedEmail \in DOMAIN db.rows THEN "serving" ELSE "inserting")
  /\ UNCHANGED <<db, dist, installed, job, owner, disturbances>>

SeedLevelUnknown == "SYSTEM_ADMIN"                    \* (see PlatformTypeOK)
SeedLevelByDefault == "VIEW"                          \* (see SomeoneIsAdmin)

SeedLevel == "ADMIN"

InsertSeed(w) ==
  /\ worker[w].stage = "inserting"
  /\ SeedEmail \notin DOMAIN db.rows
  /\ Become(w, "serving")
  /\ db' = [db EXCEPT !.rows = Stored(@, SeedEmail, [role  |-> "SYSTEM_ADMIN",
                                                     level |-> SeedLevel])]
  /\ UNCHANGED <<dist, installed, job, owner, disturbances>>

SeedTakenForGood(w) ==                                \* (see GreenMeansServing)
  /\ worker[w].stage = "inserting"
  /\ SeedEmail \in DOMAIN db.rows
  /\ Become(w, "errored")
  /\ UNCHANGED <<db, dist, installed, job, owner, disturbances>>

\* Another worker was first: the unique constraint throws, bootstrap()
\* rejects and the process dies.
SeedTaken(w) ==
  /\ worker[w].stage = "inserting"
  /\ SeedEmail \in DOMAIN db.rows
  /\ Become(w, "down")
  /\ UNCHANGED <<db, dist, installed, job, owner, disturbances>>

\* No build to run, a package or a column that is not there: the process dies,
\* and PM2 restarts it until it gives up.
BootFails(w) ==
  /\ \/ worker[w].stage = "down" /\ (dist = "none" \/ ~installed)
     \/ worker[w].stage = "seeding" /\ ~Fits(db)
  /\ \E stage \in {"down", "errored"} : Become(w, stage)
  /\ UNCHANGED <<db, dist, installed, job, owner, disturbances>>
-----------------------------------------------------------------------------
(***************************************************************************)
(* Disturbances: a worker dies; an administrator edits the accounts.       *)
(***************************************************************************)
Disturb ==
  /\ disturbances < MaxDisturbances
  /\ disturbances' = disturbances + 1
  /\ UNCHANGED <<dist, installed, job, owner>>

Crash(w) ==
  /\ worker[w].stage \in {"seeding", "inserting", "serving"}
  /\ Become(w, "down")
  /\ Disturb
  /\ UNCHANGED db

\* Nobody edits himself, and only an ADMIN edits.
Administered(target) ==
  /\ \E w \in Worker : worker[w] = [stage |-> "serving", build |-> "new"]
  /\ \E actor \in DOMAIN db.rows \ {target} : db.rows[actor].level = "ADMIN"

Invite(a) ==
  /\ Administered(a)
  /\ a \notin DOMAIN db.rows
  /\ db' = [db EXCEPT !.rows = Stored(@, a, [role  |-> "SYSTEM_ADMIN",
                                             level |-> "VIEW"])]
  /\ Disturb
  /\ UNCHANGED worker

SetAccessLevel(a) ==
  /\ Administered(a)
  /\ a \in DOMAIN db.rows
  /\ \E level \in {"VIEW", "ADMIN"} \ {db.rows[a].level} :
       db' = [db EXCEPT !.rows[a].level = level]
  /\ Disturb
  /\ UNCHANGED worker

UpdateEmail(a, email) ==
  /\ \E w \in Worker : worker[w] = [stage |-> "serving", build |-> "new"]
  /\ \E actor \in DOMAIN db.rows : db.rows[actor].level = "ADMIN"
  /\ a \in DOMAIN db.rows
  /\ email \in Account \ DOMAIN db.rows
  /\ db' = [db EXCEPT !.rows = Stored(Restrict(@, DOMAIN @ \ {a}), email, @[a])]
  /\ Disturb
  /\ UNCHANGED worker

RemoveAccount(a) ==
  /\ Administered(a)
  /\ a \in DOMAIN db.rows
  /\ db' = [db EXCEPT !.rows = Restrict(@, DOMAIN @ \ {a})]
  /\ Disturb
  /\ UNCHANGED worker
-----------------------------------------------------------------------------
JobStep(j) ==
  \/ Clean(j) \/ Copy(j) \/ Install(j) \/ Installed(j)
  \/ ReadHistory(j) \/ ApplyPending(j) \/ Collide(j) \/ Restart(j) \/ Fail(j)

BootStep(w) ==
  Boot(w) \/ FindSeed(w) \/ InsertSeed(w) \/ SeedTaken(w) \/ BootFails(w)

DeploymentNext ==
  \/ \E j \in Job : JobStep(j)
  \/ \E w \in Worker : BootStep(w) \/ Crash(w)
  \/ \E a \in Account :
       \/ Invite(a) \/ SetAccessLevel(a) \/ RemoveAccount(a)
       \/ \E email \in Account : UpdateEmail(a, email)
-----------------------------------------------------------------------------
(***************************************************************************)
(* Properties.                                                             *)
(***************************************************************************)
\* No list of migrations meets a committed database it cannot be applied to:
\* not an ad hoc one, not one that was reverted by hand, not one another job
\* has migrated since the list was read ("whatever exists is kept, whatever is
\* missing is created").  The one way to lose is to be overtaken by a run that
\* has then done everything there was to do.
MigrationsApply ==
  \A j \in Job :
    /\ job[j].stage # "rejected"
    /\ job[j].stage = "collided" => db.objects = Target /\ db.history = Folder

\* A deployment that ended green ran its migrations, and they led to the
\* schema this build expects, whatever the database was.
GreenMeansMigrated ==
  \A j \in Job : job[j].stage = "done" =>
     /\ db.objects = Target
     /\ db.history = Folder

\* A worker of this build answers requests only on the schema it expects.
ServingOnTarget ==
  \A w \in Worker :
    worker[w] = [stage |-> "serving", build |-> "new"] => db.objects = Target

\* "otherwise the migration locks everyone out of their own console": as soon
\* as accounts have levels, one of them is an ADMIN.
SomeoneIsAdmin ==
  Has(db, LevelColumn) /\ DOMAIN db.rows # {} =>
     \E a \in DOMAIN db.rows : db.rows[a].level = "ADMIN"

LevelChanged(a) ==
  /\ a \in DOMAIN db.rows \cap DOMAIN db'.rows
  /\ db.rows[a].level # NULL
  /\ db'.rows[a].level # db.rows[a].level

\* "Re-running must not re-promote later VIEW/EDIT users": an account that
\* has a level keeps it through migrations, reruns and reseeding.
LevelsKept ==
  [][\A a \in Account : LevelChanged(a) => SetAccessLevel(a)]_deployVars
=============================================================================
