------------------------------ MODULE Platform ------------------------------
(***************************************************************************)
(* The hub as it is operated: deployments, worker boots and administrators *)
(* on one side, the console's calls riding on the workers on the other.  A *)
(* worker that goes down takes the calls it was serving with it.           *)
(***************************************************************************)
EXTENDS Deployment

CONSTANTS Call, Tokens, CalledRoutes, MaxAttempts

ASSUME PlatformAssumption == MaxAttempts \in Nat \ {0} /\ NULL \notin Worker

VARIABLE calls

INSTANCE AiAdmin

platformVars == <<db, dist, installed, job, worker, owner, disturbances, calls>>

Serving(w) == worker[w].stage = "serving"

Dead == {w \in Worker : Serving(w) /\ worker'[w].stage # "serving"}

CallStep(c) ==
  /\ \/ \E w \in Worker :
          /\ Serving(w)
          /\ \/ \E token \in Tokens, route \in CalledRoutes : Ask(c, w, token, route)
             \/ AskAgain(c, w)
     \/ Replies(c)
     \/ Answers(c)
  /\ UNCHANGED deployVars

\* Nothing is left to do: the deployments are over and nobody asks any more.
Settled ==
  /\ \A j \in Job : job[j].stage \in Ended
  /\ \A c \in Call : calls[c].stage = "idle"
  /\ UNCHANGED platformVars

PlatformInit == DeploymentInit /\ CallsInit

PlatformNext ==
  \/ DeploymentNext /\ Dropped(Dead)
  \/ \E c \in Call : CallStep(c)
  \/ Settled

\* PM2 restarts what died and the boot goes on; nothing is assumed of the
\* workflow, of school-ai or of the people.
PlatformFairness ==
  \A w \in Worker :
    WF_platformVars((Boot(w) \/ FindSeed(w) \/ InsertSeed(w) \/ SeedTaken(w))
                      /\ UNCHANGED calls)

PlatformSpec == PlatformInit /\ [][PlatformNext]_platformVars /\ PlatformFairness
-----------------------------------------------------------------------------
(***************************************************************************)
(* Properties.                                                             *)
(***************************************************************************)
PlatformTypeOK == DeploymentTypeOK /\ CallsTypeOK

\* Once a job has ended green that ran npm ci undisturbed, and nobody has begun
\* another npm ci or removed dist/ since, every worker comes to serve, whatever
\* other jobs did before or to the database, and whatever befell the workers.
Green == owner # NULL /\ job[owner].stage = "done"

GreenMeansServing == \A w \in Worker : <>[]Green => []<>Serving(w)
=============================================================================
