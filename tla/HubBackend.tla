------------------------------ MODULE HubBackend ------------------------------
(***************************************************************************)
(* The whole hub: the account holders' requests and the administrators'    *)
(* in the same workers, over the same tables.                              *)
(***************************************************************************)
EXTENDS AuthService, HubUsersService

Step(r) == TotpStep(r) \/ AuthStep(r) \/ HubUsersStep(r)

Next ==
  \/ \E r \in Request : Step(r) \/ Abandon(r)
  \/ Tick
  \/ Quiet

Spec == Init /\ [][Next]_vars

\* The event loop gets round to every continuation and the database answers
\* every statement, so a request that has begun takes its next step, unless
\* its worker dies.
Fairness == \A r \in Request : WF_vars(r \in InFlight /\ Step(r))

FairSpec == Spec /\ Fairness
-----------------------------------------------------------------------------
(***************************************************************************)
(* Properties.                                                             *)
(***************************************************************************)
\* There is always an active account of level ADMIN: no series of demotions,
\* deactivations and removals gets past assertNotLastActiveAdmin().
SomeoneAdministers == ActiveAdmins # {}

\* Between requests, no session belongs to an account that still has to
\* replace a password an administrator gave it.
NoSessionBeforePasswordChange ==
  InFlight = {} => \A s \in DOMAIN sessions : ~users[sessions[s].user].first

\* "A deactivated user must stop being able to act *now*": between requests a
\* deactivated account holds no session.
DeactivatedHoldNoSession ==
  InFlight = {} => \A s \in DOMAIN sessions : users[sessions[s].user].active
=============================================================================
