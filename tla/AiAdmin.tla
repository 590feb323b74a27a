------------------------------ MODULE AiAdmin ------------------------------
(***************************************************************************)
(* The console's AI administration: every route hands the request to       *)
(* school-ai, which performs it, and turns what comes back into an answer. *)
(* Nothing of it is kept in the hub.  A client that was told neither yes   *)
(* nor no may send the same request again ("Please try again").            *)
(*                                                                         *)
(* Also here: the table of capabilities by which the console decides which *)
(* controls to show.                                                       *)
(***************************************************************************)
EXTENDS HubGuards

CONSTANTS
  Call,         \* what operators of the console set out to do
  Worker,       \* the workers that may serve them
  Tokens,       \* the access tokens they hold
  CalledRoutes, \* the routes they use
  MaxAttempts,  \* bound: how often a client sends the same request
  NULL          \* no value; as an `access' claim, one that is no level

VARIABLE calls
-----------------------------------------------------------------------------
(***************************************************************************)
(* Routes and capabilities.                                                *)
(***************************************************************************)
\* The routes of HubUsersController: one @MinAccess on the class for all.
HubUserRoutes ==
  {"list", "create", "update", "setAccessLevel", "toggleStatus", "resetPassword",
   "resetTotp", "setTotpRequired", "remove"}

\* @MinAccess of every route of AiAdminController.
AiAdminAccess ==
  [getOverview |-> "VIEW", listUsers |-> "VIEW", listPlans |-> "VIEW",
   grantCredits |-> "ADMIN", grantPlan |-> "ADMIN",
   createPlan |-> "ADMIN", updatePlan |-> "ADMIN", deletePlan |-> "ADMIN",
   getSettings |-> "ADMIN", updateSetting |-> "ADMIN",
   getLlmTiers |-> "ADMIN", updateLlmTiers |-> "ADMIN",
   createLlmTier |-> "ADMIN", deleteLlmTier |-> "ADMIN",
   listLlmModels |-> "ADMIN", updateAllowedModels |-> "ADMIN",
   getLlmPricing |-> "ADMIN", updateLlmPricing |-> "ADMIN",
   getFeatureRoles |-> "ADMIN", updateFeatureRoles |-> "ADMIN"]

MinAccess ==
  [route \in HubUserRoutes \cup DOMAIN AiAdminAccess |->
     IF route \in HubUserRoutes THEN "ADMIN" ELSE AiAdminAccess[route]]

\* Granting credits as the comment on the controller has it. (see ConsoleMirrorsGuards)
HUB_CAPABILITIES_GrantForEdit ==
  [hubUser_manage |-> "ADMIN", ai_read |-> "VIEW", ai_grantCredits |-> "EDIT",
   ai_grantPlan |-> "ADMIN", ai_plan_manage |-> "ADMIN", ai_settings |-> "ADMIN",
   ai_llmTiers |-> "ADMIN", ai_llmModels |-> "ADMIN", ai_llmPricing |-> "ADMIN",
   ai_featureRoles |-> "ADMIN", account_selfService |-> "VIEW"]

HUB_CAPABILITIES ==
  [hubUser_manage |-> "ADMIN", ai_read |-> "VIEW", ai_grantCredits |-> "ADMIN",
   ai_grantPlan |-> "ADMIN", ai_plan_manage |-> "ADMIN", ai_settings |-> "ADMIN",
   ai_llmTiers |-> "ADMIN", ai_llmModels |-> "ADMIN", ai_llmPricing |-> "ADMIN",
   ai_featureRoles |-> "ADMIN", account_selfService |-> "VIEW"]

\* The routes behind each control of the console.  Behind account_selfService
\* are those a restricted token is meant to reach although it is shown nothing.
Controls ==
  [hubUser_manage |-> HubUserRoutes,
   ai_read |-> {"getOverview", "listUsers", "listPlans"},
   ai_grantCredits |-> {"grantCredits"},
   ai_grantPlan |-> {"grantPlan"},
   ai_plan_manage |-> {"createPlan", "updatePlan", "deletePlan"},
   ai_settings |-> {"getSettings", "updateSetting"},
   ai_llmTiers |-> {"getLlmTiers", "updateLlmTiers", "createLlmTier", "deleteLlmTier"},
   ai_llmModels |-> {"listLlmModels", "updateAllowedModels"},
   ai_llmPricing |-> {"getLlmPricing", "updateLlmPricing"},
   ai_featureRoles |-> {"getFeatureRoles", "updateFeatureRoles"}]

\* An unrecognised level ranks below every requirement.
rankOf(level) ==
  IF level \in DOMAIN HUB_ACCESS_HIERARCHY THEN HUB_ACCESS_HIERARCHY[level] ELSE 0

capabilitiesFor(level) ==
  [c \in DOMAIN HUB_CAPABILITIES |->
     rankOf(level) >= HUB_ACCESS_HIERARCHY[HUB_CAPABILITIES[c]]]

\* GET auth/capabilities: a token that is refused there gets nothing shown.
Published(token) ==
  IF JwtAuthGuard(token, "capabilities") /\ HubAccessGuard(token, "VIEW")
  THEN capabilitiesFor(token.access)
  ELSE [c \in DOMAIN HUB_CAPABILITIES |-> FALSE]

Admitted(token, route) ==
  /\ JwtAuthGuard(token, route)
  /\ HubAccessGuard(token, MinAccess[route])
-----------------------------------------------------------------------------
(***************************************************************************)
(* A call: the request, the fetch, the answer.                             *)
(***************************************************************************)
Reply == {"2xx", "4xx", "5xx", "none"}

\* "failed" is a 500: the client knows neither way.
Answer == {"none", "forbidden", "rejected", "ok", "failed"}

\* `done' is history: how often school-ai performed the request; `told' and
\* `unsure' count the answers ok and failed.
CallState ==
  [stage : {"idle", "sent", "replied"}, at : Worker \cup {NULL},
   token : Tokens \cup {NULL}, route : CalledRoutes \cup {NULL},
   reply : Reply \cup {NULL}, answer : Answer,
   done : 0..MaxAttempts, told : 0..1, unsure : 0..MaxAttempts]

NoCall == [stage |-> "idle", at |-> NULL, token |-> NULL, route |-> NULL,
           reply |-> NULL, answer |-> "none", done |-> 0, told |-> 0, unsure |-> 0]

CallsTypeOK == calls \in [Call -> CallState]

CallsInit == calls = [c \in Call |-> NoCall]

\* The guards, then the ValidationPipe, then call(), which fetches.
Ask(c, w, token, route) ==
  /\ calls[c].answer = "none"
  /\ calls[c].stage = "idle"
  /\ \E valid \in BOOLEAN :
       calls' = [calls EXCEPT ![c] =
         IF Admitted(token, route) /\ valid
         THEN [@ EXCEPT !.stage = "sent", !.at = w, !.token = token, !.route = route]
         ELSE [@ EXCEPT !.token = token, !.route = route,
                        !.answer = IF Admitted(token, route)
                                   THEN "rejected" ELSE "forbidden"]]

\* "Could not reach AI service. Please try again."
AskAgain(c, w) ==
  /\ calls[c].stage = "idle"
  /\ calls[c].answer = "failed"
  /\ calls[c].unsure < MaxAttempts
  /\ calls' = [calls EXCEPT ![c].stage = "sent", ![c].at = w, ![c].answer = "none"]

\* What school-ai may have done when the fetch ends with this reply: a 4xx
\* comes from validation, a 5xx or a broken connection from any moment.
Performed(reply) ==
  CASE reply = "2xx" -> {1} [] reply = "4xx" -> {0} [] OTHER -> {0, 1}

Replies(c) ==
  /\ calls[c].stage = "sent"
  /\ \E reply \in Reply : \E n \in Performed(reply) :
       calls' = [calls EXCEPT ![c].stage = "replied", ![c].reply = reply,
                              ![c].done = @ + n]

AnswerToWithout5xx(reply) ==                          \* (see DoneAsTold)
  CASE reply = "2xx" -> {"ok", "failed"}
    [] reply \in {"4xx", "5xx"} -> {"rejected"}
    [] OTHER -> {"failed"}

\* A 2xx whose body cannot be read is a 500 like the rest.
AnswerTo(reply) ==
  CASE reply = "2xx" -> {"ok", "failed"}
    [] reply = "4xx" -> {"rejected"}
    [] OTHER -> {"failed"}

Answered(call, answer) ==
  [call EXCEPT !.stage = "idle", !.at = NULL, !.reply = NULL, !.answer = answer,
               !.told = IF answer = "ok" THEN @ + 1 ELSE @,
               !.unsure = IF answer = "failed" THEN @ + 1 ELSE @]

Answers(c) ==
  /\ calls[c].stage = "replied"
  /\ \E answer \in AnswerTo(calls[c].reply) :
       calls' = [calls EXCEPT ![c] = Answered(@, answer)]

\* The workers of `dead' are gone: their clients' connections break, and
\* school-ai may or may not have got as far as performing the request.
Broken(call, n) == [Answered(call, "failed") EXCEPT !.done = @ + n]

Dropped(dead) ==
  \E n \in [Call -> {0, 1}] :
    /\ \A c \in Call : n[c] = 1 => calls[c].at \in dead /\ calls[c].stage = "sent"
    /\ calls' = [c \in Call |-> IF calls[c].at \in dead
                                THEN Broken(calls[c], n[c]) ELSE calls[c]]
-----------------------------------------------------------------------------
(***************************************************************************)
(* Properties.                                                             *)
(***************************************************************************)
\* What an operator may conclude from the answers: a request that was
\* answered ok has been performed, and no request more often than the
\* answers ok and the answers that left it open.
DoneAsTold ==
  \A c \in Call : calls[c].stage = "idle" =>
     /\ calls[c].told <= calls[c].done
     /\ calls[c].done <= calls[c].told + calls[c].unsure

\* "publishes the hub's own permission rules ... instead of rendering buttons
\* that 403": a control is shown exactly to the tokens that every route
\* behind it admits, restricted tokens and tokens without a level included.
ConsoleMirrorsGuards ==
  \A c \in Call : calls[c].token # NULL =>
     LET shown == Published(calls[c].token)
     IN  \A control \in DOMAIN Controls : \A route \in Controls[control] :
           shown[control] <=> Admitted(calls[c].token, route)
=============================================================================
