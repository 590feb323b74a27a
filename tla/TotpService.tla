----------------------------- MODULE TotpService -----------------------------
(***************************************************************************)
(* The second factor: pairing an authenticator, verifying its codes, and   *)
(* the recovery codes that stand in for it.                                *)
(*                                                                         *)
(* A typed code is abstracted to its time step: verify either rejects it,  *)
(* or finds it to be the code of the loaded secret at a step of the window *)
(* around the current one and above the loaded watermark.                  *)
(***************************************************************************)
EXTENDS HubTables

\* A change that forgets to look at totpEnabledAt (see PairingConfirmed).
MayPairAgain(u) == u \in DOMAIN users

\* Both the pairing screen's routes refuse an unknown or an enrolled account.
MayPair(u) == u \in DOMAIN users /\ ~users[u].enabled

Enrolled(u) == u \in DOMAIN users /\ users[u].enabled
-----------------------------------------------------------------------------
(***************************************************************************)
(* setup().  "setup" is the call the screen makes when it loads, "rotate"  *)
(* the deliberate start-over.                                              *)
(***************************************************************************)
PendingSecret(op, u) == IF op = "rotate" THEN NULL ELSE users[u].secret

SetupStart(r) ==
  \E t \in Bearers("totpSetup", "VIEW"), op \in {"setup", "rotate"} :
    /\ Admit(r, op)
    /\ \/ /\ ~MayPair(t.sub)
          /\ Refuse(r)
       \/ /\ MayPair(t.sub)
          /\ PendingSecret(op, t.sub) # NULL
          /\ Respond(r, [Plain("paired") EXCEPT
                                     !.shown = PendingSecret(op, t.sub)])
       \/ /\ MayPair(t.sub)
          /\ PendingSecret(op, t.sub) = NULL
          /\ req' = [req EXCEPT ![r] = Loaded(op, "storeSecret", t.sub)]
    /\ UNCHANGED tables

\* A start-over that keeps the secret and clears the watermark (see
\* CodesOnce).
WithSecretKept(row, secret) ==
  [row EXCEPT !.secret = IF @ = NULL THEN secret ELSE @, !.last = 0]

WithSecret(row, secret) == [row EXCEPT !.secret = secret, !.last = 0]

StoreSecret(r) ==
  /\ At(r, "storeSecret")
  /\ users' = Updated(users, req[r].uid, WithSecret(users[req[r].uid], r))
  /\ Respond(r, [Plain("paired") EXCEPT !.shown = r])
  /\ UNCHANGED <<sessions, codes, tokens, clock, revoked>>
-----------------------------------------------------------------------------
(***************************************************************************)
(* enable(), regenerateRecoveryCodes() and disable() up to verifyCode().   *)
(***************************************************************************)
EnableStart(r) ==
  \E t \in Bearers("totpEnable", "VIEW") :
    /\ Admit(r, "enable")
    /\ \/ /\ ~(MayPair(t.sub) /\ users[t.sub].secret # NULL)
          /\ Refuse(r)
       \/ /\ MayPair(t.sub)
          /\ users[t.sub].secret # NULL
          /\ req' = [req EXCEPT ![r] = Loaded("enable", "verify", t.sub)]
    /\ UNCHANGED tables

RegenerateStart(r) ==
  \E t \in Bearers("regenerateRecoveryCodes", "VIEW") :
    /\ Admit(r, "regenerate")
    /\ \/ /\ ~Enrolled(t.sub)
          /\ Refuse(r)
       \/ /\ Enrolled(t.sub)
          /\ req' = [req EXCEPT ![r] = Loaded("regenerate", "verify", t.sub)]
    /\ UNCHANGED tables

MayDisable(u, password) ==
  /\ Enrolled(u)
  /\ ~users[u].required
  /\ users[u].pw = password

DisableStart(r) ==
  \E t \in Bearers("totpDisable", "VIEW"), password \in Name :
    /\ Admit(r, "disable")
    /\ \/ /\ ~MayDisable(t.sub, password)
          /\ Refuse(r)
       \/ /\ MayDisable(t.sub, password)
          /\ req' = [req EXCEPT ![r] = Loaded("disable", "verify", t.sub)]
    /\ UNCHANGED tables
-----------------------------------------------------------------------------
(***************************************************************************)
(* verifyCode(): reads against the loaded row, then one conditional UPDATE *)
(* that burns the step.                                                    *)
(***************************************************************************)
\* TOTP_EPOCH_TOLERANCE is one period either side.
Window == {t \in 1..(clock + 1) : t + 1 >= clock}

Acceptable(row, t) ==
  /\ row.secret # NULL
  /\ t \in Window
  /\ t > row.last

VerifyAccepts(r) ==
  /\ At(r, "verify")
  /\ \E t \in Window :
       /\ Acceptable(req[r].usr, t)
       /\ req' = [req EXCEPT ![r].pc = "burn", ![r].step = t]
  /\ UNCHANGED tables

VerifyRejects(r) ==
  /\ At(r, "verify")
  /\ Refuse(r)
  /\ UNCHANGED tables

\* A plain UPDATE by id (see WatermarkCovers).
BurnableAnyStep(u, step) == u \in DOMAIN users

\* An UPDATE that lets the last step through again (see CodeAcceptedOnce).
BurnableTwice(u, step) == u \in DOMAIN users /\ users[u].last <= step

\* WHERE id = :id AND ("totpLastStep" IS NULL OR "totpLastStep" < :step)
Burnable(u, step) == u \in DOMAIN users /\ users[u].last < step

\* A regeneration that adds to the old set (see OneWholeSet).
AfterVerifyAdding(op) ==
  CASE op = "enable"     -> "setEnabled"
    [] op = "regenerate" -> "issueCodes"
    [] op = "disable"    -> "clearTotp"
    [] OTHER             -> "settle"

AfterVerify(op) ==
  CASE op = "enable"     -> "setEnabled"
    [] op = "regenerate" -> "dropCodes"
    [] op = "disable"    -> "clearTotp"
    [] OTHER             -> "settle"

Burn(r) ==
  /\ At(r, "burn")
  /\ LET q == req[r] IN
     \/ /\ Burnable(q.uid, q.step)
        /\ users' = [users EXCEPT ![q.uid].last = q.step]
        /\ req' = [req EXCEPT ![r].pc = AfterVerify(q.op),
                              ![r].accepted = [user |-> q.uid,
                                               secret |-> q.usr.secret,
                                               step |-> q.step]]
     \/ /\ ~Burnable(q.uid, q.step)
        /\ Refuse(r)
        /\ UNCHANGED users
  /\ UNCHANGED <<sessions, codes, tokens, clock, revoked>>
-----------------------------------------------------------------------------
(***************************************************************************)
(* What follows a verified code.                                           *)
(***************************************************************************)
SetEnabled(r) ==
  /\ At(r, "setEnabled")
  /\ users' = Updated(users, req[r].uid, [users[req[r].uid] EXCEPT !.enabled = TRUE])
  /\ Goto(r, "dropCodes")
  /\ UNCHANGED <<sessions, codes, tokens, clock, revoked>>

\* A watermark column that is not a number (see TypeOK).
WithNullWatermark(row) ==
  [row EXCEPT !.secret = NULL, !.enabled = FALSE, !.last = NULL]

WithoutTotp(row) == [row EXCEPT !.secret = NULL, !.enabled = FALSE, !.last = 0]

ClearTotp(r) ==
  /\ At(r, "clearTotp")
  /\ users' = Updated(users, req[r].uid, WithoutTotp(users[req[r].uid]))
  /\ Goto(r, "dropCodes")
  /\ UNCHANGED <<sessions, codes, tokens, clock, revoked>>

\* The DELETE of issueRecoveryCodes(), and the one that ends disable().
DropCodes(r) ==
  /\ At(r, "dropCodes")
  /\ codes' = Delete(codes, CodesOf(req[r].uid))
  /\ \/ /\ req[r].op = "disable"
        /\ Respond(r, Plain("done"))
     \/ /\ req[r].op # "disable"
        /\ Goto(r, "issueCodes")
  /\ UNCHANGED <<users, sessions, tokens, clock, revoked>>

Batch(r) == {r} \X (1..CodeCount)

\* One INSERT of the whole set; it fails when the account is gone.
IssueCodes(r) ==
  /\ At(r, "issueCodes")
  /\ \/ /\ req[r].uid \in DOMAIN users
        /\ codes' = Insert(codes, Batch(r), [user |-> req[r].uid, used |-> FALSE])
        /\ Respond(r, Plain("codes"))
     \/ /\ req[r].uid \notin DOMAIN users
        /\ Respond(r, Plain("failed"))
        /\ UNCHANGED codes
  /\ UNCHANGED <<users, sessions, tokens, clock, revoked>>
-----------------------------------------------------------------------------
TotpStep(r) ==
  \/ SetupStart(r) \/ StoreSecret(r)
  \/ EnableStart(r) \/ RegenerateStart(r) \/ DisableStart(r)
  \/ VerifyAccepts(r) \/ VerifyRejects(r) \/ Burn(r)
  \/ SetEnabled(r) \/ ClearTotp(r) \/ DropCodes(r) \/ IssueCodes(r)

TotpNext ==
  \/ \E r \in Request : TotpStep(r) \/ Abandon(r)
  \/ Tick
  \/ Quiet

TotpSpec == Init /\ [][TotpNext]_vars
-----------------------------------------------------------------------------
(***************************************************************************)
(* Properties.                                                             *)
(***************************************************************************)
\* The watermark of an account is at or above every code accepted against
\* the secret it holds now, however verifications, pairings and removals
\* interleave: no write order can leave an accepted code above it.
WatermarkCovers ==
  \A r \in Request, u \in DOMAIN users :
    /\ req[r].accepted # NULL
    /\ req[r].accepted.secret = users[u].secret
    => req[r].accepted.step <= users[u].last

\* verifyCode() never accepts a code that some request got accepted before,
\* as long as the secret it belongs to is still the account's.
AcceptsOnlyFreshCodes ==
  \A r \in Request :
    LET code == req'[r].accepted IN
      /\ req[r].accepted = NULL
      /\ code # NULL
      /\ code.user \in DOMAIN users
      /\ code.secret = users[code.user].secret
      => \A q \in Request : req[q].accepted # code

CodeAcceptedOnce == [][AcceptsOnlyFreshCodes]_vars

\* The second factor implements its specification: seen through the secrets in
\* the rows and the codes in the requests, every step is one of OneTimeCodes.
LiveSecrets == {users[u].secret : u \in DOMAIN users} \ {NULL}

AcceptedCodes ==
  {[secret |-> req[r].accepted.secret, step |-> req[r].accepted.step] :
     r \in {q \in Request : req[q].accepted # NULL}}

Codes == INSTANCE OneTimeCodes
           WITH Secret <- Name, live <- LiveSecrets, accepted <- AcceptedCodes

CodesOnce == Codes!Spec

\* "Set once the user has proved they can produce a code from the secret": what
\* an account is enrolled with is a secret that a code was accepted of.  That is
\* so as long as requests do not overlap.
PairingConfirmed ==
  \A u \in DOMAIN users :
    users[u].enabled =>
      \/ users[u].secret \in Seed
      \/ \E r \in Request : /\ req[r].accepted # NULL
                           /\ req[r].accepted.secret = users[u].secret

\* "Reuse a pending secret rather than minting a new one on every call": with
\* nobody rotating or removing, a secret the pairing screen was given when it
\* loaded stays the account's, so a second tab does not invalidate the first.
ShownSecretStands ==
  \A r \in Request :
    req[r].out.kind = "paired" =>
      \E u \in DOMAIN users : users[u].secret = req[r].out.shown

\* Between requests an enrolled account has one whole set of recovery codes,
\* all from one issue, and an account without two-factor has none.
OneWholeSet ==
  InFlight = {} =>
    \A u \in DOMAIN users :
      IF users[u].enabled
        THEN \E b \in Name : CodesOf(u) = {b} \X (1..CodeCount)
        ELSE CodesOf(u) = {}
=============================================================================
