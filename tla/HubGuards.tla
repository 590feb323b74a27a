------------------------------ MODULE HubGuards ------------------------------
(***************************************************************************)
(* The guards in front of every route.  They read the claims of the        *)
(* presented access token and nothing else: no row of the database is      *)
(* consulted, so a token speaks for the account as it was when the token   *)
(* was signed.                                                             *)
(***************************************************************************)
EXTENDS Naturals

HubAccessLevel == {"VIEW", "EDIT", "ADMIN"}

HUB_ACCESS_HIERARCHY == [VIEW |-> 10, EDIT |-> 20, ADMIN |-> 30]

\* "full" is an ordinary token; the other two carry one of the restriction
\* flags isChangePasswordOnly and isTotpSetupOnly.
Scope == {"full", "password", "totp"}

CHANGE_PASSWORD_ONLY_HANDLERS == {"changePassword", "me"}

TOTP_SETUP_ONLY_HANDLERS == {"totpStatus", "totpSetup", "totpEnable", "me"}

JwtAuthGuard(token, handler) ==
  /\ token.scope = "password" => handler \in CHANGE_PASSWORD_ONLY_HANDLERS
  /\ token.scope = "totp"     => handler \in TOTP_SETUP_ONLY_HANDLERS

HubAccessGuard(token, minAccess) ==
  /\ token.access \in DOMAIN HUB_ACCESS_HIERARCHY
  /\ HUB_ACCESS_HIERARCHY[token.access] >= HUB_ACCESS_HIERARCHY[minAccess]
=============================================================================
