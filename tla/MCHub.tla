-------------------------------- MODULE MCHub --------------------------------
(***************************************************************************)
(* The whole hub on a small instance: ann administers, bob is signed in    *)
(* and has paired an authenticator.                                        *)
(***************************************************************************)
EXTENDS HubBackend, TLC

CONSTANTS ann, bob, annPw, bobPw, bobKey, bobCodes, tab, handle, default

MCSeed == {ann, bob, annPw, bobPw, bobKey, bobCodes, tab, handle, default}

Row(u, pw, level, secret) ==
  [email |-> u, pw |-> pw, level |-> level, active |-> TRUE, first |-> FALSE,
   required |-> FALSE, secret |-> secret, enabled |-> secret # NULL, last |-> 0]

BobsTab ==
  [user |-> bob, token |-> handle, prev |-> NULL, prevExp |-> 0,
   expires |-> StartClock + RefreshLife, under |-> bobPw]

Population2(annSecret, bobLevel, bobSecret) ==
  [users |-> ann :> Row(ann, annPw, "ADMIN", annSecret)
               @@ bob :> Row(bob, bobPw, bobLevel, bobSecret),
   sessions |-> tab :> BobsTab,
   codes |-> IF bobSecret = NULL THEN <<>>
             ELSE [c \in {bobCodes} \X (1..CodeCount) |->
                     [user |-> bob, used |-> FALSE]]]

\* bob is a viewer with an authenticator.
Viewer == {Population2(NULL, "VIEW", bobKey)}

\* Both are administrators; nobody has paired.
TwoAdmins == {Population2(NULL, "ADMIN", NULL)}

Either == Viewer \cup TwoAdmins

\* The requests differ only in name.
Requests == Permutations(Request)
=============================================================================
