------------------------------- MODULE MCAuth -------------------------------
(***************************************************************************)
(* AuthService on a small instance: one account, signed in on one device,  *)
(* in each of the states the sign-in code tells apart.                     *)
(***************************************************************************)
EXTENDS AuthService, TLC

CONSTANTS ann, annPw, annKey, annCodes, tab, handle, default

MCSeed == {ann, annPw, annKey, annCodes, tab, handle, default}

Row(first, required, enabled) ==
  [email |-> ann, pw |-> IF first THEN default ELSE annPw, level |-> "ADMIN",
   active |-> TRUE, first |-> first, required |-> required,
   secret |-> IF enabled THEN annKey ELSE NULL, enabled |-> enabled, last |-> 0]

\* A reset ends every session; the other accounts have one.  (That of a
\* required account was left by a worker that died before revoking it.)
OneAccount(row) ==
  [users |-> ann :> row,
   sessions |-> IF row.first THEN <<>>
     ELSE tab :> [user |-> ann, token |-> handle, prev |-> NULL, prevExp |-> 0,
                  expires |-> StartClock + 1, under |-> row.pw],
   codes |-> IF ~row.enabled THEN <<>>
     ELSE [c \in {annCodes} \X (1..CodeCount) |-> [user |-> ann, used |-> FALSE]]]

PlainAccount == {OneAccount(Row(FALSE, FALSE, FALSE))}

EnrolledAccount == {OneAccount(Row(FALSE, FALSE, TRUE))}

\* The pairing screen was opened and not finished.
PendingAccount ==
  {OneAccount([Row(FALSE, FALSE, FALSE) EXCEPT !.secret = annKey])}

PendingOrEnrolled == PendingAccount \cup EnrolledAccount

\* Besides plain and enrolled: required but not enrolled, and enrolled with
\* its password just reset.
EveryAccount ==
  PlainAccount \cup EnrolledAccount
    \cup {OneAccount(Row(FALSE, TRUE, FALSE)), OneAccount(Row(TRUE, FALSE, TRUE))}

\* The requests differ only in name.
Requests == Permutations(Request)
=============================================================================
