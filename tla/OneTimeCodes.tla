---------------------------- MODULE OneTimeCodes ----------------------------
(***************************************************************************)
(* What the second factor promises, with no accounts, columns or requests  *)
(* in it: a secret that is live takes the codes of each time step at most  *)
(* once and never an older one after a newer one, and a secret that has    *)
(* taken a code and was given up is never live again.                      *)
(***************************************************************************)
EXTENDS Naturals

CONSTANT Secret

VARIABLES
  live,      \* the secrets some account holds
  accepted   \* the codes taken so far, as [secret, step]

Init ==
  /\ live \subseteq Secret
  /\ accepted = {}

Newest(code) ==
  \A old \in accepted : old.secret = code.secret => old.step < code.step

\* A code of a secret that was given up while the code was being checked may
\* still come through; nobody holds that secret any more.
Accept(code) ==
  /\ code.secret \in live => Newest(code)
  /\ accepted' = accepted \cup {code}
  /\ UNCHANGED live

\* Secrets are paired, replaced and removed.
Change(secrets) ==
  /\ secrets \subseteq Secret
  /\ \A code \in accepted : code.secret \notin secrets \ live
  /\ live' = secrets
  /\ UNCHANGED accepted

Next ==
  \/ \E code \in accepted' : Accept(code)
  \/ Change(live')

Spec == Init /\ [][Next]_<<live, accepted>>
=============================================================================
