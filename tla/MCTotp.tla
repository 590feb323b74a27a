------------------------------- MODULE MCTotp -------------------------------
(***************************************************************************)
(* TotpService on a small instance: bob has never paired an authenticator. *)
(***************************************************************************)
EXTENDS TotpService, TLC

CONSTANTS bob, default

MCSeed == {bob, default}

MCPopulation ==
  {[users |-> bob :>
      [email |-> bob, pw |-> bob, level |-> "ADMIN", active |-> TRUE,
       first |-> FALSE, required |-> FALSE, secret |-> NULL, enabled |-> FALSE,
       last |-> 0],
    sessions |-> <<>>,
    codes |-> <<>>]}

\* The requests differ only in name.
Requests == Permutations(Request)
=============================================================================
