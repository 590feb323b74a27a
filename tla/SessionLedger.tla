---------------------------- MODULE SessionLedger ----------------------------
(***************************************************************************)
(* What the rotating session handles promise when requests do not overlap: *)
(* a session is opened once, for one account, and never again once it has  *)
(* ended; it has one handle at a time, and a handle that was replaced or   *)
(* whose session ended never opens anything again.                         *)
(***************************************************************************)
EXTENDS Functions

VARIABLES
  open,   \* by session: the account and the current handle
  ended,  \* the sessions that are over
  spent   \* the handles that were replaced, or belong to an ended session

Current == {open[s].handle : s \in DOMAIN open}

Init ==
  /\ ended \cap DOMAIN open = {}
  /\ spent \cap Current = {}

Open(s, session) ==
  /\ s \notin DOMAIN open \cup ended
  /\ session.handle \notin Current \cup spent
  /\ open' = [t \in DOMAIN open \cup {s} |->
                IF t = s THEN session ELSE open[t]]
  /\ UNCHANGED <<ended, spent>>

Rotate(s, handle) ==
  /\ handle \notin Current \cup spent
  /\ open' = [open EXCEPT ![s].handle = handle]
  /\ spent' = spent \cup {open[s].handle}
  /\ UNCHANGED ended

End(gone) ==
  /\ open' = Restrict(open, DOMAIN open \ gone)
  /\ ended' = ended \cup gone
  /\ spent' = spent \cup {open[s].handle : s \in gone}

Next ==
  \/ \E s \in DOMAIN open' : Open(s, open'[s])
  \/ \E s \in DOMAIN open \cap DOMAIN open' : Rotate(s, open'[s].handle)
  \/ \E gone \in SUBSET DOMAIN open : gone # {} /\ End(gone)

Spec == Init /\ [][Next]_<<open, ended, spent>>
=============================================================================
