----------------------------- MODULE MCPlatform -----------------------------
(***************************************************************************)
(* The platform on a small instance, deployed onto databases of each kind  *)
(* the migrations are written for.                                         *)
(***************************************************************************)
EXTENDS Platform

CONSTANTS seed, ops

Rows(role, levels) ==
  [a \in {seed, ops} |-> [role |-> role, level |-> levels[a]]]

Levels == seed :> "ADMIN" @@ ops :> "VIEW"
NoLevels == seed :> NULL @@ ops :> NULL

\* Created before migrations were tracked: the objects of the first k
\* migrations, and an empty migrations table.  (The InitialSchema of that
\* time gave the role a default.)
AdHoc(k) ==
  LET there == Migrate(Empty, 1..k)
  IN  [there EXCEPT
         !.history = {},
         !.objects = IF k = 1 THEN @ \cup {RoleDefault \o <<NULL>>} ELSE @,
         !.rows = Rows(IF k = 1 THEN "system_admin" ELSE "SYSTEM_ADMIN",
                       IF k < 4 THEN NoLevels ELSE Levels)]

\* Migrated, and n migrations reverted by hand since.
Reverted[n \in 0..Len(Up)] ==
  IF n = 0
  THEN [Migrate(Empty, Folder) EXCEPT !.rows = Rows("SYSTEM_ADMIN", Levels)]
  ELSE Revert(Reverted[n - 1])

MCDatabases ==
  {Empty} \cup {AdHoc(k) : k \in {1, 7}} \cup {Reverted[n] : n \in {4, 6}}

MCTokens ==
  {[access |-> level, scope |-> "full"] : level \in HubAccessLevel \cup {NULL}}
    \cup {[access |-> "ADMIN", scope |-> "totp"]}
=============================================================================
