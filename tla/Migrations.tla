----------------------------- MODULE Migrations -----------------------------
(***************************************************************************)
(* The hub's schema and the seven migrations that build it, statement by   *)
(* statement.                                                              *)
(*                                                                         *)
(* A database is what pg_catalog shows of it (`objects'), the rows of      *)
(* hub_user by address (`rows'), the migrations table (`history', by       *)
(* position in the folder), and whether the statements so far succeeded    *)
(* (`ok').  An object is a triple: where it lives, its name, and the type  *)
(* of a column or the labels of an enum.  Columns that no statement        *)
(* touches again come with their table.                                    *)
(***************************************************************************)
EXTENDS Naturals, SequencesExt

CONSTANT NULL

Key(object) == <<object[1], object[2]>>
Table(name) == <<"table", name>>
Enum(name)  == <<"type", name>>

Has(db, key) == \E object \in db.objects : Key(object) = key

RoleEnum  == Enum("hub_user_role_enum")
RoleType  == <<"hub_user", "role">>
RoleDefault == <<"hub_user", "role default">>
LevelColumn == <<"hub_user", "accessLevel">>

OnRows(db, field, value) ==
  [a \in DOMAIN db.rows |-> [db.rows[a] EXCEPT ![field] = value]]
-----------------------------------------------------------------------------
(***************************************************************************)
(* What Postgres does with one change of the schema.                       *)
(***************************************************************************)
Add(in, name, type)  == [change |-> "add", object |-> <<in, name, type>>]
Drop(key)            == [change |-> "drop", key |-> key]
Rename(from, to)     == [change |-> "rename", from |-> from, to |-> to]
Recast(role)         == [change |-> "recast", role |-> role]
FillLevels(level)    == [change |-> "fill", level |-> level]

\* An object needs its table and its type, a name is given once, a type that
\* a column has cannot go, a default stands in the way of a recast.
Legal(c, db) ==
  CASE c.change = "add" ->
         /\ ~Has(db, Key(c.object))
         /\ c.object[1] \notin {"table", "type"} =>
              /\ Has(db, Table(c.object[1]))
              /\ c.object[3] # NULL => Has(db, Enum(c.object[3]))
    [] c.change = "drop" ->
         /\ Has(db, c.key)
         /\ c.key[1] = "type" =>
              \A o \in db.objects : o[1] # "type" => o[3] # c.key[2]
    [] c.change = "rename" -> Has(db, Enum(c.from)) /\ ~Has(db, Enum(c.to))
    [] c.change = "recast" -> Has(db, RoleType) /\ ~Has(db, RoleDefault)
    [] c.change = "fill"   -> Has(db, LevelColumn)

\* A table takes its columns, constraints and indexes with it.
Gone(key, o) == Key(o) = key \/ (key[1] = "table" /\ o[1] = key[2])

Renamed(c, o) ==
  IF Key(o) = Enum(c.from) THEN <<o[1], c.to, o[3]>>
  ELSE IF o[3] = c.from THEN <<o[1], o[2], c.to>> ELSE o

Applied(c, db) ==
  CASE c.change = "add" ->
         [db EXCEPT !.objects = @ \cup {c.object},
            !.rows = IF Key(c.object) = LevelColumn
                     THEN OnRows(db, "level", "VIEW") ELSE @]
    [] c.change = "drop" ->
         [db EXCEPT !.objects = {o \in @ : ~Gone(c.key, o)},
            !.rows = CASE c.key = LevelColumn -> OnRows(db, "level", NULL)
                       [] c.key = Table("hub_user") -> <<>>
                       [] OTHER -> @]
    [] c.change = "rename" ->
         [db EXCEPT !.objects = {Renamed(c, o) : o \in @}]
    [] c.change = "recast" ->
         [db EXCEPT !.objects = {o \in @ : Key(o) # RoleType}
                                  \cup {<<"hub_user", "role", RoleEnum[2]>>},
                    !.rows = OnRows(db, "role", c.role)]
    [] c.change = "fill" ->
         [db EXCEPT !.rows = OnRows(db, "level", c.level)]

Change(db, c) ==
  IF ~db.ok THEN db
  ELSE IF Legal(c, db) THEN Applied(c, db) ELSE [db EXCEPT !.ok = FALSE]

\* IF NOT EXISTS (or a DO block that asks the catalog), IF EXISTS, or plain.
Unless(key, run) == [guard |-> "absent", key |-> key, run |-> run]
IfThere(key)     == [guard |-> "present", key |-> key, run |-> <<Drop(key)>>]
Always(run)      == [guard |-> "none", key |-> NULL, run |-> run]

Fires(statement, db) ==
  CASE statement.guard = "absent"  -> ~Has(db, statement.key)
    [] statement.guard = "present" -> Has(db, statement.key)
    [] statement.guard = "none"    -> TRUE

Execute(db, statement) ==
  IF db.ok /\ Fires(statement, db) THEN FoldLeft(Change, db, statement.run) ELSE db

\* ADD COLUMN IF NOT EXISTS, CREATE INDEX IF NOT EXISTS, ADD CONSTRAINT in a
\* DO block: each with the table it is on.
Extend(table, names) ==
  [i \in DOMAIN names |->
     Unless(<<table, names[i]>>, <<Add(table, names[i], NULL)>>)]

Strip(table, names) == [i \in DOMAIN names |-> IfThere(<<table, names[i]>>)]
-----------------------------------------------------------------------------
(***************************************************************************)
(* The migrations, in the order of their timestamps.                       *)
(***************************************************************************)
SchoolEnums ==
  <<Unless(Enum("school_status_enum"), <<Add("type", "school_status_enum", NULL)>>),
    Unless(Enum("school_environment_enum"),
           <<Add("type", "school_environment_enum", NULL)>>)>>

SchoolTable ==
  <<Add("table", "school", NULL), Add("school", "status", "school_status_enum"),
    Add("school", "environment", "school_environment_enum")>>

CreateRoleEnumUnguarded ==                            \* (see MigrationsApply)
  Always(<<Add("type", "hub_user_role_enum", "school_owner")>>)

CreateRoleEnum ==
  Unless(RoleEnum, <<Add("type", "hub_user_role_enum", "school_owner")>>)

InitialSchema ==
  <<Unless(Table("service_token"), <<Add("table", "service_token", NULL)>>)>>
  \o SchoolEnums
  \o <<Unless(Table("school"), SchoolTable),
       CreateRoleEnum,
       Unless(Table("hub_user"),
              <<Add("table", "hub_user", NULL), Add("hub_user", "schoolId", NULL),
                Add("hub_user", "role", "hub_user_role_enum")>>)>>

InitialSchemaDown ==
  <<IfThere(Table("hub_user")), IfThere(RoleEnum), IfThere(Table("school")),
    IfThere(Enum("school_environment_enum")), IfThere(Enum("school_status_enum")),
    IfThere(Table("service_token"))>>

\* RENAME the old enum aside, CREATE the new one, recast the column.
RecastRole(aside, labels, role) ==
  <<Always(<<Rename(RoleEnum[2], aside)>>),
    Always(<<Add("type", RoleEnum[2], labels)>>),
    IfThere(RoleDefault),
    Always(<<Recast(role)>>),
    Always(<<Add("hub_user", RoleDefault[2], NULL)>>),
    Always(<<Drop(Enum(aside))>>)>>

TrimHubSchema ==
  <<IfThere(Table("service_token")), IfThere(Table("school")),
    IfThere(Enum("school_environment_enum")), IfThere(Enum("school_status_enum")),
    IfThere(<<"hub_user", "schoolId">>)>>
  \o RecastRole("hub_user_role_enum_old", "SYSTEM_ADMIN", "SYSTEM_ADMIN")

TrimHubSchemaDown ==
  RecastRole("hub_user_role_enum_new", "school_owner", "system_admin")
  \o <<Always(<<Add("hub_user", "schoolId", NULL),
                Add("type", "school_status_enum", NULL),
                Add("type", "school_environment_enum", NULL)>>
              \o SchoolTable \o <<Add("table", "service_token", NULL)>>)>>

RefreshTokenObjects ==
  <<"UQ_hub_refresh_token_token", "IDX_hub_refresh_token_previousToken",
    "IDX_hub_refresh_token_hubUserId", "FK_hub_refresh_token_hubUserId">>

HubRefreshToken ==
  <<Unless(Table("hub_refresh_token"), <<Add("table", "hub_refresh_token", NULL)>>)>>
  \o Extend("hub_refresh_token", RefreshTokenObjects)

HubRefreshTokenDown ==
  Strip("hub_refresh_token", Reverse(RefreshTokenObjects))
  \o <<IfThere(Table("hub_refresh_token"))>>

TotpColumns ==
  <<"name", "isActive", "createdById", "lastLoginAt", "totpSecret", "totpEnabledAt",
    "totpLastStep">>

RecoveryCodeObjects ==
  <<"IDX_hub_user_recovery_code_hubUserId", "FK_hub_user_recovery_code_hubUserId">>

\* Backfilled whether or not the column was there.         (see LevelsKept)
AddAccessLevelBackfillingAlways ==
  <<Unless(LevelColumn, <<Add("hub_user", "accessLevel", "hub_access_level_enum")>>),
    Always(<<FillLevels("ADMIN")>>)>>

\* The column and its backfill share one guard.
AddAccessLevel ==
  <<Unless(LevelColumn,
           <<Add("hub_user", "accessLevel", "hub_access_level_enum"),
             FillLevels("ADMIN")>>)>>

HubUserAccessAndTotp ==
  <<Unless(Enum("hub_access_level_enum"),
           <<Add("type", "hub_access_level_enum", "VIEW EDIT ADMIN")>>)>>
  \o AddAccessLevel
  \o Extend("hub_user", TotpColumns)
  \o <<Unless(Table("hub_user_recovery_code"),
              <<Add("table", "hub_user_recovery_code", NULL)>>)>>
  \o Extend("hub_user_recovery_code", RecoveryCodeObjects)

HubUserAccessAndTotpDown ==
  Strip("hub_user_recovery_code", Reverse(RecoveryCodeObjects))
  \o <<IfThere(Table("hub_user_recovery_code"))>>
  \o Strip("hub_user", Reverse(TotpColumns))
  \o <<IfThere(LevelColumn), IfThere(Enum("hub_access_level_enum"))>>

HubUserMobile     == Extend("hub_user", <<"mobile", "UQ_hub_user_mobile">>)
HubUserMobileDown == Strip("hub_user", <<"UQ_hub_user_mobile", "mobile">>)

HubUserTotpBypass     == Extend("hub_user", <<"totpBypassedAt">>)
HubUserTotpBypassDown == Strip("hub_user", <<"totpBypassedAt">>)

HubUserTotpRequired     == Extend("hub_user", <<"totpRequired">>)
HubUserTotpRequiredDown == Strip("hub_user", <<"totpRequired">>)

Up == <<InitialSchema, TrimHubSchema, HubRefreshToken, HubUserAccessAndTotp,
        HubUserMobile, HubUserTotpBypass, HubUserTotpRequired>>

Down == <<InitialSchemaDown, TrimHubSchemaDown, HubRefreshTokenDown,
          HubUserAccessAndTotpDown, HubUserMobileDown, HubUserTotpBypassDown,
          HubUserTotpRequiredDown>>

Folder == DOMAIN Up
-----------------------------------------------------------------------------
(***************************************************************************)
(* The TypeORM runner.                                                     *)
(***************************************************************************)
Pending(db) == Folder \ db.history

\* One migration of the folder, if its turn comes: it is recorded when it has run.
Take(db, turn) ==
  IF turn.listed
  THEN [FoldLeft(Execute, db, Up[turn.at]) EXCEPT !.history = @ \cup {turn.at}]
  ELSE db

\* migration:run: the listed migrations in one transaction, which commits if
\* every statement succeeded.
Migrate(db, list) ==
  FoldLeft(Take, db, [n \in Folder |-> [at |-> n, listed |-> n \in list]])

\* migration:revert: the down() of the newest recorded migration.
Revert(db) ==
  LET n == Max(db.history)
  IN  [FoldLeft(Execute, db, Down[n]) EXCEPT !.history = @ \ {n}]

Empty == [objects |-> {}, rows |-> <<>>, history |-> {}, ok |-> TRUE]
-----------------------------------------------------------------------------
(***************************************************************************)
(* The databases the folder is written for: "whatever exists is kept,      *)
(* whatever is missing is created".                                        *)
(***************************************************************************)
\* NULL is the type of what has none.
ASSUME SchemaAssumption ==
  NULL \notin {"hub_user_role_enum", "hub_user_role_enum_old", "school_status_enum",
               "school_environment_enum"}

On(table, names) == {<<table, names[i], NULL>> : i \in DOMAIN names}

\* What each migration adds to the schema of this build ...
Leaves ==
  <<{},
    {<<"table", "hub_user", NULL>>, <<"type", "hub_user_role_enum", "SYSTEM_ADMIN">>,
     <<"hub_user", "role", "hub_user_role_enum">>, <<"hub_user", "role default", NULL>>},
    {<<"table", "hub_refresh_token", NULL>>}
      \cup On("hub_refresh_token", RefreshTokenObjects),
    {<<"type", "hub_access_level_enum", "VIEW EDIT ADMIN">>,
     <<"hub_user", "accessLevel", "hub_access_level_enum">>,
     <<"table", "hub_user_recovery_code", NULL>>}
      \cup On("hub_user", TotpColumns)
      \cup On("hub_user_recovery_code", RecoveryCodeObjects),
    On("hub_user", <<"mobile", "UQ_hub_user_mobile">>),
    On("hub_user", <<"totpBypassedAt">>),
    On("hub_user", <<"totpRequired">>)>>

Kept(n) == UNION {Leaves[i] : i \in 1..n}

\* What the code of this build expects to find.
Target == Kept(Len(Up))

\* ... and what TrimHubSchema takes away.
Trimmed ==
  {<<"table", "service_token", NULL>>, <<"table", "school", NULL>>,
   <<"type", "school_status_enum", NULL>>, <<"type", "school_environment_enum", NULL>>,
   <<"school", "status", "school_status_enum">>,
   <<"school", "environment", "school_environment_enum">>,
   <<"hub_user", "schoolId", NULL>>, <<"type", "hub_user_role_enum", "school_owner">>}

In(objects, key) == \E o \in objects : Key(o) = key

\* A schema on which the first n migrations are done, and of the others any
\* part: nothing lies outside a table, and hub_user comes with its role.
Reached(n, objects) ==
  IF n < 2
  THEN /\ objects \subseteq Kept(Len(Up)) \cup Trimmed
       /\ \A o \in objects : o[1] \notin {"table", "type"} => In(objects, Table(o[1]))
       /\ In(objects, Table("hub_user")) => In(objects, RoleType)
       /\ n = 1 => In(objects, Table("hub_user")) /\ In(objects, RoleEnum)
  ELSE Kept(n) \subseteq objects /\ objects \subseteq Kept(Len(Up))

\* Its accounts have levels as soon as there are any, one of them ADMIN.
Foreseen(db) ==
  /\ db = [objects |-> db.objects, rows |-> db.rows, history |-> db.history, ok |-> TRUE]
  /\ \E n \in 0..Len(Up) : db.history = 1..n /\ Reached(n, db.objects)
  /\ db.rows \in [DOMAIN db.rows ->
                    [role : {"system_admin", "school_owner", "SYSTEM_ADMIN"},
                     level : IF Has(db, LevelColumn) THEN {"VIEW", "EDIT", "ADMIN"}
                                                     ELSE {NULL}]]
  /\ Has(db, LevelColumn) /\ DOMAIN db.rows # {} =>
       \E a \in DOMAIN db.rows : db.rows[a].level = "ADMIN"
=============================================================================
