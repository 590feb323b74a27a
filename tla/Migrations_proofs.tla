-------------------------- MODULE Migrations_proofs --------------------------
(***************************************************************************)
(* The migrations lead every database they are written for to the schema   *)
(* of this build: "whatever exists is kept, whatever is missing is         *)
(* created".  Each statement, each migration and the folder are shown to   *)
(* compute one expression of the objects and the rows they found.          *)
(***************************************************************************)
EXTENDS Migrations, TLAPS

Changes == INSTANCE SequenceFold_proofs WITH Step <- Change
Script  == INSTANCE SequenceFold_proofs WITH Step <- Execute
Turns   == INSTANCE SequenceFold_proofs WITH Step <- Take

\* A database none of whose statements has failed.
Sound(objects, rows, history) ==
  [objects |-> objects, rows |-> rows, history |-> history, ok |-> TRUE]

\* Two functions with the same values.
LEMMA SameFunction ==
  ASSUME NEW f, NEW g, f = [k \in DOMAIN f |-> f[k]], g = [k \in DOMAIN g |-> g[k]],
         DOMAIN f = DOMAIN g, \A k \in DOMAIN f : f[k] = g[k]
  PROVE  f = g
BY Zenon

Updated(d, objects, rows) == [d EXCEPT !.objects = objects, !.rows = rows]
Recorded(d, more) == [d EXCEPT !.history = @ \cup more]

\* What an EXCEPT makes of the objects and the rows.
LEMMA SoundUpdated ==
  ASSUME NEW O, NEW R, NEW H, NEW P, NEW Q
  PROVE  Updated(Sound(O, R, H), P, Q) = Sound(P, Q, H)
<1> DEFINE e == Updated(Sound(O, R, H), P, Q)
           g == Sound(P, Q, H)
<1>1. /\ DOMAIN e = {"objects", "rows", "history", "ok"}
      /\ e.objects = P /\ e.rows = Q /\ e.history = H /\ e.ok = TRUE
  BY DEF Sound, Updated
<1>2. e = [k \in DOMAIN e |-> e[k]]
  BY DEF Sound, Updated
<1>3. /\ DOMAIN g = {"objects", "rows", "history", "ok"}
      /\ g.objects = P /\ g.rows = Q /\ g.history = H /\ g.ok = TRUE
      /\ g = [k \in DOMAIN g |-> g[k]]
  BY DEF Sound
<1> HIDE DEF e, g
<1>4. \A k \in DOMAIN e : e[k] = g[k]
  BY <1>1, <1>3
<1> QED BY <1>1, <1>2, <1>3, <1>4, SameFunction DEF e, g

\* What an EXCEPT makes of the migrations table.
LEMMA SoundRecorded ==
  ASSUME NEW O, NEW R, NEW H, NEW more
  PROVE  Recorded(Sound(O, R, H), more) = Sound(O, R, H \cup more)
<1> DEFINE e == Recorded(Sound(O, R, H), more)
           g == Sound(O, R, H \cup more)
<1>1. /\ DOMAIN e = {"objects", "rows", "history", "ok"}
      /\ e.objects = O /\ e.rows = R /\ e.history = H \cup more /\ e.ok = TRUE
  BY DEF Sound, Recorded
<1>2. e = [k \in DOMAIN e |-> e[k]]
  BY DEF Sound, Recorded
<1>3. /\ DOMAIN g = {"objects", "rows", "history", "ok"}
      /\ g.objects = O /\ g.rows = R /\ g.history = H \cup more /\ g.ok = TRUE
      /\ g = [k \in DOMAIN g |-> g[k]]
  BY DEF Sound
<1> HIDE DEF e, g
<1>4. \A k \in DOMAIN e : e[k] = g[k]
  BY <1>1, <1>3
<1> QED BY <1>1, <1>2, <1>3, <1>4, SameFunction DEF e, g

\* The folds of the model, under the names their facts are cited by.
LEMMA ExecuteFolds ==
  ASSUME NEW d, NEW statement
  PROVE  Execute(d, statement) =
           IF d.ok /\ Fires(statement, d) THEN Changes!Fold(d, statement.run) ELSE d
BY DEF Execute, Changes!Fold, Changes!FoldLeft, Changes!MapThenFoldSet, Changes!Max,
       FoldLeft, MapThenFoldSet, Max

LEMMA TakeFolds ==
  ASSUME NEW d, NEW turn
  PROVE  Take(d, turn) =
           IF turn.listed
           THEN [Script!Fold(d, Up[turn.at]) EXCEPT !.history = @ \cup {turn.at}]
           ELSE d
BY DEF Take, Script!Fold, Script!FoldLeft, Script!MapThenFoldSet, Script!Max,
       FoldLeft, MapThenFoldSet, Max

LEMMA MigrateFolds ==
  ASSUME NEW d, NEW list
  PROVE  Migrate(d, list) =
           Turns!Fold(d, [n \in Folder |-> [at |-> n, listed |-> n \in list]])
BY DEF Migrate, Turns!Fold, Turns!FoldLeft, Turns!MapThenFoldSet, Turns!Max,
       FoldLeft, MapThenFoldSet, Max
-----------------------------------------------------------------------------
(***************************************************************************)
(* Statements.                                                             *)
(***************************************************************************)
LEMMA HasIsIn ==
  ASSUME NEW O, NEW R, NEW H, NEW key
  PROVE  Has(Sound(O, R, H), key) <=> In(O, key)
BY DEF Has, In, Sound

\* An object whose name is free, and whose table and type are there, is added.
LEMMA ChangeAdds ==
  ASSUME NEW O, NEW R, NEW H, NEW place, NEW name, NEW type,
         ~In(O, <<place, name>>),
         \/ place \in {"table", "type"}
         \/ In(O, Table(place)) /\ (type = NULL \/ In(O, Enum(type))),
         <<place, name>> # LevelColumn
  PROVE  Change(Sound(O, R, H), Add(place, name, type)) =
           Sound(O \cup {<<place, name, type>>}, R, H)
<1> DEFINE c == Add(place, name, type)
           d == Sound(O, R, H)
<1>1. /\ c.change = "add" /\ c.object = <<place, name, type>>
      /\ Key(c.object) = <<place, name>>
      /\ d.ok = TRUE /\ d.objects = O
  BY DEF Add, Key, Sound
<1>2. Legal(c, d)
  BY <1>1, HasIsIn DEF Legal
<1>3. Applied(c, d) = [d EXCEPT !.objects = @ \cup {<<place, name, type>>}, !.rows = @]
  BY <1>1 DEF Applied
<1>4. Change(d, c) = Applied(c, d)
  BY <1>1, <1>2 DEF Change
<1> QED BY <1>3, <1>4 DEF Sound

\* CREATE or ADD ... IF NOT EXISTS.
LEMMA CreatesOne ==
  ASSUME NEW O, NEW R, NEW H, NEW place, NEW name, NEW type,
         In(O, <<place, name>>) => <<place, name, type>> \in O,
         \/ place \in {"table", "type"}
         \/ In(O, Table(place)) /\ (type = NULL \/ In(O, Enum(type))),
         <<place, name>> # LevelColumn
  PROVE  Execute(Sound(O, R, H), Unless(<<place, name>>, <<Add(place, name, type)>>)) =
           Sound(O \cup {<<place, name, type>>}, R, H)
<1> DEFINE s == Unless(<<place, name>>, <<Add(place, name, type)>>)
           d == Sound(O, R, H)
<1>1. /\ s.guard = "absent" /\ s.key = <<place, name>>
      /\ s.run = <<Add(place, name, type)>>
      /\ d.ok = TRUE
  BY DEF Unless, Sound
<1>2. Fires(s, d) <=> ~In(O, <<place, name>>)
  BY <1>1, HasIsIn DEF Fires
<1>3. CASE In(O, <<place, name>>)
  <2>1. Execute(d, s) = d
    BY <1>2, <1>3, ExecuteFolds
  <2> QED BY <1>3, <2>1 DEF Sound
<1>4. CASE ~In(O, <<place, name>>)
  <2>1. Execute(d, s) = Changes!Fold(d, <<Add(place, name, type)>>)
    BY <1>1, <1>2, <1>4, ExecuteFolds
  <2>2. @ = Change(d, Add(place, name, type))
    BY Changes!FoldOne
  <2>3. @ = Sound(O \cup {<<place, name, type>>}, R, H)
    BY <1>4, ChangeAdds
  <2> QED BY <2>1, <2>2, <2>3
<1> QED BY <1>3, <1>4

\* DROP ... IF EXISTS.
LEMMA DropsOne ==
  ASSUME NEW O, NEW R, NEW H, NEW key,
         ~In(O, key) => \A o \in O : ~Gone(key, o),
         key[1] = "type" => \A o \in O : o[1] # "type" => o[3] # key[2],
         key # LevelColumn, key # Table("hub_user")
  PROVE  Execute(Sound(O, R, H), IfThere(key)) =
           Sound({o \in O : ~Gone(key, o)}, R, H)
<1> DEFINE s == IfThere(key)
           d == Sound(O, R, H)
<1>1. /\ s.guard = "present" /\ s.key = key /\ s.run = <<Drop(key)>>
      /\ d.ok = TRUE /\ d.objects = O
      /\ Drop(key).change = "drop" /\ Drop(key).key = key
  BY DEF IfThere, Sound, Drop
<1>2. Fires(s, d) <=> In(O, key)
  BY <1>1, HasIsIn DEF Fires
<1>3. CASE ~In(O, key)
  <2>1. Execute(d, s) = d
    BY <1>2, <1>3, ExecuteFolds
  <2>2. {o \in O : ~Gone(key, o)} = O
    BY <1>3
  <2> QED BY <2>1, <2>2 DEF Sound
<1>4. CASE In(O, key)
  <2>1. Execute(d, s) = Changes!Fold(d, <<Drop(key)>>)
    BY <1>1, <1>2, <1>4, ExecuteFolds
  <2>2. @ = Change(d, Drop(key))
    BY Changes!FoldOne
  <2>3. Legal(Drop(key), d)
    BY <1>1, <1>4, HasIsIn DEF Legal
  <2>4. Change(d, Drop(key)) = Applied(Drop(key), d)
    BY <1>1, <2>3 DEF Change
  <2>5. Applied(Drop(key), d) = [d EXCEPT !.objects = {o \in @ : ~Gone(key, o)}, !.rows = @]
    BY <1>1 DEF Applied
  <2>6. {o \in d.objects : ~Gone(key, o)} = {o \in O : ~Gone(key, o)}
    BY <1>1
  <2>7. Applied(Drop(key), d) = Sound({o \in O : ~Gone(key, o)}, R, H)
    BY <2>5, <2>6 DEF Sound
  <2> QED BY <2>1, <2>2, <2>4, <2>7
<1> QED BY <1>3, <1>4

\* A table is given its columns, constraints and indexes, or those of them it
\* does not have.
LEMMA ExtendAdds ==
  ASSUME NEW O, NEW R, NEW H, NEW table, NEW n \in Nat, NEW names, DOMAIN names = 1..n,
         In(O, Table(table)),
         \A i \in 1..n : /\ In(O, <<table, names[i]>>) => <<table, names[i], NULL>> \in O
                         /\ <<table, names[i]>> # LevelColumn
  PROVE  Script!Fold(Sound(O, R, H), Extend(table, names)) =
           Sound(O \cup On(table, names), R, H)
<1> DEFINE seq == Extend(table, names)
           d == Sound(O, R, H)
           Added(k) == O \cup {<<table, names[i], NULL>> : i \in 1..k}
<1>1. DOMAIN seq = 1..n
  BY DEF Extend
<1> HIDE DEF seq, d
<1>2. PICK after : Script!Steps(after, d, seq) /\ Script!Fold(d, seq) = after[n]
  BY <1>1, Script!FoldSteps
<1> DEFINE T == {k \in Nat : k <= n => after[k] = Sound(Added(k), R, H)}
<1>3. 0 \in T
  <2>1. Added(0) = O
    OBVIOUS
  <2> QED BY <1>2, <2>1 DEF Script!Steps, d
<1>4. ASSUME NEW k \in T, k + 1 <= n
      PROVE  after[k + 1] = Sound(Added(k + 1), R, H)
  <2>1. k \in Nat /\ k + 1 \in 1..n /\ (k + 1) - 1 = k
    BY <1>4
  <2> DEFINE name == names[k + 1]
             A == Added(k)
  <2>2. after[k + 1] = Execute(after[k], seq[k + 1])
    BY <1>1, <1>2, <2>1 DEF Script!Steps
  <2>3. seq[k + 1] = Unless(<<table, name>>, <<Add(table, name, NULL)>>)
    BY <2>1 DEF seq, Extend
  <2>4. after[k] = Sound(A, R, H)
    BY <1>4, <2>1
  <2>5. In(A, Table(table))
    BY DEF In
  <2>6. In(A, <<table, name>>) => <<table, name, NULL>> \in A
    <3>1. \A i \in 1..k : Key(<<table, names[i], NULL>>) = <<table, names[i]>>
      BY DEF Key
    <3>2. \A i \in 1..k : <<table, names[i]>> = <<table, name>> => names[i] = name
      OBVIOUS
    <3> QED BY <2>1, <3>1, <3>2 DEF In
  <2>7. <<table, name>> # LevelColumn
    BY <2>1
  <2> HIDE DEF A, name
  <2>8. Execute(Sound(A, R, H), Unless(<<table, name>>, <<Add(table, name, NULL)>>)) =
          Sound(A \cup {<<table, name, NULL>>}, R, H)
    BY <2>5, <2>6, <2>7, CreatesOne
  <2>9. A \cup {<<table, name, NULL>>} = Added(k + 1)
    <3>1. 1..(k + 1) = (1..k) \cup {k + 1}
      BY <2>1
    <3> QED BY <3>1 DEF A, name
  <2> QED BY <2>2, <2>3, <2>4, <2>8, <2>9
<1>5. Nat \subseteq T
  <2>1. \A k \in T \cap Nat : k + 1 \in T
    BY <1>4
  <2> HIDE DEF T
  <2> QED BY <1>3, <2>1, Script!InductionOverSet
<1>6. On(table, names) = {<<table, names[i], NULL>> : i \in 1..n}
  BY DEF On
<1> QED BY <1>2, <1>5, <1>6 DEF seq, d
-----------------------------------------------------------------------------
(***************************************************************************)
(* The vocabulary of the folder.                                           *)
(***************************************************************************)
Known == Kept(Len(Up)) \cup Trimmed

\* The type of an object, by its key; of the role's enum, the labels vary.
TypeOf(key) ==
  IF key = RoleType THEN "hub_user_role_enum"
  ELSE IF key = LevelColumn THEN "hub_access_level_enum"
  ELSE IF key = Enum("hub_access_level_enum") THEN "VIEW EDIT ADMIN"
  ELSE IF key = <<"school", "status">> THEN "school_status_enum"
  ELSE IF key = <<"school", "environment">> THEN "school_environment_enum"
  ELSE NULL

\* The folder has seven migrations.
LEMMA SevenMigrations ==
  Len(Up) = 7 /\ Folder = 1..7
BY DEF Up, Folder

\* What is kept of n migrations, one migration at a time.
LEMMA KeptGrows ==
  /\ Kept(0) = {}
  /\ \A n \in Nat : Kept(n + 1) = Kept(n) \cup Leaves[n + 1]
  /\ \A n \in 0..7 : Kept(n) \subseteq Kept(7)
<1>1. ASSUME NEW n \in Nat
      PROVE  Kept(n + 1) = Kept(n) \cup Leaves[n + 1]
  <2>1. 1..(n + 1) = (1..n) \cup {n + 1}
    OBVIOUS
  <2> QED BY <2>1 DEF Kept
<1> QED BY <1>1 DEF Kept

Typed(o) ==
  /\ o = <<o[1], o[2], o[3]>>
  /\ Key(o) # RoleEnum => o[3] = TypeOf(Key(o))

\* The columns, constraints and indexes of a table have no type of interest.
LEMMA OnTyped ==
  ASSUME NEW table, NEW names,
         \A i \in DOMAIN names : TypeOf(<<table, names[i]>>) = NULL
  PROVE  \A o \in On(table, names) : Typed(o)
BY DEF On, Typed, Key

\* Of the columns of hub_user only two have a type of interest.
LEMMA PlainColumn ==
  ASSUME NEW name, name \notin {"role", "accessLevel"}
  PROVE  TypeOf(<<"hub_user", name>>) = NULL
BY DEF TypeOf, RoleType, LevelColumn, Enum

\* Whoever created an object of the folder: by its name it has its type.
LEMMA KnownTyped ==
  \A o \in Known : Typed(o)
<1> USE DEF TypeOf, RoleType, LevelColumn, Enum
<1>1. ASSUME NEW o \in Trimmed PROVE Typed(o)
  <2>1. Typed(<<"table", "service_token", NULL>>) /\ Typed(<<"table", "school", NULL>>)
    BY DEF Typed, Key
  <2>2. /\ Typed(<<"type", "school_status_enum", NULL>>)
        /\ Typed(<<"type", "school_environment_enum", NULL>>)
        /\ Typed(<<"type", "hub_user_role_enum", "school_owner">>)
    BY DEF Typed, Key, RoleEnum
  <2>3. /\ Typed(<<"school", "status", "school_status_enum">>)
        /\ Typed(<<"school", "environment", "school_environment_enum">>)
    BY DEF Typed, Key
  <2>4. Typed(<<"hub_user", "schoolId", NULL>>)
    BY DEF Typed, Key
  <2> QED BY <2>1, <2>2, <2>3, <2>4 DEF Trimmed
<1>2. \A o \in Leaves[2] : Typed(o)
  <2>1. Leaves[2] = {<<"table", "hub_user", NULL>>,
                     <<"type", "hub_user_role_enum", "SYSTEM_ADMIN">>,
                     <<"hub_user", "role", "hub_user_role_enum">>,
                     <<"hub_user", "role default", NULL>>}
    BY DEF Leaves
  <2>2. Typed(<<"table", "hub_user", NULL>>)
    BY DEF Typed, Key
  <2>3. Typed(<<"type", "hub_user_role_enum", "SYSTEM_ADMIN">>)
    BY DEF Typed, Key, RoleEnum
  <2>4. Typed(<<"hub_user", "role", "hub_user_role_enum">>)
    BY DEF Typed, Key
  <2>5. Typed(<<"hub_user", "role default", NULL>>)
    BY DEF Typed, Key
  <2> QED BY <2>1, <2>2, <2>3, <2>4, <2>5
<1>3. \A o \in Leaves[3] : Typed(o)
  <2>1. Leaves[3] = {<<"table", "hub_refresh_token", NULL>>}
                      \cup On("hub_refresh_token", RefreshTokenObjects)
    BY DEF Leaves
  <2>2. Typed(<<"table", "hub_refresh_token", NULL>>)
    BY DEF Typed, Key
  <2>3. \A o \in On("hub_refresh_token", RefreshTokenObjects) : Typed(o)
    BY OnTyped DEF RefreshTokenObjects
  <2> QED BY <2>1, <2>2, <2>3
<1>4. \A o \in Leaves[4] : Typed(o)
  <2>1. Leaves[4] = {<<"type", "hub_access_level_enum", "VIEW EDIT ADMIN">>,
                     <<"hub_user", "accessLevel", "hub_access_level_enum">>,
                     <<"table", "hub_user_recovery_code", NULL>>}
                      \cup On("hub_user", TotpColumns)
                      \cup On("hub_user_recovery_code", RecoveryCodeObjects)
    BY DEF Leaves
  <2>2. Typed(<<"type", "hub_access_level_enum", "VIEW EDIT ADMIN">>)
    BY DEF Typed, Key
  <2>3. Typed(<<"hub_user", "accessLevel", "hub_access_level_enum">>)
    BY DEF Typed, Key
  <2>4. Typed(<<"table", "hub_user_recovery_code", NULL>>)
    BY DEF Typed, Key
  <2>5. \A o \in On("hub_user", TotpColumns) : Typed(o)
    <3>1. \A i \in DOMAIN TotpColumns : TotpColumns[i] \notin {"role", "accessLevel"}
      BY DEF TotpColumns
    <3> QED BY <3>1, PlainColumn, OnTyped
  <2>6. \A o \in On("hub_user_recovery_code", RecoveryCodeObjects) : Typed(o)
    BY OnTyped DEF RecoveryCodeObjects
  <2> QED BY <2>1, <2>2, <2>3, <2>4, <2>5, <2>6
<1>5. \A n \in {5, 6, 7} : \A o \in Leaves[n] : Typed(o)
  <2>1. /\ Leaves[5] = On("hub_user", <<"mobile", "UQ_hub_user_mobile">>)
        /\ Leaves[6] = On("hub_user", <<"totpBypassedAt">>)
        /\ Leaves[7] = On("hub_user", <<"totpRequired">>)
    BY DEF Leaves
  <2>2. \A o \in On("hub_user", <<"mobile", "UQ_hub_user_mobile">>) : Typed(o)
    <3> DEFINE names == <<"mobile", "UQ_hub_user_mobile">>
    <3>1. \A i \in DOMAIN names : names[i] \notin {"role", "accessLevel"}
      OBVIOUS
    <3> HIDE DEF names
    <3>2. \A o \in On("hub_user", names) : Typed(o)
      BY <3>1, PlainColumn, OnTyped
    <3> QED BY <3>2 DEF names
  <2>3. \A o \in On("hub_user", <<"totpBypassedAt">>) : Typed(o)
    <3> DEFINE names == <<"totpBypassedAt">>
    <3>1. \A i \in DOMAIN names : names[i] \notin {"role", "accessLevel"}
      OBVIOUS
    <3> HIDE DEF names
    <3>2. \A o \in On("hub_user", names) : Typed(o)
      BY <3>1, PlainColumn, OnTyped
    <3> QED BY <3>2 DEF names
  <2>4. \A o \in On("hub_user", <<"totpRequired">>) : Typed(o)
    <3> DEFINE names == <<"totpRequired">>
    <3>1. \A i \in DOMAIN names : names[i] \notin {"role", "accessLevel"}
      OBVIOUS
    <3> HIDE DEF names
    <3>2. \A o \in On("hub_user", names) : Typed(o)
      BY <3>1, PlainColumn, OnTyped
    <3> QED BY <3>2 DEF names
  <2> QED BY <2>1, <2>2, <2>3, <2>4
<1>6. Leaves[1] = {}
  BY DEF Leaves
<1>7. Kept(7) = UNION {Leaves[n] : n \in 1..7}
  BY DEF Kept
<1>8. \A o \in Kept(7) : \E n \in {1, 2, 3, 4, 5, 6, 7} : o \in Leaves[n]
  BY <1>7
<1> QED BY <1>1, <1>2, <1>3, <1>4, <1>5, <1>6, <1>8, SevenMigrations DEF Known

\* What is there under a name has the type it is known by.
LEMMA KnownIsThere ==
  ASSUME NEW O \in SUBSET Known, NEW place, NEW name,
         In(O, <<place, name>>), <<place, name>> # RoleEnum
  PROVE  <<place, name, TypeOf(<<place, name>>)>> \in O
<1>1. PICK o \in O : Key(o) = <<place, name>>
  BY DEF In
<1>2. o = <<o[1], o[2], TypeOf(<<place, name>>)>>
  BY <1>1, KnownTyped DEF Typed
<1>3. o[1] = place /\ o[2] = name
  BY <1>1 DEF Key
<1> QED BY <1>1, <1>2, <1>3

\* CREATE ... IF NOT EXISTS of something in the vocabulary.
LEMMA CreatesKnown ==
  ASSUME NEW O \in SUBSET Known, NEW R, NEW H, NEW place, NEW name, NEW type,
         <<place, name>> # RoleEnum, <<place, name>> # LevelColumn,
         TypeOf(<<place, name>>) = type,
         \/ place \in {"table", "type"}
         \/ In(O, Table(place)) /\ (type = NULL \/ In(O, Enum(type)))
  PROVE  Execute(Sound(O, R, H), Unless(<<place, name>>, <<Add(place, name, type)>>)) =
           Sound(O \cup {<<place, name, type>>}, R, H)
<1>1. In(O, <<place, name>>) => <<place, name, type>> \in O
  BY KnownIsThere
<1> QED BY <1>1, CreatesOne

\* A table has no type, and is none of the objects with a part of their own.
LEMMA TablesPlain ==
  ASSUME NEW name
  PROVE  /\ <<"table", name>> # RoleEnum
         /\ <<"table", name>> # LevelColumn
         /\ TypeOf(<<"table", name>>) = NULL
BY DEF TypeOf, RoleType, LevelColumn, Enum, RoleEnum

\* What is there stays there when objects are added.
LEMMA InGrows ==
  ASSUME NEW O, NEW P, O \subseteq P, NEW key, In(O, key)
  PROVE  In(P, key)
BY DEF In
-----------------------------------------------------------------------------
(***************************************************************************)
(* The migrations that only create: the third and the fifth to seventh.    *)
(***************************************************************************)

Listed(names) == \E n \in Nat : DOMAIN names = 1..n

\* The statements of Extend form a list.
LEMMA ExtendIsList ==
  ASSUME NEW table, NEW names, Listed(names)
  PROVE  Script!IsList(Extend(table, names))
<1> DEFINE seq == Extend(table, names)
<1>1. PICK n \in Nat : DOMAIN names = 1..n
  BY DEF Listed
<1>2. seq \in Seq({seq[i] : i \in 1..n})
  BY <1>1 DEF Extend
<1> QED BY <1>2 DEF Script!IsList

\* So does a single one.
LEMMA SingleIsList ==
  ASSUME NEW statement
  PROVE  Script!IsList(<<statement>>)
<1>1. <<statement>> \in Seq({statement})
  OBVIOUS
<1> QED BY <1>1 DEF Script!IsList

\* A list of names that the vocabulary has for plain columns or indexes.
LEMMA ExtendKnown ==
  ASSUME NEW O \in SUBSET Known, NEW R, NEW H, NEW table,
         NEW names, Listed(names),
         In(O, Table(table)), table # "type",
         \A i \in DOMAIN names : /\ <<table, names[i]>> # LevelColumn
                         /\ TypeOf(<<table, names[i]>>) = NULL
  PROVE  Script!Fold(Sound(O, R, H), Extend(table, names)) =
           Sound(O \cup On(table, names), R, H)
<1>1. \A i \in DOMAIN names : In(O, <<table, names[i]>>) => <<table, names[i], NULL>> \in O
  <2> SUFFICES ASSUME NEW i \in DOMAIN names, In(O, <<table, names[i]>>)
               PROVE  <<table, names[i], NULL>> \in O
    OBVIOUS
  <2>1. <<table, names[i]>> # RoleEnum
    BY DEF RoleEnum, Enum
  <2> QED BY <2>1, KnownIsThere
<1>2. PICK n \in Nat : DOMAIN names = 1..n
  BY DEF Listed
<1> QED BY <1>1, <1>2, ExtendAdds

\* A batch of columns and constraints of hub_user is added, or is there.
LEMMA HubUserColumns ==
  ASSUME NEW O \in SUBSET Known, NEW R, NEW H,
         NEW names, Listed(names),
         In(O, Table("hub_user")),
         \A i \in DOMAIN names : names[i] \notin {"role", "accessLevel"}
  PROVE  Script!Fold(Sound(O, R, H), Extend("hub_user", names)) =
           Sound(O \cup On("hub_user", names), R, H)
<1>1. \A i \in DOMAIN names : /\ <<"hub_user", names[i]>> # LevelColumn
                      /\ TypeOf(<<"hub_user", names[i]>>) = NULL
  BY PlainColumn DEF LevelColumn
<1>2. "hub_user" # "type"
  OBVIOUS
<1> QED BY <1>1, <1>2, ExtendKnown

\* HubUserMobile, HubUserTotpBypass and HubUserTotpRequired add their columns, or
\* find them.
LEMMA LastMigrations ==
  ASSUME NEW O \in SUBSET Known, NEW R, NEW H, In(O, Table("hub_user")),
         NEW m \in 5..7
  PROVE  Script!Fold(Sound(O, R, H), Up[m]) = Sound(O \cup Leaves[m], R, H)
<1>1. CASE m = 5
  <2> DEFINE names == <<"mobile", "UQ_hub_user_mobile">>
  <2>1. Up[5] = Extend("hub_user", names) /\ Leaves[5] = On("hub_user", names)
    BY DEF Up, HubUserMobile, Leaves
  <2>2. Listed(names) /\ \A i \in DOMAIN names : names[i] \notin {"role", "accessLevel"}
    <3>1. 2 \in Nat /\ DOMAIN names = 1..2
      OBVIOUS
    <3> QED BY <3>1 DEF Listed
  <2> HIDE DEF names
  <2>3. Script!Fold(Sound(O, R, H), Extend("hub_user", names)) =
          Sound(O \cup On("hub_user", names), R, H)
    BY <2>2, HubUserColumns
  <2> QED BY <1>1, <2>1, <2>3
<1>2. CASE m = 6
  <2> DEFINE names == <<"totpBypassedAt">>
  <2>1. Up[6] = Extend("hub_user", names) /\ Leaves[6] = On("hub_user", names)
    BY DEF Up, HubUserTotpBypass, Leaves
  <2>2. Listed(names) /\ \A i \in DOMAIN names : names[i] \notin {"role", "accessLevel"}
    <3>1. 1 \in Nat /\ DOMAIN names = 1..1
      OBVIOUS
    <3> QED BY <3>1 DEF Listed
  <2> HIDE DEF names
  <2>3. Script!Fold(Sound(O, R, H), Extend("hub_user", names)) =
          Sound(O \cup On("hub_user", names), R, H)
    BY <2>2, HubUserColumns
  <2> QED BY <1>2, <2>1, <2>3
<1>3. CASE m = 7
  <2> DEFINE names == <<"totpRequired">>
  <2>1. Up[7] = Extend("hub_user", names) /\ Leaves[7] = On("hub_user", names)
    BY DEF Up, HubUserTotpRequired, Leaves
  <2>2. Listed(names) /\ \A i \in DOMAIN names : names[i] \notin {"role", "accessLevel"}
    <3>1. 1 \in Nat /\ DOMAIN names = 1..1
      OBVIOUS
    <3> QED BY <3>1 DEF Listed
  <2> HIDE DEF names
  <2>3. Script!Fold(Sound(O, R, H), Extend("hub_user", names)) =
          Sound(O \cup On("hub_user", names), R, H)
    BY <2>2, HubUserColumns
  <2> QED BY <1>3, <2>1, <2>3
<1> QED BY <1>1, <1>2, <1>3

\* Every migration adds objects of the folder.
LEMMA KnownLeaves ==
  \A n \in 1..7 : Leaves[n] \subseteq Known
BY SevenMigrations DEF Known, Kept

\* HubRefreshToken adds its table with what belongs to it, or finds it.
LEMMA ThirdMigration ==
  ASSUME NEW O \in SUBSET Known, NEW R, NEW H
  PROVE  Script!Fold(Sound(O, R, H), Up[3]) = Sound(O \cup Leaves[3], R, H)
<1> DEFINE table == "hub_refresh_token"
           first == <<Unless(<<"table", table>>, <<Add("table", table, NULL)>>)>>
           rest  == Extend(table, RefreshTokenObjects)
           O1    == O \cup {<<"table", table, NULL>>}
<1>1. Up[3] = first \o rest
  BY DEF Up, HubRefreshToken, Table
<1>2. Listed(RefreshTokenObjects)
  <2>1. 4 \in Nat /\ DOMAIN RefreshTokenObjects = 1..4
    BY DEF RefreshTokenObjects
  <2> QED BY <2>1 DEF Listed
<1>3. Script!IsList(rest) /\ Script!IsList(first)
  BY <1>2, ExtendIsList, SingleIsList
<1>4. Script!Fold(Sound(O, R, H), first) = Sound(O1, R, H)
  <2>1. Execute(Sound(O, R, H), Unless(<<"table", table>>, <<Add("table", table, NULL)>>))
          = Sound(O1, R, H)
    BY TablesPlain, CreatesKnown
  <2> QED BY <2>1, Script!FoldOne
<1>5. Script!Fold(Sound(O1, R, H), rest) = Sound(O1 \cup On(table, RefreshTokenObjects), R, H)
  <2>1. O1 \in SUBSET Known
    <3>1. Leaves[3] = {<<"table", table, NULL>>} \cup On(table, RefreshTokenObjects)
      BY DEF Leaves
    <3> QED BY <3>1, KnownLeaves
  <2>2. In(O1, Table(table))
    <3>1. Key(<<"table", table, NULL>>) = Table(table)
      BY DEF Key, Table
    <3> QED BY <3>1 DEF In
  <2>3. \A i \in DOMAIN RefreshTokenObjects :
          /\ <<table, RefreshTokenObjects[i]>> # LevelColumn
          /\ TypeOf(<<table, RefreshTokenObjects[i]>>) = NULL
    BY DEF TypeOf, RoleType, LevelColumn, Enum
  <2>4. table # "type"
    OBVIOUS
  <2> HIDE DEF O1, table, rest
  <2> QED BY <1>2, <2>1, <2>2, <2>3, <2>4, ExtendKnown DEF rest
<1>6. O1 \cup On(table, RefreshTokenObjects) = O \cup Leaves[3]
  BY DEF Leaves
<1> HIDE DEF first, rest, O1
<1>7. Script!Fold(Sound(O, R, H), first \o rest) = Script!Fold(Sound(O1, R, H), rest)
  BY <1>3, <1>4, Script!FoldConcat
<1> QED BY <1>1, <1>5, <1>6, <1>7
-----------------------------------------------------------------------------
(***************************************************************************)
(* The fourth migration, which gives the accounts their levels.            *)
(***************************************************************************)
Filled(rows, field, value) ==
  [a \in DOMAIN rows |-> [rows[a] EXCEPT ![field] = value]]

LevelObject == <<"hub_user", "accessLevel", "hub_access_level_enum">>

\* A column filled in by Postgres is the rows with that column.
LEMMA OnRowsFills ==
  ASSUME NEW O, NEW R, NEW H, NEW field, NEW value
  PROVE  OnRows(Sound(O, R, H), field, value) = Filled(R, field, value)
BY DEF OnRows, Sound, Filled

\* Of two values filled in one after the other the second stays.
LEMMA FilledTwice ==
  ASSUME NEW rows, NEW field, NEW first, NEW second
  PROVE  Filled(Filled(rows, field, first), field, second) = Filled(rows, field, second)
BY DEF Filled

\* The column and its backfill: a database that has levels keeps them.
LEMMA LevelEnumPlain ==
  /\ Enum("hub_access_level_enum") # RoleEnum
  /\ Enum("hub_access_level_enum") # LevelColumn
  /\ TypeOf(Enum("hub_access_level_enum")) = "VIEW EDIT ADMIN"
BY DEF RoleEnum, LevelColumn, TypeOf, RoleType, Enum

\* The type of the levels is created, or is there.
LEMMA LevelEnumCreated ==
  ASSUME NEW O \in SUBSET Known, NEW R, NEW H
  PROVE  Execute(Sound(O, R, H),
                 Unless(<<"type", "hub_access_level_enum">>,
                        <<Add("type", "hub_access_level_enum", "VIEW EDIT ADMIN")>>)) =
           Sound(O \cup {<<"type", "hub_access_level_enum", "VIEW EDIT ADMIN">>}, R, H)
<1> DEFINE name == "hub_access_level_enum"
           type == "VIEW EDIT ADMIN"
<1>1. /\ <<"type", name>> # RoleEnum
      /\ <<"type", name>> # LevelColumn
      /\ TypeOf(<<"type", name>>) = type
  BY LevelEnumPlain DEF Enum
<1> HIDE DEF name, type
<1>2. Execute(Sound(O, R, H), Unless(<<"type", name>>, <<Add("type", name, type)>>)) =
        Sound(O \cup {<<"type", name, type>>}, R, H)
  BY <1>1, CreatesKnown
<1> QED BY <1>2 DEF name, type

\* The column comes with its backfill, and without the column there is none.
LEMMA LevelsAdded ==
  ASSUME NEW O \in SUBSET Known, NEW R, NEW H,
         In(O, Table("hub_user")), In(O, Enum("hub_access_level_enum"))
  PROVE  Script!Fold(Sound(O, R, H), AddAccessLevel) =
           Sound(O \cup {LevelObject},
                 IF In(O, LevelColumn) THEN R ELSE Filled(R, "level", "ADMIN"), H)
<1> DEFINE add  == Add("hub_user", "accessLevel", "hub_access_level_enum")
           fill == FillLevels("ADMIN")
           s    == Unless(LevelColumn, <<add, fill>>)
           d    == Sound(O, R, H)
           d1   == Sound(O \cup {LevelObject}, Filled(R, "level", "VIEW"), H)
<1>1. Script!Fold(d, AddAccessLevel) = Execute(d, s)
  BY Script!FoldOne DEF AddAccessLevel
<1>2. /\ s.guard = "absent" /\ s.key = LevelColumn /\ s.run = <<add, fill>>
      /\ d.ok = TRUE /\ d1.ok = TRUE
      /\ add.change = "add" /\ add.object = LevelObject /\ Key(LevelObject) = LevelColumn
      /\ fill.change = "fill" /\ fill.level = "ADMIN"
  BY DEF Unless, Sound, Add, FillLevels, LevelObject, LevelColumn, Key
<1>3. Fires(s, d) <=> ~In(O, LevelColumn)
  BY <1>2, HasIsIn DEF Fires
<1>4. CASE In(O, LevelColumn)
  <2>1. LevelObject \in O
    <3>1. LevelColumn # RoleEnum /\ TypeOf(LevelColumn) = "hub_access_level_enum"
      BY DEF LevelColumn, RoleEnum, Enum, TypeOf, RoleType
    <3> QED BY <1>4, <3>1, KnownIsThere DEF LevelColumn, LevelObject
  <2>2. Execute(d, s) = d
    BY <1>3, <1>4, ExecuteFolds
  <2>3. O \cup {LevelObject} = O
    BY <2>1
  <2> QED BY <1>1, <1>4, <2>2, <2>3
<1>5. CASE ~In(O, LevelColumn)
  <2>1. Execute(d, s) = Change(Change(d, add), fill)
    BY <1>2, <1>3, <1>5, ExecuteFolds, Changes!FoldTwo
  <2>2. Change(d, add) = d1
    <3>4. /\ add.object[1] = "hub_user" /\ add.object[3] = "hub_access_level_enum"
          /\ Key(add.object) = LevelColumn
      BY <1>2 DEF LevelObject
    <3>5. /\ ~Has(d, LevelColumn) /\ Has(d, Table("hub_user"))
          /\ Has(d, Enum("hub_access_level_enum"))
      BY <1>5, HasIsIn
    <3> HIDE DEF d, add
    <3>1. Legal(add, d)
      BY <1>2, <3>4, <3>5 DEF Legal
    <3>2. Applied(add, d) = [d EXCEPT !.objects = @ \cup {LevelObject},
                                      !.rows = OnRows(d, "level", "VIEW")]
      BY <1>2 DEF Applied
    <3>3. Change(d, add) = Applied(add, d)
      BY <1>2, <3>1 DEF Change
    <3>6. OnRows(d, "level", "VIEW") = Filled(R, "level", "VIEW")
      BY OnRowsFills DEF d
    <3> QED BY <3>2, <3>3, <3>6 DEF Sound, d
  <2>3. Change(d1, fill) =
          Sound(O \cup {LevelObject}, Filled(R, "level", "ADMIN"), H)
    <3>1. In(O \cup {LevelObject}, LevelColumn)
      BY <1>2 DEF In
    <3>4. OnRows(d1, "level", "ADMIN") = Filled(R, "level", "ADMIN")
      BY OnRowsFills, FilledTwice
    <3>6. Has(d1, LevelColumn)
      BY <3>1, HasIsIn
    <3>7. d1 = Sound(O \cup {LevelObject}, Filled(R, "level", "VIEW"), H)
      OBVIOUS
    <3> HIDE DEF d1, fill
    <3>2. Legal(fill, d1)
      BY <1>2, <3>6 DEF Legal
    <3>3. Applied(fill, d1) = [d1 EXCEPT !.rows = OnRows(d1, "level", "ADMIN")]
      BY <1>2 DEF Applied
    <3>5. Change(d1, fill) = Applied(fill, d1)
      BY <1>2, <3>2 DEF Change
    <3> QED BY <3>3, <3>4, <3>5, <3>7 DEF Sound
  <2> QED BY <1>1, <1>5, <2>1, <2>2, <2>3
<1> QED BY <1>4, <1>5

\* HubUserAccessAndTotp leaves its objects; levels that were there stay, and
\* where there were none everybody is ADMIN.
LEMMA FourthMigration ==
  ASSUME NEW O \in SUBSET Known, NEW R, NEW H, In(O, Table("hub_user"))
  PROVE  Script!Fold(Sound(O, R, H), Up[4]) =
           Sound(O \cup Leaves[4],
                 IF In(O, LevelColumn) THEN R ELSE Filled(R, "level", "ADMIN"), H)
<1> DEFINE enum  == Unless(<<"type", "hub_access_level_enum">>,
                           <<Add("type", "hub_access_level_enum", "VIEW EDIT ADMIN")>>)
           codes == "hub_user_recovery_code"
           table == Unless(<<"table", codes>>, <<Add("table", codes, NULL)>>)
           columns == Extend("hub_user", TotpColumns)
           indexes == Extend(codes, RecoveryCodeObjects)
           O1 == O \cup {<<"type", "hub_access_level_enum", "VIEW EDIT ADMIN">>}
           O2 == O1 \cup {LevelObject}
           O3 == O2 \cup On("hub_user", TotpColumns)
           O4 == O3 \cup {<<"table", codes, NULL>>}
           O5 == O4 \cup On(codes, RecoveryCodeObjects)
           R2 == IF In(O, LevelColumn) THEN R ELSE Filled(R, "level", "ADMIN")
<1>1. Up[4] = (((<<enum>> \o AddAccessLevel) \o columns) \o <<table>>) \o indexes
  BY DEF Up, HubUserAccessAndTotp, Table, Enum
<1>2. O5 = O \cup Leaves[4]
  BY DEF Leaves, LevelObject
<1>3. /\ O \subseteq O1 /\ O1 \subseteq O2 /\ O2 \subseteq O3
      /\ O3 \subseteq O4 /\ O4 \subseteq O5
  OBVIOUS
<1>5. In(O1, Enum("hub_access_level_enum")) /\ In(O4, Table(codes))
  <2>1. Key(<<"type", "hub_access_level_enum", "VIEW EDIT ADMIN">>)
          = Enum("hub_access_level_enum")
    BY DEF Key, Enum
  <2>2. Key(<<"table", codes, NULL>>) = Table(codes)
    BY DEF Key, Table
  <2>3. <<"type", "hub_access_level_enum", "VIEW EDIT ADMIN">> \in O1
    OBVIOUS
  <2>4. <<"table", codes, NULL>> \in O4
    OBVIOUS
  <2> HIDE DEF O1, O4
  <2> QED BY <2>1, <2>2, <2>3, <2>4 DEF In
<1>7. In(O1, LevelColumn) <=> In(O, LevelColumn)
  <2>1. Key(<<"type", "hub_access_level_enum", "VIEW EDIT ADMIN">>) # LevelColumn
    BY DEF Key, LevelColumn
  <2> QED BY <2>1 DEF In
<1>8. Listed(TotpColumns) /\ \A i \in DOMAIN TotpColumns : TotpColumns[i] \notin {"role", "accessLevel"}
  <2>1. 7 \in Nat /\ DOMAIN TotpColumns = 1..7
    BY DEF TotpColumns
  <2>2. \A i \in DOMAIN TotpColumns : TotpColumns[i] \notin {"role", "accessLevel"}
    BY DEF TotpColumns
  <2> QED BY <2>1, <2>2 DEF Listed
<1>9. Listed(RecoveryCodeObjects)
  <2>1. 2 \in Nat /\ DOMAIN RecoveryCodeObjects = 1..2
    BY DEF RecoveryCodeObjects
  <2> QED BY <2>1 DEF Listed
<1>10. \A i \in DOMAIN RecoveryCodeObjects :
         /\ <<codes, RecoveryCodeObjects[i]>> # LevelColumn
         /\ TypeOf(<<codes, RecoveryCodeObjects[i]>>) = NULL
  BY DEF TypeOf, RoleType, LevelColumn, Enum
<1>13. codes # "type"
  OBVIOUS
<1>14. Script!IsList(AddAccessLevel)
  BY SingleIsList DEF AddAccessLevel
<1>15. Script!IsList(columns) /\ Script!IsList(indexes)
  BY <1>8, <1>9, ExtendIsList
<1>16. Script!IsList(<<enum>>) /\ Script!IsList(<<table>>)
  BY SingleIsList
<1>11. Execute(Sound(O, R, H), enum) = Sound(O1, R, H)
  BY LevelEnumCreated
<1> HIDE DEF O3, R2
<1>12. O3 \in SUBSET Known => Execute(Sound(O3, R2, H), table) = Sound(O4, R2, H)
  BY TablesPlain, CreatesKnown
<1> HIDE DEF enum, table, O1, O2, O4, O5, columns, indexes, codes
<1>4. /\ O1 \in SUBSET Known /\ O2 \in SUBSET Known
      /\ O3 \in SUBSET Known /\ O4 \in SUBSET Known
  <2>1. O5 \subseteq Known
    BY <1>2, KnownLeaves
  <2> QED BY <1>3, <2>1
<1>6. /\ In(O1, Table("hub_user")) /\ In(O2, Table("hub_user"))
      /\ In(O3, Table("hub_user"))
  BY <1>3, InGrows
<1>17. Script!Fold(Sound(O, R, H), <<enum>>) = Sound(O1, R, H)
  BY <1>11, Script!FoldOne
<1>18. Script!Fold(Sound(O1, R, H), AddAccessLevel) = Sound(O2, R2, H)
  BY <1>4, <1>5, <1>6, <1>7, LevelsAdded DEF O2, R2
<1>19. Script!Fold(Sound(O2, R2, H), columns) = Sound(O3, R2, H)
  BY <1>4, <1>6, <1>8, HubUserColumns DEF O3, columns
<1>20. Script!Fold(Sound(O3, R2, H), <<table>>) = Sound(O4, R2, H)
  BY <1>4, <1>12, Script!FoldOne
<1>21. Script!Fold(Sound(O4, R2, H), indexes) = Sound(O5, R2, H)
  BY <1>4, <1>5, <1>9, <1>10, <1>13, ExtendKnown DEF O5, indexes
<1> DEFINE s2 == <<enum>> \o AddAccessLevel
           s3 == s2 \o columns
           s4 == s3 \o <<table>>
<1>22. Script!IsList(s2) /\ Script!Fold(Sound(O, R, H), s2) = Sound(O2, R2, H)
  BY <1>14, <1>16, <1>17, <1>18, Script!FoldConcat
<1> HIDE DEF s2
<1>23. Script!IsList(s3) /\ Script!Fold(Sound(O, R, H), s3) = Sound(O3, R2, H)
  BY <1>15, <1>19, <1>22, Script!FoldConcat
<1> HIDE DEF s3
<1>24. Script!IsList(s4) /\ Script!Fold(Sound(O, R, H), s4) = Sound(O4, R2, H)
  BY <1>16, <1>20, <1>23, Script!FoldConcat
<1> HIDE DEF s4
<1>25. Script!Fold(Sound(O, R, H), s4 \o indexes) = Sound(O5, R2, H)
  BY <1>15, <1>21, <1>24, Script!FoldConcat
<1> QED BY <1>1, <1>2, <1>25 DEF s2, s3, s4, R2
-----------------------------------------------------------------------------
(***************************************************************************)
(* The first migration, onto whatever part of the schema is there.         *)
(***************************************************************************)
Loose(objects) ==
  /\ objects \subseteq Known
  /\ \A o \in objects : o[1] \notin {"table", "type"} => In(objects, Table(o[1]))
  /\ In(objects, Table("hub_user")) => In(objects, RoleType)

Grown(O, P) == O \subseteq P /\ Loose(P) /\ (In(P, LevelColumn) => In(O, LevelColumn))

\* What Reached says before TrimHubSchema.
LEMMA LooseIsReached ==
  ASSUME NEW O
  PROVE  /\ Reached(0, O) <=> Loose(O)
         /\ Reached(1, O) <=> Loose(O) /\ In(O, Table("hub_user")) /\ In(O, RoleEnum)
BY DEF Reached, Loose, Known

\* An object added is there under its name, and the others as before.
LEMMA InAdded ==
  ASSUME NEW O, NEW place, NEW name, NEW type, NEW key
  PROVE  In(O \cup {<<place, name, type>>}, key) <=> In(O, key) \/ key = <<place, name>>
<1> DEFINE o == <<place, name, type>>
<1>1. Key(o) = <<place, name>>
  BY DEF Key
<1> HIDE DEF o
<1>2. In(O \cup {o}, key) <=> In(O, key) \/ key = <<place, name>>
  BY <1>1 DEF In
<1> QED BY <1>2 DEF o

\* An object of the folder leaves a schema in order, if its table is there.
LEMMA LooseAdded ==
  ASSUME NEW O, Loose(O), NEW place, NEW name, NEW type,
         <<place, name, type>> \in Known,
         place \in {"table", "type"} \/ In(O, Table(place)),
         <<place, name>> # Table("hub_user"), <<place, name>> # LevelColumn
  PROVE  Grown(O, O \cup {<<place, name, type>>})
<1> DEFINE o == <<place, name, type>>
           P == O \cup {o}
<1>1. o[1] = place
  OBVIOUS
<1>2. \A key : In(P, key) <=> In(O, key) \/ key = <<place, name>>
  BY InAdded
<1>3. P \subseteq Known
  BY DEF Loose
<1>4. In(P, Table("hub_user")) => In(P, RoleType)
  BY <1>2 DEF Loose
<1>5. \A p \in P : p[1] \notin {"table", "type"} => In(P, Table(p[1]))
  <2> HIDE DEF o
  <2>1. \A p \in P : p \in O \/ p = o
    OBVIOUS
  <2> HIDE DEF P
  <2> QED BY <1>1, <1>2, <2>1 DEF Loose
<1>6. O \subseteq P
  OBVIOUS
<1> QED BY <1>2, <1>3, <1>4, <1>5, <1>6 DEF Loose, Grown

\* Statements one after the other.
LEMMA GrownAgain ==
  ASSUME NEW O, NEW P, NEW Q, Grown(O, P), Grown(P, Q)
  PROVE  Grown(O, Q)
BY DEF Grown

\* A statement that finds its object.
LEMMA LooseIsGrown ==
  ASSUME NEW O, Loose(O)
  PROVE  Grown(O, O)
BY DEF Grown

\* What TrimHubSchema takes away was of the folder.
LEMMA TrimmedKnown ==
  Trimmed \subseteq Known
BY DEF Known

\* The table service_token is created, or is there.
LEMMA ServiceTokenCreated ==
  ASSUME NEW O, Loose(O), NEW R, NEW H
  PROVE  \E P : /\ Execute(Sound(O, R, H),
                           Unless(Table("service_token"),
                                  <<Add("table", "service_token", NULL)>>)) = Sound(P, R, H)
                /\ Grown(O, P)
<1> DEFINE name == "service_token"
           P == O \cup {<<"table", name, NULL>>}
<1>1. <<"table", name, NULL>> \in Known
  BY TrimmedKnown DEF Trimmed
<1>2. <<"table", name>> # Table("hub_user")
  BY DEF Table
<1> HIDE DEF name
<1>3. O \in SUBSET Known
  BY DEF Loose
<1>4. Execute(Sound(O, R, H), Unless(Table(name), <<Add("table", name, NULL)>>))
        = Sound(P, R, H)
  <2>1. Execute(Sound(O, R, H), Unless(<<"table", name>>, <<Add("table", name, NULL)>>))
          = Sound(P, R, H)
    BY <1>3, TablesPlain, CreatesKnown
  <2> QED BY <2>1 DEF Table
<1>5. Grown(O, P)
  BY <1>1, <1>2, TablesPlain, LooseAdded
<1> QED BY <1>4, <1>5 DEF name

\* The two types of the table school are created, or are there.
LEMMA SchoolEnumCreated ==
  ASSUME NEW O, Loose(O), NEW R, NEW H,
         NEW name \in {"school_status_enum", "school_environment_enum"}
  PROVE  \E P : /\ Execute(Sound(O, R, H),
                           Unless(Enum(name), <<Add("type", name, NULL)>>)) = Sound(P, R, H)
                /\ Grown(O, P)
                /\ In(P, Enum(name))
<1> DEFINE P == O \cup {<<"type", name, NULL>>}
<1>1. <<"type", name, NULL>> \in Known
  BY TrimmedKnown DEF Trimmed
<1>2. /\ <<"type", name>> # Table("hub_user") /\ <<"type", name>> # RoleEnum
      /\ <<"type", name>> # LevelColumn /\ TypeOf(<<"type", name>>) = NULL
  BY DEF Table, RoleEnum, LevelColumn, Enum, TypeOf, RoleType
<1>3. O \in SUBSET Known
  BY DEF Loose
<1>4. Execute(Sound(O, R, H), Unless(Enum(name), <<Add("type", name, NULL)>>))
        = Sound(P, R, H)
  <2>1. Execute(Sound(O, R, H), Unless(<<"type", name>>, <<Add("type", name, NULL)>>))
          = Sound(P, R, H)
    BY <1>2, <1>3, CreatesKnown
  <2> QED BY <2>1 DEF Enum
<1>5. Grown(O, P)
  BY <1>1, <1>2, LooseAdded
<1>6. In(P, Enum(name))
  BY InAdded DEF Enum
<1> QED BY <1>4, <1>5, <1>6

\* A table or a type needs nothing but a free name.
LEMMA TopAdded ==
  ASSUME NEW O, NEW R, NEW H, NEW place, place \in {"table", "type"},
         NEW name, NEW type, ~In(O, <<place, name>>)
  PROVE  Change(Sound(O, R, H), Add(place, name, type)) =
           Sound(O \cup {<<place, name, type>>}, R, H)
<1> DEFINE c == Add(place, name, type)
           d == Sound(O, R, H)
<1>1. <<place, name>> # LevelColumn
  BY DEF LevelColumn
<1>2. /\ c.change = "add" /\ c.object = <<place, name, type>>
      /\ Key(c.object) = <<place, name>>
      /\ d.ok = TRUE /\ d.objects = O
  BY DEF Add, Key, Sound
<1>3. Legal(c, d)
  BY <1>2, HasIsIn DEF Legal
<1>4. Applied(c, d) = [d EXCEPT !.objects = @ \cup {<<place, name, type>>}, !.rows = @]
  BY <1>1, <1>2 DEF Applied
<1>5. Change(d, c) = Applied(c, d)
  BY <1>2, <1>3 DEF Change
<1> QED BY <1>4, <1>5 DEF Sound

\* The table school is created with its typed columns, or is there.
LEMMA SchoolCreated ==
  ASSUME NEW O, Loose(O), NEW R, NEW H,
         In(O, Enum("school_status_enum")), In(O, Enum("school_environment_enum"))
  PROVE  \E P : /\ Execute(Sound(O, R, H), Unless(Table("school"), SchoolTable))
                     = Sound(P, R, H)
                /\ Grown(O, P)
<1> DEFINE s == Unless(Table("school"), SchoolTable)
           d == Sound(O, R, H)
<1>1. /\ s.guard = "absent" /\ s.key = Table("school") /\ s.run = SchoolTable
      /\ d.ok = TRUE
  BY DEF Unless, Sound
<1>2. Fires(s, d) <=> ~In(O, Table("school"))
  BY <1>1, HasIsIn DEF Fires
<1>3. CASE In(O, Table("school"))
  <2>1. Execute(d, s) = d
    BY <1>2, <1>3, ExecuteFolds
  <2> QED BY <2>1, LooseIsGrown
<1>4. CASE ~In(O, Table("school"))
  <2> DEFINE school == "school"
             status == "school_status_enum"
             environment == "school_environment_enum"
             P1 == O \cup {<<"table", school, NULL>>}
             P2 == P1 \cup {<<school, "status", status>>}
             P3 == P2 \cup {<<school, "environment", environment>>}
  <2>1. /\ <<"table", school, NULL>> \in Known
        /\ <<school, "status", status>> \in Known
        /\ <<school, "environment", environment>> \in Known
    BY TrimmedKnown DEF Trimmed
  <2>2. /\ Table(school) # Table("hub_user")
        /\ <<school, "status">> # Table("hub_user") /\ <<school, "status">> # LevelColumn
        /\ <<school, "environment">> # Table("hub_user")
        /\ <<school, "environment">> # LevelColumn
        /\ Table(school) # LevelColumn
    BY DEF Table, LevelColumn
  <2>3. \A o \in O : o[1] # school
    <3>1. school \notin {"table", "type"}
      OBVIOUS
    <3> QED BY <1>4, <3>1 DEF Loose
  <2>4. ~In(O, <<school, "status">>) /\ ~In(O, <<school, "environment">>)
    BY <2>3 DEF In, Key
  <2>5. Execute(d, s) =
          Change(Change(Change(d, Add("table", school, NULL)), Add(school, "status", status)),
                 Add(school, "environment", environment))
    <3>1. Execute(d, s) = Changes!Fold(d, SchoolTable)
      BY <1>1, <1>2, <1>4, ExecuteFolds
    <3> QED BY <3>1, Changes!FoldThree DEF SchoolTable
  <2>6. <<school, "status">> # Table(school) /\ <<school, "environment">> # Table(school)
        /\ <<school, "environment">> # <<school, "status">>
    BY DEF Table
  <2> HIDE DEF s, d, status, environment, school
  <2>7. Change(d, Add("table", school, NULL)) = Sound(P1, R, H)
    <3>1. ~In(O, <<"table", school>>)
      BY <1>4, <2>2 DEF Table, school
    <3>2. Change(Sound(O, R, H), Add("table", school, NULL))
            = Sound(O \cup {<<"table", school, NULL>>}, R, H)
      BY <3>1, TopAdded
    <3> QED BY <3>2 DEF d
  <2>8. Grown(O, P1)
    BY <2>1, <2>2, LooseAdded DEF Table
  <2>9. /\ In(P1, Table(school)) /\ ~In(P1, <<school, "status">>)
        /\ In(P1, Enum(status)) /\ In(P1, Enum(environment))
        /\ ~In(P1, <<school, "environment">>)
    BY <2>4, <2>6, InAdded DEF Table, status, environment
  <2> HIDE DEF P1
  <2>10. Change(Sound(P1, R, H), Add(school, "status", status)) = Sound(P2, R, H)
    BY <2>2, <2>9, ChangeAdds
  <2>11. Grown(P1, P2)
    BY <2>1, <2>2, <2>8, <2>9, LooseAdded DEF Grown
  <2>12. /\ In(P2, Table(school)) /\ In(P2, Enum(environment))
         /\ ~In(P2, <<school, "environment">>)
    BY <2>6, <2>9, InAdded
  <2> HIDE DEF P2
  <2>13. Change(Sound(P2, R, H), Add(school, "environment", environment)) = Sound(P3, R, H)
    BY <2>2, <2>12, ChangeAdds
  <2>14. Grown(P2, P3)
    BY <2>1, <2>2, <2>11, <2>12, LooseAdded DEF Grown
  <2> HIDE DEF P3
  <2>15. Grown(O, P3)
    BY <2>8, <2>11, <2>14, GrownAgain
  <2> QED BY <2>5, <2>7, <2>10, <2>13, <2>15 DEF s, d
<1> QED BY <1>3, <1>4

\* The type of the roles is created with the labels of that time, or is there
\* with whatever labels.
LEMMA RoleEnumCreated ==
  ASSUME NEW O, Loose(O), NEW R, NEW H
  PROVE  \E P : /\ Execute(Sound(O, R, H), CreateRoleEnum) = Sound(P, R, H)
                /\ Grown(O, P)
                /\ In(P, RoleEnum)
<1> DEFINE name == "hub_user_role_enum"
           label == "school_owner"
           add == Add("type", name, label)
           s == Unless(RoleEnum, <<add>>)
           d == Sound(O, R, H)
           P == O \cup {<<"type", name, label>>}
<1>1. /\ s.guard = "absent" /\ s.key = RoleEnum /\ s.run = <<add>>
      /\ d.ok = TRUE
  BY DEF Unless, Sound
<1>2. Fires(s, d) <=> ~In(O, RoleEnum)
  BY <1>1, HasIsIn DEF Fires
<1>3. CASE In(O, RoleEnum)
  <2>1. Execute(d, s) = d
    BY <1>2, <1>3, ExecuteFolds
  <2> QED BY <1>3, <2>1, LooseIsGrown DEF CreateRoleEnum
<1>4. CASE ~In(O, RoleEnum)
  <2>1. Execute(d, s) = Change(d, add)
    BY <1>1, <1>2, <1>4, ExecuteFolds, Changes!FoldOne
  <2>2. <<"type", name>> = RoleEnum /\ <<"type", name>> # LevelColumn
        /\ <<"type", name>> # Table("hub_user")
    BY DEF RoleEnum, Enum, LevelColumn, Table
  <2>3. <<"type", name, label>> \in Known
    BY TrimmedKnown DEF Trimmed
  <2>4. Change(d, add) = Sound(P, R, H)
    <3>1. ~In(O, <<"type", name>>)
      BY <1>4, <2>2
    <3> HIDE DEF name, label
    <3> QED BY <3>1, TopAdded
  <2> HIDE DEF name, label
  <2>5. Grown(O, P)
    BY <2>2, <2>3, LooseAdded
  <2>6. In(P, RoleEnum)
    BY <2>2, InAdded
  <2> QED BY <2>1, <2>4, <2>5, <2>6 DEF CreateRoleEnum, name, label
<1> QED BY <1>3, <1>4

\* hub_user comes with its role, or is there.
LEMMA HubUserCreated ==
  ASSUME NEW O, Loose(O), NEW R, NEW H, In(O, RoleEnum)
  PROVE  \E P : /\ Execute(Sound(O, R, H),
                           Unless(Table("hub_user"),
                                  <<Add("table", "hub_user", NULL),
                                    Add("hub_user", "schoolId", NULL),
                                    Add("hub_user", "role", "hub_user_role_enum")>>))
                     = Sound(P, R, H)
                /\ Grown(O, P)
                /\ In(P, Table("hub_user"))
<1> DEFINE table == "hub_user"
           enum  == "hub_user_role_enum"
           run == <<Add("table", table, NULL), Add(table, "schoolId", NULL),
                    Add(table, "role", enum)>>
           s == Unless(Table(table), run)
           d == Sound(O, R, H)
<1>1. /\ s.guard = "absent" /\ s.key = Table(table) /\ s.run = run
      /\ d.ok = TRUE
  BY DEF Unless, Sound
<1>2. Fires(s, d) <=> ~In(O, Table(table))
  BY <1>1, HasIsIn DEF Fires
<1>3. CASE In(O, Table(table))
  <2>1. Execute(d, s) = d
    BY <1>2, <1>3, ExecuteFolds
  <2> QED BY <1>3, <2>1, LooseIsGrown
<1>4. CASE ~In(O, Table(table))
  <2> DEFINE P1 == O \cup {<<"table", table, NULL>>}
             P2 == P1 \cup {<<table, "schoolId", NULL>>}
             P3 == P2 \cup {<<table, "role", enum>>}
  <2>1. /\ <<"table", table, NULL>> \in Known
        /\ <<table, "schoolId", NULL>> \in Known
        /\ <<table, "role", enum>> \in Known
    <3>1. <<table, "schoolId", NULL>> \in Known
      BY TrimmedKnown DEF Trimmed
    <3>2. Leaves[2] \subseteq Known
      BY KnownLeaves
    <3> QED BY <3>1, <3>2 DEF Leaves
  <2>2. /\ <<table, "schoolId">> # LevelColumn /\ <<table, "role">> # LevelColumn
        /\ Table(table) # LevelColumn
        /\ <<table, "role">> = RoleType /\ RoleEnum = Enum(enum)
    BY DEF Table, LevelColumn, RoleType, RoleEnum
  <2>3. \A o \in O : o[1] # table
    <3>1. table \notin {"table", "type"}
      OBVIOUS
    <3> QED BY <1>4, <3>1 DEF Loose
  <2>4. ~In(O, <<table, "schoolId">>) /\ ~In(O, <<table, "role">>)
    BY <2>3 DEF In, Key
  <2>5. Execute(d, s) =
          Change(Change(Change(d, Add("table", table, NULL)), Add(table, "schoolId", NULL)),
                 Add(table, "role", enum))
    BY <1>1, <1>2, <1>4, ExecuteFolds, Changes!FoldThree
  <2>6. /\ <<table, "schoolId">> # Table(table) /\ <<table, "role">> # Table(table)
        /\ <<table, "role">> # <<table, "schoolId">>
        /\ <<table, "schoolId">> # LevelColumn /\ <<table, "role">> # LevelColumn
        /\ Table(table) # LevelColumn /\ Enum(enum) # Table(table)
    BY DEF Table, Enum, LevelColumn
  <2>16. \A o \in {<<"table", table, NULL>>, <<table, "schoolId", NULL>>,
                   <<table, "role", enum>>} :
           o[1] \notin {"table", "type"} => o[1] = table
    OBVIOUS
  <2>17. Table("hub_user") = Table(table)
    OBVIOUS
  <2> HIDE DEF s, d, run, enum, table
  <2>7. Change(d, Add("table", table, NULL)) = Sound(P1, R, H)
    <3>1. ~In(O, <<"table", table>>)
      BY <1>4 DEF Table
    <3> QED BY <3>1, TopAdded DEF d
  <2>9. /\ In(P1, Table(table)) /\ ~In(P1, <<table, "schoolId">>)
        /\ In(P1, Enum(enum)) /\ ~In(P1, <<table, "role">>)
        /\ (In(P1, LevelColumn) <=> In(O, LevelColumn))
    BY <2>2, <2>4, <2>6, InAdded DEF Table
  <2> HIDE DEF P1
  <2>10. Change(Sound(P1, R, H), Add(table, "schoolId", NULL)) = Sound(P2, R, H)
    BY <2>6, <2>9, ChangeAdds
  <2>12. /\ In(P2, Table(table)) /\ In(P2, Enum(enum)) /\ ~In(P2, <<table, "role">>)
         /\ (In(P2, LevelColumn) <=> In(P1, LevelColumn))
    BY <2>6, <2>9, InAdded
  <2> HIDE DEF P2
  <2>13. Change(Sound(P2, R, H), Add(table, "role", enum)) = Sound(P3, R, H)
    BY <2>6, <2>12, ChangeAdds
  <2>14. /\ In(P3, Table(table)) /\ In(P3, <<table, "role">>)
         /\ (In(P3, LevelColumn) <=> In(P2, LevelColumn))
    BY <2>6, <2>12, InAdded
  <2>18. O \subseteq P3
    BY DEF P1, P2
  <2>15. Grown(O, P3)
    <3>1. P3 \subseteq Known
      BY <2>1 DEF Loose, P1, P2
    <3>2. \A o \in P3 : o[1] \notin {"table", "type"} => In(P3, Table(o[1]))
      <4>1. \A o \in P3 : \/ o \in O
                          \/ o \in {<<"table", table, NULL>>, <<table, "schoolId", NULL>>,
                                    <<table, "role", enum>>}
        BY DEF P1, P2
      <4> HIDE DEF P3
      <4>2. \A key : In(O, key) => In(P3, key)
        BY <2>18, InGrows
      <4> QED BY <2>14, <2>16, <4>1, <4>2 DEF Loose
    <3> HIDE DEF P3
    <3> QED BY <2>2, <2>9, <2>12, <2>14, <2>18, <3>1, <3>2 DEF Loose, Grown
  <2> HIDE DEF P3
  <2> QED BY <2>5, <2>7, <2>10, <2>13, <2>14, <2>15, <2>17 DEF s, d, run, enum, table
<1> QED BY <1>3, <1>4

\* InitialSchema succeeds on any part of the folder and leaves the accounts alone.
LEMMA FirstMigration ==
  ASSUME NEW O, Loose(O), NEW R, NEW H
  PROVE  \E P : /\ Script!Fold(Sound(O, R, H), Up[1]) = Sound(P, R, H)
                /\ Grown(O, P)
                /\ Reached(1, P)
<1> DEFINE token == Unless(Table("service_token"), <<Add("table", "service_token", NULL)>>)
           status == Unless(Enum("school_status_enum"),
                            <<Add("type", "school_status_enum", NULL)>>)
           environment == Unless(Enum("school_environment_enum"),
                                 <<Add("type", "school_environment_enum", NULL)>>)
           school == Unless(Table("school"), SchoolTable)
           user == Unless(Table("hub_user"),
                          <<Add("table", "hub_user", NULL), Add("hub_user", "schoolId", NULL),
                            Add("hub_user", "role", "hub_user_role_enum")>>)
<1>1. Up[1] = (<<token>> \o <<status, environment>>) \o <<school, CreateRoleEnum, user>>
  BY DEF Up, InitialSchema, SchoolEnums
<1>2. PICK P1 : Execute(Sound(O, R, H), token) = Sound(P1, R, H) /\ Grown(O, P1)
  BY ServiceTokenCreated
<1>3. PICK P2 : /\ Execute(Sound(P1, R, H), status) = Sound(P2, R, H)
                /\ Grown(P1, P2) /\ In(P2, Enum("school_status_enum"))
  BY <1>2, SchoolEnumCreated DEF Grown
<1>4. PICK P3 : /\ Execute(Sound(P2, R, H), environment) = Sound(P3, R, H)
                /\ Grown(P2, P3) /\ In(P3, Enum("school_environment_enum"))
  BY <1>3, SchoolEnumCreated DEF Grown
<1>5. In(P3, Enum("school_status_enum"))
  BY <1>3, <1>4, InGrows DEF Grown
<1>6. PICK P4 : /\ Execute(Sound(P3, R, H), school) = Sound(P4, R, H)
                /\ Grown(P3, P4)
  BY <1>4, <1>5, SchoolCreated DEF Grown
<1>7. PICK P5 : /\ Execute(Sound(P4, R, H), CreateRoleEnum) = Sound(P5, R, H)
                /\ Grown(P4, P5) /\ In(P5, RoleEnum)
  BY <1>6, RoleEnumCreated DEF Grown
<1>8. PICK P6 : /\ Execute(Sound(P5, R, H), user) = Sound(P6, R, H)
                /\ Grown(P5, P6) /\ In(P6, Table("hub_user"))
  BY <1>7, HubUserCreated DEF Grown
<1> HIDE DEF token, status, environment, school, user
<1>9. Grown(O, P6)
  BY <1>2, <1>3, <1>4, <1>6, <1>7, <1>8, GrownAgain
<1>10. In(P6, RoleEnum)
  BY <1>7, <1>8, InGrows DEF Grown
<1>11. Script!IsList(<<token>>) /\ Script!Fold(Sound(O, R, H), <<token>>) = Sound(P1, R, H)
  BY <1>2, SingleIsList, Script!FoldOne
<1>12. /\ Script!IsList(<<status, environment>>)
       /\ Script!Fold(Sound(P1, R, H), <<status, environment>>) = Sound(P3, R, H)
  <2>1. <<status, environment>> \in Seq({status, environment})
    OBVIOUS
  <2>2. Script!Fold(Sound(P1, R, H), <<status, environment>>) = Sound(P3, R, H)
    BY <1>3, <1>4, Script!FoldTwo
  <2> QED BY <2>1, <2>2 DEF Script!IsList
<1>13. /\ Script!IsList(<<school, CreateRoleEnum, user>>)
       /\ Script!Fold(Sound(P3, R, H), <<school, CreateRoleEnum, user>>) = Sound(P6, R, H)
  <2>1. <<school, CreateRoleEnum, user>> \in Seq({school, CreateRoleEnum, user})
    OBVIOUS
  <2>2. Script!Fold(Sound(P3, R, H), <<school, CreateRoleEnum, user>>) = Sound(P6, R, H)
    BY <1>6, <1>7, <1>8, Script!FoldThree
  <2> QED BY <2>1, <2>2 DEF Script!IsList
<1> DEFINE s1 == <<token>>
           s2 == <<status, environment>>
           s3 == <<school, CreateRoleEnum, user>>
<1> HIDE DEF s1, s2, s3
<1>14. Script!IsList(s1 \o s2) /\ Script!Fold(Sound(O, R, H), s1 \o s2) = Sound(P3, R, H)
  BY <1>11, <1>12, Script!FoldConcat DEF s1, s2
<1> DEFINE s12 == s1 \o s2
<1> HIDE DEF s12
<1>15. Script!Fold(Sound(O, R, H), s12 \o s3) = Sound(P6, R, H)
  BY <1>13, <1>14, Script!FoldConcat DEF s12, s3
<1>16. Reached(1, P6)
  BY <1>8, <1>9, <1>10, LooseIsReached DEF Grown
<1> QED BY <1>1, <1>9, <1>15, <1>16 DEF s1, s2, s3, s12
-----------------------------------------------------------------------------
(***************************************************************************)
(* The second migration, which drops what moved to other services and      *)
(* recasts the role.                                                       *)
(***************************************************************************)
Aside == "hub_user_role_enum_old"

RoleKeys == {RoleEnum, RoleType, RoleDefault}
Bare(O)  == {o \in O : Key(o) \notin RoleKeys}

RoleObjects ==
  {<<"type", "hub_user_role_enum", "SYSTEM_ADMIN">>,
   <<"hub_user", "role", "hub_user_role_enum">>, <<"hub_user", "role default", NULL>>}

\* A type of which there is one column at most.
LEMMA TypesByKey ==
  ASSUME NEW key
  PROVE  /\ TypeOf(key) = "hub_user_role_enum" => key = RoleType
         /\ TypeOf(key) = "school_status_enum" => key = <<"school", "status">>
         /\ TypeOf(key) = "school_environment_enum" => key = <<"school", "environment">>
         /\ TypeOf(key) # Aside
<1>1. NULL # "hub_user_role_enum" /\ NULL # "school_status_enum"
      /\ NULL # "school_environment_enum" /\ NULL # "hub_user_role_enum_old"
  BY SchemaAssumption
<1> HIDE DEF RoleType, LevelColumn, Enum
<1> QED BY <1>1 DEF TypeOf, Aside

\* No object of the folder has the name the old type is renamed to.
LEMMA NothingAside ==
  ASSUME NEW o \in Known
  PROVE  Key(o) # Enum(Aside)
<1>1. \A p \in Trimmed : Key(p) # Enum(Aside)
  BY DEF Trimmed, Key, Enum, Aside
<1>2. \A p \in Leaves[2] : Key(p) # Enum(Aside)
  <2>1. Leaves[2] = {<<"table", "hub_user", NULL>>,
                     <<"type", "hub_user_role_enum", "SYSTEM_ADMIN">>,
                     <<"hub_user", "role", "hub_user_role_enum">>,
                     <<"hub_user", "role default", NULL>>}
    BY DEF Leaves
  <2>2. /\ Key(<<"table", "hub_user", NULL>>) # Enum(Aside)
        /\ Key(<<"hub_user", "role", "hub_user_role_enum">>) # Enum(Aside)
        /\ Key(<<"hub_user", "role default", NULL>>) # Enum(Aside)
    BY DEF Key, Enum
  <2>3. Key(<<"type", "hub_user_role_enum", "SYSTEM_ADMIN">>) # Enum(Aside)
    BY DEF Key, Enum, Aside
  <2> QED BY <2>1, <2>2, <2>3
<1>3. \A table, names : table # "type" => \A p \in On(table, names) : Key(p) # Enum(Aside)
  BY DEF On, Key, Enum
<1>4. \A p \in Leaves[3] : Key(p) # Enum(Aside)
  <2>1. \A p \in Leaves[3] : \/ p = <<"table", "hub_refresh_token", NULL>>
                             \/ p \in On("hub_refresh_token", RefreshTokenObjects)
    BY DEF Leaves
  <2>2. Key(<<"table", "hub_refresh_token", NULL>>) # Enum(Aside)
    BY DEF Key, Enum
  <2> QED BY <1>3, <2>1, <2>2
<1>5. \A p \in Leaves[4] : Key(p) # Enum(Aside)
  <2>1. \A p \in Leaves[4] : \/ p \in {<<"type", "hub_access_level_enum", "VIEW EDIT ADMIN">>,
                                       <<"hub_user", "accessLevel", "hub_access_level_enum">>,
                                       <<"table", "hub_user_recovery_code", NULL>>}
                             \/ p \in On("hub_user", TotpColumns)
                             \/ p \in On("hub_user_recovery_code", RecoveryCodeObjects)
    BY DEF Leaves
  <2>2. /\ Key(<<"hub_user", "accessLevel", "hub_access_level_enum">>) # Enum(Aside)
        /\ Key(<<"table", "hub_user_recovery_code", NULL>>) # Enum(Aside)
    BY DEF Key, Enum
  <2>3. Key(<<"type", "hub_access_level_enum", "VIEW EDIT ADMIN">>) # Enum(Aside)
    BY DEF Key, Enum, Aside
  <2> QED BY <1>3, <2>1, <2>2, <2>3
<1>6. \A n \in {5, 6, 7} : \A p \in Leaves[n] : Key(p) # Enum(Aside)
  <2>1. /\ Leaves[5] = On("hub_user", <<"mobile", "UQ_hub_user_mobile">>)
        /\ Leaves[6] = On("hub_user", <<"totpBypassedAt">>)
        /\ Leaves[7] = On("hub_user", <<"totpRequired">>)
    BY DEF Leaves
  <2> QED BY <1>3, <2>1
<1>7. Leaves[1] = {}
  BY DEF Leaves
<1>8. Kept(7) = UNION {Leaves[n] : n \in 1..7}
  BY DEF Kept
<1>9. \A p \in Kept(7) : \E n \in {1, 2, 3, 4, 5, 6, 7} : p \in Leaves[n]
  BY <1>8
<1> QED BY <1>1, <1>2, <1>4, <1>5, <1>6, <1>7, <1>9, SevenMigrations DEF Known

\* A plain statement with one change is that change.
LEMMA AlwaysOne ==
  ASSUME NEW O, NEW R, NEW H, NEW c
  PROVE  Execute(Sound(O, R, H), Always(<<c>>)) = Change(Sound(O, R, H), c)
<1>1. /\ Always(<<c>>).guard = "none" /\ Always(<<c>>).run = <<c>>
      /\ Sound(O, R, H).ok = TRUE
  BY DEF Always, Sound
<1>2. Fires(Always(<<c>>), Sound(O, R, H))
  BY <1>1 DEF Fires
<1> QED BY <1>1, <1>2, ExecuteFolds, Changes!FoldOne

\* A plain DROP of an enum no column has.
LEMMA EnumDropped ==
  ASSUME NEW O, NEW R, NEW H, NEW name, In(O, Enum(name)),
         \A o \in O : o[1] # "type" => o[3] # name
  PROVE  Change(Sound(O, R, H), Drop(Enum(name))) =
           Sound({o \in O : Key(o) # Enum(name)}, R, H)
<1> DEFINE c == Drop(Enum(name))
           d == Sound(O, R, H)
<1>1. /\ d.ok = TRUE /\ d.objects = O
      /\ c.change = "drop" /\ c.key = Enum(name)
      /\ Enum(name)[1] = "type" /\ Enum(name)[2] = name
      /\ Enum(name) # LevelColumn /\ Enum(name) # Table("hub_user")
  BY DEF Sound, Drop, Enum, Table, LevelColumn
<1>2. Legal(c, d)
  BY <1>1, HasIsIn DEF Legal
<1>3. Change(d, c) = Applied(c, d)
  BY <1>1, <1>2 DEF Change
<1>4. Applied(c, d) = [d EXCEPT !.objects = {o \in @ : ~Gone(c.key, o)}, !.rows = @]
  BY <1>1 DEF Applied
<1>5. {o \in d.objects : ~Gone(c.key, o)} = {o \in O : Key(o) # Enum(name)}
  BY <1>1 DEF Gone
<1> QED BY <1>3, <1>4, <1>5 DEF Sound

\* A type that is there is renamed, if the new name is free.
LEMMA EnumRenamed ==
  ASSUME NEW O, NEW R, NEW H, NEW from, NEW to, In(O, Enum(from)), ~In(O, Enum(to))
  PROVE  Change(Sound(O, R, H), Rename(from, to)) =
           Sound({Renamed(Rename(from, to), o) : o \in O}, R, H)
<1> DEFINE c == Rename(from, to)
           d == Sound(O, R, H)
<1>1. /\ d.ok = TRUE /\ d.objects = O
      /\ c.change = "rename" /\ c.from = from /\ c.to = to
  BY DEF Sound, Rename
<1> HIDE DEF c, d
<1>2. Legal(c, d)
  BY <1>1, HasIsIn DEF Legal, d
<1>3. Change(d, c) = Applied(c, d)
  BY <1>1, <1>2 DEF Change
<1>4. Applied(c, d) = [d EXCEPT !.objects = {Renamed(c, o) : o \in @}]
  BY <1>1 DEF Applied
<1> QED BY <1>3, <1>4 DEF Sound, c, d

\* The role is recast once its default is gone.
LEMMA RoleRecast ==
  ASSUME NEW O, NEW R, NEW H, NEW role, In(O, RoleType), ~In(O, RoleDefault)
  PROVE  Change(Sound(O, R, H), Recast(role)) =
           Sound({o \in O : Key(o) # RoleType} \cup {<<"hub_user", "role", RoleEnum[2]>>},
                 Filled(R, "role", role), H)
<1> DEFINE c == Recast(role)
           d == Sound(O, R, H)
<1>1. /\ d.ok = TRUE /\ d.objects = O
      /\ c.change = "recast" /\ c.role = role
      /\ Has(d, RoleType) /\ ~Has(d, RoleDefault)
      /\ OnRows(d, "role", role) = Filled(R, "role", role)
  BY HasIsIn, OnRowsFills DEF Sound, Recast
<1> HIDE DEF c, d
<1>2. Legal(c, d)
  BY <1>1 DEF Legal
<1>3. Change(d, c) = Applied(c, d)
  BY <1>1, <1>2 DEF Change
<1> DEFINE P == {o \in O : Key(o) # RoleType} \cup {<<"hub_user", "role", RoleEnum[2]>>}
<1>4. Applied(c, d) = Updated(d, P, Filled(R, "role", role))
  BY <1>1 DEF Applied, Updated
<1> HIDE DEF P
<1> QED BY <1>3, <1>4, SoundUpdated DEF P, c, d

\* What a rename, a recast and a drop of the old type can meet.
LEMMA BareObjects ==
  ASSUME NEW O \in SUBSET Known, NEW o \in O
  PROVE  /\ o = <<o[1], o[2], o[3]>>
         /\ Key(o) # Enum(Aside)
         /\ Key(o) = RoleType => o[3] = "hub_user_role_enum"
         /\ o \in Bare(O) => o[3] # "hub_user_role_enum" /\ o[3] # Aside
<1>1. Typed(o)
  BY KnownTyped
<1>2. TypeOf(RoleType) = "hub_user_role_enum"
  BY DEF TypeOf
<1>3. RoleType # RoleEnum
  BY DEF RoleType, RoleEnum, Enum
<1>4. o \in Bare(O) => Key(o) # RoleEnum /\ Key(o) # RoleType
  BY DEF Bare, RoleKeys
<1> QED BY <1>1, <1>2, <1>3, <1>4, TypesByKey, NothingAside DEF Typed

\* What RENAME makes of the schema.
LEMMA AfterRename ==
  ASSUME NEW O \in SUBSET Known, In(O, RoleType)
  PROVE  {Renamed(Rename(RoleEnum[2], Aside), o) : o \in O} =
           Bare(O) \cup {<<"type", Aside, o[3]>> : o \in {p \in O : Key(p) = RoleEnum}}
                   \cup {<<"hub_user", "role", Aside>>}
                   \cup {o \in O : Key(o) = RoleDefault}
<1> DEFINE c == Rename(RoleEnum[2], Aside)
           E == {<<"type", Aside, o[3]>> : o \in {p \in O : Key(p) = RoleEnum}}
           D == {o \in O : Key(o) = RoleDefault}
           old == <<"hub_user", "role", Aside>>
<1>1. /\ Enum(c.from) = RoleEnum /\ c.from = "hub_user_role_enum" /\ c.to = Aside
      /\ RoleType # RoleEnum /\ RoleDefault # RoleEnum /\ RoleDefault # RoleType
  BY DEF Rename, RoleEnum, Enum, RoleType, RoleDefault
<1>2. ASSUME NEW o \in O, Key(o) = RoleEnum
      PROVE  Renamed(c, o) = <<"type", Aside, o[3]>>
  <2>1. o[1] = "type"
    BY <1>2 DEF Key, RoleEnum, Enum
  <2> QED BY <1>1, <1>2, <2>1 DEF Renamed
<1>3. ASSUME NEW o \in O, Key(o) = RoleType
      PROVE  Renamed(c, o) = old
  <2>1. o[1] = "hub_user" /\ o[2] = "role"
    BY <1>3 DEF Key, RoleType
  <2>2. o[3] = "hub_user_role_enum"
    BY <1>3, BareObjects
  <2> QED BY <1>1, <1>3, <2>1, <2>2 DEF Renamed
<1>4. ASSUME NEW o \in O, Key(o) = RoleDefault
      PROVE  Renamed(c, o) = o
  <2>1. TypeOf(RoleDefault) # "hub_user_role_enum"
    BY <1>1, TypesByKey
  <2>2. o[3] # "hub_user_role_enum"
    BY <1>1, <1>4, <2>1, KnownTyped DEF Typed
  <2> QED BY <1>1, <1>4, <2>2 DEF Renamed
<1>5. ASSUME NEW o \in Bare(O)
      PROVE  Renamed(c, o) = o
  <2>1. o \in O /\ Key(o) # RoleEnum
    BY DEF Bare, RoleKeys
  <2>2. o[3] # "hub_user_role_enum"
    BY <2>1, BareObjects
  <2> QED BY <1>1, <2>1, <2>2 DEF Renamed
<1>6. \A o \in O : o \in Bare(O) \/ Key(o) \in {RoleEnum, RoleType, RoleDefault}
  BY DEF Bare, RoleKeys
<1>7. Bare(O) \subseteq O
  BY DEF Bare
<1>8. PICK r \in O : Key(r) = RoleType
  BY DEF In
<1> HIDE DEF c, old
<1>9. \A o \in O : Renamed(c, o) \in Bare(O) \cup E \cup {old} \cup D
  BY <1>2, <1>3, <1>4, <1>5, <1>6
<1>10. \A p \in Bare(O) \cup E \cup {old} \cup D : \E o \in O : p = Renamed(c, o)
  <2>1. \A p \in Bare(O) : p \in O /\ p = Renamed(c, p)
    BY <1>5, <1>7
  <2>2. \A p \in E : \E o \in O : p = Renamed(c, o)
    BY <1>2
  <2>3. old = Renamed(c, r)
    BY <1>3, <1>8
  <2>4. \A p \in D : p \in O /\ p = Renamed(c, p)
    BY <1>4
  <2> HIDE DEF E, D
  <2> QED BY <1>8, <2>1, <2>2, <2>3, <2>4
<1> HIDE DEF E, D
<1>11. {Renamed(c, o) : o \in O} = Bare(O) \cup E \cup {old} \cup D
  BY <1>9, <1>10
<1> QED BY <1>11 DEF c, E, D, old

\* The recast of the roles ends in the type, the column and the default of this
\* build, whatever labels there were and whether or not there was a default.
LEMMA RoleSwapped ==
  ASSUME NEW O \in SUBSET Known, NEW R, NEW H,
         In(O, RoleEnum), In(O, RoleType), In(O, Table("hub_user"))
  PROVE  Script!Fold(Sound(O, R, H), RecastRole(Aside, "SYSTEM_ADMIN", "SYSTEM_ADMIN")) =
           Sound(Bare(O) \cup RoleObjects, Filled(R, "role", "SYSTEM_ADMIN"), H)
<1> DEFINE label == "SYSTEM_ADMIN"
           enum == RoleEnum[2]
           B == Bare(O)
           E == {<<"type", Aside, o[3]>> : o \in {p \in O : Key(p) = RoleEnum}}
           D == {o \in O : Key(o) = RoleDefault}
           old == <<"hub_user", "role", Aside>>
           new == <<"hub_user", "role", enum>>
           type == <<"type", enum, label>>
           default == <<"hub_user", RoleDefault[2], NULL>>
           O1 == B \cup E \cup {old} \cup D
           O2 == O1 \cup {type}
           O3 == B \cup E \cup {old} \cup {type}
           O4 == B \cup E \cup {type} \cup {new}
           O5 == O4 \cup {default}
           O6 == B \cup {type} \cup {new} \cup {default}
           R4 == Filled(R, "role", label)
           aside == Enum(Aside)
<1>1. /\ Key(old) = RoleType /\ Key(new) = RoleType
      /\ Key(type) = RoleEnum /\ Key(default) = RoleDefault
      /\ old[1] = "hub_user" /\ new[1] = "hub_user" /\ type[1] = "type"
      /\ default[1] = "hub_user" /\ new[3] = enum /\ default[3] = NULL
      /\ enum = "hub_user_role_enum"
  BY DEF Key, RoleType, RoleEnum, Enum, RoleDefault
<1>2. /\ RoleEnum # RoleType /\ RoleEnum # RoleDefault /\ RoleType # RoleDefault
      /\ aside \notin RoleKeys /\ Table("hub_user") \notin RoleKeys
      /\ Table("hub_user") # aside
      /\ RoleDefault # LevelColumn /\ RoleDefault # Table("hub_user")
      /\ RoleDefault[1] = "hub_user" /\ RoleDefault = <<"hub_user", RoleDefault[2]>>
      /\ RoleEnum = <<"type", enum>> /\ RoleEnum = Enum(enum) /\ enum # Aside
  BY DEF RoleEnum, RoleType, RoleDefault, RoleKeys, Enum, Table, LevelColumn, Aside
<1>3. \A e \in E : Key(e) = aside /\ e[1] = "type"
  BY DEF Key, Enum
<1>4. \A b \in B : /\ Key(b) # RoleEnum /\ Key(b) # RoleType /\ Key(b) # RoleDefault
                   /\ Key(b) # aside /\ b[3] # Aside
  <2>1. \A b \in B : b \in O /\ Key(b) \notin RoleKeys
    BY DEF Bare
  <2> QED BY <2>1, BareObjects DEF RoleKeys
<1>5. \A e \in D : Key(e) = RoleDefault
  OBVIOUS
<1>6. E # {} /\ ~In(O, aside)
  <2>1. PICK o \in O : Key(o) = RoleEnum
    BY DEF In
  <2>2. <<"type", Aside, o[3]>> \in E
    BY <2>1
  <2>3. ~In(O, aside)
    BY BareObjects DEF In
  <2> QED BY <2>2, <2>3
<1>7. NULL # Aside
  BY SchemaAssumption DEF Aside
<1>8. RecastRole(Aside, label, label) =
        <<Always(<<Rename(RoleEnum[2], Aside)>>), Always(<<Add("type", enum, label)>>),
          IfThere(RoleDefault), Always(<<Recast(label)>>),
          Always(<<Add("hub_user", RoleDefault[2], NULL)>>), Always(<<Drop(aside)>>)>>
  BY DEF RecastRole
<1>9. /\ \A p \in {old, new, default} : p[1] = "hub_user"
      /\ aside[1] = "type" /\ aside # LevelColumn /\ type[3] = label
      /\ "type" \in {"table", "type"} /\ RoleDefault[1] # "table" /\ RoleDefault[1] # "type"
  BY <1>2 DEF Enum, LevelColumn
<1>10. PICK table \in O : Key(table) = Table("hub_user")
  BY DEF In
<1>11. table \in B
  BY <1>2, <1>10 DEF Bare
<1>12. {Renamed(Rename(enum, Aside), o) : o \in O} = O1
  BY AfterRename
<1> HIDE DEF label, enum, B, E, D, old, new, type, default, aside
<1>13. Change(Sound(O, R, H), Rename(enum, Aside)) = Sound(O1, R, H)
  BY <1>2, <1>6, <1>12, EnumRenamed DEF aside
<1>14. Change(Sound(O1, R, H), Add("type", enum, label)) = Sound(O2, R, H)
  <2>1. ~In(O1, <<"type", enum>>)
    BY <1>1, <1>2, <1>3, <1>4, <1>5 DEF In, RoleKeys
  <2> HIDE DEF O1
  <2>2. Change(Sound(O1, R, H), Add("type", enum, label))
          = Sound(O1 \cup {<<"type", enum, label>>}, R, H)
    BY <1>9, <2>1, TopAdded
  <2> QED BY <2>2 DEF type
<1>15. Execute(Sound(O2, R, H), IfThere(RoleDefault)) = Sound(O3, R, H)
  <2>1. \A o : Gone(RoleDefault, o) <=> Key(o) = RoleDefault
    BY <1>9 DEF Gone
  <2>2. {o \in O2 : ~Gone(RoleDefault, o)} = O3
    BY <1>1, <1>2, <1>3, <1>4, <1>5, <2>1 DEF RoleKeys
  <2>3. ~In(O2, RoleDefault) => \A o \in O2 : ~Gone(RoleDefault, o)
    BY <2>1 DEF In
  <2> HIDE DEF O2, O3
  <2>4. Execute(Sound(O2, R, H), IfThere(RoleDefault))
          = Sound({o \in O2 : ~Gone(RoleDefault, o)}, R, H)
    BY <1>2, <1>9, <2>3, DropsOne
  <2> QED BY <2>2, <2>4
<1>16. Change(Sound(O3, R, H), Recast(label)) = Sound(O4, R4, H)
  <2>1. In(O3, RoleType)
    BY <1>1 DEF In
  <2>2. ~In(O3, RoleDefault)
    BY <1>1, <1>2, <1>3, <1>4 DEF In, RoleKeys
  <2>3. {o \in O3 : Key(o) # RoleType} \cup {new} = O4
    BY <1>1, <1>2, <1>3, <1>4 DEF RoleKeys
  <2> HIDE DEF O3, O4
  <2>4. Change(Sound(O3, R, H), Recast(label)) =
          Sound({o \in O3 : Key(o) # RoleType} \cup {<<"hub_user", "role", RoleEnum[2]>>},
                 Filled(R, "role", label), H)
    BY <2>1, <2>2, RoleRecast
  <2> QED BY <2>3, <2>4 DEF new, enum
<1>17. Change(Sound(O4, R4, H), Add("hub_user", RoleDefault[2], NULL)) = Sound(O5, R4, H)
  <2>1. ~In(O4, <<"hub_user", RoleDefault[2]>>)
    BY <1>1, <1>2, <1>3, <1>4 DEF In, RoleKeys
  <2>2. In(O4, Table("hub_user"))
    BY <1>10, <1>11 DEF In
  <2>3. <<"hub_user", RoleDefault[2]>> # LevelColumn
    BY <1>2
  <2> DEFINE name == RoleDefault[2]
  <2> HIDE DEF O4, R4, name
  <2>4. Change(Sound(O4, R4, H), Add("hub_user", name, NULL))
          = Sound(O4 \cup {<<"hub_user", name, NULL>>}, R4, H)
    BY <2>1, <2>2, <2>3, ChangeAdds DEF name
  <2> QED BY <2>4 DEF name, default
<1>18. Change(Sound(O5, R4, H), Drop(aside)) = Sound(O6, R4, H)
  <2>1. In(O5, aside)
    BY <1>3, <1>6 DEF In
  <2>2. \A o \in O5 : o[1] # "type" => o[3] # Aside
    BY <1>1, <1>2, <1>3, <1>4, <1>7
  <2>3. {o \in O5 : Key(o) # aside} = O6
    BY <1>1, <1>2, <1>3, <1>4 DEF RoleKeys
  <2> HIDE DEF O5, O6, R4
  <2>4. Change(Sound(O5, R4, H), Drop(Enum(Aside)))
          = Sound({o \in O5 : Key(o) # Enum(Aside)}, R4, H)
    BY <2>1, <2>2, EnumDropped DEF aside
  <2> QED BY <2>3, <2>4 DEF aside
<1>19. O6 = Bare(O) \cup RoleObjects
  <2>1. /\ type = <<"type", "hub_user_role_enum", "SYSTEM_ADMIN">>
        /\ new = <<"hub_user", "role", "hub_user_role_enum">>
        /\ default = <<"hub_user", "role default", NULL>>
    BY <1>1 DEF type, new, default, label, RoleDefault
  <2> QED BY <2>1 DEF RoleObjects, B
<1> HIDE DEF O1, O2, O3, O4, O5, O6, R4
<1>20. Script!Fold(Sound(O, R, H), RecastRole(Aside, label, label)) =
         Execute(Execute(Execute(Execute(Execute(Execute(Sound(O, R, H),
           Always(<<Rename(RoleEnum[2], Aside)>>)), Always(<<Add("type", enum, label)>>)),
           IfThere(RoleDefault)), Always(<<Recast(label)>>)),
           Always(<<Add("hub_user", RoleDefault[2], NULL)>>)), Always(<<Drop(aside)>>))
  BY <1>8, Script!FoldSix
<1>21. @ = Sound(O6, R4, H)
  BY <1>13, <1>14, <1>15, <1>16, <1>17, <1>18, AlwaysOne DEF enum
<1> QED BY <1>19, <1>20, <1>21 DEF R4, label

\* The tables, enums and the column that go, and nothing but them.
LEMMA HubTrimmed ==
  ASSUME NEW O, Loose(O), NEW R, NEW H
  PROVE  \E P : /\ Script!Fold(Sound(O, R, H),
                     <<IfThere(Table("service_token")), IfThere(Table("school")),
                       IfThere(Enum("school_environment_enum")),
                       IfThere(Enum("school_status_enum")),
                       IfThere(<<"hub_user", "schoolId">>)>>) = Sound(P, R, H)
                /\ P \subseteq O
                /\ \A o \in P : o \in Trimmed => Key(o) = RoleEnum
                /\ \A key \in {RoleEnum, RoleType, Table("hub_user"), LevelColumn} :
                     In(P, key) <=> In(O, key)
<1> DEFINE token == Table("service_token")
           school == Table("school")
           environment == Enum("school_environment_enum")
           status == Enum("school_status_enum")
           column == <<"hub_user", "schoolId">>
           P1 == {o \in O : ~Gone(token, o)}
           P2 == {o \in P1 : ~Gone(school, o)}
           P3 == {o \in P2 : ~Gone(environment, o)}
           P4 == {o \in P3 : ~Gone(status, o)}
           P5 == {o \in P4 : ~Gone(column, o)}
<1>1. /\ \A o : Gone(token, o) <=> Key(o) = token \/ o[1] = "service_token"
      /\ \A o : Gone(school, o) <=> Key(o) = school \/ o[1] = "school"
      /\ \A o : Gone(environment, o) <=> Key(o) = environment
      /\ \A o : Gone(status, o) <=> Key(o) = status
      /\ \A o : Gone(column, o) <=> Key(o) = column
  BY DEF Gone, Table, Enum
<1>2. /\ LevelColumn \notin {token, school, environment, status, column}
      /\ Table("hub_user") \notin {token, school, environment, status, column}
      /\ RoleEnum \notin {token, school, environment, status, column}
      /\ RoleType \notin {token, school, environment, status, column}
      /\ token # school
  BY DEF LevelColumn, Table, Enum, RoleEnum, RoleType
<1>3. /\ token[1] # "type" /\ school[1] # "type" /\ column[1] # "type"
      /\ environment[2] = "school_environment_enum" /\ status[2] = "school_status_enum"
  BY DEF Table, Enum
<1>4. ASSUME NEW o \in O, o[1] # "type", o[1] # "school"
      PROVE  o[3] # "school_environment_enum" /\ o[3] # "school_status_enum"
  <2>1. Typed(o)
    BY KnownTyped DEF Loose
  <2>2. Key(o) # RoleEnum /\ Key(o) # <<"school", "status">>
        /\ Key(o) # <<"school", "environment">>
    BY <1>4 DEF Key, RoleEnum, Enum
  <2> QED BY <2>1, <2>2, TypesByKey DEF Typed
<1>5. /\ \A o \in O : o[1] = "service_token" => In(O, token)
      /\ \A o \in O : o[1] = "school" => In(O, school)
  BY DEF Loose
<1>6. Execute(Sound(O, R, H), IfThere(token)) = Sound(P1, R, H)
  <2>1. ~In(O, token) => \A o \in O : ~Gone(token, o)
    BY <1>1, <1>5 DEF In
  <2>2. token # LevelColumn /\ token # Table("hub_user") /\ token[1] # "type"
    BY <1>2, <1>3
  <2> HIDE DEF token
  <2> QED BY <2>1, <2>2, DropsOne
<1>7. Execute(Sound(P1, R, H), IfThere(school)) = Sound(P2, R, H)
  <2>1. ~In(P1, school) => \A o \in P1 : ~Gone(school, o)
    <3>1. \A o \in O : Key(o) = school => o \in P1
      <4>1. \A o : Key(o) = school => o[1] = "table"
        BY DEF Key, Table
      <4> QED BY <1>1, <1>2, <4>1
    <3> QED BY <1>1, <1>5, <3>1 DEF In
  <2>2. school # LevelColumn /\ school # Table("hub_user") /\ school[1] # "type"
    BY <1>2, <1>3
  <2> HIDE DEF school, P1
  <2> QED BY <2>1, <2>2, DropsOne
<1>8. Execute(Sound(P2, R, H), IfThere(environment)) = Sound(P3, R, H)
  <2>1. ~In(P2, environment) => \A o \in P2 : ~Gone(environment, o)
    BY <1>1 DEF In
  <2>2. environment # LevelColumn /\ environment # Table("hub_user")
    BY <1>2
  <2>3. \A o \in P2 : o[1] # "type" => o[3] # environment[2]
    BY <1>1, <1>3, <1>4
  <2> HIDE DEF environment, P2
  <2> QED BY <2>1, <2>2, <2>3, DropsOne
<1>9. Execute(Sound(P3, R, H), IfThere(status)) = Sound(P4, R, H)
  <2>1. ~In(P3, status) => \A o \in P3 : ~Gone(status, o)
    BY <1>1 DEF In
  <2>2. status # LevelColumn /\ status # Table("hub_user")
    BY <1>2
  <2>3. \A o \in P3 : o[1] # "type" => o[3] # status[2]
    BY <1>1, <1>3, <1>4
  <2> HIDE DEF status, P3
  <2> QED BY <2>1, <2>2, <2>3, DropsOne
<1>10. Execute(Sound(P4, R, H), IfThere(column)) = Sound(P5, R, H)
  <2>1. ~In(P4, column) => \A o \in P4 : ~Gone(column, o)
    BY <1>1 DEF In
  <2>2. column # LevelColumn /\ column # Table("hub_user") /\ column[1] # "type"
    BY <1>2, <1>3
  <2> HIDE DEF column, P4
  <2> QED BY <2>1, <2>2, DropsOne
<1>11. P5 \subseteq O
  OBVIOUS
<1>12. \A o \in P5 : o \in Trimmed => Key(o) = RoleEnum
  <2> SUFFICES ASSUME NEW o \in P5, o \in Trimmed PROVE Key(o) = RoleEnum
    OBVIOUS
  <2>1. /\ Key(o) # token /\ Key(o) # school /\ Key(o) # environment /\ Key(o) # status
        /\ Key(o) # column /\ o[1] # "school"
    BY <1>1
  <2>2. \/ Key(o) = token \/ Key(o) = school \/ Key(o) = status \/ Key(o) = environment
        \/ o[1] = "school" \/ Key(o) = column \/ Key(o) = RoleEnum
    BY DEF Trimmed, Key, Table, Enum, RoleEnum
  <2> QED BY <2>1, <2>2
<1>13. ASSUME NEW key \in {RoleEnum, RoleType, Table("hub_user"), LevelColumn}
       PROVE  In(P5, key) <=> In(O, key)
  <2>1. \A o : Key(o) = key => o[1] \in {"type", "hub_user", "table"}
    BY DEF Key, RoleEnum, RoleType, Table, LevelColumn, Enum
  <2>2. \A o \in O : Key(o) = key => o \in P5
    BY <1>1, <1>2, <2>1
  <2> QED BY <1>11, <2>2 DEF In
<1> HIDE DEF token, school, environment, status, column, P1, P2, P3, P4, P5
<1>14. Script!Fold(Sound(O, R, H), <<IfThere(token), IfThere(school), IfThere(environment),
                                     IfThere(status), IfThere(column)>>) = Sound(P5, R, H)
  BY <1>6, <1>7, <1>8, <1>9, <1>10, Script!FoldFive
<1> QED BY <1>11, <1>12, <1>13, <1>14 DEF token, school, environment, status, column

\* TrimHubSchema, after InitialSchema, leaves nothing of what it trims and
\* everybody a SYSTEM_ADMIN.
LEMMA SecondMigration ==
  ASSUME NEW O, Reached(1, O), NEW R, NEW H
  PROVE  \E P : /\ Script!Fold(Sound(O, R, H), Up[2]) =
                     Sound(P, Filled(R, "role", "SYSTEM_ADMIN"), H)
                /\ Reached(2, P)
                /\ In(P, LevelColumn) <=> In(O, LevelColumn)
<1> DEFINE drops == <<IfThere(Table("service_token")), IfThere(Table("school")),
                      IfThere(Enum("school_environment_enum")),
                      IfThere(Enum("school_status_enum")),
                      IfThere(<<"hub_user", "schoolId">>)>>
           recast == RecastRole(Aside, "SYSTEM_ADMIN", "SYSTEM_ADMIN")
           R2 == Filled(R, "role", "SYSTEM_ADMIN")
<1>1. Up[2] = drops \o recast
  BY DEF Up, TrimHubSchema, Aside
<1>2. Loose(O) /\ In(O, Table("hub_user")) /\ In(O, RoleEnum) /\ In(O, RoleType)
  BY LooseIsReached DEF Loose
<1>3. PICK P : /\ Script!Fold(Sound(O, R, H), drops) = Sound(P, R, H)
               /\ P \subseteq O
               /\ \A o \in P : o \in Trimmed => Key(o) = RoleEnum
               /\ \A key \in {RoleEnum, RoleType, Table("hub_user"), LevelColumn} :
                    In(P, key) <=> In(O, key)
  BY <1>2, HubTrimmed
<1>4. P \in SUBSET Known /\ In(P, RoleEnum) /\ In(P, RoleType) /\ In(P, Table("hub_user"))
  BY <1>2, <1>3 DEF Loose
<1> DEFINE Q == Bare(P) \cup RoleObjects
<1>5. Script!Fold(Sound(P, R, H), recast) = Sound(Q, R2, H)
  BY <1>4, RoleSwapped
<1>6. Leaves[2] \subseteq Q
  <2>1. Table("hub_user") # RoleEnum /\ TypeOf(Table("hub_user")) = NULL
    BY TablesPlain DEF Table
  <2>2. <<"table", "hub_user", NULL>> \in P
    BY <1>4, <2>1, KnownIsThere DEF Table
  <2>3. Key(<<"table", "hub_user", NULL>>) \notin RoleKeys
    BY DEF Key, RoleKeys, RoleEnum, RoleType, RoleDefault, Enum
  <2>4. <<"table", "hub_user", NULL>> \in Bare(P)
    BY <2>2, <2>3 DEF Bare
  <2>5. Leaves[2] = {<<"table", "hub_user", NULL>>} \cup RoleObjects
    BY DEF Leaves, RoleObjects
  <2> QED BY <2>4, <2>5
<1>7. Kept(2) = Leaves[2]
  <2>1. Kept(2) = Leaves[1] \cup Leaves[2]
    <3>1. Kept(0 + 1) = Kept(0) \cup Leaves[0 + 1] /\ Kept(1 + 1) = Kept(1) \cup Leaves[1 + 1]
      BY KeptGrows
    <3> QED BY <3>1, KeptGrows
  <2> QED BY <2>1 DEF Leaves
<1>8. Q \subseteq Kept(7)
  <2>1. Bare(P) \subseteq Kept(7)
    <3>1. \A o \in Bare(P) : o \in P /\ Key(o) # RoleEnum
      BY DEF Bare, RoleKeys
    <3> QED BY <1>3, <1>4, <3>1, SevenMigrations DEF Known
  <2>2. RoleObjects \subseteq Leaves[2]
    BY DEF RoleObjects, Leaves
  <2> QED BY <1>7, <2>1, <2>2, KeptGrows
<1>9. Reached(2, Q)
  BY <1>6, <1>7, <1>8, SevenMigrations DEF Reached
<1>10. In(Q, LevelColumn) <=> In(O, LevelColumn)
  <2>1. \A o \in RoleObjects : Key(o) # LevelColumn
    <3>1. /\ Key(<<"type", "hub_user_role_enum", "SYSTEM_ADMIN">>) # LevelColumn
          /\ Key(<<"hub_user", "role", "hub_user_role_enum">>) # LevelColumn
          /\ Key(<<"hub_user", "role default", NULL>>) # LevelColumn
      BY DEF Key, LevelColumn
    <3> QED BY <3>1 DEF RoleObjects
  <2>2. LevelColumn \notin RoleKeys
    BY DEF LevelColumn, RoleKeys, RoleEnum, RoleType, RoleDefault, Enum
  <2>3. In(Q, LevelColumn) <=> In(P, LevelColumn)
    BY <2>1, <2>2 DEF In, Bare
  <2> QED BY <1>3, <2>3
<1>11. Script!IsList(drops) /\ Script!IsList(recast)
  <2> DEFINE a == IfThere(Table("service_token"))
             b == IfThere(Table("school"))
             c == IfThere(Enum("school_environment_enum"))
             d == IfThere(Enum("school_status_enum"))
             e == IfThere(<<"hub_user", "schoolId">>)
  <2> HIDE DEF a, b, c, d, e
  <2>1. <<a, b, c, d, e>> \in Seq({a, b, c, d, e})
    OBVIOUS
  <2>2. Script!IsList(<<a, b, c, d, e>>)
    BY <2>1 DEF Script!IsList
  <2> DEFINE f == Always(<<Rename(RoleEnum[2], Aside)>>)
             g == Always(<<Add("type", RoleEnum[2], "SYSTEM_ADMIN")>>)
             h == IfThere(RoleDefault)
             i == Always(<<Recast("SYSTEM_ADMIN")>>)
             j == Always(<<Add("hub_user", RoleDefault[2], NULL)>>)
             k == Always(<<Drop(Enum(Aside))>>)
  <2>3. recast = <<f, g, h, i, j, k>>
    BY DEF RecastRole
  <2> HIDE DEF f, g, h, i, j, k
  <2>4. <<f, g, h, i, j, k>> \in Seq({f, g, h, i, j, k})
    OBVIOUS
  <2>5. Script!IsList(<<f, g, h, i, j, k>>)
    BY <2>4 DEF Script!IsList
  <2> QED BY <2>2, <2>3, <2>5 DEF a, b, c, d, e
<1> HIDE DEF drops, recast, R2, Q
<1>12. Script!Fold(Sound(O, R, H), drops \o recast) = Sound(Q, R2, H)
  BY <1>3, <1>5, <1>11, Script!FoldConcat
<1> QED BY <1>1, <1>9, <1>10, <1>12 DEF R2
-----------------------------------------------------------------------------
(***************************************************************************)
(* What a migration does to the accounts.                                  *)
(***************************************************************************)
LevelsOf(objects) ==
  IF In(objects, LevelColumn) THEN {"VIEW", "EDIT", "ADMIN"} ELSE {NULL}

TypedRows(objects, rows) ==
  rows \in [DOMAIN rows -> [role : {"system_admin", "school_owner", "SYSTEM_ADMIN"},
                            level : LevelsOf(objects)]]

\* From the rows R of a schema O to the rows S of the schema P: the accounts
\* are the same, their levels are kept, or they are all given ADMIN.
Carried(O, R, P, S) ==
  /\ DOMAIN S = DOMAIN R
  /\ TypedRows(P, S)
  /\ In(O, LevelColumn) =>
       In(P, LevelColumn) /\ \A a \in DOMAIN R : S[a].level = R[a].level
  /\ ~In(O, LevelColumn) /\ In(P, LevelColumn) => \A a \in DOMAIN R : S[a].level = "ADMIN"

\* A migration that touches no account.
LEMMA CarriedBySame ==
  ASSUME NEW O, NEW R, TypedRows(O, R), NEW P, In(P, LevelColumn) <=> In(O, LevelColumn)
  PROVE  Carried(O, R, P, R)
<1>1. LevelsOf(P) = LevelsOf(O)
  BY DEF LevelsOf
<1>2. TypedRows(P, R)
  BY <1>1 DEF TypedRows
<1> QED BY <1>2 DEF Carried

\* A migration that sets the roles.
LEMMA CarriedByRole ==
  ASSUME NEW O, NEW R, TypedRows(O, R), NEW P, In(P, LevelColumn) <=> In(O, LevelColumn)
  PROVE  Carried(O, R, P, Filled(R, "role", "SYSTEM_ADMIN"))
<1> DEFINE S == Filled(R, "role", "SYSTEM_ADMIN")
           L == LevelsOf(O)
           Roles == {"system_admin", "school_owner", "SYSTEM_ADMIN"}
<1>1. LevelsOf(P) = L
  BY DEF LevelsOf
<1>2. "SYSTEM_ADMIN" \in Roles
  OBVIOUS
<1> HIDE DEF L, Roles
<1>3. R \in [DOMAIN R -> [role : Roles, level : L]]
  BY DEF TypedRows, L, Roles
<1>4. S = [a \in DOMAIN R |-> [R[a] EXCEPT !.role = "SYSTEM_ADMIN"]]
  BY DEF Filled
<1>5. \A a \in DOMAIN R : /\ S[a] \in [role : Roles, level : L]
                          /\ S[a].level = R[a].level
  BY <1>2, <1>3, <1>4
<1>6. DOMAIN S = DOMAIN R /\ S \in [DOMAIN R -> [role : Roles, level : L]]
  BY <1>4, <1>5
<1> HIDE DEF S
<1>7. TypedRows(P, S)
  BY <1>1, <1>6 DEF TypedRows, Roles
<1> QED BY <1>5, <1>6, <1>7 DEF Carried, S

\* The migration that brings the levels.
LEMMA CarriedByLevel ==
  ASSUME NEW O, NEW R, TypedRows(O, R), ~In(O, LevelColumn), NEW P, In(P, LevelColumn)
  PROVE  Carried(O, R, P, Filled(R, "level", "ADMIN"))
<1> DEFINE S == Filled(R, "level", "ADMIN")
           Roles == {"system_admin", "school_owner", "SYSTEM_ADMIN"}
           Levels == {"VIEW", "EDIT", "ADMIN"}
<1>1. LevelsOf(P) = Levels
  BY DEF LevelsOf
<1>2. "ADMIN" \in Levels
  OBVIOUS
<1> HIDE DEF Levels, Roles
<1>3. R \in [DOMAIN R -> [role : Roles, level : LevelsOf(O)]]
  BY DEF TypedRows, Roles
<1>4. S = [a \in DOMAIN R |-> [R[a] EXCEPT !.level = "ADMIN"]]
  BY DEF Filled
<1>5. \A a \in DOMAIN R : /\ S[a] \in [role : Roles, level : Levels]
                          /\ S[a].level = "ADMIN"
  BY <1>2, <1>3, <1>4
<1>6. DOMAIN S = DOMAIN R /\ S \in [DOMAIN R -> [role : Roles, level : Levels]]
  BY <1>4, <1>5
<1> HIDE DEF S
<1>7. TypedRows(P, S)
  BY <1>1, <1>6 DEF TypedRows, Roles
<1> QED BY <1>5, <1>6, <1>7 DEF Carried, S

\* Migrations one after the other.
LEMMA CarriedAgain ==
  ASSUME NEW O, NEW R, NEW P, NEW S, NEW Q, NEW T, Carried(O, R, P, S), Carried(P, S, Q, T)
  PROVE  Carried(O, R, Q, T)
BY DEF Carried
-----------------------------------------------------------------------------
(***************************************************************************)
(* One migration, and the run of the pending ones.                         *)
(***************************************************************************)
LEMMA KeptIsMonotone ==
  ASSUME NEW m \in Nat, NEW n \in Nat, m <= n
  PROVE  Kept(m) \subseteq Kept(n)
BY DEF Kept

\* A migration behind the second finds hub_user, and its objects complete the
\* next stage.
LEMMA LaterReached ==
  ASSUME NEW n \in 3..7, NEW O, Reached(n - 1, O)
  PROVE  /\ O \in SUBSET Known /\ In(O, Table("hub_user"))
         /\ Reached(n, O \cup Leaves[n])
         /\ n > 4 => In(O, LevelColumn)
<1>1. n - 1 \in Nat /\ n - 1 >= 2 /\ ~(n - 1 < 2) /\ ~(n < 2) /\ (n - 1) + 1 = n /\ 7 \in Nat
      /\ n \in Nat /\ n <= 7
  OBVIOUS
<1>2. Kept(n - 1) \subseteq O /\ O \subseteq Kept(7)
  BY <1>1, SevenMigrations DEF Reached
<1>3. Kept(n) = Kept(n - 1) \cup Leaves[n]
  BY <1>1, KeptGrows
<1>4. Kept(n) \subseteq Kept(7)
  BY <1>1, KeptIsMonotone
<1>5. Reached(n, O \cup Leaves[n])
  BY <1>1, <1>2, <1>3, <1>4, SevenMigrations DEF Reached
<1>6. O \in SUBSET Known
  BY <1>2, SevenMigrations DEF Known
<1>7. In(O, Table("hub_user"))
  <2>1. Kept(2) \subseteq O
    BY <1>1, <1>2, KeptIsMonotone
  <2>2. <<"table", "hub_user", NULL>> \in Leaves[2]
    BY DEF Leaves
  <2>3. Key(<<"table", "hub_user", NULL>>) = Table("hub_user")
    BY DEF Key, Table
  <2> QED BY <2>1, <2>2, <2>3 DEF In, Kept
<1>8. n > 4 => In(O, LevelColumn)
  <2>1. n > 4 => Kept(4) \subseteq O
    BY <1>1, <1>2, KeptIsMonotone
  <2>2. LevelObject \in Leaves[4]
    BY DEF Leaves, LevelObject
  <2>3. Key(LevelObject) = LevelColumn
    BY DEF Key, LevelObject, LevelColumn
  <2>4. LevelObject \in Kept(4)
    BY <2>2 DEF Kept
  <2> QED BY <2>1, <2>3, <2>4 DEF In
<1> QED BY <1>5, <1>6, <1>7, <1>8

\* Each migration, run onto a schema the ones before it have reached, reaches
\* the next.
LEMMA OneMigration ==
  ASSUME NEW n \in 1..7, NEW O, Reached(n - 1, O), NEW R, TypedRows(O, R), NEW H
  PROVE  \E P, S : /\ Script!Fold(Sound(O, R, H), Up[n]) = Sound(P, S, H)
                   /\ Reached(n, P)
                   /\ Carried(O, R, P, S)
<1>1. CASE n = 1
  <2>1. Loose(O)
    BY <1>1, LooseIsReached
  <2>2. PICK P : /\ Script!Fold(Sound(O, R, H), Up[1]) = Sound(P, R, H)
                 /\ Grown(O, P) /\ Reached(1, P)
    BY <2>1, FirstMigration
  <2>3. In(P, LevelColumn) <=> In(O, LevelColumn)
    BY <2>2, InGrows DEF Grown
  <2> QED BY <1>1, <2>2, <2>3, CarriedBySame
<1>2. CASE n = 2
  <2>1. PICK P : /\ Script!Fold(Sound(O, R, H), Up[2]) =
                      Sound(P, Filled(R, "role", "SYSTEM_ADMIN"), H)
                 /\ Reached(2, P)
                 /\ In(P, LevelColumn) <=> In(O, LevelColumn)
    <3>1. Reached(1, O)
      BY <1>2
    <3> QED BY <3>1, SecondMigration
  <2>2. Carried(O, R, P, Filled(R, "role", "SYSTEM_ADMIN"))
    BY <2>1, CarriedByRole
  <2> QED BY <1>2, <2>1, <2>2
<1>3. CASE n = 3
  <2> DEFINE P == O \cup Leaves[3]
  <2>1. O \in SUBSET Known /\ Reached(3, P)
    BY <1>3, LaterReached
  <2>2. Script!Fold(Sound(O, R, H), Up[3]) = Sound(P, R, H)
    BY <2>1, ThirdMigration
  <2>3. In(P, LevelColumn) <=> In(O, LevelColumn)
    <3>1. \A o \in Leaves[3] : o[1] # "hub_user"
      BY DEF Leaves, On
    <3>2. \A o : Key(o) = LevelColumn => o[1] = "hub_user"
      BY DEF Key, LevelColumn
    <3> QED BY <3>1, <3>2 DEF In
  <2> HIDE DEF P
  <2>4. Carried(O, R, P, R)
    BY <2>3, CarriedBySame
  <2> QED BY <1>3, <2>1, <2>2, <2>4
<1>4. CASE n = 4
  <2> DEFINE P == O \cup Leaves[4]
             S == IF In(O, LevelColumn) THEN R ELSE Filled(R, "level", "ADMIN")
  <2>1. O \in SUBSET Known /\ Reached(4, P) /\ In(O, Table("hub_user"))
    <3>1. O \in SUBSET Known /\ Reached(n, O \cup Leaves[n]) /\ In(O, Table("hub_user"))
      <4>1. n \in 3..7
        BY <1>4
      <4> HIDE DEF P, S
      <4> QED BY <4>1, LaterReached
    <3> QED BY <1>4, <3>1
  <2>2. Script!Fold(Sound(O, R, H), Up[4]) = Sound(P, S, H)
    BY <2>1, FourthMigration
  <2>3. In(P, LevelColumn)
    <3>1. LevelObject \in Leaves[4] /\ Key(LevelObject) = LevelColumn
      BY DEF Leaves, LevelObject, Key, LevelColumn
    <3> QED BY <3>1 DEF In
  <2> HIDE DEF P
  <2>4. Carried(O, R, P, S)
    BY <2>3, CarriedBySame, CarriedByLevel
  <2> QED BY <1>4, <2>1, <2>2, <2>4
<1>5. CASE n \in 5..7
  <2> DEFINE P == O \cup Leaves[n]
  <2>1. O \in SUBSET Known /\ Reached(n, P) /\ In(O, Table("hub_user")) /\ In(O, LevelColumn)
    BY <1>5, LaterReached
  <2>2. Script!Fold(Sound(O, R, H), Up[n]) = Sound(O \cup Leaves[n], R, H)
    <3> HIDE DEF P
    <3> QED BY <1>5, <2>1, LastMigrations
  <2>3. In(P, LevelColumn)
    BY <2>1, InGrows
  <2> HIDE DEF P
  <2>4. Carried(O, R, P, R)
    BY <2>1, <2>3, CarriedBySame
  <2>5. Script!Fold(Sound(O, R, H), Up[n]) = Sound(P, R, H)
    BY <2>2 DEF P
  <2> QED BY <2>1, <2>4, <2>5
<1> QED BY <1>1, <1>2, <1>3, <1>4, <1>5

\* The pending migrations one after the other, from wherever the database is.
LEMMA RunReaches ==
  ASSUME NEW m \in 0..7, NEW O, Reached(m, O), NEW R, TypedRows(O, R), NEW H
  PROVE  \E P, S : /\ Migrate(Sound(O, R, H), (m + 1)..7) = Sound(P, S, H \cup (m + 1)..7)
                   /\ Reached(7, P)
                   /\ Carried(O, R, P, S)
<1> DEFINE list == (m + 1)..7
           turns == [n \in Folder |-> [at |-> n, listed |-> n \in list]]
           d == Sound(O, R, H)
<1>1. 7 \in Nat /\ DOMAIN turns = 1..7 /\ m \in Nat
  BY SevenMigrations
<1>2. \A k \in 1..7 : turns[k].at = k /\ (turns[k].listed <=> k > m)
  <2> SUFFICES ASSUME NEW k \in 1..7
               PROVE  turns[k].at = k /\ (turns[k].listed <=> k > m)
    OBVIOUS
  <2>1. turns[k].at = k
    BY SevenMigrations
  <2>2. turns[k].listed = (k \in list)
    BY SevenMigrations
  <2>3. k \in list <=> k > m
    OBVIOUS
  <2> HIDE DEF turns, list
  <2> QED BY <2>1, <2>2, <2>3
<1>3. Migrate(d, list) = Turns!Fold(d, turns)
  BY MigrateFolds
<1> HIDE DEF turns, d
<1>4. PICK after : Turns!Steps(after, d, turns) /\ Turns!Fold(d, turns) = after[7]
  BY <1>1, Turns!FoldSteps
<1> DEFINE Here(k, P, S) == /\ after[k] = Sound(P, S, H \cup (m + 1)..k)
                            /\ Reached(IF k < m THEN m ELSE k, P)
                            /\ Carried(O, R, P, S)
           T == {k \in Nat : k <= 7 => \E P, S : Here(k, P, S)}
<1>5. 0 \in T
  <2>1. after[0] = Sound(O, R, H \cup (m + 1)..0)
    <3>1. (m + 1)..0 = {}
      OBVIOUS
    <3>2. H \cup (m + 1)..0 = H
      BY <3>1
    <3> QED BY <1>4, <3>2 DEF Turns!Steps, d
  <2>2. Carried(O, R, O, R)
    BY CarriedBySame
  <2>3. (IF 0 < m THEN m ELSE 0) = m
    OBVIOUS
  <2>4. Here(0, O, R)
    BY <2>1, <2>2, <2>3
  <2> QED BY <2>4
<1>6. ASSUME NEW k \in T, k + 1 <= 7
      PROVE  \E P, S : Here(k + 1, P, S)
  <2>1. k \in Nat /\ k + 1 \in 1..7 /\ (k + 1) - 1 = k /\ k <= 7
    BY <1>6
  <2>2. PICK P, S : Here(k, P, S)
    BY <2>1
  <2>3. after[k + 1] = Take(after[k], turns[k + 1])
    BY <1>1, <1>4, <2>1 DEF Turns!Steps
  <2>4. CASE k + 1 <= m
    <3>1. after[k + 1] = after[k]
      BY <1>2, <2>1, <2>3, <2>4, TakeFolds
    <3>2. (m + 1)..(k + 1) = {} /\ (m + 1)..k = {}
      BY <2>1, <2>4
    <3>3. H \cup (m + 1)..(k + 1) = H \cup (m + 1)..k
      BY <3>2
    <3>4. (IF k < m THEN m ELSE k) = (IF k + 1 < m THEN m ELSE k + 1)
      BY <2>1, <2>4
    <3>5. Here(k + 1, P, S)
      BY <2>2, <3>1, <3>3, <3>4
    <3> QED BY <3>5
  <2>5. CASE ~(k + 1 <= m)
    <3> DEFINE H1 == H \cup (m + 1)..k
    <3>1. after[k] = Sound(P, S, H1) /\ Reached(k, P) /\ Carried(O, R, P, S)
      <4>1. (IF k < m THEN m ELSE k) = k
        BY <2>1, <2>5
      <4> QED BY <2>2, <4>1
    <3>2. TypedRows(P, S)
      BY <3>1 DEF Carried
    <3> HIDE DEF H1
    <3>3. PICK Q, U : /\ Script!Fold(Sound(P, S, H1), Up[k + 1]) = Sound(Q, U, H1)
                      /\ Reached(k + 1, Q) /\ Carried(P, S, Q, U)
      BY <2>1, <3>1, <3>2, OneMigration
    <3>4. Take(after[k], turns[k + 1]) = Recorded(Script!Fold(after[k], Up[k + 1]), {k + 1})
      <4>1. turns[k + 1].at = k + 1 /\ turns[k + 1].listed
        BY <1>2, <2>1, <2>5
      <4> QED BY <4>1, TakeFolds DEF Recorded
    <3>5. Recorded(Sound(Q, U, H1), {k + 1}) = Sound(Q, U, H1 \cup {k + 1})
      BY SoundRecorded
    <3>6. H1 \cup {k + 1} = H \cup (m + 1)..(k + 1)
      <4>1. (m + 1)..(k + 1) = ((m + 1)..k) \cup {k + 1}
        BY <2>1, <2>5
      <4> QED BY <4>1 DEF H1
    <3>7. after[k + 1] = Sound(Q, U, H \cup (m + 1)..(k + 1))
      BY <2>3, <3>1, <3>3, <3>4, <3>5, <3>6
    <3>8. Carried(O, R, Q, U)
      BY <3>1, <3>3, CarriedAgain
    <3>9. (IF k + 1 < m THEN m ELSE k + 1) = k + 1
      BY <2>1, <2>5
    <3>10. Here(k + 1, Q, U)
      BY <3>3, <3>7, <3>8, <3>9
    <3> QED BY <3>10
  <2> QED BY <2>4, <2>5
<1>7. Nat \subseteq T
  <2>1. \A k \in T \cap Nat : k + 1 \in T
    <3> SUFFICES ASSUME NEW k \in T PROVE k + 1 \in T
      OBVIOUS
    <3>1. k \in Nat /\ k + 1 \in Nat
      OBVIOUS
    <3> HIDE DEF Here
    <3> QED BY <1>6, <3>1
  <2> HIDE DEF T
  <2> QED BY <1>5, <2>1, Turns!InductionOverSet
<1>8. PICK P, S : Here(7, P, S)
  <2>1. 7 \in T
    BY <1>1, <1>7
  <2> HIDE DEF Here
  <2> QED BY <2>1
<1>9. (IF 7 < m THEN m ELSE 7) = 7
  OBVIOUS
<1> QED BY <1>3, <1>4, <1>8, <1>9 DEF d

\* After the last migration there is one schema.
LEMMA LastIsKept ==
  ASSUME NEW O, Reached(7, O)
  PROVE  O = Kept(7)
<1>1. ~(7 < 2) /\ Len(Up) = 7
  BY SevenMigrations
<1>2. Kept(7) \subseteq O /\ O \subseteq Kept(7)
  BY <1>1 DEF Reached
<1> QED BY <1>2

\* It is the one this build expects.
LEMMA TargetIsKept ==
  Target = Kept(7)
BY SevenMigrations DEF Target

\* From any schema the folder is written for, with its first m migrations
\* done: the pending ones succeed, and lead to the schema of this build, with
\* the accounts that were there; levels are kept, and all are ADMIN who had none.
THEOREM Converges ==
  ASSUME NEW m \in 0..7, NEW O, Reached(m, O), NEW R, TypedRows(O, R), NEW H
  PROVE  \E S : /\ Migrate(Sound(O, R, H), (m + 1)..7) = Sound(Target, S, H \cup (m + 1)..7)
                /\ Carried(O, R, Target, S)
<1>1. PICK P, S : /\ Migrate(Sound(O, R, H), (m + 1)..7) = Sound(P, S, H \cup (m + 1)..7)
                  /\ Reached(7, P) /\ Carried(O, R, P, S)
  BY RunReaches
<1>2. P = Target
  BY <1>1, LastIsKept, TargetIsKept
<1> QED BY <1>1, <1>2
=============================================================================
