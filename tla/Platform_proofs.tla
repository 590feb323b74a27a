-------------------------- MODULE Platform_proofs --------------------------
(***************************************************************************)
(* What holds of the console's calls for any number of calls, workers,     *)
(* deployments and attempts, and for every token.                          *)
(***************************************************************************)
EXTENDS Platform, Migrations_proofs, TLAPS

\* Between the answers: what the reply on its way to the client says is not
\* counted yet.
Counted(call) ==
  CASE call.stage = "replied" /\ call.reply = "2xx" ->
         /\ call.told + 1 <= call.done
         /\ call.done <= call.told + call.unsure + 1
    [] call.stage = "replied" /\ call.reply \in {"5xx", "none"} ->
         /\ call.told <= call.done
         /\ call.done <= call.told + call.unsure + 1
    [] OTHER ->
         /\ call.told <= call.done
         /\ call.done <= call.told + call.unsure

\* The part of CallState the counting needs: the bounds of the instance are
\* left out.
CountedCall ==
  [stage : {"idle", "sent", "replied"}, at : Worker \cup {NULL},
   token : Tokens \cup {NULL}, route : CalledRoutes \cup {NULL},
   reply : Reply \cup {NULL}, answer : Answer, done : Nat, told : Nat, unsure : Nat]

CallInv ==
  /\ calls \in [Call -> CountedCall]
  /\ \A c \in Call : Counted(calls[c])
  /\ \A c \in Call : calls[c].stage = "replied" => calls[c].reply \in Reply
-----------------------------------------------------------------------------
\* What an answer writes, field by field.
LEMMA AnsweredFields ==
  ASSUME NEW call \in CountedCall, NEW answer \in Answer
  PROVE  /\ Answered(call, answer) \in CountedCall
         /\ Answered(call, answer).stage = "idle"
         /\ Answered(call, answer).done = call.done
         /\ Answered(call, answer).told =
              IF answer = "ok" THEN call.told + 1 ELSE call.told
         /\ Answered(call, answer).unsure =
              IF answer = "failed" THEN call.unsure + 1 ELSE call.unsure
<1> DEFINE told   == IF answer = "ok" THEN call.told + 1 ELSE call.told
           unsure == IF answer = "failed" THEN call.unsure + 1 ELSE call.unsure
<1>1. told \in Nat /\ unsure \in Nat
  BY DEF CountedCall
<1>2. Answered(call, answer) =
        [call EXCEPT !.stage = "idle", !.at = NULL, !.reply = NULL,
                     !.answer = answer, !.told = told, !.unsure = unsure]
  BY DEF Answered
<1> HIDE DEF told, unsure
<1>3. /\ Answered(call, answer) \in CountedCall
      /\ Answered(call, answer).stage = "idle"
      /\ Answered(call, answer).done = call.done
      /\ Answered(call, answer).told = told
      /\ Answered(call, answer).unsure = unsure
  BY <1>1, <1>2 DEF CountedCall
<1> QED BY <1>3 DEF told, unsure

\* An answer settles what the reply left open.
LEMMA AnsweredCounts ==
  ASSUME NEW call \in CountedCall, Counted(call), call.stage = "replied",
         call.reply \in Reply, NEW answer \in AnswerTo(call.reply)
  PROVE  /\ Answered(call, answer) \in CountedCall
         /\ Answered(call, answer).stage = "idle"
         /\ Counted(Answered(call, answer))
<1> DEFINE after == Answered(call, answer)
<1>1. /\ answer \in Answer
      /\ answer = "ok" => call.reply = "2xx"
      /\ call.reply # "4xx" => answer \in {"ok", "failed"}
  BY DEF AnswerTo, Answer, Reply
<1>2. call.told \in Nat /\ call.unsure \in Nat /\ call.done \in Nat
  BY DEF CountedCall
<1>3. /\ after \in CountedCall
      /\ after.stage = "idle"
      /\ after.done = call.done
      /\ after.told = IF answer = "ok" THEN call.told + 1 ELSE call.told
      /\ after.unsure = IF answer = "failed" THEN call.unsure + 1 ELSE call.unsure
  BY <1>1, AnsweredFields
<1>4. after.told <= after.done /\ after.done <= after.told + after.unsure
  BY <1>1, <1>2, <1>3 DEF Counted, Reply
<1> QED BY <1>3, <1>4 DEF Counted

\* So does a broken connection, whatever school-ai had still done.
LEMMA BrokenCounts ==
  ASSUME NEW call \in CountedCall, Counted(call), NEW n \in {0, 1},
         call.stage = "replied" => call.reply \in Reply,
         n = 1 => call.stage = "sent"
  PROVE  /\ Broken(call, n) \in CountedCall
         /\ Broken(call, n).stage = "idle"
         /\ Counted(Broken(call, n))
<1> DEFINE failed == Answered(call, "failed")
           after  == Broken(call, n)
<1>1. call.told \in Nat /\ call.unsure \in Nat /\ call.done \in Nat
  BY DEF CountedCall
<1>2. /\ failed \in CountedCall
      /\ failed.stage = "idle"
      /\ failed.done = call.done
      /\ failed.told = call.told
      /\ failed.unsure = call.unsure + 1
  BY AnsweredFields DEF Answer
<1>3. after = [failed EXCEPT !.done = @ + n]
  BY DEF Broken
<1> HIDE DEF failed, after
<1>4. /\ after \in CountedCall
      /\ after.stage = "idle"
      /\ after.done = call.done + n
      /\ after.told = call.told
      /\ after.unsure = call.unsure + 1
  BY <1>1, <1>2, <1>3 DEF CountedCall
<1>5. after.told <= after.done /\ after.done <= after.told + after.unsure
  BY <1>1, <1>4 DEF Counted, Reply
<1>6. Counted(after)
  BY <1>4, <1>5 DEF Counted
<1> QED BY <1>4, <1>6 DEF after
-----------------------------------------------------------------------------
\* Nothing has been asked or performed at first.
LEMMA CallInit ==
  PlatformInit => CallInv
<1> SUFFICES ASSUME PlatformInit
             PROVE  CallInv
  OBVIOUS
<1>1. NoCall \in CountedCall /\ Counted(NoCall) /\ NoCall.stage = "idle"
  BY DEF NoCall, CountedCall, Counted, Answer
<1> QED BY <1>1 DEF PlatformInit, CallsInit, CallInv

\* Each step of a call, and of the workers and jobs under it, keeps the counts.
LEMMA CallNext ==
  ASSUME CallInv, [PlatformNext]_platformVars
  PROVE  CallInv'
<1> USE DEF CallInv
<1>1. ASSUME NEW c \in Call, NEW w \in Worker, NEW token \in Tokens,
             NEW route \in CalledRoutes, Ask(c, w, token, route)
      PROVE  CallInv'
  <2>1. PICK call \in {[calls[c] EXCEPT !.stage = "sent", !.at = w, !.token = token,
                                       !.route = route]}
                     \cup {[calls[c] EXCEPT !.token = token, !.route = route,
                                          !.answer = answer] : answer \in Answer} :
          calls' = [calls EXCEPT ![c] = call]
    BY <1>1 DEF Ask, Answer
  <2>2. calls[c].stage = "idle"
    BY <1>1 DEF Ask
  <2>3. call \in CountedCall /\ Counted(call) /\ call.stage # "replied"
    BY <2>1, <2>2 DEF CountedCall, Counted
  <2> QED BY <2>1, <2>3
<1>2. ASSUME NEW c \in Call, NEW w \in Worker, AskAgain(c, w)
      PROVE  CallInv'
  BY <1>2 DEF AskAgain, CountedCall, Counted, Answer
<1>3. ASSUME NEW c \in Call, Replies(c)
      PROVE  CallInv'
  <2>0. PICK reply \in Reply : \E n \in Performed(reply) :
          calls' = [calls EXCEPT ![c].stage = "replied", ![c].reply = reply,
                                 ![c].done = @ + n]
    BY <1>3 DEF Replies
  <2>1. PICK n \in Performed(reply) :
          calls' = [calls EXCEPT ![c].stage = "replied", ![c].reply = reply,
                                 ![c].done = @ + n]
    BY <2>0
  <2>2. n \in {0, 1} /\ (reply = "2xx" => n = 1) /\ (reply = "4xx" => n = 0)
    BY <2>1 DEF Performed, Reply
  <2>3. calls[c].stage = "sent"
    BY <1>3 DEF Replies
  <2> DEFINE call == [calls[c] EXCEPT !.stage = "replied", !.reply = reply,
                                      !.done = @ + n]
  <2>4. /\ calls' = [calls EXCEPT ![c] = call]
        /\ calls[c].told \in Nat /\ calls[c].unsure \in Nat /\ calls[c].done \in Nat
    BY <2>1 DEF CountedCall
  <2>5. /\ call \in CountedCall
        /\ call.stage = "replied" /\ call.reply = reply
        /\ call.done = calls[c].done + n
        /\ call.told = calls[c].told /\ call.unsure = calls[c].unsure
    <3>1. calls[c] \in CountedCall /\ n \in Nat
      BY <2>2
    <3>2. call.done = calls[c].done + n
      BY <3>1 DEF CountedCall
    <3>3. /\ call.stage = "replied" /\ call.reply = reply
          /\ call.told = calls[c].told /\ call.unsure = calls[c].unsure
      BY <3>1 DEF CountedCall
    <3>4. calls[c].done + n \in Nat
      BY <3>1, <2>4
    <3>5. call \in CountedCall
      BY <3>1, <3>4 DEF CountedCall
    <3> QED BY <3>2, <3>3, <3>5
  <2> HIDE DEF call
  <2>6. /\ calls[c].told <= calls[c].done
        /\ calls[c].done <= calls[c].told + calls[c].unsure
    BY <2>3 DEF Counted
  <2>7. Counted(call)
    BY <2>2, <2>4, <2>5, <2>6 DEF Counted, Reply
  <2> QED BY <2>4, <2>5, <2>7
<1>4. ASSUME NEW c \in Call, Answers(c)
      PROVE  CallInv'
  <2>1. PICK answer \in AnswerTo(calls[c].reply) :
          calls' = [calls EXCEPT ![c] = Answered(@, answer)]
    BY <1>4 DEF Answers
  <2>2. /\ Answered(calls[c], answer) \in CountedCall
        /\ Answered(calls[c], answer).stage = "idle"
        /\ Counted(Answered(calls[c], answer))
    BY <1>4, AnsweredCounts DEF Answers
  <2> QED BY <2>1, <2>2
<1>5. ASSUME NEW dead \in SUBSET Worker, Dropped(dead)
      PROVE  CallInv'
  <2>1. PICK n \in [Call -> {0, 1}] :
          /\ \A c \in Call : n[c] = 1 => calls[c].at \in dead /\ calls[c].stage = "sent"
          /\ calls' = [c \in Call |-> IF calls[c].at \in dead
                                      THEN Broken(calls[c], n[c]) ELSE calls[c]]
    BY <1>5 DEF Dropped
  <2>2. \A c \in Call : /\ Broken(calls[c], n[c]) \in CountedCall
                        /\ Broken(calls[c], n[c]).stage = "idle"
                        /\ Counted(Broken(calls[c], n[c]))
    BY <2>1, BrokenCounts
  <2> QED BY <2>1, <2>2
<1>6. CASE UNCHANGED calls
  BY <1>6
<1>7. Dead \in SUBSET Worker
  BY DEF Dead
<1> QED
  BY <1>1, <1>2, <1>3, <1>4, <1>5, <1>6, <1>7
     DEF PlatformNext, CallStep, Settled, platformVars

\* What an operator may conclude from the answers of the console, across
\* deployments, crashes and retries.
THEOREM CallsDoneAsTold ==
  PlatformSpec => []DoneAsTold
<1>1. CallInv => DoneAsTold
  BY DEF CallInv, Counted, DoneAsTold
<1> QED BY <1>1, CallInit, CallNext, PTL DEF PlatformSpec
-----------------------------------------------------------------------------
\* No token that is restricted to a part of the sign-in reaches the table of
\* capabilities, or any route behind a control.
LEMMA RestrictedSeeNothing ==
  ASSUME NEW token, NEW control \in DOMAIN Controls, NEW route \in Controls[control]
  PROVE  JwtAuthGuard(token, route) <=> JwtAuthGuard(token, "capabilities")
BY DEF JwtAuthGuard, Controls, HubUserRoutes, CHANGE_PASSWORD_ONLY_HANDLERS, TOTP_SETUP_ONLY_HANDLERS

\* The level of a control is the level of every route behind it.
LEMMA SameLevel ==
  ASSUME NEW control \in DOMAIN Controls, NEW route \in Controls[control]
  PROVE  /\ control \in DOMAIN HUB_CAPABILITIES
         /\ HUB_CAPABILITIES[control] = MinAccess[route]
         /\ MinAccess[route] \in {"VIEW", "ADMIN"}
<1>1. route \in HubUserRoutes => route \notin DOMAIN AiAdminAccess
  BY DEF HubUserRoutes, AiAdminAccess
<1>2. CASE control = "hubUser_manage"
  <2>1. route \in HubUserRoutes
    BY <1>2 DEF Controls
  <2> QED BY <1>2, <2>1 DEF HUB_CAPABILITIES, MinAccess
<1>3. CASE control # "hubUser_manage"
  <2>1. route \in DOMAIN AiAdminAccess
    BY <1>3 DEF Controls, AiAdminAccess
  <2>2. MinAccess[route] = AiAdminAccess[route]
    BY <1>1, <2>1 DEF MinAccess
  <2>3. /\ control \in DOMAIN HUB_CAPABILITIES
        /\ HUB_CAPABILITIES[control] = AiAdminAccess[route]
        /\ AiAdminAccess[route] \in {"VIEW", "ADMIN"}
    BY <1>3 DEF Controls, HUB_CAPABILITIES, AiAdminAccess
  <2> QED BY <2>2, <2>3
<1> QED BY <1>2, <1>3

\* The rank by which a capability is given out decides as the guard does, and
\* fails closed with it.
LEMMA SameRank ==
  ASSUME NEW token, NEW level \in {"VIEW", "ADMIN"}
  PROVE  /\ HubAccessGuard(token, level) <=>
               rankOf(token.access) >= HUB_ACCESS_HIERARCHY[level]
         /\ HubAccessGuard(token, level) => HubAccessGuard(token, "VIEW")
<1>1. CASE token.access \in {"VIEW", "EDIT", "ADMIN"}
  BY <1>1 DEF HubAccessGuard, rankOf, HUB_ACCESS_HIERARCHY
<1>2. CASE token.access \notin {"VIEW", "EDIT", "ADMIN"}
  BY <1>2 DEF HubAccessGuard, rankOf, HUB_ACCESS_HIERARCHY
<1> QED BY <1>1, <1>2

\* For every token, whatever it claims, and however often deployments and
\* crashes interrupt the console: it is shown a control exactly when every
\* route behind the control would let it through.
THEOREM ConsoleMirrors ==
  PlatformSpec => []ConsoleMirrorsGuards
<1>1. ASSUME NEW token, NEW control \in DOMAIN Controls,
             NEW route \in Controls[control]
      PROVE  Published(token)[control] <=> Admitted(token, route)
  <2>1. CASE JwtAuthGuard(token, "capabilities") /\ HubAccessGuard(token, "VIEW")
    <3>1. Published(token)[control] <=>
            rankOf(token.access) >= HUB_ACCESS_HIERARCHY[HUB_CAPABILITIES[control]]
      BY <2>1, SameLevel DEF Published, capabilitiesFor
    <3>2. rankOf(token.access) >= HUB_ACCESS_HIERARCHY[HUB_CAPABILITIES[control]]
            <=> HubAccessGuard(token, MinAccess[route])
      BY SameLevel, SameRank
    <3>3. Admitted(token, route) <=> HubAccessGuard(token, MinAccess[route])
      BY <2>1, RestrictedSeeNothing DEF Admitted
    <3> QED BY <3>1, <3>2, <3>3
  <2>2. CASE ~(JwtAuthGuard(token, "capabilities") /\ HubAccessGuard(token, "VIEW"))
    <3>1. ~Published(token)[control]
      BY <2>2, SameLevel DEF Published
    <3>2. ~Admitted(token, route)
      BY <2>2, SameLevel, SameRank, RestrictedSeeNothing DEF Admitted
    <3> QED BY <3>1, <3>2
  <2> QED BY <2>1, <2>2
<1>2. ConsoleMirrorsGuards
  BY <1>1 DEF ConsoleMirrorsGuards
<1> QED BY <1>2, PTL
-----------------------------------------------------------------------------
(***************************************************************************)
(* The schema of this build.                                               *)
(***************************************************************************)
\* What the migrations leave of hub_user is what its entity asks for, levels
\* included.
LEMMA TargetHasColumns ==
  /\ In(Target, Table("hub_user")) /\ In(Target, RoleType) /\ In(Target, RoleEnum)
  /\ In(Target, LevelColumn)
  /\ \A column \in HubUser : In(Target, <<"hub_user", column>>)
<1>1. \A i \in 1..7 : Leaves[i] \subseteq Target
  BY TargetIsKept DEF Kept
<1>2. \A i \in 1..7 : \A o \in Leaves[i] : In(Target, Key(o))
  BY <1>1 DEF In
<1>3. /\ In(Target, Table("hub_user")) /\ In(Target, RoleType) /\ In(Target, RoleEnum)
  <2>1. /\ <<"table", "hub_user", NULL>> \in Leaves[2]
        /\ <<"type", "hub_user_role_enum", "SYSTEM_ADMIN">> \in Leaves[2]
        /\ <<"hub_user", "role", "hub_user_role_enum">> \in Leaves[2]
    BY DEF Leaves
  <2>2. /\ Key(<<"table", "hub_user", NULL>>) = Table("hub_user")
        /\ Key(<<"type", "hub_user_role_enum", "SYSTEM_ADMIN">>) = RoleEnum
        /\ Key(<<"hub_user", "role", "hub_user_role_enum">>) = RoleType
    BY DEF Key, Table, RoleEnum, Enum, RoleType
  <2>3. 2 \in 1..7
    OBVIOUS
  <2> QED BY <1>2, <2>1, <2>2, <2>3
<1>4. In(Target, LevelColumn)
  <2>1. <<"hub_user", "accessLevel", "hub_access_level_enum">> \in Leaves[4]
    BY DEF Leaves
  <2>2. Key(<<"hub_user", "accessLevel", "hub_access_level_enum">>) = LevelColumn
    BY DEF Key, LevelColumn
  <2>3. 4 \in 1..7
    OBVIOUS
  <2> QED BY <1>2, <2>1, <2>2, <2>3
<1>5. ASSUME NEW i \in 4..7, NEW names, On("hub_user", names) \subseteq Leaves[i],
             NEW j \in DOMAIN names
      PROVE  In(Target, <<"hub_user", names[j]>>)
  <2>1. <<"hub_user", names[j], NULL>> \in On("hub_user", names)
    BY <1>5 DEF On
  <2>2. Key(<<"hub_user", names[j], NULL>>) = <<"hub_user", names[j]>>
    BY DEF Key
  <2> QED BY <1>2, <1>5, <2>1, <2>2
<1>6. ASSUME NEW column \in HubUser
      PROVE  In(Target, <<"hub_user", column>>)
  <2>1. On("hub_user", TotpColumns) \subseteq Leaves[4]
    BY DEF Leaves
  <2>2. On("hub_user", <<"mobile", "UQ_hub_user_mobile">>) \subseteq Leaves[5]
    BY DEF Leaves
  <2>3. On("hub_user", <<"totpBypassedAt">>) \subseteq Leaves[6]
    BY DEF Leaves
  <2>4. On("hub_user", <<"totpRequired">>) \subseteq Leaves[7]
    BY DEF Leaves
  <2>5. \A j \in DOMAIN TotpColumns : In(Target, <<"hub_user", TotpColumns[j]>>)
    BY <1>5, <2>1
  <2>6. In(Target, <<"hub_user", "mobile">>)
    <3> DEFINE names == <<"mobile", "UQ_hub_user_mobile">>
    <3>1. 1 \in DOMAIN names /\ names[1] = "mobile"
      OBVIOUS
    <3> HIDE DEF names
    <3> QED BY <1>5, <2>2, <3>1 DEF names
  <2>7. In(Target, <<"hub_user", "totpBypassedAt">>)
    <3> DEFINE names == <<"totpBypassedAt">>
    <3>1. 1 \in DOMAIN names /\ names[1] = "totpBypassedAt"
      OBVIOUS
    <3> HIDE DEF names
    <3> QED BY <1>5, <2>3, <3>1 DEF names
  <2>8. In(Target, <<"hub_user", "totpRequired">>)
    <3> DEFINE names == <<"totpRequired">>
    <3>1. 1 \in DOMAIN names /\ names[1] = "totpRequired"
      OBVIOUS
    <3> HIDE DEF names
    <3> QED BY <1>5, <2>4, <3>1 DEF names
  <2>9. column \in {TotpColumns[j] : j \in DOMAIN TotpColumns}
                     \cup {"role", "accessLevel", "mobile", "totpBypassedAt", "totpRequired"}
    BY DEF HubUser, TotpColumns
  <2>10. In(Target, <<"hub_user", "role">>) /\ In(Target, <<"hub_user", "accessLevel">>)
    BY <1>3, <1>4 DEF RoleType, LevelColumn
  <2> QED BY <2>5, <2>6, <2>7, <2>8, <2>9, <2>10
<1> QED BY <1>3, <1>4, <1>6

\* A migration finds nothing it cannot deal with in the schema of this build,
\* whichever it is: so a job may run a list that another has run meanwhile.
LEMMA TargetReached ==
  ASSUME NEW m \in 0..7
  PROVE  Reached(m, Target)
<1>1. Target = Kept(7) /\ Len(Up) = 7
  BY TargetIsKept, SevenMigrations
<1>2. CASE m < 2
  <2>1. Target \in SUBSET Known
    BY <1>1 DEF Known
  <2>2. ASSUME NEW o \in Target, o[1] \notin {"table", "type"}
        PROVE  In(Target, Table(o[1]))
    <3>1. PICK i \in 1..7 : o \in Leaves[i]
      BY <1>1 DEF Kept
    <3>2. o[1] \in {"hub_user", "hub_refresh_token", "hub_user_recovery_code"}
      <4> DEFINE Places == {"table", "type", "hub_user", "hub_refresh_token",
                            "hub_user_recovery_code"}
      <4>1. /\ \A names : \A p \in On("hub_user", names) : p[1] \in Places
            /\ \A names : \A p \in On("hub_refresh_token", names) : p[1] \in Places
            /\ \A names : \A p \in On("hub_user_recovery_code", names) : p[1] \in Places
        BY DEF On
      <4>2. /\ \A name, type : <<"table", name, type>>[1] \in Places
            /\ \A name, type : <<"type", name, type>>[1] \in Places
            /\ \A name, type : <<"hub_user", name, type>>[1] \in Places
        OBVIOUS
      <4> HIDE DEF Places
      <4>3. Leaves[1] = {}
        BY DEF Leaves
      <4>4. \A p \in Leaves[2] : p[1] \in Places
        <5>1. Leaves[2] = {<<"table", "hub_user", NULL>>,
                           <<"type", "hub_user_role_enum", "SYSTEM_ADMIN">>,
                           <<"hub_user", "role", "hub_user_role_enum">>,
                           <<"hub_user", "role default", NULL>>}
          BY DEF Leaves
        <5> QED BY <4>2, <5>1
      <4>5. \A p \in Leaves[3] : p[1] \in Places
        <5>1. Leaves[3] = {<<"table", "hub_refresh_token", NULL>>}
                          \cup On("hub_refresh_token", RefreshTokenObjects)
          BY DEF Leaves
        <5> QED BY <4>1, <4>2, <5>1
      <4>6. \A p \in Leaves[4] : p[1] \in Places
        <5>1. Leaves[4] =
                {<<"type", "hub_access_level_enum", "VIEW EDIT ADMIN">>,
                 <<"hub_user", "accessLevel", "hub_access_level_enum">>,
                 <<"table", "hub_user_recovery_code", NULL>>}
                \cup On("hub_user", TotpColumns)
                \cup On("hub_user_recovery_code", RecoveryCodeObjects)
          BY DEF Leaves
        <5> QED BY <4>1, <4>2, <5>1
      <4>7. /\ Leaves[5] = On("hub_user", <<"mobile", "UQ_hub_user_mobile">>)
            /\ Leaves[6] = On("hub_user", <<"totpBypassedAt">>)
            /\ Leaves[7] = On("hub_user", <<"totpRequired">>)
        BY DEF Leaves
      <4>8. \A p \in Leaves[5] \cup Leaves[6] \cup Leaves[7] : p[1] \in Places
        BY <4>1, <4>7
      <4>9. o[1] \in Places
        BY <3>1, <4>3, <4>4, <4>5, <4>6, <4>8
      <4> QED BY <2>2, <4>9 DEF Places
    <3>3. In(Target, Table("hub_refresh_token")) /\ In(Target, Table("hub_user_recovery_code"))
      <4>1. /\ <<"table", "hub_refresh_token", NULL>> \in Leaves[3]
            /\ <<"table", "hub_user_recovery_code", NULL>> \in Leaves[4]
        BY DEF Leaves
      <4>2. /\ Key(<<"table", "hub_refresh_token", NULL>>) = Table("hub_refresh_token")
            /\ Key(<<"table", "hub_user_recovery_code", NULL>>) = Table("hub_user_recovery_code")
        BY DEF Key, Table
      <4> QED BY <1>1, <4>1, <4>2 DEF In, Kept
    <3> QED BY <3>2, <3>3, TargetHasColumns
  <2> QED BY <1>1, <1>2, <2>1, <2>2, TargetHasColumns DEF Reached, Known
<1>3. CASE ~(m < 2)
  <2>1. Kept(m) \subseteq Kept(7)
    BY KeptIsMonotone
  <2> QED BY <1>1, <1>3, <2>1 DEF Reached
<1> QED BY <1>2, <1>3

\* A database with the schema of this build has every column it queries.
LEMMA TargetFits ==
  ASSUME NEW d, d.objects = Target
  PROVE  Fits(d)
BY TargetHasColumns DEF Fits, Has, In
-----------------------------------------------------------------------------
(***************************************************************************)
(* The inductive invariant of the deployments.                             *)
(***************************************************************************)
\* The accounts fit the schema, and if they have levels, one is an ADMIN.
Accounts(O, R) ==
  /\ TypedRows(O, R)
  /\ DOMAIN R \subseteq Account
  /\ In(O, LevelColumn) /\ DOMAIN R # {} => \E a \in DOMAIN R : R[a].level = "ADMIN"

\* The migrations table lists the folder up to some migration, and these are
\* done; of the others, any part may be there.
Consistent(d) ==
  /\ d = Sound(d.objects, d.rows, d.history)
  /\ \E n \in 0..7 : d.history = 1..n /\ Reached(n, d.objects)
  /\ Accounts(d.objects, d.rows)

\* The list a job has read may be run onto the database as it is by now; and a
\* job behind its migrations, or overtaken by another's, finds the database
\* migrated.
Prepared(state, d) ==
  /\ state.stage # "rejected"
  /\ state.stage \in {"apply", "overtaken"} =>
       \E m \in 0..7 : /\ state.list = (m + 1)..7
                       /\ 1..m \subseteq d.history
                       /\ Reached(m, d.objects)
  /\ state.stage \in {"overtaken", "collided", "restart", "done"} =>
       d.objects = Target /\ d.history = Folder

\* A worker inserts the first administrator where there are levels.
Seeds(state, d) ==
  /\ state.stage \in {"seeding", "inserting"} => SeedEmail # NULL
  /\ state.stage = "inserting" => Fits(d)

DeploymentInv ==
  /\ Consistent(db)
  /\ dist \in {"old", "new", "none"}
  /\ installed \in BOOLEAN
  /\ job \in [Job -> [stage : JobStage, list : SUBSET Folder]]
  /\ \A j \in Job : Prepared(job[j], db)
  /\ worker \in [Worker -> [stage : WorkerStage, build : {"old", "new"}]]
  /\ \A w \in Worker : Seeds(worker[w], db)
  /\ owner \in Job \cup {NULL}
  /\ disturbances \in 0..MaxDisturbances

\* What a step may do to the database: nothing, another set of accounts, or
\* the pending migrations.
Edited(d, e) == \E S : e = Sound(d.objects, S, d.history) /\ Accounts(d.objects, S)

Migrated(d, e) ==
  \E S : e = Sound(Target, S, Folder) /\ Carried(d.objects, d.rows, Target, S)

DbStep == db' = db \/ Edited(db, db') \/ Migrated(db, db')
-----------------------------------------------------------------------------
\* The fields of a database in good order.
LEMMA SoundFields ==
  ASSUME NEW O, NEW R, NEW H
  PROVE  /\ Sound(O, R, H).objects = O /\ Sound(O, R, H).rows = R
         /\ Sound(O, R, H).history = H /\ Sound(O, R, H).ok
BY DEF Sound

\* Whether the columns are there depends on the objects only.
LEMMA FitsByObjects ==
  ASSUME NEW d, NEW e, d.objects = e.objects
  PROVE  Fits(d) <=> Fits(e)
BY DEF Fits, Has

\* On a schema that fits, the accounts have levels.
LEMMA FitsHasLevels ==
  ASSUME NEW d, Fits(d)
  PROVE  In(d.objects, LevelColumn)
BY DEF Fits, Has, In, HubUser, LevelColumn

\* Migrations carry the accounts over.
LEMMA AccountsCarried ==
  ASSUME NEW O, NEW R, NEW S, Accounts(O, R), Carried(O, R, Target, S)
  PROVE  Accounts(Target, S)
<1>1. TypedRows(Target, S) /\ DOMAIN S = DOMAIN R
  BY DEF Carried
<1>2. DOMAIN R # {} => \E a \in DOMAIN R : S[a].level = "ADMIN"
  <2>1. In(O, LevelColumn) => \A a \in DOMAIN R : S[a].level = R[a].level
    BY DEF Carried
  <2>2. ~In(O, LevelColumn) => \A a \in DOMAIN R : S[a].level = "ADMIN"
    BY TargetHasColumns DEF Carried
  <2> QED BY <2>1, <2>2 DEF Accounts
<1> QED BY <1>1, <1>2 DEF Accounts

\* No step of the database undoes what a job or a worker relies on.
LEMMA DbStepKeeps ==
  ASSUME NEW d, NEW e, Consistent(d), e = d \/ Edited(d, e) \/ Migrated(d, e)
  PROVE  /\ Consistent(e)
         /\ \A state : Prepared(state, d) => Prepared(state, e)
         /\ Fits(d) => Fits(e)
         /\ \A state : Seeds(state, d) => Seeds(state, e)
<1>1. CASE e = d
  BY <1>1
<1>2. CASE Edited(d, e)
  <2>1. PICK S : e = Sound(d.objects, S, d.history) /\ Accounts(d.objects, S)
    BY <1>2 DEF Edited
  <2>2. e.objects = d.objects /\ e.rows = S /\ e.history = d.history
    BY <2>1, SoundFields
  <2>3. Consistent(e)
    BY <2>1, <2>2 DEF Consistent
  <2>4. ASSUME NEW state, Prepared(state, d)
        PROVE  Prepared(state, e)
    BY <2>2, <2>4 DEF Prepared
  <2>5. Fits(d) <=> Fits(e)
    BY <2>2, FitsByObjects
  <2> QED BY <2>3, <2>4, <2>5 DEF Seeds
<1>3. CASE Migrated(d, e)
  <2>1. PICK S : e = Sound(Target, S, Folder) /\ Carried(d.objects, d.rows, Target, S)
    BY <1>3 DEF Migrated
  <2>2. e.objects = Target /\ e.rows = S /\ e.history = Folder
    BY <2>1, SoundFields
  <2>3. Consistent(e)
    <3>1. 7 \in 0..7 /\ Folder = 1..7
      BY SevenMigrations
    <3>2. Reached(7, Target)
      BY <3>1, TargetReached
    <3>3. Accounts(Target, S)
      BY <2>1, AccountsCarried DEF Consistent
    <3>4. e.history = 1..7 /\ Reached(7, e.objects) /\ Accounts(e.objects, e.rows)
      BY <2>2, <3>1, <3>2, <3>3
    <3>5. \E n \in 0..7 : e.history = 1..n /\ Reached(n, e.objects)
      BY <3>1, <3>4
    <3> QED BY <2>1, <2>2, <3>4, <3>5 DEF Consistent
  <2>4. ASSUME NEW state, Prepared(state, d)
        PROVE  Prepared(state, e)
    <3>1. ASSUME NEW m \in 0..7
          PROVE  1..m \subseteq e.history /\ Reached(m, e.objects)
      BY <2>2, <3>1, SevenMigrations, TargetReached
    <3> QED BY <2>2, <2>4, <3>1 DEF Prepared
  <2>5. Fits(e)
    BY <2>2, TargetFits
  <2> QED BY <2>3, <2>4, <2>5 DEF Seeds
<1> QED BY <1>1, <1>2, <1>3
-----------------------------------------------------------------------------
(***************************************************************************)
(* The steps of the database.                                              *)
(***************************************************************************)
\* The run of a list that was read before, whatever was done meanwhile.
LEMMA ListApplies ==
  ASSUME NEW d, Consistent(d), NEW state, Prepared(state, d),
         state.stage \in {"apply", "overtaken"}
  PROVE  Migrate(d, state.list).ok /\ Migrated(d, Migrate(d, state.list))
<1>1. PICK m \in 0..7 : /\ state.list = (m + 1)..7
                        /\ 1..m \subseteq d.history
                        /\ Reached(m, d.objects)
  BY DEF Prepared
<1>2. PICK n \in 0..7 : d.history = 1..n
  BY DEF Consistent
<1>3. d.history \cup (m + 1)..7 = Folder
  BY <1>1, <1>2, SevenMigrations
<1>4. d = Sound(d.objects, d.rows, d.history) /\ TypedRows(d.objects, d.rows)
  BY DEF Consistent, Accounts
<1>5. PICK S : /\ Migrate(Sound(d.objects, d.rows, d.history), (m + 1)..7)
                    = Sound(Target, S, d.history \cup (m + 1)..7)
               /\ Carried(d.objects, d.rows, Target, S)
  <2> DEFINE O == d.objects
             R == d.rows
             H == d.history
  <2>1. Reached(m, O) /\ TypedRows(O, R)
    BY <1>1, <1>4
  <2> HIDE DEF O, R, H
  <2>2. \E S : /\ Migrate(Sound(O, R, H), (m + 1)..7) = Sound(Target, S, H \cup (m + 1)..7)
               /\ Carried(O, R, Target, S)
    BY <2>1, Converges
  <2> QED BY <2>2 DEF O, R, H
<1>6. Migrate(d, state.list) = Sound(Target, S, Folder)
  BY <1>1, <1>3, <1>4, <1>5
<1> QED BY <1>5, <1>6, SoundFields DEF Migrated

\* What a runner reads is a list it can run.
LEMMA PendingIsPrepared ==
  ASSUME NEW d, Consistent(d)
  PROVE  /\ Prepared([stage |-> "apply", list |-> Pending(d)], d)
         /\ Pending(d) \subseteq Folder
<1>1. PICK n \in 0..7 : d.history = 1..n /\ Reached(n, d.objects)
  BY DEF Consistent
<1>2. Pending(d) = (n + 1)..7
  BY <1>1, SevenMigrations DEF Pending
<1>3. \E m \in 0..7 : /\ Pending(d) = (m + 1)..7
                      /\ 1..m \subseteq d.history
                      /\ Reached(m, d.objects)
  BY <1>1, <1>2
<1> DEFINE list == Pending(d)
<1> HIDE DEF list
<1>4. /\ [stage |-> "apply", list |-> list].stage = "apply"
      /\ [stage |-> "apply", list |-> list].list = list
  OBVIOUS
<1>5. Pending(d) \subseteq Folder
  BY DEF Pending
<1> QED BY <1>3, <1>4, <1>5 DEF Prepared, list

\* Another set of accounts, written into the same database.
Rewritten(d, rows) == [d EXCEPT !.rows = rows]

\* Accounts that fit the schema may replace those that are there.
LEMMA RowsRewritten ==
  ASSUME NEW d, Consistent(d), NEW S, Accounts(d.objects, S)
  PROVE  Edited(d, Rewritten(d, S))
<1> DEFINE e == Rewritten(d, S)
           g == Sound(d.objects, S, d.history)
<1>1. d = Sound(d.objects, d.rows, d.history)
  BY DEF Consistent
<1>2. /\ DOMAIN d = {"objects", "rows", "history", "ok"}
      /\ d.ok = TRUE
  BY <1>1 DEF Sound
<1>3. /\ DOMAIN e = {"objects", "rows", "history", "ok"}
      /\ e.objects = d.objects /\ e.rows = S /\ e.history = d.history /\ e.ok = TRUE
      /\ e = [k \in DOMAIN e |-> e[k]]
  BY <1>2 DEF Rewritten
<1>4. /\ DOMAIN g = {"objects", "rows", "history", "ok"}
      /\ g.objects = d.objects /\ g.rows = S /\ g.history = d.history /\ g.ok = TRUE
      /\ g = [k \in DOMAIN g |-> g[k]]
  BY DEF Sound
<1> HIDE DEF e, g
<1>5. \A k \in DOMAIN e : e[k] = g[k]
  BY <1>3, <1>4
<1>6. e = g
  BY <1>3, <1>4, <1>5, SameFunction
<1> QED BY <1>6 DEF e, g, Edited
-----------------------------------------------------------------------------
(***************************************************************************)
(* The edits of the accounts.                                              *)
(***************************************************************************)
LevelsStay(R, S) ==
  \A a \in DOMAIN R \cap DOMAIN S : S[a].level = R[a].level

\* A schema with levels, and its accounts one by one.
LEMMA AccountsHaveLevels ==
  ASSUME NEW O, In(O, LevelColumn), NEW R, R = [a \in DOMAIN R |-> R[a]]
  PROVE  Accounts(O, R) <=>
           /\ DOMAIN R \subseteq Account
           /\ \A a \in DOMAIN R :
                R[a] \in [role : {"system_admin", "school_owner", "SYSTEM_ADMIN"},
                          level : {"VIEW", "EDIT", "ADMIN"}]
           /\ DOMAIN R # {} => \E a \in DOMAIN R : R[a].level = "ADMIN"
<1> DEFINE Row == [role : {"system_admin", "school_owner", "SYSTEM_ADMIN"},
                   level : {"VIEW", "EDIT", "ADMIN"}]
<1>1. TypedRows(O, R) <=> R \in [DOMAIN R -> Row]
  BY DEF TypedRows, LevelsOf
<1> HIDE DEF Row
<1>2. TypedRows(O, R) <=> \A a \in DOMAIN R : R[a] \in Row
  BY <1>1
<1> QED BY <1>2 DEF Accounts, Row

\* A new account fits, provided there is an ADMIN, itself perhaps.
LEMMA AccountAdded ==
  ASSUME NEW O, In(O, LevelColumn), NEW R, Accounts(O, R),
         NEW a \in Account, a \notin DOMAIN R,
         NEW level \in {"VIEW", "EDIT", "ADMIN"}, level = "ADMIN" \/ DOMAIN R # {}
  PROVE  LET S == Stored(R, a, [role |-> "SYSTEM_ADMIN", level |-> level])
         IN  Accounts(O, S) /\ LevelsStay(R, S)
<1> DEFINE new == [role |-> "SYSTEM_ADMIN", level |-> level]
           Row == [role : {"system_admin", "school_owner", "SYSTEM_ADMIN"},
                   level : {"VIEW", "EDIT", "ADMIN"}]
           S == Stored(R, a, new)
<1>1. new \in Row /\ new.level = level
  OBVIOUS
<1>2. R = [b \in DOMAIN R |-> R[b]]
  BY DEF Accounts, TypedRows
<1>3. /\ DOMAIN R \subseteq Account
      /\ \A b \in DOMAIN R : R[b] \in Row
      /\ DOMAIN R # {} => \E b \in DOMAIN R : R[b].level = "ADMIN"
  BY <1>2, AccountsHaveLevels
<1> HIDE DEF new, Row
<1>4. /\ S = [b \in DOMAIN S |-> S[b]]
      /\ DOMAIN S = DOMAIN R \cup {a}
      /\ S[a] = new
      /\ \A b \in DOMAIN R : S[b] = R[b]
  BY DEF Stored
<1> HIDE DEF S
<1>5. DOMAIN S \subseteq Account /\ \A b \in DOMAIN S : S[b] \in Row
  BY <1>1, <1>3, <1>4
<1>6. \E b \in DOMAIN S : S[b].level = "ADMIN"
  BY <1>1, <1>3, <1>4
<1>7. Accounts(O, S)
  BY <1>4, <1>5, <1>6, AccountsHaveLevels DEF Row
<1>8. LevelsStay(R, S)
  BY <1>4 DEF LevelsStay
<1> QED BY <1>7, <1>8 DEF S, new

\* Somebody else's level is set, and an administrator remains.
LEMMA LevelIsSet ==
  ASSUME NEW O, In(O, LevelColumn), NEW R, Accounts(O, R), NEW a \in DOMAIN R,
         NEW level \in {"VIEW", "EDIT", "ADMIN"},
         NEW actor \in DOMAIN R \ {a}, R[actor].level = "ADMIN"
  PROVE  LET S == [R EXCEPT ![a].level = level]
         IN  Accounts(O, S) /\ \A b \in DOMAIN R \ {a} : S[b] = R[b]
<1> DEFINE Row == [role : {"system_admin", "school_owner", "SYSTEM_ADMIN"},
                   level : {"VIEW", "EDIT", "ADMIN"}]
           new == [R[a] EXCEPT !.level = level]
           S == [R EXCEPT ![a].level = level]
<1>1. R = [b \in DOMAIN R |-> R[b]]
  BY DEF Accounts, TypedRows
<1>2. /\ DOMAIN R \subseteq Account
      /\ \A b \in DOMAIN R : R[b] \in Row
  BY <1>1, AccountsHaveLevels
<1>3. new \in Row
  BY <1>2
<1>4. S = [R EXCEPT ![a] = new]
  OBVIOUS
<1> HIDE DEF Row, new, S
<1>5. /\ S = [b \in DOMAIN S |-> S[b]]
      /\ DOMAIN S = DOMAIN R
      /\ S[a] = new
      /\ \A b \in DOMAIN R \ {a} : S[b] = R[b]
  BY <1>1, <1>4
<1>6. Accounts(O, S)
  BY <1>2, <1>3, <1>5, AccountsHaveLevels DEF Row
<1> QED BY <1>5, <1>6 DEF S

\* An account that is not the acting administrator may go.
LEMMA AccountRemoved ==
  ASSUME NEW O, In(O, LevelColumn), NEW R, Accounts(O, R), NEW a \in DOMAIN R,
         NEW actor \in DOMAIN R \ {a}, R[actor].level = "ADMIN"
  PROVE  LET S == Restrict(R, DOMAIN R \ {a})
         IN  Accounts(O, S) /\ LevelsStay(R, S)
<1> DEFINE Row == [role : {"system_admin", "school_owner", "SYSTEM_ADMIN"},
                   level : {"VIEW", "EDIT", "ADMIN"}]
           S == Restrict(R, DOMAIN R \ {a})
<1>1. R = [b \in DOMAIN R |-> R[b]]
  BY DEF Accounts, TypedRows
<1>2. /\ DOMAIN R \subseteq Account
      /\ \A b \in DOMAIN R : R[b] \in Row
  BY <1>1, AccountsHaveLevels
<1>3. /\ S = [b \in DOMAIN S |-> S[b]]
      /\ DOMAIN S = DOMAIN R \ {a}
      /\ \A b \in DOMAIN S : S[b] = R[b]
  BY DEF Restrict
<1> HIDE DEF Row, S
<1>4. Accounts(O, S)
  BY <1>2, <1>3, AccountsHaveLevels DEF Row
<1>5. LevelsStay(R, S)
  BY <1>3 DEF LevelsStay
<1> QED BY <1>4, <1>5 DEF S

\* An account with another address is the account it was.
LEMMA AccountRenamed ==
  ASSUME NEW O, In(O, LevelColumn), NEW R, Accounts(O, R), NEW a \in DOMAIN R,
         NEW email \in Account \ DOMAIN R,
         NEW actor \in DOMAIN R, R[actor].level = "ADMIN"
  PROVE  LET S == Stored(Restrict(R, DOMAIN R \ {a}), email, R[a])
         IN  Accounts(O, S) /\ LevelsStay(R, S)
<1> DEFINE Row == [role : {"system_admin", "school_owner", "SYSTEM_ADMIN"},
                   level : {"VIEW", "EDIT", "ADMIN"}]
           S == Stored(Restrict(R, DOMAIN R \ {a}), email, R[a])
<1>1. R = [b \in DOMAIN R |-> R[b]]
  BY DEF Accounts, TypedRows
<1>2. /\ DOMAIN R \subseteq Account
      /\ \A b \in DOMAIN R : R[b] \in Row
  BY <1>1, AccountsHaveLevels
<1>3. /\ S = [b \in DOMAIN S |-> S[b]]
      /\ DOMAIN S = (DOMAIN R \ {a}) \cup {email}
      /\ S[email] = R[a]
      /\ \A b \in DOMAIN R \ {a} : S[b] = R[b]
  BY DEF Restrict, Stored
<1> HIDE DEF Row, S
<1>4. \A b \in DOMAIN S : S[b] \in Row
  BY <1>2, <1>3
<1>5. \E b \in DOMAIN S : S[b].level = "ADMIN"
  BY <1>3
<1>6. Accounts(O, S)
  BY <1>2, <1>3, <1>4, <1>5, AccountsHaveLevels DEF Row
<1>7. LevelsStay(R, S)
  BY <1>3 DEF LevelsStay
<1> QED BY <1>6, <1>7 DEF S
-----------------------------------------------------------------------------
(***************************************************************************)
(* What each action does to the database.                                  *)
(***************************************************************************)
LEMMA AdministeredHasLevels ==
  ASSUME NEW d, Consistent(d), NEW actor \in DOMAIN d.rows, d.rows[actor].level = "ADMIN"
  PROVE  In(d.objects, LevelColumn) /\ Accounts(d.objects, d.rows)
<1>1. Accounts(d.objects, d.rows)
  BY DEF Consistent
<1>2. d.rows[actor].level \in LevelsOf(d.objects)
  <2> DEFINE L == LevelsOf(d.objects)
             R == d.rows
  <2>1. R \in [DOMAIN R -> [role : {"system_admin", "school_owner", "SYSTEM_ADMIN"},
                            level : L]]
    BY <1>1 DEF Accounts, TypedRows
  <2> HIDE DEF L, R
  <2>2. \A a \in DOMAIN R : R[a].level \in L
    BY <2>1
  <2> QED BY <2>2 DEF L, R
<1>3. "ADMIN" # NULL
  BY DeploymentAssumption
<1> QED BY <1>1, <1>2, <1>3 DEF LevelsOf

\* The seeder adds an ADMIN and touches nobody else.
LEMMA SeedIsInserted ==
  ASSUME DeploymentInv, NEW w \in Worker, InsertSeed(w)
  PROVE  Edited(db, db') /\ LevelsStay(db.rows, db'.rows)
<1> DEFINE S == Stored(db.rows, SeedEmail, [role |-> "SYSTEM_ADMIN", level |-> "ADMIN"])
<1>1. SeedEmail \in Account /\ SeedEmail \notin DOMAIN db.rows
  BY DeploymentAssumption DEF DeploymentInv, Seeds, InsertSeed
<1>2. In(db.objects, LevelColumn) /\ Accounts(db.objects, db.rows) /\ Consistent(db)
  BY FitsHasLevels DEF DeploymentInv, Seeds, InsertSeed, Consistent
<1>3. db' = Rewritten(db, S)
  BY DEF InsertSeed, SeedLevel, Rewritten
<1>4. Accounts(db.objects, S) /\ LevelsStay(db.rows, S)
  <2> DEFINE O == db.objects
             R == db.rows
  <2>1. In(O, LevelColumn) /\ Accounts(O, R)
    BY <1>2
  <2>2. "ADMIN" \in {"VIEW", "EDIT", "ADMIN"}
    OBVIOUS
  <2>3. SeedEmail \notin DOMAIN R
    BY <1>1
  <2> HIDE DEF O, R
  <2>4. /\ Accounts(O, Stored(R, SeedEmail, [role |-> "SYSTEM_ADMIN", level |-> "ADMIN"]))
        /\ LevelsStay(R, Stored(R, SeedEmail, [role |-> "SYSTEM_ADMIN", level |-> "ADMIN"]))
    BY <1>1, <2>1, <2>2, <2>3, AccountAdded
  <2> QED BY <2>4 DEF O, R
<1> HIDE DEF S
<1>5. Edited(db, db')
  BY <1>2, <1>3, <1>4, RowsRewritten
<1>6. db'.rows = S
  <2>1. "rows" \in DOMAIN db
    BY <1>2 DEF Consistent, Sound
  <2> QED BY <1>3, <2>1 DEF Rewritten
<1> QED BY <1>4, <1>5, <1>6

\* An edit is a set of accounts of the same schema.
LEMMA RowsAreWritten ==
  ASSUME Consistent(db), NEW S, Accounts(db.objects, S), db' = Rewritten(db, S)
  PROVE  Edited(db, db') /\ db'.rows = S
<1>1. Edited(db, db')
  BY RowsRewritten
<1>2. "rows" \in DOMAIN db
  BY DEF Consistent, Sound
<1> QED BY <1>1, <1>2 DEF Rewritten

\* An invitation adds a VIEW account and touches nobody else.
LEMMA AccountIsInvited ==
  ASSUME DeploymentInv, NEW a \in Account, Invite(a)
  PROVE  Edited(db, db') /\ LevelsStay(db.rows, db'.rows)
<1> DEFINE O == db.objects
           R == db.rows
           S == Stored(R, a, [role |-> "SYSTEM_ADMIN", level |-> "VIEW"])
<1>1. PICK actor \in DOMAIN db.rows \ {a} : db.rows[actor].level = "ADMIN"
  BY DEF Invite, Administered
<1>2. Consistent(db) /\ In(O, LevelColumn) /\ Accounts(O, R)
  BY <1>1, AdministeredHasLevels DEF DeploymentInv
<1>3. a \notin DOMAIN R /\ DOMAIN R # {} /\ db' = Rewritten(db, S)
  BY <1>1 DEF Invite, Rewritten
<1> HIDE DEF O, R
<1>4. Accounts(O, S) /\ LevelsStay(R, S)
  BY <1>2, <1>3, AccountAdded
<1> HIDE DEF S
<1> QED BY <1>2, <1>3, <1>4, RowsAreWritten DEF O, R

\* A change of level leaves the acting administrator and the others alone.
LEMMA LevelIsEdited ==
  ASSUME DeploymentInv, NEW a \in Account, SetAccessLevel(a)
  PROVE  /\ Edited(db, db')
         /\ \A b \in DOMAIN db.rows \ {a} : db'.rows[b].level = db.rows[b].level
<1>1. PICK actor \in DOMAIN db.rows \ {a} : db.rows[actor].level = "ADMIN"
  BY DEF SetAccessLevel, Administered
<1>2. PICK level \in {"VIEW", "ADMIN"} : db' = [db EXCEPT !.rows[a].level = level]
  BY DEF SetAccessLevel
<1> DEFINE O == db.objects
           R == db.rows
           S == [R EXCEPT ![a].level = level]
<1>3. Consistent(db) /\ In(O, LevelColumn) /\ Accounts(O, R)
  BY <1>1, AdministeredHasLevels DEF DeploymentInv
<1>4. a \in DOMAIN R /\ db' = Rewritten(db, S) /\ level \in {"VIEW", "EDIT", "ADMIN"}
  BY <1>2 DEF SetAccessLevel, Rewritten
<1>5. actor \in DOMAIN R \ {a} /\ R[actor].level = "ADMIN"
  BY <1>1
<1> HIDE DEF O, R
<1>6. Accounts(O, S) /\ \A b \in DOMAIN R \ {a} : S[b] = R[b]
  BY <1>3, <1>4, <1>5, LevelIsSet
<1> HIDE DEF S
<1> QED BY <1>3, <1>4, <1>6, RowsAreWritten DEF O, R

\* Another address takes the level along.
LEMMA EmailIsEdited ==
  ASSUME DeploymentInv, NEW a \in Account, NEW email \in Account, UpdateEmail(a, email)
  PROVE  Edited(db, db') /\ LevelsStay(db.rows, db'.rows)
<1> DEFINE O == db.objects
           R == db.rows
           S == Stored(Restrict(R, DOMAIN R \ {a}), email, R[a])
<1>1. PICK actor \in DOMAIN db.rows : db.rows[actor].level = "ADMIN"
  BY DEF UpdateEmail
<1>2. Consistent(db) /\ In(O, LevelColumn) /\ Accounts(O, R)
  BY <1>1, AdministeredHasLevels DEF DeploymentInv
<1>3. a \in DOMAIN R /\ email \in Account \ DOMAIN R /\ db' = Rewritten(db, S)
  BY DEF UpdateEmail, Rewritten
<1>4. actor \in DOMAIN R /\ R[actor].level = "ADMIN"
  BY <1>1
<1> HIDE DEF O, R
<1>5. Accounts(O, S) /\ LevelsStay(R, S)
  BY <1>2, <1>3, <1>4, AccountRenamed
<1> HIDE DEF S
<1> QED BY <1>2, <1>3, <1>5, RowsAreWritten DEF O, R

\* A removal leaves the acting administrator and the others alone.
LEMMA AccountIsRemoved ==
  ASSUME DeploymentInv, NEW a \in Account, RemoveAccount(a)
  PROVE  Edited(db, db') /\ LevelsStay(db.rows, db'.rows)
<1> DEFINE O == db.objects
           R == db.rows
           S == Restrict(R, DOMAIN R \ {a})
<1>1. PICK actor \in DOMAIN db.rows \ {a} : db.rows[actor].level = "ADMIN"
  BY DEF RemoveAccount, Administered
<1>2. Consistent(db) /\ In(O, LevelColumn) /\ Accounts(O, R)
  BY <1>1, AdministeredHasLevels DEF DeploymentInv
<1>3. a \in DOMAIN R /\ db' = Rewritten(db, S)
  BY DEF RemoveAccount, Rewritten
<1>4. actor \in DOMAIN R \ {a} /\ R[actor].level = "ADMIN"
  BY <1>1
<1> HIDE DEF O, R
<1>5. Accounts(O, S) /\ LevelsStay(R, S)
  BY <1>2, <1>3, <1>4, AccountRemoved
<1> HIDE DEF S
<1> QED BY <1>2, <1>3, <1>5, RowsAreWritten DEF O, R

\* No list is rejected: the run ends in the schema of this build, and whoever
\* else had read a list is overtaken, unless there was nothing to run.
LEMMA ListIsApplied ==
  ASSUME DeploymentInv, NEW j \in Job, ApplyPending(j)
  PROVE  /\ Migrated(db, db')
         /\ job' = [i \in Job |->
                     IF i = j THEN [stage |-> "restart", list |-> {}]
                     ELSE IF job[j].list # {} THEN Overtaken(job[i]) ELSE job[i]]
<1>1. Consistent(db) /\ Prepared(job[j], db) /\ job[j].stage \in {"apply", "overtaken"}
  BY DEF DeploymentInv, ApplyPending
<1>2. Migrate(db, job[j].list).ok /\ Migrated(db, Migrate(db, job[j].list))
  BY <1>1, ListApplies
<1> QED BY <1>2 DEF ApplyPending

\* A run that has been overtaken has the list it read before.
LEMMA OvertakenIsPrepared ==
  ASSUME NEW d, d.objects = Target, d.history = Folder,
         NEW state \in [stage : JobStage, list : SUBSET Folder], Prepared(state, d)
  PROVE  /\ Overtaken(state) \in [stage : JobStage, list : SUBSET Folder]
         /\ Prepared(Overtaken(state), d)
<1>1. CASE state.stage = "apply"
  <2>1. Overtaken(state) = [state EXCEPT !.stage = "overtaken"]
    BY <1>1 DEF Overtaken
  <2>2. "overtaken" \in JobStage
    BY DEF JobStage
  <2>3. /\ Overtaken(state) \in [stage : JobStage, list : SUBSET Folder]
        /\ Overtaken(state).stage = "overtaken" /\ Overtaken(state).list = state.list
    BY <2>1, <2>2
  <2> QED BY <1>1, <2>3 DEF Prepared
<1>2. CASE state.stage # "apply"
  <2>1. Overtaken(state) = state
    BY <1>2 DEF Overtaken
  <2> QED BY <2>1
<1> QED BY <1>1, <1>2
-----------------------------------------------------------------------------
(***************************************************************************)
(* The invariant holds, and is kept.                                       *)
(***************************************************************************)
LEMMA DeploymentStarts ==
  DeploymentInit => DeploymentInv
<1> SUFFICES ASSUME DeploymentInit
             PROVE  DeploymentInv
  OBVIOUS
<1>1. Foreseen(db) /\ DOMAIN db.rows \subseteq Account
  BY DatabasesAssumption DEF DeploymentInit
<1>2. db = Sound(db.objects, db.rows, db.history)
  BY <1>1 DEF Foreseen, Sound
<1>3. \E n \in 0..7 : db.history = 1..n /\ Reached(n, db.objects)
  BY <1>1, SevenMigrations DEF Foreseen
<1>4. Has(db, LevelColumn) <=> In(db.objects, LevelColumn)
  BY DEF Has, In
<1>5. Accounts(db.objects, db.rows)
  <2>1. TypedRows(db.objects, db.rows)
    BY <1>1, <1>4 DEF Foreseen, TypedRows, LevelsOf
  <2> QED BY <1>1, <1>4, <2>1 DEF Foreseen, Accounts
<1>6. Consistent(db)
  BY <1>2, <1>3, <1>5 DEF Consistent
<1>7. /\ job \in [Job -> [stage : JobStage, list : SUBSET Folder]]
      /\ \A j \in Job : Prepared(job[j], db)
  <2>1. "queued" \in JobStage /\ {} \in SUBSET Folder
    BY DEF JobStage
  <2> QED BY <2>1 DEF DeploymentInit, Prepared
<1>8. /\ worker \in [Worker -> [stage : WorkerStage, build : {"old", "new"}]]
      /\ \A w \in Worker : Seeds(worker[w], db)
  <2>1. PICK stage \in {"errored", "serving"} :
          worker = [w \in Worker |-> [stage |-> stage, build |-> "old"]]
    BY DEF DeploymentInit
  <2>2. [stage |-> stage, build |-> "old"] \in [stage : WorkerStage, build : {"old", "new"}]
    BY DEF WorkerStage
  <2>3. Seeds([stage |-> stage, build |-> "old"], db)
    BY DEF Seeds
  <2> QED BY <2>1, <2>2, <2>3
<1>9. /\ dist \in {"old", "new", "none"} /\ installed \in BOOLEAN
      /\ owner = NULL /\ disturbances \in 0..MaxDisturbances
  BY DeploymentAssumption DEF DeploymentInit
<1> QED BY <1>6, <1>7, <1>8, <1>9 DEF DeploymentInv

\* Every job finds what it needs, whichever of them moves.
LEMMA JobsKept ==
  ASSUME DeploymentInv, NEW j \in Job, JobStep(j)
  PROVE  /\ DbStep
         /\ job' \in [Job -> [stage : JobStage, list : SUBSET Folder]]
         /\ \A i \in Job : Prepared(job'[i], db')
<1> DEFINE JobState == [stage : JobStage, list : SUBSET Folder]
<1>1. /\ Consistent(db) /\ job \in [Job -> JobState]
      /\ \A i \in Job : Prepared(job[i], db)
  BY DEF DeploymentInv
<1>2. ASSUME NEW state \in JobState, job' = [job EXCEPT ![j] = state], db' = db,
             Prepared(state, db)
      PROVE  /\ DbStep
             /\ job' \in [Job -> JobState] /\ \A i \in Job : Prepared(job'[i], db')
  <2> HIDE DEF JobState
  <2> QED BY <1>1, <1>2 DEF DbStep
<1>3. ASSUME NEW stage \in {"copy", "install", "installing", "migrate", "done"},
             Reach(j, stage), db' = db,
             stage = "done" => job[j].stage = "restart"
      PROVE  /\ DbStep
             /\ job' \in [Job -> JobState] /\ \A i \in Job : Prepared(job'[i], db')
  <2> DEFINE state == [job[j] EXCEPT !.stage = stage]
  <2>1. job' = [job EXCEPT ![j] = state]
    BY <1>3 DEF Reach
  <2>2. state \in JobState /\ state.stage = stage
    BY <1>1, <1>3 DEF JobStage, Ended
  <2> HIDE DEF state
  <2>3. Prepared(state, db)
    BY <1>1, <1>3, <2>2 DEF Prepared
  <2> QED BY <1>2, <1>3, <2>1, <2>2, <2>3
<1>4. CASE Clean(j)
  BY <1>3, <1>4 DEF Clean
<1>5. CASE Copy(j)
  BY <1>3, <1>5 DEF Copy
<1>6. CASE Install(j)
  BY <1>3, <1>6 DEF Install
<1>7. CASE Installed(j)
  BY <1>3, <1>7 DEF Installed
<1>8. CASE ReadHistory(j)
  <2> DEFINE state == [stage |-> "apply", list |-> Pending(db)]
  <2>1. job' = [job EXCEPT ![j] = state] /\ db' = db
    BY <1>8 DEF ReadHistory
  <2>2. Prepared(state, db) /\ Pending(db) \subseteq Folder
    BY <1>1, PendingIsPrepared
  <2>3. state \in JobState
    BY <2>2 DEF JobStage
  <2> HIDE DEF state
  <2> QED BY <1>2, <2>1, <2>2, <2>3
<1>9. CASE ApplyPending(j)
  <2> DEFINE state == [stage |-> "restart", list |-> {}]
  <2>1. /\ Migrated(db, db')
        /\ job' = [i \in Job |->
                    IF i = j THEN state
                    ELSE IF job[j].list # {} THEN Overtaken(job[i]) ELSE job[i]]
    BY <1>9, ListIsApplied
  <2>2. db'.objects = Target /\ db'.history = Folder
    BY <2>1, SoundFields DEF Migrated
  <2>3. state \in JobState /\ Prepared(state, db')
    BY <2>2 DEF JobStage, Prepared
  <2>4. \A i \in Job : job[i] \in JobState /\ Prepared(job[i], db')
    BY <1>1, <2>1, DbStepKeeps
  <2>5. \A i \in Job : Overtaken(job[i]) \in JobState /\ Prepared(Overtaken(job[i]), db')
    BY <2>2, <2>4, OvertakenIsPrepared
  <2> HIDE DEF JobState, state
  <2>6. job' \in [Job -> JobState] /\ \A i \in Job : Prepared(job'[i], db')
    BY <2>1, <2>3, <2>4, <2>5
  <2> QED BY <2>1, <2>6 DEF DbStep, JobState
<1>10. CASE Collide(j)
  <2> DEFINE state == [stage |-> "collided", list |-> {}]
  <2>1. job' = [job EXCEPT ![j] = state] /\ db' = db /\ job[j].stage = "overtaken"
    BY <1>10 DEF Collide
  <2>2. state \in JobState
    BY DEF JobStage, Ended
  <2>3. Prepared(state, db)
    BY <1>1, <2>1 DEF Prepared
  <2> HIDE DEF state
  <2> QED BY <1>2, <2>1, <2>2, <2>3
<1>11. CASE Restart(j)
  BY <1>3, <1>11 DEF Restart
<1>12. CASE Fail(j)
  <2> DEFINE state == [stage |-> "failed", list |-> {}]
  <2>1. job' = [job EXCEPT ![j] = state] /\ db' = db
    BY <1>12 DEF Fail, AfterFailure
  <2>2. state \in JobState /\ Prepared(state, db)
    BY DEF JobStage, Ended, Prepared
  <2> HIDE DEF state
  <2> QED BY <1>2, <2>1, <2>2
<1> QED
  BY <1>4, <1>5, <1>6, <1>7, <1>8, <1>9, <1>10, <1>11, <1>12 DEF JobStep

\* A worker that comes up asks for the columns before it inserts.
LEMMA WorkerBecomes ==
  ASSUME DeploymentInv, NEW w \in Worker, NEW stage \in WorkerStage, Become(w, stage),
         stage \in {"seeding", "inserting"} => worker[w].stage = "seeding",
         stage = "inserting" => Fits(db')
  PROVE  /\ worker' \in [Worker -> [stage : WorkerStage, build : {"old", "new"}]]
         /\ Seeds(worker'[w], db') /\ \A v \in Worker \ {w} : worker'[v] = worker[v]
<1> DEFINE State == [stage : WorkerStage, build : {"old", "new"}]
<1>1. worker \in [Worker -> State] /\ Seeds(worker[w], db)
  BY DEF DeploymentInv
<1>2. worker' = [worker EXCEPT ![w] = [worker[w] EXCEPT !.stage = stage]]
  BY DEF Become
<1>3. [worker[w] EXCEPT !.stage = stage] \in State
  BY <1>1
<1>4. worker'[w].stage = stage
  BY <1>1, <1>2
<1>5. Seeds(worker'[w], db')
  BY <1>1, <1>4 DEF Seeds
<1> HIDE DEF State
<1>6. worker' \in [Worker -> State] /\ \A v \in Worker \ {w} : worker'[v] = worker[v]
  BY <1>1, <1>2, <1>3
<1> QED BY <1>5, <1>6 DEF State

\* A worker boots, seeds or dies without taking anything from the schema.
LEMMA WorkersKept ==
  ASSUME DeploymentInv, NEW w \in Worker, BootStep(w) \/ Crash(w)
  PROVE  /\ DbStep
         /\ worker' \in [Worker -> [stage : WorkerStage, build : {"old", "new"}]]
         /\ Seeds(worker'[w], db') /\ \A v \in Worker \ {w} : worker'[v] = worker[v]
<1> DEFINE State == [stage : WorkerStage, build : {"old", "new"}]
<1>1. worker \in [Worker -> State] /\ Seeds(worker[w], db)
  BY DEF DeploymentInv
<1>2. CASE Boot(w)
  <2>1. PICK stage \in {"serving", "seeding"} :
          /\ worker' = [worker EXCEPT ![w] = [stage |-> stage, build |-> dist]]
          /\ stage = "seeding" => SeedEmail # NULL
    BY <1>2 DEF Boot
  <2>2. db' = db /\ dist \in {"old", "new"}
    BY <1>2 DEF Boot, DeploymentInv
  <2>3. [stage |-> stage, build |-> dist] \in State
    BY <2>2 DEF WorkerStage
  <2>4. Seeds([stage |-> stage, build |-> dist], db')
    BY <2>1 DEF Seeds
  <2> HIDE DEF State
  <2>5. /\ worker' \in [Worker -> State] /\ Seeds(worker'[w], db')
        /\ \A v \in Worker \ {w} : worker'[v] = worker[v]
    BY <1>1, <2>1, <2>3, <2>4
  <2> QED BY <2>2, <2>5 DEF DbStep, State
<1>3. CASE FindSeed(w)
  <2>1. PICK stage \in {"serving", "inserting"} : Become(w, stage)
    BY <1>3 DEF FindSeed
  <2>2. db' = db /\ Fits(db') /\ worker[w].stage = "seeding" /\ stage \in WorkerStage
    BY <1>3 DEF FindSeed, WorkerStage
  <2> HIDE DEF State
  <2> QED BY <2>1, <2>2, WorkerBecomes DEF DbStep
<1>4. CASE InsertSeed(w)
  <2>1. Edited(db, db')
    BY <1>4, SeedIsInserted
  <2>2. Become(w, "serving") /\ "serving" \in WorkerStage
    BY <1>4 DEF InsertSeed, WorkerStage
  <2> HIDE DEF State
  <2> QED BY <2>1, <2>2, WorkerBecomes DEF DbStep
<1>5. CASE SeedTaken(w)
  <2>1. Become(w, "down") /\ "down" \in WorkerStage /\ db' = db
    BY <1>5 DEF SeedTaken, WorkerStage
  <2> HIDE DEF State
  <2> QED BY <2>1, WorkerBecomes DEF DbStep
<1>6. CASE BootFails(w)
  <2>1. PICK stage \in {"down", "errored"} : Become(w, stage)
    BY <1>6 DEF BootFails
  <2>2. stage \in WorkerStage /\ db' = db
    BY <1>6 DEF BootFails, WorkerStage
  <2> HIDE DEF State
  <2> QED BY <2>1, <2>2, WorkerBecomes DEF DbStep
<1>7. CASE Crash(w)
  <2>1. Become(w, "down") /\ "down" \in WorkerStage /\ db' = db
    BY <1>7 DEF Crash, WorkerStage
  <2> HIDE DEF State
  <2> QED BY <2>1, WorkerBecomes DEF DbStep
<1> QED BY <1>2, <1>3, <1>4, <1>5, <1>6, <1>7 DEF BootStep

Edit(a) ==
  \/ Invite(a) \/ SetAccessLevel(a) \/ RemoveAccount(a)
  \/ \E email \in Account : UpdateEmail(a, email)

\* Whatever an administrator edits, the schema stays as it is.
LEMMA EditsKeep ==
  ASSUME DeploymentInv, NEW a \in Account, Edit(a)
  PROVE  Edited(db, db')
BY AccountIsInvited, LevelIsEdited, AccountIsRemoved, EmailIsEdited DEF Edit

\* Every step of a deployment, a worker or an administrator keeps the invariant.
LEMMA DeploymentSteps ==
  ASSUME DeploymentInv, DeploymentNext
  PROVE  DeploymentInv' /\ DbStep
<1> DEFINE JobState == [stage : JobStage, list : SUBSET Folder]
           State == [stage : WorkerStage, build : {"old", "new"}]
<1>1. ASSUME DbStep
      PROVE  /\ Consistent(db')
             /\ \A state : Prepared(state, db) => Prepared(state, db')
             /\ \A state : Seeds(state, db) => Seeds(state, db')
  <2>1. Consistent(db)
    BY DEF DeploymentInv
  <2>2. db' = db \/ Edited(db, db') \/ Migrated(db, db')
    BY <1>1 DEF DbStep
  <2> QED BY <2>1, <2>2, DbStepKeeps
<1>2. ASSUME NEW j \in Job, JobStep(j)
      PROVE  DeploymentInv' /\ DbStep
  <2>1. /\ DbStep
        /\ job' \in [Job -> JobState] /\ \A i \in Job : Prepared(job'[i], db')
    BY <1>2, JobsKept
  <2>2. Consistent(db')
    BY <1>1, <2>1
  <2>3. /\ dist' \in {"old", "new", "none"}
        /\ installed' \in BOOLEAN
        /\ owner' \in Job \cup {NULL}
        /\ disturbances' \in 0..MaxDisturbances
    BY <1>2 DEF JobStep, Clean, Copy, Install, Installed, ReadHistory,
                ApplyPending, Collide, Restart, Fail, DeploymentInv
  <2>4. worker' \in [Worker -> State] /\ \A w \in Worker : Seeds(worker'[w], db')
    <3>1. \A w \in Worker : Seeds(worker[w], db')
      BY <1>1, <2>1 DEF DeploymentInv
    <3>2. CASE worker' = worker
      BY <3>1, <3>2 DEF DeploymentInv
    <3>3. CASE worker' = [w \in Worker |-> [worker[w] EXCEPT !.stage = "down"]]
      <4>1. \A w \in Worker : /\ [worker[w] EXCEPT !.stage = "down"] \in State
                              /\ [worker[w] EXCEPT !.stage = "down"].stage = "down"
        BY DEF DeploymentInv, WorkerStage
      <4>2. \A w \in Worker : Seeds([worker[w] EXCEPT !.stage = "down"], db')
        BY <4>1 DEF Seeds
      <4> HIDE DEF State
      <4> QED BY <3>3, <4>1, <4>2
    <3>4. worker' = worker \/ worker' = [w \in Worker |-> [worker[w] EXCEPT !.stage = "down"]]
      BY <1>2 DEF JobStep, Clean, Copy, Install, Installed, ReadHistory,
                  ApplyPending, Collide, Restart, Fail
    <3> QED BY <3>2, <3>3, <3>4
  <2> QED BY <2>1, <2>2, <2>3, <2>4 DEF DeploymentInv
<1>3. ASSUME NEW w \in Worker, BootStep(w) \/ Crash(w)
      PROVE  DeploymentInv' /\ DbStep
  <2>1. /\ DbStep
        /\ worker' \in [Worker -> State]
        /\ Seeds(worker'[w], db') /\ \A v \in Worker \ {w} : worker'[v] = worker[v]
    BY <1>3, WorkersKept
  <2>2. Consistent(db') /\ \A v \in Worker : Seeds(worker'[v], db')
    BY <1>1, <2>1 DEF DeploymentInv
  <2>3. \A j \in Job : Prepared(job[j], db')
    BY <1>1, <2>1 DEF DeploymentInv
  <2>4. dist' = dist /\ job' = job /\ owner' = owner /\ installed' = installed
    BY <1>3 DEF BootStep, Boot, FindSeed, InsertSeed, SeedTaken, BootFails, Crash, Disturb
  <2>5. disturbances' \in 0..MaxDisturbances
    BY <1>3, DeploymentAssumption
       DEF BootStep, Boot, FindSeed, InsertSeed, SeedTaken, BootFails, Crash, Disturb,
           DeploymentInv
  <2> QED BY <2>1, <2>2, <2>3, <2>4, <2>5 DEF DeploymentInv
<1>4. ASSUME NEW a \in Account, Edit(a)
      PROVE  DeploymentInv' /\ DbStep
  <2>1. DbStep
    BY <1>4, EditsKeep DEF DbStep
  <2>2. /\ dist' = dist /\ job' = job /\ owner' = owner /\ installed' = installed
        /\ worker' = worker
    BY <1>4 DEF Edit, Invite, SetAccessLevel, RemoveAccount, UpdateEmail, Disturb
  <2>3. disturbances' \in 0..MaxDisturbances
    BY <1>4, DeploymentAssumption
       DEF Edit, Invite, SetAccessLevel, RemoveAccount, UpdateEmail, Disturb, DeploymentInv
  <2> QED BY <1>1, <2>1, <2>2, <2>3 DEF DeploymentInv
<1> QED BY <1>2, <1>3, <1>4 DEF DeploymentNext, Edit

\* The calls of the console leave the deployments alone.
LEMMA PlatformSteps ==
  ASSUME DeploymentInv, [PlatformNext]_platformVars
  PROVE  DeploymentInv' /\ (DeploymentNext \/ UNCHANGED deployVars)
<1>1. DeploymentNext \/ UNCHANGED deployVars
  BY DEF PlatformNext, CallStep, Settled, platformVars, deployVars
<1>2. UNCHANGED deployVars => DeploymentInv'
  BY DEF deployVars, DeploymentInv
<1> QED BY <1>1, <1>2, DeploymentSteps

\* The invariant holds in every state.
LEMMA DeploymentInvHolds ==
  PlatformSpec => []DeploymentInv
<1>1. PlatformInit => DeploymentInv
  BY DeploymentStarts DEF PlatformInit
<1>2. DeploymentInv /\ [PlatformNext]_platformVars => DeploymentInv'
  BY PlatformSteps
<1> QED BY <1>1, <1>2, PTL DEF PlatformSpec
-----------------------------------------------------------------------------
(***************************************************************************)
(* The theorems about deployments.                                         *)
(***************************************************************************)
\* Whatever part of the folder a database holds: a list run onto what others
\* have committed is never rejected, and a run that collides with one it
\* overlapped fails in front of a database that other has migrated.
THEOREM EveryListApplies ==
  PlatformSpec => []MigrationsApply
<1>1. DeploymentInv => MigrationsApply
  BY DEF DeploymentInv, Prepared, MigrationsApply
<1> QED BY <1>1, DeploymentInvHolds, PTL

\* Every green deployment has led to the one schema of this build.
THEOREM GreenIsMigrated ==
  PlatformSpec => []GreenMeansMigrated
<1>1. DeploymentInv => GreenMeansMigrated
  BY DEF DeploymentInv, Prepared, GreenMeansMigrated
<1> QED BY <1>1, DeploymentInvHolds, PTL

\* As soon as there are levels there is an administrator, through migrations,
\* boots and edits.
THEOREM SomeoneStaysAdmin ==
  PlatformSpec => []SomeoneIsAdmin
<1>1. DeploymentInv => SomeoneIsAdmin
  BY DEF DeploymentInv, Consistent, Accounts, SomeoneIsAdmin, Has, In
<1> QED BY <1>1, DeploymentInvHolds, PTL

\* Only an administrator's edit changes the level of an account that has one:
\* no migration, rerun or reseeding does.
THEOREM OnlyEditsChangeLevels ==
  PlatformSpec => LevelsKept
<1>1. ASSUME DeploymentInv, DeploymentNext, NEW a \in Account, LevelChanged(a)
      PROVE  SetAccessLevel(a)
  <2>1. /\ a \in DOMAIN db.rows \cap DOMAIN db'.rows
        /\ db.rows[a].level # NULL
        /\ db'.rows[a].level # db.rows[a].level
    BY <1>1 DEF LevelChanged
  <2>2. ~LevelsStay(db.rows, db'.rows) /\ db' # db
    BY <2>1 DEF LevelsStay
  <2>3. ASSUME NEW j \in Job, ApplyPending(j)
        PROVE  FALSE
    <3>1. Migrated(db, db') /\ Accounts(db.objects, db.rows)
      BY <1>1, <2>3, ListIsApplied DEF DeploymentInv, Consistent
    <3>2. PICK S : db' = Sound(Target, S, Folder) /\ Carried(db.objects, db.rows, Target, S)
      BY <3>1 DEF Migrated
    <3>3. db'.rows = S
      BY <3>2, SoundFields
    <3>4. CASE In(db.objects, LevelColumn)
      BY <2>1, <3>2, <3>3, <3>4 DEF Carried
    <3>5. CASE ~In(db.objects, LevelColumn)
      <4> DEFINE R == db.rows
      <4>1. R \in [DOMAIN R -> [role : {"system_admin", "school_owner", "SYSTEM_ADMIN"},
                                level : {NULL}]]
        BY <3>1, <3>5 DEF Accounts, TypedRows, LevelsOf
      <4> HIDE DEF R
      <4>2. \A b \in DOMAIN R : R[b].level = NULL
        BY <4>1
      <4> QED BY <2>1, <4>2 DEF R
    <3> QED BY <3>4, <3>5
  <2>4. ASSUME NEW j \in Job, JobStep(j)
        PROVE  FALSE
    BY <2>2, <2>3, <2>4 DEF JobStep, Clean, Copy, Install, Installed, ReadHistory,
                            Collide, Restart, Fail
  <2>5. ASSUME NEW w \in Worker, BootStep(w) \/ Crash(w)
        PROVE  FALSE
    <3>1. CASE InsertSeed(w)
      BY <1>1, <2>2, <3>1, SeedIsInserted
    <3>2. CASE ~InsertSeed(w)
      BY <2>2, <2>5, <3>2 DEF BootStep, Boot, FindSeed, SeedTaken, BootFails, Crash
    <3> QED BY <3>1, <3>2
  <2>6. ASSUME NEW b \in Account, Edit(b)
        PROVE  SetAccessLevel(a)
    <3>1. CASE SetAccessLevel(b)
      <4>1. a = b
        BY <1>1, <2>1, <3>1, LevelIsEdited
      <4> QED BY <3>1, <4>1
    <3>2. CASE ~SetAccessLevel(b)
      BY <1>1, <2>2, <2>6, <3>2, AccountIsInvited, AccountIsRemoved, EmailIsEdited DEF Edit
    <3> QED BY <3>1, <3>2
  <2> QED BY <1>1, <2>4, <2>5, <2>6 DEF DeploymentNext, Edit
<1>2. DeploymentInv /\ [PlatformNext]_platformVars
        => [\A a \in Account : LevelChanged(a) => SetAccessLevel(a)]_deployVars
  BY <1>1, PlatformSteps
<1> QED BY <1>2, DeploymentInvHolds, PTL DEF PlatformSpec, LevelsKept
-----------------------------------------------------------------------------
(***************************************************************************)
(* The schema a worker serves on.  It is the seeder's query that finds out *)
(* whether the columns are there: without an address to seed a worker      *)
(* opens its port on any schema.                                           *)
(***************************************************************************)
ServingFits ==
  \A w \in Worker :
    worker[w].stage \in {"inserting", "serving"} /\ worker[w].build = "new" => Fits(db)

FirstOrTarget ==
  db.objects = Target \/ \E d \in Databases : db.objects = d.objects

\* A worker of this build starts to serve only after it has selected the columns.
LEMMA ServingFitsKept ==
  ASSUME SeedEmail # NULL, DeploymentInv, ServingFits, FirstOrTarget, DeploymentNext
  PROVE  ServingFits' /\ FirstOrTarget'
<1>1. DbStep
  BY DeploymentSteps
<1>2. Fits(db) => Fits(db')
  BY <1>1, DbStepKeeps DEF DeploymentInv, DbStep
<1>3. db'.objects = Target \/ db'.objects = db.objects
  BY <1>1, SoundFields DEF DbStep, Edited, Migrated
<1>4. worker \in [Worker -> [stage : WorkerStage, build : {"old", "new"}]]
  BY DEF DeploymentInv
<1>5. ASSUME NEW v \in Worker, worker'[v].stage \in {"inserting", "serving"},
             worker'[v].build = "new"
      PROVE  Fits(db')
  <2>1. CASE worker'[v] = worker[v]
    BY <1>2, <1>5, <2>1 DEF ServingFits
  <2>2. ASSUME NEW j \in Job, JobStep(j), worker' # worker
        PROVE  FALSE
    <3>1. worker' = [w \in Worker |-> [worker[w] EXCEPT !.stage = "down"]]
      BY <2>2 DEF JobStep, Clean, Copy, Install, Installed, ReadHistory,
                  ApplyPending, Collide, Restart, Fail
    <3>2. worker'[v].stage = "down"
      BY <1>4, <3>1
    <3> QED BY <1>5, <3>2
  <2>3. ASSUME NEW w \in Worker, BootStep(w) \/ Crash(w), worker'[v] # worker[v]
        PROVE  Fits(db')
    <3>1. v = w
      BY <2>3, WorkersKept
    <3>2. CASE Boot(w)
      <4>1. worker' = [worker EXCEPT ![w] =
                         [stage |-> IF dist = "old" THEN "serving" ELSE "seeding",
                          build |-> dist]]
        BY <3>2 DEF Boot
      <4>2. /\ worker'[v].stage = (IF dist = "old" THEN "serving" ELSE "seeding")
            /\ worker'[v].build = dist
        BY <1>4, <3>1, <4>1
      <4> QED BY <1>5, <4>2
    <3>3. CASE FindSeed(w)
      BY <1>2, <3>3 DEF FindSeed
    <3>4. CASE InsertSeed(w)
      <4>1. worker[w].stage = "inserting"
        BY <3>4 DEF InsertSeed
      <4> QED BY <1>2, <4>1 DEF DeploymentInv, Seeds
    <3>5. CASE SeedTaken(w) \/ BootFails(w) \/ Crash(w)
      <4>1. PICK stage \in {"down", "errored"} : Become(w, stage)
        BY <3>5 DEF SeedTaken, BootFails, Crash
      <4>2. worker'[v].stage = stage
        BY <1>4, <3>1, <4>1 DEF Become
      <4> QED BY <1>5, <4>2
    <3> QED BY <2>3, <3>2, <3>3, <3>4, <3>5 DEF BootStep
  <2>4. ASSUME NEW a \in Account, Edit(a)
        PROVE  worker' = worker
    BY <2>4 DEF Edit, Invite, SetAccessLevel, RemoveAccount, UpdateEmail
  <2> QED BY <2>1, <2>2, <2>3, <2>4 DEF DeploymentNext, Edit
<1> QED BY <1>3, <1>5 DEF ServingFits, FirstOrTarget

\* So it serves only where they are.
LEMMA ServingFitsHolds ==
  ASSUME SeedEmail # NULL
  PROVE  PlatformSpec => [](ServingFits /\ FirstOrTarget)
<1>1. PlatformInit => ServingFits /\ FirstOrTarget
  <2> SUFFICES ASSUME PlatformInit
               PROVE  ServingFits /\ FirstOrTarget
    OBVIOUS
  <2>1. \A w \in Worker : worker[w].build = "old"
    BY DEF PlatformInit, DeploymentInit
  <2> QED BY <2>1 DEF PlatformInit, DeploymentInit, ServingFits, FirstOrTarget
<1>2. DeploymentInv /\ ServingFits /\ FirstOrTarget /\ [PlatformNext]_platformVars
        => (ServingFits /\ FirstOrTarget)'
  <2> SUFFICES ASSUME DeploymentInv, ServingFits, FirstOrTarget,
                      [PlatformNext]_platformVars
               PROVE  ServingFits' /\ FirstOrTarget'
    OBVIOUS
  <2>1. CASE UNCHANGED deployVars
    BY <2>1 DEF deployVars, ServingFits, FirstOrTarget
  <2> QED BY <2>1, PlatformSteps, ServingFitsKept
<1> QED BY <1>1, <1>2, DeploymentInvHolds, PTL DEF PlatformSpec

\* With an address to seed, a worker of this build that answers requests has
\* every column its queries select.
THEOREM ServingHasColumns ==
  ASSUME SeedEmail # NULL
  PROVE  PlatformSpec => []ServingFits
BY ServingFitsHolds, PTL

\* If, besides, a database to deploy onto has those columns only when it is
\* migrated, the worker serves on the schema of this build.
THEOREM ServesOnTarget ==
  ASSUME SeedEmail # NULL, \A d \in Databases : Fits(d) => d.objects = Target
  PROVE  PlatformSpec => []ServingOnTarget
<1>1. ServingFits /\ FirstOrTarget => ServingOnTarget
  <2> SUFFICES ASSUME ServingFits, FirstOrTarget, NEW w \in Worker,
                      worker[w] = [stage |-> "serving", build |-> "new"]
               PROVE  db.objects = Target
    BY DEF ServingOnTarget
  <2>1. Fits(db)
    BY DEF ServingFits
  <2>2. \A d \in Databases : db.objects = d.objects => Fits(d)
    BY <2>1, FitsByObjects
  <2> QED BY <2>2 DEF FirstOrTarget
<1> QED BY <1>1, ServingFitsHolds, PTL
-----------------------------------------------------------------------------
(***************************************************************************)
(* Types, and the bound on what a client sends.                            *)
(***************************************************************************)
\* A request is at a worker while it is under way, and is answered ok once at
\* most: nobody sends again what was answered ok.
Bounded(call) ==
  /\ call.stage = "idle" => call.at = NULL
  /\ call.unsure <= MaxAttempts
  /\ call.stage # "idle" => call.told = 0 /\ call.unsure < MaxAttempts
  /\ call.stage = "idle" /\ call.answer = "none" => call.told = 0 /\ call.unsure = 0
  /\ call.answer = "failed" => call.told = 0
  /\ call.told = 0 \/ (call.told = 1 /\ call.unsure < MaxAttempts)

CallsBounded == \A c \in Call : Bounded(calls[c])

\* An answer leaves a call within its attempts.
LEMMA AnsweredBounded ==
  ASSUME NEW call \in CountedCall, Bounded(call), call.stage # "idle",
         NEW answer \in Answer, answer # "none"
  PROVE  /\ Answered(call, answer) \in CountedCall
         /\ Bounded(Answered(call, answer))
<1> DEFINE after == Answered(call, answer)
<1>1. /\ after \in CountedCall
      /\ after.stage = "idle"
      /\ after.told = IF answer = "ok" THEN call.told + 1 ELSE call.told
      /\ after.unsure = IF answer = "failed" THEN call.unsure + 1 ELSE call.unsure
  BY AnsweredFields
<1>2. after.at = NULL /\ after.answer = answer
  BY DEF Answered, CountedCall
<1>3. call.told = 0 /\ call.unsure \in Nat /\ call.unsure < MaxAttempts
  BY DEF Bounded, CountedCall
<1> HIDE DEF after
<1>4. MaxAttempts \in Nat
  BY PlatformAssumption
<1> QED BY <1>1, <1>2, <1>3, <1>4 DEF Bounded, after

\* So does a broken connection, performed or not.
LEMMA BrokenBounded ==
  ASSUME NEW call \in CountedCall, Bounded(call), call.stage # "idle", NEW n \in {0, 1}
  PROVE  Bounded(Broken(call, n))
<1> DEFINE failed == Answered(call, "failed")
<1>1. failed \in CountedCall /\ Bounded(failed)
  BY AnsweredBounded DEF Answer
<1>2. Broken(call, n) = [failed EXCEPT !.done = @ + n]
  BY DEF Broken
<1> HIDE DEF failed
<1>3. /\ Broken(call, n).stage = failed.stage /\ Broken(call, n).at = failed.at
      /\ Broken(call, n).told = failed.told /\ Broken(call, n).unsure = failed.unsure
      /\ Broken(call, n).answer = failed.answer
  BY <1>1, <1>2 DEF CountedCall
<1> QED BY <1>1, <1>3 DEF Bounded

\* Every call stays within its attempts.
LEMMA CallsStayBounded ==
  ASSUME CallInv, CallsBounded, [PlatformNext]_platformVars
  PROVE  CallsBounded'
<1>0. calls \in [Call -> CountedCall] /\ MaxAttempts \in Nat \ {0} /\ NULL \notin Worker
  BY PlatformAssumption DEF CallInv
<1>1. ASSUME NEW c \in Call, NEW w \in Worker, NEW token \in Tokens,
             NEW route \in CalledRoutes, Ask(c, w, token, route)
      PROVE  CallsBounded'
  <2>1. PICK call \in {[calls[c] EXCEPT !.stage = "sent", !.at = w, !.token = token,
                                       !.route = route]}
                     \cup {[calls[c] EXCEPT !.token = token, !.route = route,
                                          !.answer = answer] :
                            answer \in {"rejected", "forbidden"}} :
          calls' = [calls EXCEPT ![c] = call]
    BY <1>1 DEF Ask
  <2>2. calls[c].stage = "idle" /\ calls[c].answer = "none" /\ Bounded(calls[c])
    BY <1>1 DEF Ask, CallsBounded
  <2>3. calls[c].told = 0 /\ calls[c].unsure = 0
    BY <2>2 DEF Bounded
  <2>4. calls[c] \in CountedCall
    BY <1>0
  <2>5. /\ call.told = calls[c].told /\ call.unsure = calls[c].unsure
        /\ \/ call.stage = "sent" /\ call.answer = "none"
           \/ /\ call.stage = "idle" /\ call.at = calls[c].at
              /\ call.answer \in {"rejected", "forbidden"}
    BY <2>1, <2>2, <2>4 DEF CountedCall
  <2>6. Bounded(call)
    BY <1>0, <2>2, <2>3, <2>5 DEF Bounded
  <2> QED BY <1>0, <2>1, <2>6 DEF CallsBounded
<1>2. ASSUME NEW c \in Call, NEW w \in Worker, AskAgain(c, w)
      PROVE  CallsBounded'
  <2> DEFINE call == [calls[c] EXCEPT !.stage = "sent", !.at = w, !.answer = "none"]
  <2>1. calls' = [calls EXCEPT ![c] = call]
    BY <1>2 DEF AskAgain
  <2>2. /\ calls[c].answer = "failed" /\ calls[c].unsure < MaxAttempts
        /\ Bounded(calls[c])
    BY <1>2 DEF AskAgain, CallsBounded
  <2>3. Bounded(call)
    BY <1>0, <2>2 DEF CountedCall, Bounded
  <2> HIDE DEF call
  <2> QED BY <1>0, <2>1, <2>3 DEF CallsBounded
<1>3. ASSUME NEW c \in Call, Replies(c)
      PROVE  CallsBounded'
  <2>0. PICK reply \in Reply : \E n \in Performed(reply) :
          calls' = [calls EXCEPT ![c].stage = "replied", ![c].reply = reply,
                                 ![c].done = @ + n]
    BY <1>3 DEF Replies
  <2>1. PICK n \in Performed(reply) :
          calls' = [calls EXCEPT ![c].stage = "replied", ![c].reply = reply,
                                 ![c].done = @ + n]
    BY <2>0
  <2> DEFINE call == [calls[c] EXCEPT !.stage = "replied", !.reply = reply,
                                      !.done = @ + n]
  <2>2. calls' = [calls EXCEPT ![c] = call]
    BY <2>1
  <2>3. calls[c].stage = "sent" /\ Bounded(calls[c])
    BY <1>3 DEF Replies, CallsBounded
  <2>4. Bounded(call)
    BY <1>0, <2>3 DEF CountedCall, Bounded
  <2> HIDE DEF call
  <2> QED BY <1>0, <2>2, <2>4 DEF CallsBounded
<1>4. ASSUME NEW c \in Call, Answers(c)
      PROVE  CallsBounded'
  <2>1. PICK answer \in AnswerTo(calls[c].reply) :
          calls' = [calls EXCEPT ![c] = Answered(@, answer)]
    BY <1>4 DEF Answers
  <2>2. answer \in Answer /\ answer # "none"
    BY <2>1 DEF AnswerTo, Answer
  <2>3. calls[c].stage # "idle" /\ Bounded(calls[c])
    BY <1>4 DEF Answers, CallsBounded
  <2>4. Bounded(Answered(calls[c], answer))
    BY <1>0, <2>2, <2>3, AnsweredBounded
  <2> QED BY <1>0, <2>1, <2>4 DEF CallsBounded
<1>5. ASSUME NEW dead \in SUBSET Worker, Dropped(dead)
      PROVE  CallsBounded'
  <2>1. PICK n \in [Call -> {0, 1}] :
          calls' = [c \in Call |-> IF calls[c].at \in dead
                                   THEN Broken(calls[c], n[c]) ELSE calls[c]]
    BY <1>5 DEF Dropped
  <2>2. \A c \in Call : calls[c].at \in dead => calls[c].stage # "idle"
    BY <1>0, <1>5 DEF CallsBounded, Bounded
  <2>3. \A c \in Call : calls[c].at \in dead => Bounded(Broken(calls[c], n[c]))
    BY <1>0, <2>1, <2>2, BrokenBounded DEF CallsBounded
  <2> QED BY <2>1, <2>3 DEF CallsBounded
<1>6. CASE UNCHANGED calls
  BY <1>6 DEF CallsBounded
<1>7. Dead \in SUBSET Worker
  BY DEF Dead
<1> QED
  BY <1>1, <1>2, <1>3, <1>4, <1>5, <1>6, <1>7
     DEF PlatformNext, CallStep, Settled, platformVars

\* The accounts have levels as soon as the schema has them, and the bounds on
\* attempts are kept by what a client sends again, not by the guards alone.
THEOREM PlatformTypes ==
  PlatformSpec => []PlatformTypeOK
<1>1. PlatformInit => CallsBounded
  <2>1. Bounded(NoCall)
    BY PlatformAssumption DEF Bounded, NoCall
  <2> QED BY <2>1 DEF PlatformInit, CallsInit, CallsBounded
<1>2. CallInv /\ CallsBounded /\ [PlatformNext]_platformVars => CallsBounded'
  BY CallsStayBounded
<1>3. CallInv /\ CallsBounded => CallsTypeOK
  <2> SUFFICES ASSUME CallInv, CallsBounded, NEW c \in Call
               PROVE  calls[c] \in CallState
    BY DEF CallInv, CallsTypeOK
  <2>1. calls[c] \in CountedCall /\ Counted(calls[c]) /\ Bounded(calls[c])
    BY DEF CallInv, CallsBounded
  <2>2. calls[c].told \in Nat /\ calls[c].unsure \in Nat /\ calls[c].done \in Nat
        /\ MaxAttempts \in Nat
    BY <2>1, PlatformAssumption DEF CountedCall
  <2>3. calls[c].told \in 0..1 /\ calls[c].unsure \in 0..MaxAttempts
    BY <2>1, <2>2 DEF Bounded
  <2>4. calls[c].done <= MaxAttempts
    BY <2>1, <2>2 DEF Bounded, Counted
  <2>5. calls[c].done \in 0..MaxAttempts
    BY <2>2, <2>4
  <2> QED BY <2>1, <2>3, <2>5 DEF CountedCall, CallState
<1>4. DeploymentInv => DeploymentTypeOK
  <2> SUFFICES ASSUME DeploymentInv
               PROVE  DeploymentTypeOK
    OBVIOUS
  <2>1. db = Sound(db.objects, db.rows, db.history) /\ Accounts(db.objects, db.rows)
    BY DEF DeploymentInv, Consistent
  <2>2. db.ok
    BY <2>1, SoundFields
  <2>3. db.history \subseteq Folder
    BY SevenMigrations DEF DeploymentInv, Consistent
  <2>4. DOMAIN db.rows \subseteq Account
    BY <2>1 DEF Accounts
  <2>5. \A a \in DOMAIN db.rows :
          /\ db.rows[a].role \in {"system_admin", "school_owner", "SYSTEM_ADMIN"}
          /\ db.rows[a].level \in LevelsOf(db.objects)
    <3> DEFINE R == db.rows
               L == LevelsOf(db.objects)
    <3>1. R \in [DOMAIN R -> [role : {"system_admin", "school_owner", "SYSTEM_ADMIN"},
                              level : L]]
      BY <2>1 DEF Accounts, TypedRows
    <3> HIDE DEF R, L
    <3>2. \A a \in DOMAIN R :
            /\ R[a].role \in {"system_admin", "school_owner", "SYSTEM_ADMIN"}
            /\ R[a].level \in L
      BY <3>1
    <3> QED BY <3>2 DEF R, L
  <2>6. LevelsOf(db.objects) =
          IF Has(db, LevelColumn) THEN {"VIEW", "EDIT", "ADMIN"} ELSE {NULL}
    BY DEF LevelsOf, Has, In
  <2> QED BY <2>2, <2>3, <2>4, <2>5, <2>6 DEF DeploymentInv, DeploymentTypeOK
<1>5. PlatformSpec => []CallInv
  BY CallInit, CallNext, PTL DEF PlatformSpec
<1>6. PlatformSpec => []CallsBounded
  BY <1>1, <1>2, <1>5, PTL DEF PlatformSpec
<1>7. CallInv /\ CallsBounded /\ DeploymentInv => PlatformTypeOK
  BY <1>3, <1>4 DEF PlatformTypeOK
<1> QED BY <1>5, <1>6, <1>7, DeploymentInvHolds, PTL
=============================================================================
