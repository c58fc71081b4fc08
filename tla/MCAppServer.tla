---------------------------- MODULE MCAppServer -----------------------------
(* What the Worker keeps beside the secrets, one part at a time: identities, *)
(* groups and grants, projects and environments that come and go, the audit  *)
(* log, the secret of a service token. A scene is one of them; the state of  *)
(* the others stays what it is at their start.                               *)
EXTENDS Access

CONSTANTS a, b,        \* identities
          team,        \* a group
          shop, bank,  \* projects
          prod         \* an environment of shop
CONSTANTS Editor, ProjectSlug, MaxIds, MaxErrors,
          Isolates, AuditedProject, Env, Parent, Slug, Limit, MaxCounter, Scenes,
          PageSize, MaxPages, Ahead, Behind, PerPage, MaxSecrets, MaxEvents, MaxFailures

ASSUME PagesAssumption ==
    /\ PageSize \in Nat /\ MaxPages \in Nat
    /\ Ahead \subseteq Nat /\ Behind \subseteq Nat /\ PerPage \subseteq 1..PageSize

(* An environment has one project, and a row of the log that names both      *)
(* names that one; grants are of projects and environments.                  *)
ASSUME AuditAssumption ==
    /\ Isolates \in Nat /\ MaxCounter \in Nat /\ Limit \in Nat \ {0}
    /\ "none" \notin AuditedProject \cup Env
    /\ Parent \in [Env -> AuditedProject]
    /\ \A t \in DOMAIN Scenes :
          /\ Scenes[t].isolates \subseteq 0 .. Isolates - 1
          /\ Scenes[t].envs \subseteq Env
          /\ Scenes[t].grants \subseteq
                [global : BOOLEAN, projects : SUBSET AuditedProject, envs : SUBSET Env]
          /\ \A s \in Scenes[t].scopes :
                s.env # "none" =>
                    s.env \in Env /\ s.project \in {"none", Parent[s.env]}

VARIABLES scene,
          projects, environments, rows, nextId, edit, errors,
          theme, made, time, ids, pending, log, envs, administers, changes, reader,
          token, record, trail, asked, account, listing, events, failures

Resource == INSTANCE Resources WITH request <- edit, Caller <- Editor
Audit == INSTANCE AuditLog WITH clock <- time, Project <- AuditedProject,
                               grants <- administers
Secrets == INSTANCE TokenSecrets

(* What each slot may ask of the access graph, in the runs.                  *)
MCProjectOf == [e \in Environment |-> shop]

GrantOp(holder, scope, role, expires) ==
    [op |-> "grant", holder |-> holder, scope |-> scope, role |-> role, expires |-> expires]
RevokeOps == {[op |-> "revoke", id |-> id] : id \in {x \in GrantId : x.holder \in Identity}}
RevokeGroupOps ==
    {[op |-> "revokeGroup", group |-> team, id |-> id] : id \in {x \in GrantId : x.holder = team}}
RevokeProd == {op \in RevokeGroupOps : op.id.scope = prod}
GroupOps == [op: {"createGroup", "deleteGroup"}, group: {team}]
Member(op, i) == [op |-> op, group |-> team, identity |-> i]
DisabledOp(i, flag) == [op |-> "setDisabled", identity |-> i, disabled |-> flag]

(* One slot administers; the other races it with less. *)
MCInputs == [s \in Slot |-> [i \in Identity |->
    CASE s = 1 /\ i = a ->
            {GrantOp(team, Global, "admin", Never), GrantOp(b, shop, "admin", 1),
             Member("addMember", b), DisabledOp(b, TRUE), DisabledOp(b, FALSE)}
            \cup GroupOps \cup RevokeGroupOps
      [] s = 2 /\ i = b ->
            {Visit, GrantOp(team, prod, "writer", Never), Member("addMember", b), Member("removeMember", b)}
            \cup RevokeOps \cup RevokeProd
      [] OTHER -> {}]]
MCDeploys == {{}, {a}}

(* One administrator, who reads, and then disables the only administrator. *)
SelfDisable == [s \in Slot |-> [i \in Identity |->
    IF i = a THEN {Visit, DisabledOp(a, TRUE)} ELSE {}]]

(* Who reads the audit log in the runs, what he asks for, and which rows are *)
(* written meanwhile: two projects, p with the environments e and f, and q   *)
(* with g, all of one slug.                                                  *)
AuditProject == {"p", "q"}
AuditEnv == {"e", "f", "g"}
AuditParent == [e \in AuditEnv |-> IF e = "g" THEN "q" ELSE "p"]
AuditSlug == [e \in AuditEnv |-> "prod"]

Some(project, env, action) == [project |-> project, env |-> env, action |-> action]
Asks(project, environment, action) ==
    [project |-> project, environment |-> environment, action |-> action]

Reading(g, queries, scopes, n, k) ==
    [grants |-> {g}, queries |-> queries, scopes |-> scopes, envs |-> {"e", "g"},
     rows |-> n, isolates |-> {0}, time |-> 1, pages |-> 3, changes |-> k]

Nobody == [global |-> FALSE, projects |-> {}, envs |-> {}]

Everything == Asks("none", "none", "none")
OfP == Asks("p", "none", "none")
OfProd == Asks("none", "prod", "none")
Denials == Asks("none", "none", "access.denied")
WriteE == Some("p", "e", "secret.write")
WriteF == Some("p", "f", "secret.write")
WriteG == Some("q", "g", "secret.write")
DeniedE == Some("none", "e", "access.denied")
UpdateP == Some("p", "none", "project.update")
AGrant == Some("none", "none", "grant.create")

AuditScenes ==
    [ project |-> Reading([Nobody EXCEPT !.projects = {"p"}], {Everything, OfP},
                          {WriteE, WriteG}, 3, 1),
      filtered |-> Reading([Nobody EXCEPT !.projects = {"p"}], {OfProd, Denials},
                           {WriteE, DeniedE, UpdateP, WriteG}, 2, 1),
      environment |-> Reading([Nobody EXCEPT !.envs = {"e"}], {Everything, OfP, OfProd},
                              {WriteE, DeniedE, UpdateP}, 2, 1),
      namesakes |-> Reading([Nobody EXCEPT !.projects = {"p"}],
                            {Everything, OfP, Asks("p", "prod", "none")}, {WriteE, WriteF}, 2, 2),
      all |-> Reading([Nobody EXCEPT !.global = TRUE], {OfP, OfProd, Asks("q", "prod", "none")},
                      {AGrant, WriteE, WriteG}, 2, 1),
      nothing |-> Reading(Nobody, {Everything}, {AGrant}, 1, 0),
      ids |-> [Reading(Nobody, {}, {AGrant}, 4, 0) EXCEPT !.time = 3, !.isolates = {0, 1}] ]

access == <<identities, groups, members, grants, boot, clock, req>>
resources == <<projects, environments, rows, nextId, edit, errors>>
audit == <<theme, made, time, ids, pending, log, envs, administers, changes, reader>>
secrets == <<token, record, trail, asked, account, listing, events, failures>>

allVars == <<scene, access, resources, audit, secrets>>

AnyOf(S) == CHOOSE x \in S : TRUE

ServerInit ==
    /\ scene \in {"access", "resources", "audit", "secrets"}
    /\ Init /\ (scene = "access" \/ boot = AnyOf(Deploys))
    /\ Resource!Init
    /\ Audit!Init /\ (scene = "audit" \/ theme = "nothing")
    /\ Secrets!Init
    /\ scene = "secrets" \/ (record = "none" /\ account.ahead = AnyOf(Ahead)
                             /\ account.behind = AnyOf(Behind) /\ account.per = AnyOf(PerPage))

ServerNext ==
    /\ UNCHANGED scene
    /\ \/ scene = "access" /\ Next /\ UNCHANGED <<resources, audit, secrets>>
       \/ scene = "resources" /\ Resource!Next /\ UNCHANGED <<access, audit, secrets>>
       \/ scene = "audit" /\ Audit!Next /\ UNCHANGED <<access, resources, secrets>>
       \/ scene = "secrets" /\ Secrets!Next /\ UNCHANGED <<access, resources, audit>>

ServerSpec == ServerInit /\ [][ServerNext]_allVars

-----------------------------------------------------------------------------
(* The audit log, read from its start, gives the projects and environments   *)
(* there are, and what is answered to a request for one is so. So is what is *)
(* answered of a service token: a secret handed out is on record and works,  *)
(* what becomes of one that is not is told, and a status is true, except in  *)
(* a list between whose pages another token was removed.                     *)
ResourcesAreAsReported ==
    /\ scene = "resources" => Resource!LogReplays /\ Resource!AnswersAreTrue
    /\ scene = "secrets" =>
          /\ Secrets!HandedOutSecretsWork /\ Secrets!UnrecordedRotationsAreExplained
          /\ Secrets!StatusesAreTrue /\ Secrets!ListingsAreWhole

(* Page by page, a reader of the log is shown every row that was there when  *)
(* he began, none twice, and none outside what he administers; and the ids   *)
(* of the rows that one isolate makes increase, whatever its clock does.     *)
LogIsCompleteAndPrivate ==
    [](scene = "audit" => Audit!PagesAreComplete) /\ Audit!OnlyOwnRows /\ Audit!IdsIncrease
=============================================================================
