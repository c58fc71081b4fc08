----------------------------- MODULE Resources ------------------------------
(* Projects and environments: requests that find one by its slug, decide,    *)
(* and write by its id, with reads of the database in between and other      *)
(* requests at work meanwhile. Each write is one batch with its audit row.   *)
EXTENDS Naturals, Sequences, SequencesExt, FiniteSets

CONSTANTS Caller,        \* the requests
          ProjectSlug,
          MaxIds, MaxErrors

VARIABLES projects,      \* rows: id and slug
          environments,  \* rows: id, project and slug
          rows,          \* audit_log, in the order of the commits
          nextId,
          request,       \* per caller: its command and how far it has come
          errors         \* statements that the database has failed

vars == <<projects, environments, rows, nextId, request, errors>>

tables == <<projects, environments, rows, nextId>>

-----------------------------------------------------------------------------
(* The roles of a request, global ones: what a scoped one may see and do is  *)
(* the subject of Access. Those without the role ask for one thing each of   *)
(* every kind.                                                               *)
Role == {"none", "reader", "admin"}

Writing == {"create project", "update project", "delete project",
            "create environment", "delete environment"}
Reading == {"get project", "list environments", "get environment"}

Commands ==
    [does : Writing \cup Reading, slug : ProjectSlug, role : {"admin"}] \cup
    [does : {"create project", "update project", "delete environment", "get project"},
     slug : ProjectSlug, role : {"none", "reader"}]

NoRow == [id |-> 0, slug |-> "none"]

Idle == [at |-> "idle", command |-> [does |-> "get project", slug |-> "none", role |-> "none"],
         project |-> 0, environment |-> 0, counted |-> 0, wrote |-> 0, failed |-> FALSE,
         status |-> 0, answer |-> 0]

Row(action, project, environment) ==
    [action |-> action, project |-> project, environment |-> environment]

(* One project with one environment, and the rows of their creation.         *)
Init ==
    /\ \E slug \in ProjectSlug :
          /\ projects = {[id |-> 1, slug |-> slug]}
          /\ environments = {[id |-> 2, project |-> 1]}
    /\ rows = <<Row("project.create", 1, 0), Row("environment.create", 1, 2)>>
    /\ nextId = 3
    /\ request = [r \in Caller |-> Idle]
    /\ errors = 0

-----------------------------------------------------------------------------
Set(r, fields) == request' = [request EXCEPT ![r] = fields]

Answered(k, status, answer) == [k EXCEPT !.at = "done", !.status = status, !.answer = answer]

Does(r) == request[r].command.does

(* Where a request goes once its project is found and the caller may.        *)
After(does) ==
    CASE does \in {"get environment", "delete environment"} -> "environment"
      [] does \in {"get project", "delete project"} -> "count"
      [] does = "list environments" -> "list"
      [] does \in {"update project", "create environment"} -> "batch"

Begin(r, command) ==
    /\ request[r].at = "idle"
    /\ Set(r, [Idle EXCEPT !.command = command,
                           !.at = IF command.does = "create project" THEN "role" ELSE "project"])
    /\ UNCHANGED <<tables, errors>>

Named(slug) == {p \in projects : p.slug = slug}

(* A refusal is recorded, by a statement of its own.                         *)
Deny(r, status) ==
    /\ Set(r, Answered(request[r], status, 0))
    /\ rows' = Append(rows, Row("access.denied", request[r].project, 0))
    /\ UNCHANGED <<projects, environments, nextId>>

(* createProject asks for a role before it has read anything.                *)
AssertRole(r) ==
    /\ request[r].at = "role"
    /\ IF request[r].command.role = "admin"
       THEN Set(r, [request[r] EXCEPT !.at = "batch"]) /\ UNCHANGED tables
       ELSE Deny(r, 403)
    /\ UNCHANGED errors

(* requireProject, and the role: what is not there and what may not be seen  *)
(* have the same answer.                                                     *)
RequireProject(r) ==
    /\ request[r].at = "project"
    /\ LET found == Named(request[r].command.slug)
           role == request[r].command.role
       IN
       \/ /\ found = {}
          /\ Set(r, Answered(request[r], 404, 0))
          /\ UNCHANGED tables
       \/ /\ found # {} /\ role = "none"
          /\ Deny(r, 404)
       \/ /\ found # {} /\ role = "reader" /\ Does(r) \in Writing \ {"delete environment"}
          /\ Deny(r, 403)
       \/ /\ found # {} /\ role # "none"
          /\ role = "reader" => Does(r) \in Reading \cup {"delete environment"}
          /\ \E p \in found : Set(r, [request[r] EXCEPT !.project = p.id, !.at = After(Does(r))])
          /\ UNCHANGED tables
    /\ UNCHANGED errors

(* findEnvironment: by the project's id and the environment's slug, of which *)
(* there is one here.                                                        *)
RequireEnvironment(r) ==
    /\ request[r].at = "environment"
    /\ LET found == {e \in environments : e.project = request[r].project} IN
       \/ /\ found = {}
          /\ Set(r, Answered(request[r], 404, 0))
          /\ UNCHANGED tables
       \/ /\ found # {} /\ Does(r) = "delete environment" /\ request[r].command.role = "reader"
          /\ Deny(r, 403)
       \/ /\ found # {} /\ (Does(r) = "get environment" \/ request[r].command.role = "admin")
          /\ \E e \in found : Set(r, [request[r] EXCEPT !.environment = e.id, !.at = "count"])
          /\ UNCHANGED tables
    /\ UNCHANGED errors

(* What a deletion is going to take, and what a summary reports.             *)
Count(r) ==
    /\ request[r].at = "count"
    /\ LET k == request[r] IN
       IF Does(r) \in Writing
       THEN Set(r, [k EXCEPT !.at = "batch",
                             !.counted = Cardinality({e \in environments : e.project = k.project})])
       ELSE Set(r, Answered(k, 200, IF Does(r) = "get project" THEN k.project ELSE k.environment))
    /\ UNCHANGED <<tables, errors>>

List(r) ==
    /\ request[r].at = "list"
    /\ Set(r, Answered(request[r], 200, request[r].project))
    /\ UNCHANGED <<tables, errors>>

-----------------------------------------------------------------------------
(* The batches: the statement and its audit row, or neither. A constraint    *)
(* that fails is a conflict if it is the one on the slug.                    *)

CreateProject(r) ==
    /\ request[r].at = "batch" /\ Does(r) = "create project"
    /\ nextId <= MaxIds
    /\ IF Named(request[r].command.slug) # {}
       THEN Set(r, Answered(request[r], 409, 0)) /\ UNCHANGED tables
       ELSE /\ projects' = projects \cup {[id |-> nextId, slug |-> request[r].command.slug]}
            /\ rows' = Append(rows, Row("project.create", nextId, 0))
            /\ nextId' = nextId + 1
            /\ Set(r, Answered([request[r] EXCEPT !.wrote = nextId], 201, nextId))
            /\ UNCHANGED environments
    /\ UNCHANGED errors

(* An update of a row that is gone changes nothing, and is recorded.         *)
UpdateProject(r) ==
    /\ request[r].at = "batch" /\ Does(r) = "update project"
    /\ LET k == request[r] IN
       /\ rows' = Append(rows, Row("project.update", k.project, 0))
       /\ Set(r, [k EXCEPT !.at = "again",
                           !.wrote = IF \E p \in projects : p.id = k.project THEN k.project ELSE 0])
    /\ UNCHANGED <<projects, environments, nextId, errors>>

(* The answer is read afresh, by the slug.                                   *)
ReadBack(r) ==
    /\ request[r].at = "again"
    /\ LET found == Named(request[r].command.slug) IN
       IF found = {}
       THEN Set(r, Answered(request[r], 404, 0))
       ELSE \E p \in found : Set(r, Answered(request[r], 200, p.id))
    /\ UNCHANGED <<tables, errors>>

(* The cascade takes the environments with their project.                    *)
DeleteProject(r) ==
    /\ request[r].at = "batch" /\ Does(r) = "delete project"
    /\ LET k == request[r] IN
       /\ projects' = {p \in projects : p.id # k.project}
       /\ environments' = {e \in environments : e.project # k.project}
       /\ rows' = Append(rows, Row("project.delete", k.project, 0))
       /\ Set(r, Answered([k EXCEPT !.wrote = k.project], 204, k.project))
    /\ UNCHANGED <<nextId, errors>>

CreateEnvironment(r) ==
    /\ request[r].at = "batch" /\ Does(r) = "create environment"
    /\ nextId <= MaxIds
    /\ LET k == request[r] IN
       \/ /\ \E e \in environments : e.project = k.project
          /\ Set(r, Answered(k, 409, 0)) /\ UNCHANGED tables
       \/ /\ \A p \in projects : p.id # k.project        \* the foreign key, not the slug
          /\ Set(r, Answered(k, 500, 0)) /\ UNCHANGED tables
       \/ /\ \E p \in projects : p.id = k.project
          /\ \A e \in environments : e.project # k.project
          /\ environments' = environments \cup {[id |-> nextId, project |-> k.project]}
          /\ rows' = Append(rows, Row("environment.create", k.project, nextId))
          /\ nextId' = nextId + 1
          /\ Set(r, Answered([k EXCEPT !.wrote = nextId], 201, nextId))
          /\ UNCHANGED projects
    /\ UNCHANGED errors

DeleteEnvironmentBySlug(r) ==
    /\ request[r].at = "batch" /\ Does(r) = "delete environment"
    /\ LET k == request[r] IN
       /\ environments' = {e \in environments : ~\E p \in projects :
                                  p.slug = k.command.slug /\ e.project = p.id}
       /\ rows' = Append(rows, Row("environment.delete", k.project, k.environment))
       /\ Set(r, Answered([k EXCEPT !.wrote = k.environment], 204, k.environment))
    /\ UNCHANGED <<projects, nextId, errors>>

DeleteEnvironment(r) ==
    /\ request[r].at = "batch" /\ Does(r) = "delete environment"
    /\ LET k == request[r] IN
       /\ environments' = {e \in environments : e.id # k.environment}
       /\ rows' = Append(rows, Row("environment.delete", k.project, k.environment))
       /\ Set(r, Answered([k EXCEPT !.wrote = k.environment], 204, k.environment))
    /\ UNCHANGED <<projects, nextId, errors>>

(* The database fails a statement, or a whole batch.                         *)
Fail(r) ==
    /\ request[r].at \notin {"idle", "done"}
    /\ errors < MaxErrors
    /\ errors' = errors + 1
    /\ Set(r, Answered([request[r] EXCEPT !.failed = TRUE], 500, 0))
    /\ UNCHANGED tables

Next ==
    \E r \in Caller :
        \/ \E command \in Commands : Begin(r, command)
        \/ AssertRole(r) \/ RequireProject(r) \/ RequireEnvironment(r)
        \/ Count(r) \/ List(r)
        \/ CreateProject(r) \/ UpdateProject(r) \/ ReadBack(r) \/ DeleteProject(r)
        \/ CreateEnvironment(r) \/ DeleteEnvironment(r)
        \/ Fail(r)

Spec == Init /\ [][Next]_vars

-----------------------------------------------------------------------------
(* What the log says, read from its start.                                   *)
Replayed(state, row) ==
    CASE row.action = "project.create" ->
            [state EXCEPT !.projects = @ \cup {row.project}]
      [] row.action = "project.delete" ->
            [projects |-> state.projects \ {row.project},
             environments |-> {e \in state.environments : e.project # row.project}]
      [] row.action = "environment.create" ->
            [state EXCEPT !.environments =
                @ \cup {[id |-> row.environment, project |-> row.project]}]
      [] row.action = "environment.delete" ->
            [state EXCEPT !.environments = {e \in @ : e.id # row.environment}]
      [] OTHER -> state

(* The audit log, read from its start, gives the projects and environments   *)
(* there are: whatever overlaps, nothing comes or goes unrecorded, and the   *)
(* rows of requests that came too late mislead nobody.                       *)
LogReplays ==
    FoldLeft(Replayed, [projects |-> {}, environments |-> {}], rows) =
        [projects |-> {p.id : p \in projects}, environments |-> environments]

Exists(id) == \E x \in projects \cup environments : x.id = id

(* An answer is true. A creation that is reported was made, a deletion that  *)
(* is reported leaves nothing of what was found -- and a refusal or an error *)
(* changed nothing, but for an update whose project was deleted, or whose    *)
(* answer the database failed, after it was made.                            *)
AnswersAreTrue ==
    \A r \in Caller : request[r].at = "done" =>
        LET k == request[r] IN
        /\ k.status = 201 => k.wrote # 0 /\ k.answer = k.wrote
        /\ k.status = 204 => ~Exists(k.answer)
        /\ k.status >= 400 /\ k.wrote # 0 =>
              Does(r) = "update project" /\ (~Exists(k.project) \/ k.failed)
        /\ k.status = 200 /\ Does(r) = "update project" =>
              k.answer = k.project \/ ~Exists(k.project)
=============================================================================
