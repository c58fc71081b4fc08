------------------------------ MODULE AuditLog ------------------------------
(* The audit log: the ids its rows get in an isolate, the batches that write *)
(* them, and a reader who pages through what he administers, newest first,   *)
(* while rows are written, environments come and go and his grants do too.   *)
EXTENDS Integers, Sequences, FiniteSets

CONSTANTS Isolates,            \* how many isolates make ids
          Project, Env,
          Parent, Slug,        \* of an environment
          Limit,               \* rows on a page
          MaxCounter,          \* MAX_COUNTER: ids within one millisecond
          Scenes               \* by name, who reads and asks what, which rows are written,
                               \* and how many of each: the bounds

None == "none"

VARIABLES theme,      \* the name of a scene: never changes
          made,       \* rows built so far
          clock,      \* the time in milliseconds
          ids,        \* per isolate: lastTimestamp and counter
          pending,    \* rows of batches that have not committed
          log,        \* audit_log
          envs,       \* the environments that exist
          grants,     \* what the reader administers
          changes,    \* environments and grants changed so far
          reader      \* the query, the page being read and what was shown

vars == <<theme, made, clock, ids, pending, log, envs, grants, changes, reader>>

-----------------------------------------------------------------------------
Isolate == 0 .. Isolates - 1

NoGrants == [global |-> FALSE, projects |-> {}, envs |-> {}]

NoCursor == -1

NoView == [all |-> FALSE, projects |-> {}, envs |-> {}, addressable |-> {}]

bounds == Scenes[theme]

Init ==
    /\ theme \in DOMAIN Scenes
    /\ made = 0 /\ clock = 1
    /\ ids = [i \in Isolate |-> [timestamp |-> -1, counter |-> 0]]
    /\ pending = {} /\ log = {}
    /\ envs = bounds.envs
    /\ grants \in bounds.grants
    /\ changes = 0
    /\ reader = [at |-> "off", query |-> [project |-> None, environment |-> None,
                                          action |-> None],
                 cursor |-> NoCursor, pages |-> 0, shown |-> <<>>, old |-> {}, lost |-> FALSE,
                 snapshot |-> NoGrants, view |-> NoView, covered |-> NoView]

-----------------------------------------------------------------------------
(* Ids. A clock that goes backwards keeps the last timestamp, and a counter  *)
(* that is full borrows the next millisecond.                                *)

Advance(id, now) ==
    IF now > id.timestamp THEN [timestamp |-> now, counter |-> 0]
    ELSE IF id.counter < MaxCounter THEN [id EXCEPT !.counter = @ + 1]
    ELSE [timestamp |-> id.timestamp + 1, counter |-> 0]

(* The bits that follow the counter are random: between two isolates any     *)
(* order will do.                                                            *)
Uuid(id, i) == (id.timestamp * (MaxCounter + 1) + id.counter) * Isolates + i

(* buildAuditRow: `now` was read when the request began, a while ago maybe.   *)
(* The row of a write names the project and the environment, that of a denial*)
(* only what was asked for: there is no project on an environment's scope.   *)
Build(i, scope, now) ==
    /\ made < bounds.rows
    /\ made' = made + 1
    /\ scope.env # None => scope.env \in envs
    /\ LET id == Advance(ids[i], now) IN
       /\ ids' = [ids EXCEPT ![i] = id]
       /\ pending' = pending \cup {[id |-> Uuid(id, i), ts |-> now, isolate |-> i,
                                    at |-> id.timestamp, scope |-> scope]}
    /\ UNCHANGED <<theme, clock, log, envs, grants, changes, reader>>

(* The batch the row is in, or recordAudit's own statement.                  *)
Commit(row) ==
    /\ pending' = pending \ {row}
    /\ log' = log \cup {row}
    /\ UNCHANGED <<theme, made, clock, ids, envs, grants, changes, reader>>

(* The batch is rolled back, or the row of a denial is given up on.          *)
Abort(row) ==
    /\ pending' = pending \ {row}
    /\ UNCHANGED <<theme, made, clock, ids, log, envs, grants, changes, reader>>

Tick ==
    /\ clock < bounds.time
    /\ clock' = clock + 1
    /\ UNCHANGED <<theme, made, ids, pending, log, envs, grants, changes, reader>>

-----------------------------------------------------------------------------
(* What changes under the reader. Its own grant goes with an environment.    *)

Change ==
    /\ changes < bounds.changes
    /\ changes' = changes + 1

CreateEnvironment(e) ==
    /\ Change
    /\ e \notin envs
    /\ \A r \in pending \cup log : r.scope.env # e      \* an id is used once
    /\ \A f \in envs : <<Parent[f], Slug[f]>> # <<Parent[e], Slug[e]>>
    /\ envs' = envs \cup {e}
    /\ UNCHANGED <<theme, made, clock, ids, pending, log, grants, reader>>

DeleteEnvironment(e) ==
    /\ Change
    /\ e \in envs
    /\ envs' = envs \ {e}
    /\ grants' = [grants EXCEPT !.envs = @ \ {e}]
    /\ reader' = [reader EXCEPT !.old = {r \in @ : r.scope.env # e}]
    /\ UNCHANGED <<theme, made, clock, ids, pending, log>>

Revoke ==
    /\ Change
    /\ grants # NoGrants
    /\ grants' = NoGrants
    /\ reader' = [reader EXCEPT !.lost = TRUE]
    /\ UNCHANGED <<theme, made, clock, ids, pending, log, envs>>

-----------------------------------------------------------------------------
(* One page: the authorization snapshot, the view, the filters and the rows  *)
(* are read one after the other.                                             *)

EndWith(state) == reader' = [reader EXCEPT !.at = state]

Ask(query) ==
    /\ reader.at = "off"
    /\ reader' = [reader EXCEPT !.at = "authorized", !.query = query, !.old = log,
                                !.pages = 1, !.snapshot = grants]
    /\ UNCHANGED <<theme, made, clock, ids, pending, log, envs, grants, changes>>

AskForMore ==
    /\ reader.at = "shown"
    /\ reader.cursor # NoCursor
    /\ reader.pages < bounds.pages
    /\ reader' = [reader EXCEPT !.at = "authorized", !.pages = @ + 1, !.snapshot = grants]
    /\ UNCHANGED <<theme, made, clock, ids, pending, log, envs, grants, changes>>

(* resolveAuditView, for one who administers something.                      *)
View(g) ==
    [all |-> g.global, projects |-> g.projects,
     envs |-> g.envs \cup {e \in envs : Parent[e] \in g.projects},
     addressable |-> g.projects \cup {Parent[e] : e \in g.envs \cap envs}]

ResolveView ==
    /\ reader.at = "authorized"
    /\ IF reader.snapshot = NoGrants
       THEN EndWith("denied")
       ELSE reader' = [reader EXCEPT !.at = "viewed", !.view = View(reader.snapshot)]
    /\ UNCHANGED <<theme, made, clock, ids, pending, log, envs, grants, changes>>

(* resolveProjectFilter and resolveEnvironmentFilter: what is not there and  *)
(* what may not be seen are both not found.                                  *)
Addressable(view, p) == view.all \/ p \in view.addressable

Named(view, query) ==
    {e \in envs : /\ Slug[e] = query.environment
                  /\ query.project # None => Parent[e] = query.project
                  /\ view.all \/ e \in view.envs}

Filter ==
    /\ reader.at = "viewed"
    /\ LET query == reader.query IN
       IF \/ query.project # None /\ ~Addressable(reader.view, query.project)
          \/ query.environment # None /\ Named(reader.view, query) = {}
       THEN EndWith("not found")
       ELSE reader' = [reader EXCEPT !.at = "filtered",
                !.covered = [NoView EXCEPT
                    !.projects = {query.project} \ {None},
                    !.envs = IF query.environment # None THEN Named(reader.view, query)
                             ELSE {e \in envs : Parent[e] = query.project}]]
    /\ UNCHANGED <<theme, made, clock, ids, pending, log, envs, grants, changes>>

(* coversAnyOf.                                                              *)
Covers(v, scope) == scope.project \in v.projects \/ scope.env \in v.envs

Matches(row) ==
    LET q == reader.query IN
    /\ reader.view.all \/ Covers(reader.view, row.scope)
    /\ IF q.environment # None THEN row.scope.env \in reader.covered.envs
       ELSE q.project # None => Covers(reader.covered, row.scope)
    /\ q.action # None => row.scope.action = q.action
    /\ reader.cursor # NoCursor => row.id < reader.cursor

(* ORDER BY id DESC. It is the sorting of SequencesExt, said by its result.   *)
NewestFirst(rows) ==
    CHOOSE s \in [1 .. Cardinality(rows) -> rows] :
        \A i, j \in DOMAIN s : i < j => s[i].id > s[j].id

CursorOfTheNext(rows) == IF Len(rows) > Limit THEN rows[Limit + 1].id ELSE NoCursor

Cursor(rows) == IF Len(rows) > Limit THEN rows[Limit].id ELSE NoCursor

Select ==
    /\ reader.at = "filtered"
    /\ LET rows == NewestFirst({r \in log : Matches(r)})
           page == SubSeq(rows, 1, IF Len(rows) > Limit THEN Limit ELSE Len(rows))
       IN reader' = [reader EXCEPT !.at = "shown", !.shown = @ \o page, !.cursor = Cursor(rows)]
    /\ UNCHANGED <<theme, made, clock, ids, pending, log, envs, grants, changes>>

-----------------------------------------------------------------------------
Next ==
    \/ Tick
    \/ \E i \in bounds.isolates, scope \in bounds.scopes, now \in {clock, clock - 1} : Build(i, scope, now)
    \/ \E row \in pending : Commit(row) \/ Abort(row)
    \/ \E e \in Env : CreateEnvironment(e) \/ DeleteEnvironment(e)
    \/ Revoke
    \/ \E query \in bounds.queries : Ask(query)
    \/ AskForMore \/ ResolveView \/ Filter \/ Select

Spec == Init /\ [][Next]_vars

-----------------------------------------------------------------------------
(* The rows a reader is responsible for, told by who owns what they are      *)
(* about rather than by the ids they carry.                                  *)
Owned(g, scope) ==
    \/ g.global
    \/ scope.project # None /\ scope.env = None /\ scope.project \in g.projects
    \/ scope.env # None /\ (scope.env \in g.envs \/ Parent[scope.env] \in g.projects)

Wanted(query, scope) ==
    /\ query.project # None =>
          scope.project = query.project \/ (scope.env # None /\ Parent[scope.env] = query.project)
    /\ query.environment # None => scope.env # None /\ Slug[scope.env] = query.environment
    /\ query.action # None => scope.action = query.action

(* Whoever pages to the end of the log has seen, once and newest first, each *)
(* row that was there at the first page, that he administers and asked for,  *)
(* and whose environment is still there: whatever is written, late or with a *)
(* clock gone backwards, while he reads.                                     *)
PagesAreComplete ==
    /\ \A i, j \in DOMAIN reader.shown : i < j => reader.shown[i].id > reader.shown[j].id
    /\ reader.at = "shown" /\ reader.cursor = NoCursor /\ ~reader.lost =>
          \A r \in reader.old :
              /\ Owned(reader.snapshot, r.scope) /\ Wanted(reader.query, r.scope)
              /\ r.scope.env # None => r.scope.env \in envs
              => r \in {reader.shown[i] : i \in DOMAIN reader.shown}

(* Nobody is shown a row about something he does not administer, however the *)
(* grants, the environments and the filters change between two of the reads. *)
OnlyOwnRows ==
    [][\A i \in DOMAIN reader'.shown :
          i > Len(reader.shown) => Owned(reader.snapshot, reader'.shown[i].scope)]_vars

(* The ids of an isolate increase and do not predate their rows, whatever    *)
(* its clock does and however many it makes within a millisecond; and no id  *)
(* is made twice.                                                            *)
IdsIncrease ==
    [][\A new \in pending' \ (pending \cup log) :
          /\ new.at >= new.ts
          /\ \A r \in pending \cup log :
                /\ r.id # new.id
                /\ r.isolate = new.isolate => r.id < new.id]_vars
=============================================================================
