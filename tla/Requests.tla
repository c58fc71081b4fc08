------------------------------ MODULE Requests ------------------------------
(* A request's way through the Worker: the guards of the API and those of    *)
(* the pages, in their order, the reads and writes that authenticate it, the *)
(* instance id that it shares with other requests, and its handler.          *)
EXTENDS Naturals, Sequences, SequencesExt, FiniteSets

CONSTANTS Caller,
          Sent,              \* per caller, the requests it may send
          MaxRev, MaxFaults

VARIABLES deployment,        \* what is wrong with its bindings and variables
          row,               \* the instance table has its row
          cache,             \* this isolate's instance id, as far as it is known
          read,              \* what the pending read of it has found
          rev,               \* the environment's revision
          request,
          faults             \* statements that the database has failed

vars == <<deployment, row, cache, read, rev, request, faults>>

-----------------------------------------------------------------------------
(* The routes, each as what matters here: its method, whether it changes     *)
(* anything, what it makes of If-Match, whether it is open to all, and its   *)
(* body: none, one with a field that is required, one that may be empty, or  *)
(* one without which the request only looks.                                 *)
Read == [method |-> "GET", changes |-> FALSE, condition |-> "ignored", body |-> "none",
         open |-> FALSE, rekeys |-> FALSE]

Open == [Read EXCEPT !.open = TRUE]

Change(method) == [Read EXCEPT !.method = method, !.changes = TRUE,
                                !.body = IF method = "DELETE" THEN "none" ELSE "required"]

Guarded == [Change("POST") EXCEPT !.condition = "kept"]

Unguarded == [Change("POST") EXCEPT !.condition = "refused"]

Defaulted(method) == [Change(method) EXCEPT !.body = "optional"]

MetaRoutes == [health |-> Open, openapi |-> Open, docs |-> Open,
               whoami |-> Read, capabilities |-> Read]

ProjectRoutes == [listProjects |-> Read, createProject |-> Change("POST"), getProject |-> Read,
                  updateProject |-> Defaulted("PATCH"), deleteProject |-> Change("DELETE")]

EnvironmentRoutes == [listEnvironments |-> Read, createEnvironment |-> Change("POST"),
                      getEnvironment |-> Read, deleteEnvironment |-> Change("DELETE")]

SecretRoutes == [listSecrets |-> Read, listSecretVersions |-> Read, exportSecrets |-> Read,
                 revealSecret |-> Read, writeSecrets |-> Guarded, importSecrets |-> Guarded,
                 renameSecret |-> Unguarded, rollbackSecret |-> Unguarded]

AccessRoutes == [listIdentities |-> Read, updateIdentity |-> Defaulted("PATCH"),
                 explainPermissions |-> Read, listGrants |-> Read,
                 createGrant |-> Change("POST"), deleteGrant |-> Change("DELETE"),
                 listUnknownIdentities |-> Read]

GroupRoutes == [listGroups |-> Read, createGroup |-> Change("POST"), getGroup |-> Read,
                updateGroup |-> Defaulted("PATCH"), deleteGroup |-> Change("DELETE")]

MemberRoutes == [listGroupMembers |-> Read, addGroupMember |-> Change("POST"),
                 removeGroupMember |-> Change("DELETE"), listGroupGrants |-> Read,
                 createGroupGrant |-> Change("POST"), deleteGroupGrant |-> Change("DELETE")]

AdminRoutes == [queryAudit |-> Read, getKeyringStatus |-> Read,
                rekey |-> [Defaulted("POST") EXCEPT !.rekeys = TRUE]]

TokenRoutes == [listServiceTokens |-> Read, createServiceToken |-> Change("POST"),
                adoptServiceToken |-> Change("POST"),
                reconcileServiceTokens |-> [Change("POST") EXCEPT !.body = "apply"],
                rotateServiceToken |-> Defaulted("POST"),
                refreshServiceToken |-> [Change("POST") EXCEPT !.body = "none"],
                deleteServiceToken |-> Change("DELETE")]

RoutesOf(table) == {table[operation] : operation \in DOMAIN table}

ApiRoutes == UNION {RoutesOf(MetaRoutes), RoutesOf(ProjectRoutes), RoutesOf(EnvironmentRoutes),
                    RoutesOf(SecretRoutes), RoutesOf(AccessRoutes), RoutesOf(GroupRoutes),
                    RoutesOf(MemberRoutes), RoutesOf(AdminRoutes), RoutesOf(TokenRoutes)}

(* A page is loaded, or one of its actions is posted to.                     *)
PageRoutes == {Read, Change("POST")}

-----------------------------------------------------------------------------
(* What a request says of itself. "direct" is an assertion that verifies, on *)
(* a request that Access has not attested.                                   *)
Origin == {"none", "own", "other"}
Media == {"none", "json", "form"}
Credential == {"none", "direct", "access"}
Match == {"absent", "any", "list", "tag"}
Body == {"good", "bad", "large"}

Good(surface, route) ==
    [surface |-> surface, route |-> route, origin |-> "own",
     media |-> IF route.method = "GET" THEN "none" ELSE IF surface = "api" THEN "json" ELSE "form",
     credential |-> "access", match |-> "absent", expected |-> "absent", body |-> "good",
     allowed |-> TRUE]

GoodRequests == {Good("api", route) : route \in ApiRoutes} \cup
                {Good("page", route) : route \in PageRoutes}

(* A good request with any headers, any body, or any caller.                 *)
Requests ==
    {[q EXCEPT !.origin = o, !.media = m, !.credential = c] :
        q \in GoodRequests, o \in Origin, m \in Media, c \in Credential} \cup
    {[q EXCEPT !.match = h, !.expected = e] :
        q \in GoodRequests, h \in Match, e \in {"absent", "same", "other"}} \cup
    {[q EXCEPT !.body = b, !.allowed = a] : q \in GoodRequests, b \in Body, a \in BOOLEAN}

SoundRequests ==
    {Good("api", Read), [Good("api", Guarded) EXCEPT !.match = "tag"]}

Idle == [at |-> "idle", q |-> Good("page", Read), tag |-> 0, told |-> FALSE, before |-> 0,
         touched |-> FALSE, wrote |-> FALSE, against |-> 0, lost |-> FALSE, status |-> 0,
         id |-> FALSE]

Deployment == {"sound", "unbound", "ring", "vars", "access", "attested", "admins"}

Init ==
    /\ deployment \in Deployment
    /\ row \in BOOLEAN
    /\ cache = "empty" /\ read = "nothing"
    /\ rev = 0
    /\ request = [r \in Caller |-> Idle]
    /\ faults = 0

-----------------------------------------------------------------------------
Safe(q) == q.route.method \in {"GET", "HEAD", "OPTIONS"}

(* crossSiteGuard: the API's.                                                *)
FromAnotherSite(q) == ~Safe(q) /\ q.origin = "other"

NotJson(q) == ~Safe(q) /\ q.media \notin {"none", "json"}

(* isCrossSiteFormSubmission: the pages'.                                    *)
CrossSiteForm(q) ==
    /\ q.route.method \in {"POST", "PUT", "PATCH", "DELETE"}
    /\ q.origin # "own"
    /\ q.media \in {"none", "form"}

Is(state, status) == IF deployment = state THEN status ELSE 0

When(refused, status) == IF refused THEN status ELSE 0

(* verifyAccessRequest and assertCtxAccess.                                  *)
Verify(q) == <<Is("access", 500), When(q.credential = "none", 401),
               When(deployment = "attested" /\ q.credential = "direct", 401)>>

(* The refusals on the way to the database, in order: 0 where there is none. *)
Gates(q) ==
    <<Is("unbound", 503)>> \o
    IF q.surface = "api"
    THEN <<Is("ring", 500), Is("vars", 500),
           When(FromAnotherSite(q), 403), When(NotJson(q), 415)>> \o
         (IF q.route.open THEN <<200>> ELSE Verify(q))
    ELSE <<When(CrossSiteForm(q), 403), Is("ring", 500), Is("vars", 500)>> \o Verify(q)

First(answers) ==
    LET given == {i \in DOMAIN answers : answers[i] # 0} IN
    IF given = {} THEN 0 ELSE answers[CHOOSE i \in given : \A j \in given : i <= j]

-----------------------------------------------------------------------------
Set(r, k) == request' = [request EXCEPT ![r] = k]

Answer(k, status) == [k EXCEPT !.at = "done", !.status = status]

Instance == <<row, cache, read>>

(* A client that has read the environment's revision, or not, sends a        *)
(* request. Its ghosts: that an answer has told the instance id, and the     *)
(* faults that are over.                                                     *)
Arrive(r, q) ==
    /\ request[r].at = "idle"
    /\ LET k == [Idle EXCEPT !.q = q, !.tag = rev,
                             !.before = IF read = "failed" THEN faults - 1 ELSE faults,
                             !.told = \E s \in Caller : request[s].id]
           refusal == First(Gates(q))
       IN Set(r, IF refusal # 0 THEN Answer(k, refusal) ELSE [k EXCEPT !.at = "admins"])
    /\ UNCHANGED <<deployment, Instance, rev, faults>>

AssertAdminsConfigured(r) ==
    /\ request[r].at = "admins"
    /\ Set(r, IF deployment = "admins" THEN Answer(request[r], 503)
                                       ELSE [request[r] EXCEPT !.at = "identity"])
    /\ UNCHANGED <<deployment, Instance, rev, faults>>

(* upsertIdentity, or the bootstrap grant that heals itself: the first write *)
(* in the request's name.                                                    *)
Identify(r) ==
    /\ request[r].at = "identity"
    /\ Set(r, [request[r] EXCEPT !.touched = TRUE, !.at = "hydrate"])
    /\ UNCHANGED <<deployment, Instance, rev, faults>>

Hydrate(r) ==
    /\ request[r].at = "hydrate"
    /\ Set(r, [request[r] EXCEPT !.at = IF request[r].q.surface = "api" THEN "instance" ELSE "handler"])
    /\ UNCHANGED <<deployment, Instance, rev, faults>>

(* What a settled read gives a request that waited for it.                   *)
Told(k, outcome) ==
    IF outcome = "failed" THEN Answer(k, 500)
    ELSE [k EXCEPT !.at = "handler", !.id = outcome = "id"]

(* readInstanceId: one read per isolate, which all wait for.                 *)
ReadInstance(r) ==
    /\ request[r].at = "instance"
    /\ IF cache \in {"empty", "pending"}
       THEN cache' = "pending" /\ Set(r, [request[r] EXCEPT !.at = "wait"])
       ELSE Set(r, Told(request[r], cache)) /\ UNCHANGED cache
    /\ UNCHANGED <<deployment, row, read, rev, faults>>

(* The database evaluates the read; its answer is on the way.                *)
Evaluate ==
    /\ cache = "pending" /\ read = "nothing"
    /\ \/ read' = (IF row THEN "id" ELSE "none") /\ UNCHANGED faults
       \/ faults < MaxFaults /\ faults' = faults + 1 /\ read' = "failed"
    /\ UNCHANGED <<deployment, row, cache, rev, request>>

(* Neither the absence of an id nor a failure is remembered.                 *)
Remembered(outcome) == IF outcome = "id" THEN "id" ELSE "empty"

Settle ==
    /\ read # "nothing"
    /\ cache' = Remembered(read)
    /\ read' = "nothing"
    /\ request' = [r \in Caller |-> IF request[r].at = "wait" THEN Told(request[r], read)
                                                              ELSE request[r]]
    /\ UNCHANGED <<deployment, row, rev, faults>>

-----------------------------------------------------------------------------
(* expectedRevFromIfMatch and the revision in a body, each as a set of at    *)
(* most one.                                                                 *)
FromIfMatch(k) == IF k.q.match = "tag" THEN {k.tag} ELSE {}

FromBody(k) == CASE k.q.expected = "absent" -> {}
                 [] k.q.expected = "same" -> {k.tag}
                 [] k.q.expected = "other" -> {k.tag + 1}

ExpectedInBody(k) == IF k.q.route.condition = "kept" THEN FromBody(k) ELSE {}

Expected(k) == IF k.q.route.condition = "kept" THEN FromIfMatch(k) \cup FromBody(k) ELSE {}

Disagree(k) == Cardinality(Expected(k)) > 1

(* A body that is not labelled is not read: its schema is given no fields.   *)
Misshapen(q) ==
    CASE q.route.body = "none" -> FALSE
      [] q.route.body # "none" /\ q.media = "json" -> q.body = "bad"
      [] q.route.body # "none" /\ q.media # "json" -> q.route.body = "required"

(* bodyLimit, validate, and the conditions that a route cannot evaluate.     *)
Unread(k) ==
    First(IF k.q.surface = "page"
          THEN <<When(~Safe(k.q) /\ k.q.media = "json", 415),
                 When(~Safe(k.q) /\ k.q.body # "good", 400)>>
          ELSE <<When(k.q.route.body # "none" /\ k.q.body = "large", 413),
                 When(Misshapen(k.q), 422),
                 When(k.q.route.condition = "refused" /\ k.q.match # "absent", 400),
                 When(k.q.route.condition = "kept" /\ (k.q.match = "list" \/ Disagree(k)), 400)>>)

Changes(q) == q.route.changes /\ (q.route.body = "apply" => q.media = "json")

Done(k) == [k EXCEPT !.wrote = TRUE, !.against = rev]

(* The handler: it refuses, or answers, or its batch is committed -- and the *)
(* answer of the batch may be lost.                                          *)
Handle(r) ==
    LET k == request[r]
        refusal == First(<<Unread(k), When(~k.q.allowed, 403),
                           When(Expected(k) \notin {{}, {rev}}, 412)>>)
    IN
    /\ k.at = "handler"
    /\ \/ /\ refusal # 0
          /\ Set(r, Answer(k, refusal)) /\ UNCHANGED <<rev, faults>>
       \/ /\ refusal = 0 /\ ~Changes(k.q)
          /\ Set(r, Answer(k, 200)) /\ UNCHANGED <<rev, faults>>
       \/ /\ refusal = 0 /\ Changes(k.q) /\ rev < MaxRev
          /\ rev' = rev + 1
          /\ \/ Set(r, Answer(Done(k), 200)) /\ UNCHANGED faults
             \/ /\ faults < MaxFaults /\ faults' = faults + 1
                /\ Set(r, Answer([Done(k) EXCEPT !.lost = TRUE], 500))
    /\ UNCHANGED <<deployment, Instance>>

(* The database fails a statement before it has changed anything.            *)
Fail(r) ==
    /\ request[r].at \in {"admins", "identity", "hydrate", "handler"}
    /\ faults < MaxFaults /\ faults' = faults + 1
    /\ Set(r, Answer(request[r], 500))
    /\ UNCHANGED <<deployment, Instance, rev>>

(* The migration that makes the instance's row lands while the Worker runs.  *)
Migrate ==
    /\ ~row /\ row' = TRUE
    /\ UNCHANGED <<deployment, cache, read, rev, request, faults>>

Next ==
    \/ \E r \in Caller :
          \/ \E q \in Sent[r] : Arrive(r, q)
          \/ AssertAdminsConfigured(r) \/ Identify(r) \/ Hydrate(r) \/ ReadInstance(r)
          \/ Handle(r) \/ Fail(r)
    \/ Evaluate \/ Settle \/ Migrate

Spec == Init /\ [][Next]_vars

-----------------------------------------------------------------------------
Foreign(q) == ~Safe(q) /\ (q.origin = "other" \/ (q.surface = "api" /\ q.media = "form"))

Stranger(q) ==
    \/ q.credential = "none"
    \/ deployment = "attested" /\ q.credential = "direct"
    \/ deployment \in {"unbound", "ring", "vars", "access", "admins"}

(* A request that another site made changes nothing, on any route, and none  *)
(* without its caller's identity, or to a broken deployment, so much as      *)
(* records that it came; only what is open to all is answered.               *)
StrangersTouchNothing ==
    \A r \in Caller : LET k == request[r] IN
        /\ Foreign(k.q) => ~k.wrote /\ (k.q.surface = "api" => ~k.touched)
        /\ Stranger(k.q) =>
              /\ ~k.wrote /\ ~k.touched /\ ~k.id
              /\ k.status = 200 => k.q.route.open

(* An answer is true. A refusal means that nothing was written, and an error *)
(* too, but for the one batch whose answer was lost; a write that named a    *)
(* revision was made against that revision; a condition that cannot be kept  *)
(* is not passed over on the routes that know of it.                         *)
AnswersAreTrue ==
    \A r \in Caller : LET k == request[r] IN
        /\ k.wrote => k.status = 200 \/ k.lost
        /\ k.status = 200 /\ Changes(k.q) => k.wrote
        /\ k.wrote /\ k.q.match = "tag" =>
              CASE k.q.route.condition = "kept" -> k.against = k.tag
                [] k.q.route.condition = "refused" -> FALSE
                [] OTHER -> TRUE

(* The instance id, once an answer has told it, is told by every later       *)
(* answer of a handler; and a read that failed fails those that waited for   *)
(* it, and nobody who comes later.                                           *)
InstanceIsTold ==
    \A r \in Caller : LET k == request[r] IN
        /\ k.id => row
        /\ k.told /\ k.q.surface = "api" /\ (k.at = "handler" \/ k.wrote) => k.id
        /\ k.status = 500 /\ deployment \notin {"ring", "vars", "access"} => faults > k.before
=============================================================================
