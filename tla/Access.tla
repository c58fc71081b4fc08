------------------------------- MODULE Access -------------------------------
(***************************************************************************)
(* Who may do what: identities, groups, grants, and the requests that      *)
(* change them while others are in flight.                                 *)
(*                                                                         *)
(* A request reads its authorization once, after it has recorded its own   *)
(* identity, and judges everything it does by that snapshot.  What it      *)
(* awaits on the way to its batch are steps, so a grant may be revoked, a  *)
(* group deleted, an identity disabled or a grant expire between them.     *)
(*                                                                         *)
(* Data abstraction: an identity is its (kind, subject), a group its id;   *)
(* `grants` and `group_grants` are one set of rows told apart by their     *)
(* holder; projects and environments do not come and go; display names,    *)
(* the other fields of a patch and the audit rows are left out.  A request *)
(* that is refused changes nothing, so its answer is the name of the step  *)
(* that ends it.                                                           *)
(***************************************************************************)
EXTENDS Naturals, FiniteSets

CONSTANTS
    Slot,         \* request slots
    Identity,     \* subjects that Access authenticates
    Group,        \* group ids
    Project,      \* project ids
    Environment,  \* environment ids
    ProjectOf,    \* the project of each environment
    Global,       \* the global scope
    Serial,       \* bound: tell apart the rows a holder has had at a scope
    Inputs,       \* what each identity may ask for in each slot
    Deploys,      \* values of BOOTSTRAP_ADMINS the operator may deploy
    MaxTime       \* bound: ticks of the clock

Scope == {Global} \cup Project \cup Environment
Holder == Identity \cup Group
Role == {"reader", "writer", "admin"}
Never == 0
Time == 0..MaxTime

(* Scopes that a grant at g reaches: downwards only. *)
Covers(g, s) ==
    \/ g = s
    \/ g = Global
    \/ s \in Environment /\ g = ProjectOf[s]

Rank == [r \in Role |-> CASE r = "reader" -> 1 [] r = "writer" -> 2 [] r = "admin" -> 3]

(* A uuid is of one row and for ever: it is named by what that row is. *)
GrantId == [holder: Holder, scope: Scope, serial: Serial]

Op ==
    [op: {"visit"}]
    \cup [op: {"grant"}, holder: Holder, scope: Scope, role: Role, expires: Time]
    \cup [op: {"revoke"}, id: GrantId]
    \cup [op: {"revokeGroup"}, group: Group, id: GrantId]
    \cup [op: {"createGroup", "deleteGroup"}, group: Group]
    \cup [op: {"addMember", "removeMember"}, group: Group, identity: Identity]
    \cup [op: {"setDisabled"}, identity: Identity, disabled: BOOLEAN]

ASSUME NamesAssumption ==
    /\ Identity \cap Group = {}
    /\ Project \cap Environment = {}
    /\ Global \notin Project \cup Environment
    /\ ProjectOf \in [Environment -> Project]
    /\ Serial \subseteq Nat
ASSUME InputsAssumption ==
    /\ Inputs \in [Slot -> [Identity -> SUBSET Op]]
    /\ Deploys \subseteq SUBSET Identity
    /\ MaxTime \in Nat

VARIABLES
    identities,  \* the rows of identities: unseen, enabled or disabled
    groups,      \* the rows of groups: unborn, live or gone
    members,     \* the rows of group_members
    grants,      \* the rows of grants and group_grants
    boot,        \* BOOTSTRAP_ADMINS as deployed
    clock,
    req          \* what each request in flight holds in memory

tables == <<identities, groups, members, grants>>
vars == <<identities, groups, members, grants, boot, clock, req>>
----------------------------------------------------------------------------
(* Authorization. *)

Grant == [id: GrantId, holder: Holder, scope: Scope, role: Role, expires: Time]

Live(g, now) == g.expires = Never \/ g.expires > now

(* The rows a query for identity i joins: its own, and those of its groups. *)
Reaches(g, i) == g.holder = i \/ <<g.holder, i>> \in members

Held(i, now) == {g \in grants : Reaches(g, i) /\ Live(g, now)}
BootstrapRole(i, bootstrap) ==
    IF i \in bootstrap THEN {[scope |-> Global, role |-> "admin"]} ELSE {}

(* loadSnapshot: the roles of i, at the request's own clock. *)
Snapshot(i, now, bootstrap) ==
    IF identities[i] = "disabled" THEN {}
    ELSE {[scope |-> g.scope, role |-> g.role] : g \in Held(i, now)} \cup BootstrapRole(i, bootstrap)

Can(snap, scope, role) ==
    \E p \in snap : Covers(p.scope, scope) /\ Rank[p.role] >= Rank[role]

(* assertProjectVisible: a role on the project, or on anything inside it. *)
ProjectVisible(snap, project) ==
    \E p \in snap :
        \/ Covers(p.scope, project)
        \/ p.scope \in Environment /\ ProjectOf[p.scope] = project

ScopeVisible(snap, scope) ==
    CASE scope = Global -> TRUE
      [] scope \in Project -> ProjectVisible(snap, scope)
      [] scope \in Environment -> ProjectVisible(snap, ProjectOf[scope])

(* What a removal excludes from the count of administrators. *)
ExcludesRow(op, g) ==
    CASE op.op \in {"revoke", "revokeGroup"} -> g.id = op.id
      [] op.op = "deleteGroup" -> g.holder = op.group
      [] OTHER -> FALSE

(* Mutation: a membership that is about to go still counts. *)
ForgetsMembership(op, group, i) == FALSE

ExcludesMembership(op, group, i) ==
    op.op = "removeMember" /\ op.group = group /\ op.identity = i

(* countGlobalAdmins: both branches of the union, as a set of identities. *)
GlobalAdminRow(g, now) == g.scope = Global /\ g.role = "admin" /\ Live(g, now)
CountedAdmins(op, now) ==
    {i \in Identity :
        /\ identities[i] = "enabled"
        /\ \E g \in grants :
            /\ GlobalAdminRow(g, now)
            /\ ~ExcludesRow(op, g)
            /\ \/ g.holder = i
               \/ /\ <<g.holder, i>> \in members
                  /\ ~ExcludesMembership(op, g.holder, i)}

(* A request that only reads. *)
Visit == [op |-> "visit"]
----------------------------------------------------------------------------
(* Requests. *)

Idle == [pc |-> "idle"]
Pc == {"upsert", "probe", "heal", "snapshot", "find", "inspect", "count", "commit"}
Pair == [scope: Scope, role: Role]

(* `found` is the row that a revocation looked up, until its batch.           *)
Request ==
    [pc: Pc, actor: Identity, now: Time, boot: SUBSET Identity, op: Op,
     snap: SUBSET Pair, scope: Scope, found: SUBSET Grant]

At(s, pc) == req[s].pc = pc
Goto(s, pc) == req' = [req EXCEPT ![s].pc = pc]
End(s) == req' = [req EXCEPT ![s] = Idle]

Init ==
    /\ identities = [i \in Identity |-> "unseen"]
    /\ groups = [g \in Group |-> "unborn"]
    /\ members = {}
    /\ grants = {}
    /\ boot \in Deploys
    /\ clock = 0
    /\ req = [s \in Slot |-> Idle]

(* assertAdminsConfigured: 503 NO_ADMINS_CONFIGURED, before anything is written. *)
NoAdmins(now, bootstrap) == bootstrap = {} /\ CountedAdmins(Visit, now) = {}

Arrive(s) ==
    \E i \in Identity :
        /\ At(s, "idle")
        /\ Inputs[s][i] # {}
        /\ ~NoAdmins(clock, boot)
        /\ req' = [req EXCEPT ![s] =
                [pc |-> "upsert", actor |-> i, now |-> clock, boot |-> boot,
                 op |-> Visit, snap |-> {}, scope |-> Global, found |-> {}]]
        /\ UNCHANGED <<identities, groups, members, grants, boot, clock>>

UpsertIdentity(s) ==
    LET r == req[s] IN
    /\ At(s, "upsert")
    /\ identities' = [identities EXCEPT ![r.actor] = IF @ = "unseen" THEN "enabled" ELSE @]
    /\ Goto(s, IF r.actor \in r.boot THEN "probe" ELSE "snapshot")
    /\ UNCHANGED <<groups, members, grants, boot, clock>>

(* selfHealBootstrapGrant: is there a live direct global admin grant already? *)
ProbeGrant(s) ==
    LET r == req[s] IN
    /\ At(s, "probe")
    /\ Goto(s, IF \E g \in grants : g.holder = r.actor /\ GlobalAdminRow(g, r.now)
               THEN "snapshot" ELSE "heal")
    /\ UNCHANGED <<identities, groups, members, grants, boot, clock>>

(* A fresh uuid: one that no row has and no request names. *)
Named(op, id) == op.op \in {"revoke", "revokeGroup"} /\ op.id = id
InUse(id) ==
    \/ \E g \in grants : g.id = id
    \/ \E s \in Slot : ~At(s, "idle") /\ Named(req[s].op, id)
FreshIds(holder, scope) ==
    {id \in GrantId : id.holder = holder /\ id.scope = scope /\ ~InUse(id)}
NewId(holder, scope) ==
    {id \in FreshIds(holder, scope) :
        \A other \in FreshIds(holder, scope) : id.serial <= other.serial}

(* The partial unique indexes: one row per holder and scope. *)
Taken(holder, scope) == \E g \in grants : g.holder = holder /\ g.scope = scope

Insert(holder, scope, role, expires) ==
    \E id \in NewId(holder, scope) :
        grants' = grants \cup {[id |-> id, holder |-> holder, scope |-> scope,
                                role |-> role, expires |-> expires]}

(* INSERT ... ON CONFLICT DO NOTHING. *)
Heal(s) ==
    LET i == req[s].actor IN
    /\ At(s, "heal")
    /\ IF Taken(i, Global) THEN UNCHANGED grants ELSE Insert(i, Global, "admin", Never)
    /\ Goto(s, "snapshot")
    /\ UNCHANGED <<identities, groups, members, boot, clock>>

(* hydrateActor: the one authorization query of the request. *)
ReadSnapshot(s) ==
    LET r == req[s] IN
    /\ At(s, "snapshot")
    /\ req' = [req EXCEPT ![s].pc = "find", ![s].snap = Snapshot(r.actor, r.now, r.boot)]
    /\ UNCHANGED <<identities, groups, members, grants, boot, clock>>
----------------------------------------------------------------------------
(* Handlers: what they look up, and the role they ask for. *)

RowOf(op) ==
    {g \in grants :
        /\ g.id = op.id
        /\ g.holder \in IF op.op = "revoke" THEN Identity ELSE {op.group}}

(* What of them the handler keeps.                                         *)
Found(op) == IF op.op \in {"revoke", "revokeGroup"} THEN RowOf(op) ELSE {}

Seen(i) == identities[i] # "unseen"
IsLive(group) == groups[group] = "live"

Exists(op) ==
    CASE op.op = "grant" -> IF op.holder \in Identity THEN Seen(op.holder) ELSE IsLive(op.holder)
      [] op.op \in {"revoke", "revokeGroup"} -> RowOf(op) # {}
      [] op.op = "deleteGroup" -> IsLive(op.group)
      [] op.op = "addMember" -> IsLive(op.group) /\ Seen(op.identity)
      [] op.op = "removeMember" -> IsLive(op.group) /\ <<op.group, op.identity>> \in members
      [] op.op = "setDisabled" -> Seen(op.identity)
      [] OTHER -> TRUE

(* Mutation: membership is for whoever administers what the group was granted. *)
LaxAuthority(op) ==
    CASE op.op = "grant" -> {op.scope}
      [] op.op \in {"revoke", "revokeGroup"} -> {g.scope : g \in RowOf(op)}
      [] op.op = "addMember" -> {g.scope : g \in {h \in grants : h.holder = op.group}} \ {Global}
      [] OTHER -> {Global}

(* The scope at which the actor must be admin; none while there is no row. *)
Authority(op) ==
    CASE op.op = "grant" -> {op.scope}
      [] op.op \in {"revoke", "revokeGroup"} -> {g.scope : g \in RowOf(op)}
      [] OTHER -> {Global}

Guard(op) ==
    CASE op.op = "revoke" -> "inspect"
      [] op.op \in {"revokeGroup", "deleteGroup", "removeMember"} -> "count"
      [] OTHER -> "commit"

(* What a request asks for matters from here on, and is chosen here.  Two     *)
(* requests for one unborn group ask for the same slug.  The lookups of one   *)
(* handler are one step: a row that goes between two of them is missed by the *)
(* second, or by the batch.                                                   *)
Asked(s) ==
    {op \in Inputs[s][req[s].actor] : op.op = "createGroup" => groups[op.group] = "unborn"}

(* resolveGrantScope: a scope that is out of sight is a 404. *)
Shown(snap, op) == op.op = "grant" => ScopeVisible(snap, op.scope)

(* assertRole. *)
Allowed(snap, op) == \A a \in Authority(op) : Can(snap, a, "admin")

Find(s) ==
    LET r == req[s] IN
    /\ At(s, "find")
    /\ \E op \in Asked(s) : \E a \in Authority(op) :
        /\ op # Visit
        /\ Shown(r.snap, op) /\ Allowed(r.snap, op) /\ Exists(op)
        /\ req' = [req EXCEPT ![s].pc = Guard(op), ![s].op = op, ![s].scope = a,
                               ![s].found = Found(op)]
    /\ UNCHANGED <<identities, groups, members, grants, boot, clock>>

(* A read, which needs no more than the snapshot. *)
Read(s) ==
    /\ At(s, "find")
    /\ Visit \in Asked(s)
    /\ End(s)
    /\ UNCHANGED <<identities, groups, members, grants, boot, clock>>

(* 404 NOT_FOUND: out of sight, or not there when it is looked for. *)
NotFound(s) ==
    LET snap == req[s].snap IN
    /\ At(s, "find")
    /\ {} # {op \in Asked(s) \ {Visit} :
                ~Shown(snap, op) \/ (Allowed(snap, op) /\ ~Exists(op))}
    /\ End(s)
    /\ UNCHANGED <<identities, groups, members, grants, boot, clock>>

(* 403 FORBIDDEN. *)
Forbidden(s) ==
    LET snap == req[s].snap IN
    /\ At(s, "find")
    /\ {} # {op \in Asked(s) \ {Visit} : Shown(snap, op) /\ ~Allowed(snap, op)}
    /\ End(s)
    /\ UNCHANGED <<identities, groups, members, grants, boot, clock>>

(* assertNotLastAdmin: a grant that is not global admin is not counted. *)
Inspect(s) ==
    LET r == req[s] IN
    /\ At(s, "inspect")
    /\ Goto(s, IF \E g \in RowOf(r.op) : g.scope = Global /\ g.role = "admin"
               THEN "count" ELSE "commit")
    /\ UNCHANGED <<identities, groups, members, grants, boot, clock>>

(* assertNotLastAdminAfter. *)
WouldLockOut(r) == r.boot = {} /\ CountedAdmins(r.op, r.now) = {}

CountAdmins(s) ==
    /\ At(s, "count")
    /\ ~WouldLockOut(req[s])
    /\ Goto(s, "commit")
    /\ UNCHANGED <<identities, groups, members, grants, boot, clock>>

(* 409 LAST_ADMIN. *)
LastAdmin(s) ==
    /\ At(s, "count")
    /\ WouldLockOut(req[s])
    /\ End(s)
    /\ UNCHANGED <<identities, groups, members, grants, boot, clock>>
----------------------------------------------------------------------------
(* Batches: each is one transaction of the tables. *)

Commit(s, op) == At(s, "commit") /\ req[s].op.op = op /\ End(s)

(* The foreign key to a group that was deleted meanwhile. *)
HolderGone(holder) == holder \in Group /\ ~IsLive(holder)

CreateGrant(s) ==
    LET op == req[s].op IN
    /\ Commit(s, "grant")
    /\ ~HolderGone(op.holder)
    /\ ~Taken(op.holder, op.scope)
    /\ Insert(op.holder, op.scope, op.role, op.expires)
    /\ UNCHANGED <<identities, groups, members, boot, clock>>

(* 409 CONFLICT, or the 500 of a foreign key: nothing is written. *)
CreateGrantFails(s) ==
    LET op == req[s].op IN
    /\ Commit(s, "grant")
    /\ HolderGone(op.holder) \/ Taken(op.holder, op.scope)
    /\ UNCHANGED <<identities, groups, members, grants, boot, clock>>

(* Mutation: the row is deleted by what it says, not by its id. *)
RevokeByContent(s) ==
    /\ Commit(s, "revoke") \/ Commit(s, "revokeGroup")
    /\ grants' = {g \in grants : \A f \in req[s].found :
                      g.holder # f.holder \/ g.scope # f.scope}
    /\ UNCHANGED <<identities, groups, members, boot, clock>>

RevokeGrant(s) ==
    /\ Commit(s, "revoke") \/ Commit(s, "revokeGroup")
    /\ grants' = {g \in grants : g.id # req[s].op.id}
    /\ UNCHANGED <<identities, groups, members, boot, clock>>

(* A slug that is taken meanwhile is a CONFLICT and changes nothing. *)
CreateGroup(s) ==
    /\ Commit(s, "createGroup")
    /\ groups' = [groups EXCEPT ![req[s].op.group] = IF @ = "unborn" THEN "live" ELSE @]
    /\ UNCHANGED <<identities, members, grants, boot, clock>>

(* ON DELETE CASCADE takes the memberships and the grants. *)
DeleteGroup(s) ==
    LET group == req[s].op.group IN
    /\ Commit(s, "deleteGroup")
    /\ groups' = [groups EXCEPT ![group] = "gone"]
    /\ members' = {m \in members : m[1] # group}
    /\ grants' = {g \in grants : g.holder # group}
    /\ UNCHANGED <<identities, boot, clock>>

AddMember(s) ==
    LET op == req[s].op IN
    /\ Commit(s, "addMember")
    /\ IsLive(op.group)
    /\ members' = members \cup {<<op.group, op.identity>>}
    /\ UNCHANGED <<identities, groups, grants, boot, clock>>

(* The foreign key; a duplicate is a CONFLICT, and a set does not change. *)
AddMemberFails(s) ==
    /\ Commit(s, "addMember")
    /\ ~IsLive(req[s].op.group)
    /\ UNCHANGED <<identities, groups, members, grants, boot, clock>>

RemoveMember(s) ==
    LET op == req[s].op IN
    /\ Commit(s, "removeMember")
    /\ members' = members \ {<<op.group, op.identity>>}
    /\ UNCHANGED <<identities, groups, grants, boot, clock>>

(* updateIdentity. *)
SetDisabled(s) ==
    LET op == req[s].op IN
    /\ Commit(s, "setDisabled")
    /\ identities' = [identities EXCEPT ![op.identity] =
            IF op.disabled THEN "disabled" ELSE "enabled"]
    /\ UNCHANGED <<groups, members, grants, boot, clock>>
----------------------------------------------------------------------------
Deploy ==
    /\ boot' \in Deploys \ {boot}
    /\ UNCHANGED <<identities, groups, members, grants, clock, req>>

Tick ==
    /\ clock < MaxTime
    /\ clock' = clock + 1
    /\ UNCHANGED <<identities, groups, members, grants, boot, req>>

Step(s) ==
    \/ Arrive(s) \/ UpsertIdentity(s) \/ ProbeGrant(s) \/ Heal(s) \/ ReadSnapshot(s)
    \/ Find(s) \/ Read(s) \/ NotFound(s) \/ Forbidden(s) \/ Inspect(s) \/ CountAdmins(s) \/ LastAdmin(s)
    \/ CreateGrant(s) \/ CreateGrantFails(s) \/ RevokeGrant(s)
    \/ CreateGroup(s) \/ DeleteGroup(s)
    \/ AddMember(s) \/ AddMemberFails(s) \/ RemoveMember(s)
    \/ SetDisabled(s)

Next == Deploy \/ Tick \/ \E s \in Slot : Step(s)

Spec == Init /\ [][Next]_vars
----------------------------------------------------------------------------
(* Properties. *)

(* Type correctness of the tables, the configuration and what a request holds. *)
TypeOK ==
    /\ identities \in [Identity -> {"unseen", "enabled", "disabled"}]
    /\ groups \in [Group -> {"unborn", "live", "gone"}]
    /\ members \subseteq Group \X Identity
    /\ grants \subseteq Grant
    /\ boot \subseteq Identity
    /\ clock \in Time
    /\ req \in [Slot -> {Idle} \cup Request]

(* One row per id, one row per holder and scope, and no row that names a group *)
(* that is not there, or an identity that was never recorded.                  *)
RowsAreKeyed == \A g, h \in grants : g.id = h.id => g = h
OneGrantPerScope == \A g, h \in grants : g.holder = h.holder /\ g.scope = h.scope => g = h
NoOrphans ==
    /\ \A g \in grants : IF g.holder \in Group THEN IsLive(g.holder) ELSE Seen(g.holder)
    /\ \A m \in members : IsLive(m[1]) /\ Seen(m[2])

(* The access graph stays a set of keys and references that hold, whichever *)
(* grants, revokes, deletions and heals are in flight together: two first   *)
(* requests of a bootstrap admin leave one grant, and a grant to a group    *)
(* that is being deleted leaves none.                                       *)
Coherent == RowsAreKeyed /\ OneGrantPerScope /\ NoOrphans

Roles(i) == Snapshot(i, clock, boot)
Effective(i, scope, role) == Can(Roles(i), scope, role)

(* A role is gained or lost at a scope only by the clock, which takes; by a *)
(* deploy of BOOTSTRAP_ADMINS, for those it names; by the heal of a request *)
(* of a bootstrap admin, for itself; or by the batch of a request whose     *)
(* actor was admin over that whole scope when it was authorised.  No chain  *)
(* of grants, groups and memberships lets a scoped admin reach further.     *)
AccessChangesByAuthority ==
    [][\A i \in Identity : UNCHANGED Roles(i) \/ \A scope \in Scope, role \in Role :
        Effective(i, scope, role)' # Effective(i, scope, role) =>
            \/ clock' # clock /\ Effective(i, scope, role)
            \/ boot' # boot /\ (i \in boot') # (i \in boot)
            \/ \E s \in Slot : At(s, "heal") /\ ~At(s, "heal")' /\ req[s].actor = i /\ i \in req[s].boot
            \/ \E s \in Slot : At(s, "commit") /\ ~At(s, "commit")' /\ Can(req[s].snap, scope, "admin")]_<<tables, boot, clock>>

(* A revocation takes the row that its administrator found and was let to   *)
(* remove, or nothing: not the one that the same holder was given at the    *)
(* same scope since, when another request removed the first meanwhile.      *)
RevocationsTakeWhatWasFound ==
    [][\A s \in Slot :
        /\ At(s, "commit") /\ ~At(s, "commit")'
        /\ req[s].op.op \in {"revoke", "revokeGroup"}
        => grants' = grants \ req[s].found]_req

(* The administrators that requests at that time would find themselves to be. *)
AdminsAt(now) == {i \in Identity : Can(Snapshot(i, now, {}), Global, "admin")}

IsRemoval(op) == op.op \in {"revoke", "revokeGroup", "deleteGroup", "removeMember"}

(* The count that guards a removal is exact: whatever holds the role, and by  *)
(* however many ways, it is the set of administrators that the snapshots of   *)
(* later requests find once the batch is applied.  Two queries and a batch    *)
(* say the same in three ways: the count with its exclusion, the snapshot,    *)
(* and the deletes with their cascades.                                       *)
ExclusionIsExact ==
    [][\A s \in Slot, t \in Time :
        /\ At(s, "commit") /\ ~At(s, "commit")'
        /\ IsRemoval(req[s].op)
        /\ t = req[s].now
        => CountedAdmins(req[s].op, t) = AdminsAt(t)']_req

(* explainIdentityPermissions: every row that confers something, and the     *)
(* entry for a scope that some row names.                                     *)
Sources(i) ==
    {[scope |-> g.scope, role |-> g.role] : g \in Held(i, clock)} \cup BootstrapRole(i, boot)

TargetProject(target) ==
    {p \in Project : p = target \/ (target \in Environment /\ p = ProjectOf[target])}
(* Mutation: an explanation that stops at the scope itself. *)
ExplainCoversExactly(source, target) == source = Global \/ source = target

ExplainCovers(source, target) ==
    \/ source = Global
    \/ source \in TargetProject(target)
    \/ source \in Environment /\ source = target

(* The strongest source that reaches the target decides, unless disabled. *)
Explained(i, target) ==
    LET reaching == {p \in Sources(i) : ExplainCovers(p.scope, target)} IN
    IF identities[i] = "disabled" THEN {}
    ELSE {p.role : p \in {x \in reaching : \A y \in reaching : Rank[x.role] >= Rank[y.role]}}

(* The effective-permissions screen and the resolver that authorises requests *)
(* are two implementations of one rule: at every scope the screen lists, the  *)
(* role it names is the role a request would have.                            *)
ExplainAgrees ==
    \A i \in Identity : \A target \in {p.scope : p \in Sources(i)} : \A role \in Role :
        Effective(i, target, role) <=> \E r \in Explained(i, target) : Rank[r] >= Rank[role]

(* docs/guides/access-control.md:458: the LAST_ADMIN guard covers every route *)
(* that can remove the last usable administrator.                             *)
LastAdminIsRefused ==
    [][/\ boot = {} /\ boot' = {} /\ clock' = clock
       /\ \A s \in Slot : At(s, "idle") \/ req[s].boot = {}
       /\ AdminsAt(clock) # {}
       => AdminsAt(clock)' # {}]_vars
----------------------------------------------------------------------------
(* The inductive invariant: what a request knows once it is authorised. *)

(* A removal by id still means the row it was authorised for. *)
SameRow(r) ==
    /\ \A g \in grants : g.id = r.op.id => g \in r.found
    /\ \A g \in r.found :
        /\ g.id = r.op.id
        /\ g.scope = r.scope
        /\ g.holder \in IF r.op.op = "revoke" THEN Identity ELSE {r.op.group}

Authorised(r) ==
    /\ Can(r.snap, r.scope, "admin")
    /\ CASE r.op.op = "grant" ->
               /\ r.scope = r.op.scope
               /\ r.op.holder \in Identity => Seen(r.op.holder)
         [] r.op.op \in {"revoke", "revokeGroup"} -> SameRow(r)
         [] OTHER -> r.scope = Global
    /\ r.op.op \in {"addMember", "setDisabled"} => Seen(r.op.identity)

InFlight(s) ==
    LET r == req[s] IN
    /\ At(s, "probe") \/ At(s, "heal") => Seen(r.actor) /\ r.actor \in r.boot
    /\ At(s, "inspect") => r.op.op = "revoke"
    /\ At(s, "count") => IsRemoval(r.op)
    /\ At(s, "inspect") \/ At(s, "count") \/ At(s, "commit") => Authorised(r)

(* What each request in flight has been checked for, and still is within.    *)
RequestsAreAuthorised == \A s \in Slot : InFlight(s)

IInv == TypeOK /\ Coherent /\ RequestsAreAuthorised
=============================================================================
