--------------------------- MODULE ServiceTokens ---------------------------
(***************************************************************************)
(* Service tokens over two systems that share no transaction: Cloudflare,  *)
(* which has the tokens, and D1, which has a row and an identity for each. *)
(*                                                                         *)
(* Each call of Cloudflare and each call of D1 is an await, so another     *)
(* request may run between any two of them, and a request may fail or die  *)
(* there.  The order of the two systems is the design: a creation asks     *)
(* Cloudflare first and takes the token back if it cannot be recorded; a   *)
(* revocation commits first; reconcile repairs what either leaves behind,  *)
(* once it is old enough that no request can still be at work on it.       *)
(*                                                                         *)
(* Data abstraction: a token is Cloudflare's id of it, which has one       *)
(* client id and so one identity; its name says whether this deployment    *)
(* made it, and when.  Rotation and refresh, which change the secret and   *)
(* its expiry, are left out; so are the grant and the audit row that       *)
(* travel in the batch of a creation, and names that carry the prefix but  *)
(* no time.  D1 applies a batch or raises, never both.                     *)
(***************************************************************************)
EXTENDS Naturals, FiniteSets

CONSTANTS
    Token,         \* the tokens Cloudflare has or will have
    ByHand,        \* those made in the dashboard before prick knew of them
    NoToken,       \* what a request holds before it has one
    Slot,          \* request slots
    Workloads,     \* the operations that each slot may be asked for
    MinAge,        \* RECONCILE_MIN_AGE_MS
    MissingLimit,  \* RECONCILE_MISSING_LIMIT
    Prompt,        \* every request ends before it is MinAge old
    MaxTime,       \* bound: ticks of the clock
    MaxFaults      \* bound: calls that fail and requests that die

Operation == {"create", "adopt", "revoke", "enable", "disable", "reconcile"}

ASSUME TokensAssumption == ByHand \subseteq Token /\ NoToken \notin Token
ASSUME WorkloadsAssumption == Workloads \subseteq [Slot -> SUBSET Operation]
ASSUME BoundsAssumption ==
    /\ MinAge \in Nat \ {0}
    /\ MissingLimit \in Nat
    /\ MaxTime \in Nat
    /\ MaxFaults \in Nat
    /\ Prompt \in BOOLEAN

VARIABLES
    cf,         \* Cloudflare's tokens
    rows,       \* service_tokens
    identity,   \* the identity a token authenticates as
    retired,    \* audit rows that record the retirement of a token
    clock,
    req,        \* what each request in flight holds in memory
    faults,     \* failures so far
    asked       \* the workload, the same to the end

vars == <<cf, rows, identity, retired, clock, req, faults, asked>>
tables == <<rows, identity, retired>>
----------------------------------------------------------------------------
(* Tokens, rows and requests. *)

Time == 0..MaxTime

(* gone: removed by prick; deleted: in the dashboard. `at` is in the name. *)
CfToken == [state: {"unborn", "live", "gone", "deleted"}, ours: BOOLEAN, at: Time]
Present(t) == cf[t].state = "live"

(* `at` is created_at of a row in force, and revoked_at of a revoked one. *)
Row == [status: {"none", "active", "revoked"}, adopted: BOOLEAN, at: Time]
NoRow == [status |-> "none", adopted |-> FALSE, at |-> 0]
Recorded(t) == rows[t].status # "none"
Active(t) == rows[t].status = "active"
Revoked(t) == rows[t].status = "revoked"

Candidate == [kind: {"orphan", "missing", "incomplete"}, token: Token]

Request ==
    [pc: {"idle", "issue", "lookup", "record", "compensate", "find", "managed",
          "active", "guard", "retire", "remove", "unrevoked", "update",
          "list", "rows", "get", "unrecorded"},
     kind: Operation \cup {"none", "orphan", "missing", "incomplete"},
     token: Token \cup {NoToken},
     now: Time,                   \* ctx.now
     fresh: BOOLEAN,              \* no identity was found
     live: SUBSET Token,          \* what Cloudflare listed
     todo: SUBSET Candidate]      \* entries still to be repaired

Idle ==
    [pc |-> "idle", kind |-> "none", token |-> NoToken, now |-> 0,
     fresh |-> FALSE, live |-> {}, todo |-> {}]

InFlight(s) == req[s].pc # "idle"
At(s, pc) == req[s].pc = pc

Init ==
    /\ cf = [t \in Token |->
                [state |-> IF t \in ByHand THEN "live" ELSE "unborn", ours |-> FALSE, at |-> 0]]
    /\ rows = [t \in Token |-> NoRow]
    /\ identity = [t \in Token |-> "none"]
    /\ retired = [t \in Token |-> 0]
    /\ clock = 0
    /\ req = [s \in Slot |-> Idle]
    /\ faults = 0
    /\ asked \in Workloads

Start(s, kind, t, pc) ==
    /\ ~InFlight(s)
    /\ kind \in asked[s]
    /\ req' = [req EXCEPT ![s] = [Idle EXCEPT !.pc = pc, !.kind = kind, !.token = t, !.now = clock]]

Goto(s, pc) == req' = [req EXCEPT ![s].pc = pc]

(* The repair of each kind of entry begins by looking again, but for a      *)
(* revocation, which nothing undoes.                                        *)
FirstStep == [orphan |-> "unrecorded", missing |-> "get", incomplete |-> "remove"]

(* What a request does next when its work on a token has ended, well or     *)
(* not: reconcile takes another entry, and the failure of one does not      *)
(* stop the others.                                                         *)
After(r) ==
    IF r.todo = {} THEN {Idle}
    ELSE {[r EXCEPT !.pc = FirstStep[c.kind], !.kind = c.kind, !.token = c.token,
                    !.todo = @ \ {c}] : c \in r.todo}
Finish(s) == \E r \in After(req[s]) : req' = [req EXCEPT ![s] = r]

(* Bound: what begins can still become old enough to be judged. *)
InTime == clock + MinAge <= MaxTime
----------------------------------------------------------------------------
(* createServiceToken. *)

StartCreate(s) ==
    /\ InTime
    /\ Start(s, "create", NoToken, "issue")
    /\ UNCHANGED <<cf, tables, clock, faults, asked>>

Issue(s) ==
    /\ At(s, "issue")
    /\ \E t \in Token :
        /\ cf[t].state = "unborn"
        /\ cf' = [cf EXCEPT ![t] = [state |-> "live", ours |-> TRUE, at |-> req[s].now]]
        /\ req' = [req EXCEPT ![s].pc = "lookup", ![s].token = t]
    /\ UNCHANGED <<tables, clock, faults, asked>>

(* Bound: Cloudflare has no more tokens to give. *)
IssueRejected(s) ==
    /\ At(s, "issue")
    /\ \A t \in Token : cf[t].state # "unborn"
    /\ Finish(s)
    /\ UNCHANGED <<cf, tables, clock, faults, asked>>

(* Is there an identity of that client id already? *)
Lookup(s) ==
    /\ At(s, "lookup")
    /\ req' = [req EXCEPT ![s].pc = "record", ![s].fresh = identity[req[s].token] = "none"]
    /\ UNCHANGED <<cf, tables, clock, faults, asked>>

(* The unique indexes on the token, its identity and the subject. *)
Recordable(s) ==
    LET t == req[s].token IN
    /\ ~Recorded(t)
    /\ req[s].fresh => identity[t] = "none"

(* The batch: the row, and the identity if it was not there; an identity   *)
(* that was there stays enabled or disabled as it is.                      *)
Record(s) ==
    LET r == req[s] IN
    /\ At(s, "record")
    /\ Recordable(s)
    /\ rows' = [rows EXCEPT ![r.token] =
                    [status |-> "active", adopted |-> r.kind = "adopt", at |-> r.now]]
    /\ identity' = [identity EXCEPT ![r.token] = IF r.fresh THEN "enabled" ELSE @]
    /\ Finish(s)
    /\ UNCHANGED <<cf, retired, clock, faults, asked>>

(* A creation takes back what it cannot record; an adoption gives up. *)
GiveUpRecording(s) == IF req[s].kind = "create" THEN Goto(s, "compensate") ELSE Finish(s)

RecordRefused(s) ==
    /\ At(s, "record")
    /\ ~Recordable(s)
    /\ GiveUpRecording(s)
    /\ UNCHANGED <<cf, tables, clock, faults, asked>>

(* api.remove: a token that is not there is as good as removed. *)
RemoveToken(t) ==
    cf' = [cf EXCEPT ![t].state = IF @ = "live" THEN "gone" ELSE @]

Compensate(s) ==
    /\ At(s, "compensate")
    /\ RemoveToken(req[s].token)
    /\ Finish(s)
    /\ UNCHANGED <<tables, clock, faults, asked>>
----------------------------------------------------------------------------
(* adoptServiceToken: find the token, check it is not managed, and record. *)

StartAdopt(s) ==
    /\ InTime
    /\ \E t \in Token : Start(s, "adopt", t, "find")
    /\ UNCHANGED <<cf, tables, clock, faults, asked>>

FindToken(s) ==
    /\ At(s, "find")
    /\ IF Present(req[s].token) THEN Goto(s, "managed") ELSE Finish(s)
    /\ UNCHANGED <<cf, tables, clock, faults, asked>>

CheckManaged(s) ==
    /\ At(s, "managed")
    /\ IF Recorded(req[s].token) THEN Finish(s) ELSE Goto(s, "lookup")
    /\ UNCHANGED <<cf, tables, clock, faults, asked>>
----------------------------------------------------------------------------
(* revokeServiceToken: the kill switch first, then Cloudflare. *)

StartRevoke(s) ==
    /\ InTime
    /\ \E t \in Token : Start(s, "revoke", t, "active")
    /\ UNCHANGED <<cf, tables, clock, faults, asked>>

RequireActive(s) ==
    /\ At(s, "active")
    /\ IF Active(req[s].token) THEN Goto(s, "guard") ELSE Finish(s)
    /\ UNCHANGED <<cf, tables, clock, faults, asked>>

(* assertNotLastAdminAfter may refuse: what it counts is not in this module. *)
GuardLastAdmin(s) ==
    /\ At(s, "guard")
    /\ Goto(s, "retire") \/ Finish(s)
    /\ UNCHANGED <<cf, tables, clock, faults, asked>>

(* The batch that retires a row, of a revocation or of a missing token.    *)
(* revokedGuard aborts it when another one was first.                      *)
RetireRow(s) ==
    LET t == req[s].token IN
    /\ identity' = [identity EXCEPT ![t] = "disabled"]
    /\ rows' = [rows EXCEPT ![t] =
                    IF @.status = "active" THEN [@ EXCEPT !.status = "revoked", !.at = req[s].now] ELSE @]
    /\ retired' = [retired EXCEPT ![t] = @ + 1]
    /\ IF req[s].kind = "revoke" THEN Goto(s, "remove") ELSE Finish(s)
    /\ UNCHANGED <<cf, clock, faults, asked>>

Retire(s) ==
    /\ At(s, "retire")
    /\ ~Revoked(req[s].token)
    /\ RetireRow(s)

RetireRefused(s) ==
    /\ At(s, "retire")
    /\ Revoked(req[s].token)
    /\ Finish(s)
    /\ UNCHANGED <<cf, tables, clock, faults, asked>>

Remove(s) ==
    /\ At(s, "remove")
    /\ RemoveToken(req[s].token)
    /\ Finish(s)
    /\ UNCHANGED <<tables, clock, faults, asked>>
----------------------------------------------------------------------------
(* updateIdentity: enabling looks for a revoked token of the identity. *)

StartUpdate(s) ==
    /\ \E t \in Token :
        /\ identity[t] # "none"
        /\ \/ Start(s, "enable", t, "unrevoked")
           \/ Start(s, "disable", t, "update")
    /\ UNCHANGED <<cf, tables, clock, faults, asked>>

(* Mutation: enable whatever the token's row says. *)
EnableUnchecked(s) ==
    /\ At(s, "unrevoked")
    /\ Goto(s, "update")
    /\ UNCHANGED <<cf, tables, clock, faults, asked>>
CheckUnrevoked(s) ==
    /\ At(s, "unrevoked")
    /\ IF Revoked(req[s].token) THEN Finish(s) ELSE Goto(s, "update")
    /\ UNCHANGED <<cf, tables, clock, faults, asked>>

Update(s) ==
    LET r == req[s] IN
    /\ At(s, "update")
    /\ identity' = [identity EXCEPT ![r.token] = IF r.kind = "enable" THEN "enabled" ELSE "disabled"]
    /\ Finish(s)
    /\ UNCHANGED <<cf, rows, retired, clock, faults, asked>>
----------------------------------------------------------------------------
(* reconcileServiceTokens with `apply`. *)

StartReconcile(s) ==
    /\ Start(s, "reconcile", NoToken, "list")
    /\ UNCHANGED <<cf, tables, clock, faults, asked>>

List(s) ==
    /\ At(s, "list")
    /\ req' = [req EXCEPT ![s].pc = "rows", ![s].live = {t \in Token : Present(t)}]
    /\ UNCHANGED <<cf, tables, clock, faults, asked>>

(* Mutation: whatever is listed may be judged. *)
AnyAge(at, now) == at <= now
Old(at, now) == at + MinAge <= now

(* Mutation: a revoked row is the end of the matter. *)
EntriesInForce(live, now) ==
    {c \in Candidate :
        LET t == c.token IN
        CASE c.kind = "orphan"  -> t \in live /\ ~Recorded(t) /\ cf[t].ours /\ Old(cf[t].at, now)
          [] c.kind = "missing" -> t \notin live /\ Active(t) /\ Old(rows[t].at, now)
          [] OTHER              -> FALSE}

(* What disagrees between the listing and the rows, the too recent left out. *)
Entries(live, now) ==
    {c \in Candidate :
        LET t == c.token IN
        CASE c.kind = "orphan"     -> t \in live /\ ~Recorded(t) /\ cf[t].ours /\ Old(cf[t].at, now)
          [] c.kind = "missing"    -> t \notin live /\ Active(t) /\ Old(rows[t].at, now)
          [] c.kind = "incomplete" -> t \in live /\ Revoked(t) /\ Old(rows[t].at, now)}

(* More often the wrong account than tokens that are gone: nothing is done. *)
Implausible(entries) ==
    LET missing == Cardinality({c \in entries : c.kind = "missing"}) IN
    \/ missing > MissingLimit
    \/ missing >= 2 /\ missing = Cardinality({t \in Token : Active(t)})

ReadRows(s) ==
    LET entries == Entries(req[s].live, req[s].now) IN
    /\ At(s, "rows")
    /\ \E r \in IF Implausible(entries) THEN {Idle} ELSE After([req[s] EXCEPT !.live = {}, !.todo = entries]) :
        req' = [req EXCEPT ![s] = r]
    /\ UNCHANGED <<cf, tables, clock, faults, asked>>

(* Still missing? A token Cloudflare answers for is not retired. *)
AskAgain(s) ==
    /\ At(s, "get")
    /\ IF Present(req[s].token) THEN Finish(s) ELSE Goto(s, "guard")
    /\ UNCHANGED <<cf, tables, clock, faults, asked>>

(* Still unrecorded? A row that committed since the listing owns it now. *)
LookAgain(s) ==
    /\ At(s, "unrecorded")
    /\ IF Recorded(req[s].token) THEN Finish(s) ELSE Goto(s, "remove")
    /\ UNCHANGED <<cf, tables, clock, faults, asked>>
----------------------------------------------------------------------------
(* What goes wrong, and what others do. *)

(* An await raises: the call had no effect, or its answer was lost, which  *)
(* for a call of Cloudflare that took effect is the same as Die.           *)
Fail(s) ==
    /\ InFlight(s)
    /\ faults < MaxFaults
    /\ IF At(s, "record") THEN GiveUpRecording(s) ELSE Finish(s)
    /\ faults' = faults + 1
    /\ UNCHANGED <<cf, tables, clock, asked>>

(* The account has more than one page of tokens, and one that is deleted    *)
(* between two calls moves another across the boundary of the pages.        *)
ListMissesOne(s) ==
    /\ At(s, "list")
    /\ faults < MaxFaults
    /\ \E t \in Token :
        /\ Present(t)
        /\ req' = [req EXCEPT ![s].pc = "rows", ![s].live = {u \in Token : Present(u)} \ {t}]
    /\ faults' = faults + 1
    /\ UNCHANGED <<cf, tables, clock, asked>>

(* The Worker dies between two awaits. *)
Die(s) ==
    /\ InFlight(s)
    /\ faults < MaxFaults
    /\ req' = [req EXCEPT ![s] = Idle]
    /\ faults' = faults + 1
    /\ UNCHANGED <<cf, tables, clock, asked>>

(* A token made by hand calls prick, which records whom it saw. *)
Authenticate ==
    /\ \E t \in ByHand :
        /\ Present(t)
        /\ identity[t] = "none"
        /\ identity' = [identity EXCEPT ![t] = "enabled"]
    /\ UNCHANGED <<cf, rows, retired, clock, req, faults, asked>>

DeleteInDashboard ==
    /\ \E t \in Token : Present(t) /\ cf' = [cf EXCEPT ![t].state = "deleted"]
    /\ UNCHANGED <<tables, clock, req, faults, asked>>

Tick ==
    /\ clock < MaxTime
    /\ Prompt => \A s \in Slot : InFlight(s) => clock + 1 < req[s].now + MinAge
    /\ clock' = clock + 1
    /\ UNCHANGED <<cf, tables, req, faults, asked>>
----------------------------------------------------------------------------
Begin(s) ==
    \/ StartCreate(s)
    \/ StartAdopt(s)
    \/ StartRevoke(s)
    \/ StartUpdate(s)
    \/ StartReconcile(s)

Step(s) ==
    \/ Issue(s) \/ IssueRejected(s) \/ Lookup(s) \/ Record(s) \/ RecordRefused(s) \/ Compensate(s)
    \/ FindToken(s) \/ CheckManaged(s)
    \/ RequireActive(s) \/ GuardLastAdmin(s) \/ Retire(s) \/ RetireRefused(s) \/ Remove(s)
    \/ CheckUnrevoked(s) \/ Update(s)
    \/ List(s) \/ ReadRows(s) \/ AskAgain(s) \/ LookAgain(s)

Next ==
    \/ \E s \in Slot : Begin(s) \/ Step(s) \/ Fail(s) \/ ListMissesOne(s) \/ Die(s)
    \/ Authenticate
    \/ DeleteInDashboard
    \/ Tick

Spec == Init /\ [][Next]_vars

(* Every await ends, time passes, and an administrator reconciles again and *)
(* again.                                                                   *)
FairSpec ==
    /\ Spec
    /\ WF_vars(Tick)
    /\ \A s \in Slot : WF_vars(Step(s)) /\ SF_vars(StartReconcile(s))
----------------------------------------------------------------------------
(* Properties. *)

TypeOK ==
    /\ cf \in [Token -> CfToken]
    /\ rows \in [Token -> Row]
    /\ identity \in [Token -> {"none", "enabled", "disabled"}]
    /\ retired \in [Token -> Nat]
    /\ clock \in Time
    /\ req \in [Slot -> Request]
    /\ faults \in 0..MaxFaults
    /\ asked \in Workloads

(* No request of prick, reconcile least of all, removes from Cloudflare a  *)
(* token whose creation was recorded and that nobody revoked: the age limit *)
(* and the second look hold whatever is in flight.                          *)
RecordedTokensSurvive ==
    \A t \in Token : Active(t) /\ ~rows[t].adopted => cf[t].state \in {"live", "deleted"}

(* A token is retired once: of two revocations, or a revocation and a       *)
(* reconcile, one writes the record and its audit row and the other fails.  *)
OneRetirement == \A t \in Token : retired[t] = IF Revoked(t) THEN 1 ELSE 0

(* The revocation of a token holds for good, once the requests to enable    *)
(* its identity that had passed their check before it are over.             *)
Enabling(t) == \E s \in Slot : At(s, "update") /\ req[s].kind = "enable" /\ req[s].token = t
Final(t) == Revoked(t) /\ identity[t] = "disabled" /\ ~Enabling(t)
RevocationIsFinal == [][\A t \in Token : Final(t) => Final(t)']_vars

(* Reconcile retires a row only if Cloudflare has lost its token, though it *)
(* asked two awaits ago and decided on a listing older still.               *)
RetiredWereMissing ==
    [][\A s \in Slot :
        At(s, "retire") /\ req[s].kind = "missing" /\ retired' # retired
            => ~Present(req[s].token)]_vars

(* Drift ends: what Cloudflare has and prick has revoked, or never recorded *)
(* because a creation failed or died, is removed by a later reconcile; but  *)
(* not while reconcile takes what is missing for a mistake and refuses.     *)
Drift(t) == Present(t) /\ (Revoked(t) \/ (cf[t].ours /\ ~Recorded(t)))
Missing == {[kind |-> "missing", token |-> t] : t \in {u \in Token : Active(u) /\ ~Present(u)}}
DriftIsRepaired == \A t \in Token : Drift(t) ~> ~Drift(t) \/ Implausible(Missing)

----------------------------------------------------------------------------
(* The inductive invariants. *)

OnToken ==
    {"lookup", "record", "compensate", "find", "managed", "active", "guard", "retire",
     "remove", "unrevoked", "update", "get", "unrecorded"}

(* What a request is doing, and to what. *)
Shape(r) ==
    /\ r.pc \in OnToken => r.token \in Token
    /\ r.pc \in {"issue", "compensate"} => r.kind = "create"
    /\ r.pc \in {"find", "managed"} => r.kind = "adopt"
    /\ r.pc \in {"lookup", "record"} => r.kind \in {"create", "adopt"}
    /\ r.pc = "active" => r.kind = "revoke"
    /\ r.pc = "get" => r.kind = "missing"
    /\ r.pc = "unrecorded" => r.kind = "orphan"
    /\ r.pc \in {"guard", "retire"} => r.kind \in {"revoke", "missing"}
    /\ r.pc = "remove" => r.kind \in {"revoke", "orphan", "incomplete"}

Born(t) == cf[t].state # "unborn"

(* What its checks have found and nothing takes back. *)
Found(r) ==
    /\ r.pc \in {"managed", "lookup", "record"} => Born(r.token)
    /\ r.pc \in {"get", "guard", "retire"} => Recorded(r.token)
    /\ r.pc \in {"guard", "retire"} /\ r.kind = "missing" => ~Present(r.token)
    /\ r.pc = "remove" /\ r.kind # "orphan" => Revoked(r.token)
    /\ \A t \in r.live : Born(t)
    /\ \A c \in r.todo :
         /\ c.kind = "missing" => Recorded(c.token)
         /\ c.kind = "incomplete" => Revoked(c.token)

RecordedAreBorn == \A t \in Token : Recorded(t) => Born(t)

BaseInv ==
    /\ TypeOK
    /\ OneRetirement
    /\ RecordedAreBorn
    /\ \A s \in Slot : Shape(req[s]) /\ Found(req[s])

(* When requests are prompt, what is old enough to be judged is not being  *)
(* made: a request that creates a token is as young as the token's name.   *)
Timely(r) == r.pc # "idle" => r.now <= clock /\ clock < r.now + MinAge

Creating(r) == r.kind = "create" /\ r.pc \in {"lookup", "record", "compensate"}
Own(r) ==
    Creating(r) =>
        /\ cf[r.token].ours
        /\ cf[r.token].at = r.now
        /\ Born(r.token)
        /\ IF Recorded(r.token) THEN rows[r.token].adopted ELSE cf[r.token].state # "gone"
OneCreator ==
    \A s, u \in Slot :
        Creating(req[s]) /\ Creating(req[u]) /\ req[s].token = req[u].token => s = u

Ripe(t, now) == Born(t) /\ cf[t].ours /\ Old(cf[t].at, now)
Judged(r) ==
    /\ \A c \in r.todo : c.kind = "orphan" => Ripe(c.token, r.now)
    /\ r.pc \in {"unrecorded", "remove"} /\ r.kind = "orphan" => Ripe(r.token, r.now)
    /\ r.pc = "remove" /\ r.kind = "orphan" /\ Recorded(r.token) => rows[r.token].adopted

PromptInv ==
    /\ BaseInv
    /\ RecordedTokensSurvive
    /\ OneCreator
    /\ \A s \in Slot : Timely(req[s]) /\ Own(req[s]) /\ Judged(req[s])

-----------------------------------------------------------------------------
(* Which operations meet in two slots, in the small instance.               *)
MCWorkloads == {
    <<{"create", "reconcile"}, {"adopt"}>>,
    <<{"create", "adopt"}, {"reconcile"}>>,
    <<{"adopt", "reconcile"}, {"adopt", "reconcile"}>>,
    <<{"create", "revoke"}, {"revoke", "reconcile"}>>,
    <<{"create", "revoke"}, {"enable", "disable", "reconcile"}>>}
=============================================================================
