---------------------------- MODULE SecretStore ----------------------------
(***************************************************************************)
(* The secret write path of the Worker, over one environment slug.         *)
(*                                                                         *)
(* Every request runs in its own isolate invocation and talks to D1 over   *)
(* the network, so each `await` of a handler is a point where any other    *)
(* request may run: resolving the environment, readKeyState, reading the   *)
(* row a rollback or a rename copies, and the batch.  One batch() is one   *)
(* D1 transaction: it applies whole or raises on the first constraint.     *)
(*                                                                         *)
(* Data abstraction: a ciphertext is the pair of its plaintext and of the  *)
(* identity its AAD binds it to; descriptions, actors and timestamps are   *)
(* left out; the audit log is represented by the newest success row.       *)
(* A plaintext opens as it was sealed: one that starts with a byte order   *)
(* mark, which opening strips, is in Envelope.                             *)
(***************************************************************************)
EXTENDS Naturals, FiniteSets, FiniteSetsExt

CONSTANTS
    Key,          \* secret names
    Value,        \* plaintexts
    Client,       \* request slots: each runs one request at a time
    Inputs,       \* the request bodies clients send
    MaxSecrets,   \* ENV_MAX_SECRETS
    NoValue,      \* "no ciphertext": what a tombstone carries
    MaxRev,       \* bound: no request starts once the revision reaches it
    MaxEnv        \* bound: how often the slug may be created

PartialMap == UNION {[K -> Value] : K \in SUBSET Key}

WriteInput ==
    [kind: {"write"}, mode: {"merge", "replace"}, set: PartialMap,
     delete: SUBSET Key, guarded: BOOLEAN]
RollbackInput == [kind: {"rollback"}, key: Key, to: Nat]
RenameInput   == [kind: {"rename"}, old: Key, new: Key]
PlainInput    == [kind: {"list", "delete_env", "create_env"}]
Input == WriteInput \cup RollbackInput \cup RenameInput \cup PlainInput

ASSUME InputsAssumption == Inputs \subseteq Input
ASSUME NoValueAssumption == NoValue \notin Value
ASSUME BoundsAssumption == MaxSecrets \in Nat /\ MaxRev \in Nat /\ MaxEnv \in Nat

VARIABLES
    env,        \* the environments row of the slug: its id, rev, and whether it exists
    versions,   \* secret_versions: the rows of that environment
    current,    \* secrets.current_version per key, 0 where there is no row
    audit,      \* the newest success row of audit_log
    req,        \* what each request in flight holds in memory
    etag,       \* the revision and listing a client's last GET answered
    answer      \* the answer to each client's last request

vars == <<env, versions, current, audit, req, etag, answer>>
----------------------------------------------------------------------------
(* The tables. *)

(* A ciphertext opens only under the identity it was sealed for. *)
Seal(id, k, v, x) == [env |-> id, key |-> k, version |-> v, plain |-> x]
Blob == [env: Nat, key: Key, version: Nat, plain: Value]
NoBlob == [plain |-> NoValue]
Opens(blob, id, k, v) ==
    /\ blob.plain # NoValue
    /\ blob.env = id
    /\ blob.key = k
    /\ blob.version = v

Op == {"set", "rollback", "rename", "delete"}
VersionRow == [key: Key, version: Nat, op: Op, blob: Blob \cup {NoBlob}]

VersionsOf(k) == {r.version : r \in {x \in versions : x.key = k}}
RowAt(k, v) == CHOOSE r \in versions : r.key = k /\ r.version = v
Live == {k \in Key : current[k] # 0}
Present(id) == env.exists /\ env.id = id

(* Mutation: the index is missing. *)
NeverCollides(rows) == FALSE

(* UNIQUE(environment_id, key, version), the concurrency primitive. *)
Collides(rows) == \E n \in rows : n.version \in VersionsOf(n.key)

(* readKeyState: the union of both tables, aggregated per key. *)
KeyState == [max: Nat, live: BOOLEAN]
ReadKeyState(id) ==
    [k \in Key |->
        IF Present(id)
        THEN [max |-> Max({0, current[k]} \cup VersionsOf(k)), live |-> k \in Live]
        ELSE [max |-> 0, live |-> FALSE]]
NoState == [k \in Key |-> [max |-> 0, live |-> FALSE]]
----------------------------------------------------------------------------
(* planWrite: what a body asks of the state it was read against. *)

LiveIn(snap) == {k \in Key : snap[k].live}
NextVersion(snap, k) == snap[k].max + 1

Overlaps(in) == DOMAIN in.set \cap in.delete # {}
Deletes(in, snap) ==
    IF in.mode = "replace" THEN LiveIn(snap) \ DOMAIN in.set
                           ELSE in.delete \cap LiveIn(snap)
Survivors(in, snap) == (LiveIn(snap) \ Deletes(in, snap)) \cup DOMAIN in.set

(* Mutation: sealed for the version that is current, not for the next one. *)
SetRowsSealedStale(in, snap, id) ==
    {[key |-> k, version |-> NextVersion(snap, k), op |-> "set",
      blob |-> Seal(id, k, snap[k].max, in.set[k])] : k \in DOMAIN in.set}
SetRows(in, snap, id) ==
    {[key |-> k, version |-> NextVersion(snap, k), op |-> "set",
      blob |-> Seal(id, k, NextVersion(snap, k), in.set[k])] : k \in DOMAIN in.set}
Tombstone(snap, k) ==
    [key |-> k, version |-> NextVersion(snap, k), op |-> "delete", blob |-> NoBlob]
PlannedRows(in, snap, id) ==
    SetRows(in, snap, id) \cup {Tombstone(snap, k) : k \in Deletes(in, snap)}
----------------------------------------------------------------------------
(* Requests. *)

Pc == {"idle", "listing", "list_resolved", "read", "source", "commit", "deleting"}
Code == {"none", "OK", "NOT_FOUND", "CONFLICT", "VALIDATION_FAILED", "PAYLOAD_TOO_LARGE",
         "PRECONDITION_FAILED", "VERSION_CONFLICT", "INTERNAL"}

NoInput == [kind |-> "none"]
Idle == [pc |-> "idle", input |-> NoInput, seen |-> [id |-> 0, rev |-> 0],
         snap |-> NoState, value |-> NoValue, attempt |-> 0]
Request == [pc: Pc, input: Inputs \cup {NoInput}, seen: [id: Nat, rev: Nat],
            snap: [Key -> KeyState], value: Value \cup {NoValue}, attempt: {0, 1}]
NoListing == [k \in Key |-> 0]
Tag(held, id, rev, listing) == [held |-> held, id |-> id, rev |-> rev, listing |-> listing]
NoTag == Tag(FALSE, 0, 0, NoListing)
Answer == [code: Code, rev: Nat]
AuditRow == [action: {"none", "secret.write", "secret.rollback", "secret.rename",
                      "environment.create", "environment.delete"},
             added: SUBSET Key, changed: SUBSET Key, removed: SUBSET Key]
Audited(act, a, c, r) == [action |-> act, added |-> a, changed |-> c, removed |-> r]

Reply(c, code, rev) ==
    /\ answer' = [answer EXCEPT ![c] = [code |-> code, rev |-> rev]]
    /\ req' = [req EXCEPT ![c] = Idle]
Fail(c, code) == Reply(c, code, 0) /\ UNCHANGED <<env, versions, current, audit, etag>>

Init ==
    /\ env = [exists |-> TRUE, id |-> 1, rev |-> 0]
    /\ versions = {}
    /\ current = [k \in Key |-> 0]
    /\ audit = Audited("none", {}, {}, {})
    /\ req = [c \in Client |-> Idle]
    /\ etag = [c \in Client |-> NoTag]
    /\ answer = [c \in Client |-> [code |-> "none", rev |-> 0]]
----------------------------------------------------------------------------
(* requireEnvironment: the slug resolves to a row, whose id and revision the *)
(* request keeps; a write refuses an oversized body before any other read.  *)
Resolve(c, in, pc) ==
    /\ req[c].pc = "idle"
    /\ env.rev < MaxRev
    /\ env.exists
    /\ req' = [req EXCEPT ![c] = [Idle EXCEPT !.pc = pc, !.input = in,
                                  !.seen = [id |-> env.id, rev |-> env.rev]]]
    /\ answer' = [answer EXCEPT ![c] = [code |-> "none", rev |-> 0]]
    /\ UNCHANGED <<env, versions, current, audit>>

ResolveMissing(c) ==
    /\ req[c].pc = "idle"
    /\ ~env.exists
    /\ Fail(c, "NOT_FOUND")

StartWrite(c, in) ==
    /\ in.kind = "write"
    /\ in.guarded => etag[c].held
    /\ Cardinality(DOMAIN in.set) <= MaxSecrets
    /\ Resolve(c, in, "read")
    /\ UNCHANGED etag

StartOversized(c, in) ==
    /\ in.kind = "write"
    /\ req[c].pc = "idle" /\ env.exists
    /\ Cardinality(DOMAIN in.set) > MaxSecrets
    /\ Fail(c, "PAYLOAD_TOO_LARGE")

StartMove(c, in) ==
    /\ in.kind \in {"rollback", "rename"}
    /\ Resolve(c, in, "read")
    /\ UNCHANGED etag

(* GET /secrets: the revision first, then the listing, which resolves the *)
(* slug again.  The client holds nothing until the answer arrives.        *)
StartList(c, in) ==
    /\ in.kind = "list"
    /\ Resolve(c, in, "listing")
    /\ etag' = [etag EXCEPT ![c] = Tag(FALSE, env.id, env.rev, NoListing)]

StartDeleteEnv(c, in) ==
    /\ in.kind = "delete_env"
    /\ Resolve(c, in, "deleting")
    /\ UNCHANGED etag

ResolveListing(c) ==
    /\ req[c].pc = "listing"
    /\ IF env.exists
       THEN /\ req' = [req EXCEPT ![c].pc = "list_resolved",
                                    ![c].seen = [id |-> env.id, rev |-> @.rev]]
            /\ UNCHANGED <<env, versions, current, audit, etag, answer>>
       ELSE Fail(c, "NOT_FOUND")

ReadListing(c) ==
    /\ req[c].pc = "list_resolved"
    /\ etag' = [etag EXCEPT ![c] = Tag(TRUE, @.id, @.rev,
                    IF Present(req[c].seen.id) THEN current ELSE NoListing)]
    /\ Reply(c, "OK", etag[c].rev)
    /\ UNCHANGED <<env, versions, current, audit>>
----------------------------------------------------------------------------
(* The one read of prior state, and the refusals computed from it. *)

RefuseWrite(in, snap) ==
    IF Overlaps(in) THEN "VALIDATION_FAILED"
    ELSE IF Cardinality(Survivors(in, snap)) > MaxSecrets THEN "PAYLOAD_TOO_LARGE"
    ELSE "none"
RefuseRollback(in, snap) == IF snap[in.key].max = 0 THEN "NOT_FOUND" ELSE "none"
RefuseRename(in, snap) ==
    IF ~snap[in.old].live THEN "NOT_FOUND"
    ELSE IF snap[in.new].live THEN "CONFLICT"
    ELSE "none"
Refusal(in, snap) ==
    CASE in.kind = "write"    -> RefuseWrite(in, snap)
      [] in.kind = "rollback" -> RefuseRollback(in, snap)
      [] in.kind = "rename"   -> RefuseRename(in, snap)

ReadState(c) ==
    LET in   == req[c].input
        snap == ReadKeyState(req[c].seen.id)
    IN  /\ req[c].pc = "read"
        /\ IF Refusal(in, snap) # "none"
           THEN Fail(c, Refusal(in, snap))
           ELSE /\ req' = [req EXCEPT
                      ![c].snap = snap,
                      ![c].pc = IF in.kind = "write" THEN "commit" ELSE "source"]
                /\ UNCHANGED <<env, versions, current, audit, etag, answer>>

(* The row a move copies: version `to` of the key, or the newest of the old. *)
SourceOf(r) ==
    IF r.input.kind = "rollback" THEN [key |-> r.input.key, version |-> r.input.to]
                                 ELSE [key |-> r.input.old, version |-> r.snap[r.input.old].max]

ReadSource(c) ==
    LET s     == SourceOf(req[c])
        found == Present(req[c].seen.id) /\ s.version \in VersionsOf(s.key)
        blob  == RowAt(s.key, s.version).blob
    IN  /\ req[c].pc = "source"
        /\ IF ~found THEN Fail(c, "NOT_FOUND")
           ELSE IF blob = NoBlob
           THEN Fail(c, IF req[c].input.kind = "rollback" THEN "VALIDATION_FAILED" ELSE "NOT_FOUND")
           ELSE IF ~Opens(blob, req[c].seen.id, s.key, s.version)
           THEN Fail(c, "INTERNAL")
           ELSE /\ req' = [req EXCEPT ![c].value = blob.plain, ![c].pc = "commit"]
                /\ UNCHANGED <<env, versions, current, audit, etag, answer>>
----------------------------------------------------------------------------
(* The batch of a write: the guard, the revision, the rows, the audit row. *)

(* The answer carries the revision read at the start, plus one. *)
(* Mutation: it carries the revision of the batch. *)
BumpedAtCommit(c) == env.rev + 1
Bumped(c) == req[c].seen.rev + 1
Bump == env' = [env EXCEPT !.rev = @ + 1]

WriteAudit(in, snap) ==
    Audited("secret.write", DOMAIN in.set \ LiveIn(snap), DOMAIN in.set \cap LiveIn(snap),
            Deletes(in, snap))

ApplyWrite(c) ==
    LET in   == req[c].input
        snap == req[c].snap
    IN  /\ versions' = versions \cup PlannedRows(in, snap, req[c].seen.id)
        /\ current' = [k \in Key |->
             IF k \in DOMAIN in.set THEN NextVersion(snap, k)
             ELSE IF k \in Deletes(in, snap) THEN 0
             ELSE current[k]]
        /\ Bump
        /\ audit' = WriteAudit(in, snap)
        /\ Reply(c, "OK", Bumped(c))
        /\ UNCHANGED etag

AtWriteCommit(c) == req[c].pc = "commit" /\ req[c].input.kind = "write"
(* Mutation: the guard compares the revision this request read itself. *)
GuardOnOwnRead(c) == req[c].input.guarded /\ env.rev # req[c].seen.rev
GuardFires(c) == req[c].input.guarded /\ env.rev # etag[c].rev
PlannedBy(c) == PlannedRows(req[c].input, req[c].snap, req[c].seen.id)

CommitWrite(c) ==
    /\ AtWriteCommit(c)
    /\ Present(req[c].seen.id)
    /\ ~GuardFires(c)
    /\ ~Collides(PlannedBy(c))
    /\ ApplyWrite(c)

WriteRefusedByGuard(c) ==
    /\ AtWriteCommit(c)
    /\ Present(req[c].seen.id)
    /\ GuardFires(c)
    /\ Fail(c, "PRECONDITION_FAILED")

(* Mutation: the lost batch is sent again as it was. *)
ResendSameBatch(c) ==
    /\ AtWriteCommit(c)
    /\ Present(req[c].seen.id)
    /\ ~GuardFires(c)
    /\ Collides(PlannedBy(c))
    /\ UNCHANGED vars

WriteRaceLost(c) ==
    /\ AtWriteCommit(c)
    /\ Present(req[c].seen.id)
    /\ ~GuardFires(c)
    /\ Collides(PlannedBy(c))
    /\ IF req[c].attempt = 0
       THEN /\ req' = [req EXCEPT ![c].pc = "read", ![c].attempt = 1, ![c].snap = NoState]
            /\ UNCHANGED <<env, versions, current, audit, etag, answer>>
       ELSE Fail(c, "VERSION_CONFLICT")

(* The environment is gone: the guard and the update match no row, and the *)
(* first inserted row has no parent.  A plan without rows commits its      *)
(* audit row alone.                                                        *)
WriteOrphaned(c) ==
    /\ AtWriteCommit(c)
    /\ ~Present(req[c].seen.id)
    /\ IF PlannedBy(c) # {}
       THEN Fail(c, "INTERNAL")
       ELSE /\ audit' = WriteAudit(req[c].input, req[c].snap)
            /\ Reply(c, "OK", Bumped(c))
            /\ UNCHANGED <<env, versions, current, etag>>
----------------------------------------------------------------------------
(* The batches of a rollback and of a rename.  Neither is retried, and a  *)
(* constraint it trips is not classified: the caller sees INTERNAL.       *)

(* Mutation: a rename leaves no tombstone.                                *)
RowsWithoutTombstone(c) ==
    LET r == req[c]
        v == NextVersion(r.snap, r.input.new)
    IN  IF r.input.kind = "rename"
        THEN {[key |-> r.input.new, version |-> v, op |-> "rename",
               blob |-> Seal(r.seen.id, r.input.new, v, r.value)]}
        ELSE {}
MovedRows(c) ==
    LET r  == req[c]
        id == r.seen.id
    IN  IF r.input.kind = "rollback"
        THEN LET v == NextVersion(r.snap, r.input.key)
             IN  {[key |-> r.input.key, version |-> v, op |-> "rollback",
                   blob |-> Seal(id, r.input.key, v, r.value)]}
        ELSE LET v == NextVersion(r.snap, r.input.new)
             IN  {[key |-> r.input.new, version |-> v, op |-> "rename",
                   blob |-> Seal(id, r.input.new, v, r.value)],
                  Tombstone(r.snap, r.input.old)}

AtMove(c, kind) == req[c].pc = "commit" /\ req[c].input.kind = kind

(* The live row is updated by key: no row matches when the key is deleted. *)
CommitRollback(c) ==
    LET k == req[c].input.key
    IN  /\ AtMove(c, "rollback")
        /\ Present(req[c].seen.id)
        /\ ~Collides(MovedRows(c))
        /\ versions' = versions \cup MovedRows(c)
        /\ current' = IF k \in Live
                      THEN [current EXCEPT ![k] = NextVersion(req[c].snap, k)]
                      ELSE current
        /\ Bump
        /\ audit' = Audited("secret.rollback", {}, {k}, {})
        /\ Reply(c, "OK", Bumped(c))
        /\ UNCHANGED etag

(* INSERT INTO secrets for the new key: UNIQUE(environment_id, key). *)
CommitRename(c) ==
    LET old == req[c].input.old
        new == req[c].input.new
    IN  /\ AtMove(c, "rename")
        /\ Present(req[c].seen.id)
        /\ ~Collides(MovedRows(c))
        /\ new \notin Live
        /\ versions' = versions \cup MovedRows(c)
        /\ current' = [current EXCEPT ![new] = NextVersion(req[c].snap, new), ![old] = 0]
        /\ Bump
        /\ audit' = Audited("secret.rename", {new}, {}, {old})
        /\ Reply(c, "OK", Bumped(c))
        /\ UNCHANGED etag

MoveFailed(c) ==
    /\ AtMove(c, "rollback") \/ AtMove(c, "rename")
    /\ \/ ~Present(req[c].seen.id)
       \/ Collides(MovedRows(c))
       \/ req[c].input.kind = "rename" /\ req[c].input.new \in Live
    /\ Fail(c, "INTERNAL")
----------------------------------------------------------------------------
(* The environment itself.  Deleting cascades to both tables; a recreated *)
(* slug is a new row, whose revision starts again at zero.                *)

CommitDeleteEnv(c) ==
    /\ req[c].pc = "deleting"
    /\ IF Present(req[c].seen.id)
       THEN /\ env' = [env EXCEPT !.exists = FALSE]
            /\ versions' = {}
            /\ current' = [k \in Key |-> 0]
       ELSE UNCHANGED <<env, versions, current>>
    /\ audit' = Audited("environment.delete", {}, {}, {})
    /\ Reply(c, "OK", 0)
    /\ UNCHANGED etag

CreateEnv(c, in) ==
    /\ in.kind = "create_env"
    /\ req[c].pc = "idle"
    /\ IF env.exists
       THEN Fail(c, "CONFLICT")
       ELSE /\ env.id < MaxEnv
            /\ env' = [exists |-> TRUE, id |-> env.id + 1, rev |-> 0]
            /\ audit' = Audited("environment.create", {}, {}, {})
            /\ Reply(c, "OK", 0)
            /\ UNCHANGED <<versions, current, etag>>
----------------------------------------------------------------------------
Start(c) ==
    \/ ResolveMissing(c)
    \/ \E in \in Inputs :
         \/ StartWrite(c, in)
         \/ StartOversized(c, in)
         \/ StartMove(c, in)
         \/ StartList(c, in)
         \/ StartDeleteEnv(c, in)
         \/ CreateEnv(c, in)

Step(c) ==
    \/ ResolveListing(c)
    \/ ReadListing(c)
    \/ ReadState(c)
    \/ ReadSource(c)
    \/ CommitWrite(c)
    \/ WriteRefusedByGuard(c)
    \/ WriteRaceLost(c)
    \/ WriteOrphaned(c)
    \/ CommitRollback(c)
    \/ CommitRename(c)
    \/ MoveFailed(c)
    \/ CommitDeleteEnv(c)

Next == \E c \in Client : Start(c) \/ Step(c)

Spec == Init /\ [][Next]_vars

(* An invocation the runtime keeps running reaches its answer: every await *)
(* of a handler is a D1 call, and D1 answers.  Clients need not ask.       *)
FairSpec == Spec /\ \A c \in Client : WF_vars(Step(c))
----------------------------------------------------------------------------
(* Properties. *)

TypeOK ==
    /\ env \in [exists: BOOLEAN, id: Nat, rev: Nat]
    /\ versions \subseteq VersionRow
    /\ current \in [Key -> Nat]
    /\ audit \in AuditRow
    /\ req \in [Client -> Request]
    /\ etag \in [Client -> [held: BOOLEAN, id: Nat, rev: Nat, listing: [Key -> Nat]]]
    /\ answer \in [Client -> Answer]

(* Every live key points at the newest row of its history, which carries a *)
(* ciphertext that opens under exactly that key and version: a read never  *)
(* finds a tombstone, a superseded value or a blob sealed for another row. *)
LiveIsLatest ==
    \A k \in Live :
        /\ VersionsOf(k) # {}
        /\ current[k] = Max(VersionsOf(k))
        /\ \A r \in versions :
              r.key = k /\ r.version = current[k] => Opens(r.blob, env.id, k, current[k])

(* The versions of a key are 1..n with one row each, through deletes,      *)
(* recreations, renames onto old names, rollbacks and lost races: a        *)
(* version number never names two values and never goes missing.           *)
OneRowPerVersion ==
    \A k \in Key :
        /\ VersionsOf(k) = 1..Cardinality(VersionsOf(k))
        /\ \A r, s \in versions : r.key = s.key /\ r.version = s.version => r = s

(* The write of c commits in this step. *)
Commits(c, kind) ==
    /\ req[c].pc = "commit"
    /\ req[c].input.kind = kind
    /\ req'[c].pc = "idle"
    /\ answer'[c].code = "OK"

(* A conditional write never loses an update: when it commits, the         *)
(* environment holds exactly what the listing that carried the ETag showed *)
(* and, in replace mode, exactly the keys of the body afterwards.          *)
GuardedWriteLosesNothing ==
    [][\A c \in Client :
         Commits(c, "write") /\ req[c].input.guarded /\ Present(etag[c].id)
           => /\ current = etag[c].listing
              /\ req[c].input.mode = "replace" => Live' = DOMAIN req[c].input.set]_vars

(* The audit row of a write or a rename, computed from a read made earlier, *)
(* is an exact account of the mutation it is committed with: replaying the  *)
(* rows of an environment gives its live keys.                              *)
AuditDiffIsExact ==
    [][env'.id = env.id /\ env'.rev # env.rev
         /\ audit'.action \in {"secret.write", "secret.rename"}
         => /\ audit'.added \cap Live = {}
            /\ audit'.changed \cup audit'.removed \subseteq Live
            /\ Live' = (Live \cup audit'.added) \ audit'.removed]_vars

(* An answered revision is never ahead of the environment's, and when it   *)
(* equals it the write met no other between its first read and its batch,  *)
(* so a client may use it as the condition of its next write.              *)
AnsweredRevIsSafe ==
    [][\A c \in Client :
         Commits(c, "write") /\ Present(req[c].seen.id)
           => /\ answer'[c].rev <= env'.rev
              /\ answer'[c].rev = env'.rev => req[c].snap = ReadKeyState(env.id)]_vars

(* Every request is answered: one retry at most, and no await is for good. *)
EveryRequestAnswered == \A c \in Client : req[c].pc # "idle" ~> req[c].pc = "idle"

(* The store is the append-only one of VersionedStore: the number a write  *)
(* computed from an earlier read is, whenever its batch commits, the one   *)
(* after the newest, and the value a move opened earlier is still the one  *)
(* its source has.                                                         *)
Contents(k, i) == IF i \in VersionsOf(k) THEN RowAt(k, i).blob.plain ELSE NoValue
Promise == INSTANCE VersionedStore WITH
    Deleted <- NoValue,
    exists  <- env.exists,
    rev     <- IF env.exists THEN env.rev ELSE 0,
    history <- [k \in Key |-> [i \in 1..Cardinality(VersionsOf(k)) |-> Contents(k, i)]],
    live    <- Live
ImplementsVersionedStore == Promise!Spec
-----------------------------------------------------------------------------
(* The inductive invariant behind the safety properties: what the tables    *)
(* satisfy, and what a request in flight may still rely on of the state it  *)
(* read before other requests ran.                                          *)

(* The rows of a key are 1..n, one each; a live key names the n-th, which  *)
(* opens as itself; without the environment there is no row at all.        *)
Dense  == \A k \in Key : VersionsOf(k) # {} => \E n \in VersionsOf(k) : VersionsOf(k) = 1..n
Unique == \A r, s \in versions : r.key = s.key /\ r.version = s.version => r = s
Newest == \A k \in Live : VersionsOf(k) = 1..current[k]
Opened == \A r \in versions :
            r.key \in Live /\ r.version = current[r.key] => Opens(r.blob, env.id, r.key, r.version)
Absent == ~env.exists => versions = {} /\ Live = {}
Tables == Dense /\ Unique /\ Newest /\ Opened /\ Absent

(* A request is where its kind can be, was not refused on its snapshot,    *)
(* holds the condition or the value it needs, and addresses no environment *)
(* row younger than the present one.                                       *)
WellFormed(c) ==
    /\ req[c].pc \in {"read", "source", "commit"} => req[c].input.kind \in {"write", "rollback", "rename"}
    /\ req[c].pc = "source" => req[c].input.kind # "write"
    /\ req[c].pc \in {"source", "commit"} => Refusal(req[c].input, req[c].snap) = "none"
    /\ req[c].pc = "commit" /\ req[c].input.kind # "write" => req[c].value \in Value
    /\ req[c].pc \in {"read", "commit"} /\ req[c].input.kind = "write" /\ req[c].input.guarded
         => etag[c].held
    /\ req[c].seen.id <= env.id
    /\ etag[c].id <= env.id
    /\ req[c].pc # "idle" => etag[c].id <= req[c].seen.id

(* Nothing of what it read has been taken back: the versions it saw are    *)
(* still there, a key without a newer one is as live as it was, and until  *)
(* the revision moves the whole snapshot is exact.                         *)
Grounded(c) ==
    Present(req[c].seen.id) /\ req[c].pc # "idle" =>
        /\ req[c].seen.rev <= env.rev \/ req[c].pc = "list_resolved"
        /\ req[c].pc \in {"source", "commit"} =>
             /\ \A k \in Key :
                  /\ 1..req[c].snap[k].max \subseteq VersionsOf(k)
                  /\ VersionsOf(k) = 1..req[c].snap[k].max => (req[c].snap[k].live <=> k \in Live)
             /\ req[c].seen.rev = env.rev => req[c].snap = ReadKeyState(env.id)

(* A revision a client holds is at most the present one, and as long as it *)
(* is the present one, so are the listing that came with it and the        *)
(* snapshot of a write made on its condition.                              *)
Conditional(c) ==
    Present(etag[c].id) =>
        /\ etag[c].rev <= env.rev
        /\ etag[c].held /\ etag[c].rev = env.rev => etag[c].listing = current
        /\ /\ etag[c].rev = env.rev
           /\ Present(req[c].seen.id)
           /\ req[c].pc \in {"source", "commit"}
           => req[c].snap = ReadKeyState(env.id)

Flight == \A c \in Client : WellFormed(c) /\ Grounded(c) /\ Conditional(c)

IInv == TypeOK /\ Tables /\ Flight

(* The value a rollback or a rename opened is, as long as its environment  *)
(* lives, the one of the row it was opened from: rows are only added.      *)
Carries(c) ==
    LET s == SourceOf(req[c])
    IN  (AtMove(c, "rollback") \/ AtMove(c, "rename")) /\ Present(req[c].seen.id) =>
            /\ s.version \in VersionsOf(s.key)
            /\ req[c].value = RowAt(s.key, s.version).blob.plain

Carried == \A c \in Client : Carries(c)
=============================================================================
