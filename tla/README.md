# Formal models of prick

prick is a self-hosted secrets manager. A Cloudflare Worker (`packages/app`: SvelteKit and Hono over D1)
keeps the secrets of environments, encrypted, and decides who may read and write them. A Rust command line
(`crates/`), an MCP server (`packages/mcp`), a GitHub action (`action/`) and a web interface are its
clients. This directory holds TLA+ models of them, the TLC runs that check the models on small instances,
and proofs that TLAPS checks for every instance.

Everything is translated from the code. Where the code and its documentation disagree the model follows the
code, and the disagreement is listed under *Findings*.

## 1. Inventory

Every request of the Worker is one invocation: it shares nothing with the others but D1 and a few
per-isolate caches. Each `await` on D1 (or on Cloudflare) is a point where any other request may run. One
`db.batch([...])` is one D1 transaction: it applies whole, or fails whole on the first constraint. There are
no locks. So the correctness of the Worker rests on what its batches check in SQL, and the hard behaviours
are everything a handler believed when it composed the batch. `prk` has no daemon: commands in several
terminals share files, one of them under a lock file. The pages of the web interface run one handler at a
time, and its answers come back in any order.

| component | state | operations | what is hard | what makes it correct |
| --- | --- | --- | --- | --- |
| secret store: `core/secrets`, `secret-moves`, `secret-state`, `secret-reads` | `environments.rev`, `secrets`, `secret_versions`, `audit_log` | write (merge, replace, import), rollback, rename, list with ETag | plans are made from earlier reads; one retry; `If-Match` is checked on a read and again by SQL; rows belong to an environment that may be deleted | versions are dense and unique, the live row is the newest version, a conditional write loses nothing, the audit row says what the batch did |
| key ring: `crypto/keyring`, `core/keyring` | `MASTER_KEY`, `MASTER_KEY_OLD` per deploy; `kid` and envelope per row; `keyring_state` | deploy keys, rekey a page, status | requests of an old deploy finish under the old ring; two rotations overlap; an administrator removes a key on the strength of an answer | no row is ever sealed under a key that is gone; "0 remaining" and "safe to remove" are true; a rekey never changes a value |
| access: `auth/bootstrap`, `auth/authorize`, `core/identities`, `core/groups`, `core/permissions` | `identities`, `grants`, `groups`, `group_members`, `group_grants`, `BOOTSTRAP_ADMINS` | authenticate, self-heal, grant, revoke, create and delete groups, memberships, disable, explain | a snapshot is read once and used to the end; the last-administrator guard counts before the delete; rows vanish between lookup and insert; grants expire | one row per holder and scope, no orphans, nobody gains a role but by a request authorised for it, explanation and resolver agree |
| service tokens: `core/service-tokens`, `service-token-reconcile`, `cloudflare/access` | Cloudflare's tokens, `service_tokens`, `identities` | create, rotate, refresh, list, revoke, adopt, reconcile | two systems without a common transaction; compensation may fail; reconciliation deletes what it cannot name; a secret is answered once | a token no row names is eventually removed, a revocation is final, a recorded token is never removed, a secret handed out is on record and works |
| token verification: `auth/access`, `claims`, `jwks` | cache of signing keys, per isolate and in the Cache API | verify, refresh keys | a late failing fetch writes an older entry over a newer one; claims come in any form | a key Access has rotated out stops verifying; an assertion is accepted while it is valid, for one identity |
| display names: `auth/directory` | `identities.display_name` | fetched behind the answer | an administrator sets a name meanwhile | only a look that began before overwrites it |
| HTTP layer: `http/app`, `middleware`, `csrf`, `hooks.server` | the instance id, per isolate | guard, authenticate, validate, hand over | the order of the guards; a read shared by concurrent requests | a refused request changes nothing; an instance id once told is told by all later answers |
| projects and environments: `core/projects`, `core/environments` | `projects`, `environments` | create, rename, delete with cascades | found by slug, written by id; a deleted slug is created again | the log replays to what is there; what is answered is so |
| audit log: `core/audit` | `audit_log` | append (in the batch of what it records), page, filter | ids are minted before their batches, so rows appear out of id order | a page never repeats a row or shows one outside the reader's scopes, and none is skipped |
| envelope, AAD, codecs: `crypto/envelope`, `aad`, `codec` | the text of a column | seal, open | length prefixes, unused bits, two formats, two alphabets | a value opens for its own row under its own key, or not at all |
| dotenv: `core/dotenv`, `client/dotenv`, `mcp/dotenv-keys` | none | parse, print, scan | quoting and escapes, three implementations | parse after print is the identity; the two readers agree |
| web interface: secrets page, service-token page, import dialog | the state of a tab | reveal, edit, save, import, preview, rotate | calls answered in any order, or to a page that has gone; a shared revision | no superseded value stays, a save replaces what was seen, an import does what its preview showed |
| `prk` profiles: `prick-auth/profiles.rs`, `prick-core/profile.rs` | `config.toml` and its lock file | edit, select, pin, adopt | takeover of a stale lock; a guard removes any lock it finds | two changes both persist; a name keeps its meaning |
| `prk` sessions: `prick-auth/session.rs`, `store.rs`, `oauth.rs`, `callback.rs` | credential files | login, refresh, logout | no lock; several commands share one rotating refresh token; three threads wait for a redirect | a stored session is live, none is lost, a login ends by its deadline |
| `prk` API client: `prick-api` | none | send, resend, classify | an edge that answers in the server's place, or after the client has gone | what is reported is so; what mints is applied once |
| `prk run`: `prick-exec`, `prk/commands` | the child | start, signals, escape | two platforms; `cmd.exe` | the program gets its secrets or is not started, and does not outlive prk |
| MCP server: `packages/mcp` | pin, verified | four kinds of tools | concurrent calls, a name that moves to another deployment | writes land at the pinned deployment |
| GitHub action: `action/` | the runner's files | install, inject | values in a line format with drawn delimiters | the values arrive, and none unmasked |
| releases: `scripts/`, `.github/workflows` | tags, npm, GitHub, buckets | cut, publish, rerun | two cuts at once, a job that fails between two registries | a number is released once; what is live is complete |
| npm launcher: `packages/npm` | none | run, relay | signals | it ends as its program ended |
| statement chunking, shared types, documentation site | none | - | - | - |

`PROJECT.json` lists the same components with their status, and every hazard at the line where it bites.

## 2. The modules

| module | what it is |
| --- | --- |
| `SecretStore` | the secret write path over one environment slug, one action per stretch between two awaits |
| `VersionedStore` | what the store promises: an append-only history per key and a live set, changed atomically; `SecretStore!ImplementsVersionedStore` is the refinement mapping |
| `SecretStoreProofs` | the theorems (the inductive invariant `IInv` stands in `SecretStore`) |
| `MCSecretStore` | the small instances: request bodies, in themes; and, as a theme of its own, the column of a value |
| `KeyRing`, `KeyRingProofs` | a rotation of the master key, operator included, over the rows of `secret_versions`; the inductive invariants (three, by how much the operator is assumed to do); the theorems |
| `Access` | identities, groups, grants, the requests that change them, and the resolver; with its inductive invariant `IInv` |
| `ServiceTokens`, `ServiceTokensProofs` | service tokens over Cloudflare and D1: create, adopt, revoke, reconcile, enable and disable; the theorems (`BaseInv` and `PromptInv` stand in `ServiceTokens`); which operations meet in two slots |
| `Resources` | projects and environments: found by slug, written by id, with the audit rows of both |
| `AuditLog` | the ids of audit rows, and a reader who pages through them |
| `TokenSecrets` | the secret of one service token: made, rotated, leaked, expired; and listed, page by page, among the tokens of an account |
| `MCAppServer`, `AppServerProofs` | the four parts of the Worker beside the secrets, one scene each, with their small instances; the theorems about all four |
| `SigningKeys` | the signing keys of Access as one isolate sees them |
| `Requests` | the guards of the API and the pages, the shared instance id, and a handler behind them, on all routes |
| `Credentials` | what an assertion must say, whom it names, and the display name fetched behind the answer |
| `MCRequestPath`, `RequestPathProofs` | the three as scenes of a request's way; their invariants and theorems |
| `ProfileConfig` | the edits of `prk`'s `config.toml` and the choice of a profile, as pure operators |
| `Prk`, `PrkProofs`, `MCPrk` | commands in several terminals of one machine: config, lock, credential files (the inductive invariant `IInv` stands in `Prk`); theorems, instance |
| `ApiCalls`, `SignIn`, `RunChild`, `CmdLine` | how a command of `prk` ends: the loop that sends a request, a login, a program and its environment, an argument on its way to a batch file |
| `SecretsScreen`, `SecretsScreenProofs` | the secrets of one environment in one browser tab; its invariant and theorems |
| `TokenScreen`, `ImportDialog` | the screen of service tokens, and the import with its preview |
| `Launcher`, `Mcp`, `ReleaseTags`, `Publish` | npm's launcher; the MCP server; the cutting of release tags; the release workflow |
| `MCClients`, `ClientsProofs` | the four commands, these four and the two screens, one scene each; their invariants and theorems |
| `Dotenv`, `Action`, `Envelope` | `.env` readers and writer; the GitHub action; the column of a value |
| `MCTools` | what TLC alone checks, one scene each: the first two of these; and the calls and logins of `prk`, and the store, once more, with fairness |

A module whose name begins with `MC` and hosts several parts has a variable `scene`, chosen at the start and
never changed: the part of that name takes steps, the state of the others stays what it is. So its
behaviours are those of the parts, one at a time, and the parts share one run. Parts that do share state are
one module (a request's key ring and the rows it seals, config and credential files of `prk`).

Some operators stand beside the definition they resemble and are used by nothing: each is a plausible bug
(its comment or its name says which). `PROJECT.json` "mutants" puts each in the place of the definition it
distorts, and the property named there must then fail.

### SecretStore

State: `env` (the row of the slug: presence, id, `rev`), `versions` (the table `secret_versions`), `current`
(`secrets.current_version` per key, 0 where there is no row), `audit` (the newest success row), `req[c]`
(what the handler in slot `c` holds in memory), and at the client `etag` (its last listing) and `answer`. A
slot runs one request at a time and is used again; two slots give every interleaving of two concurrent
requests, and any sequence.

A write (`core/secrets.ts`) is `Resolve` (the environment is looked up, the id kept), `ReadState`
(`readKeyState`, the plan and its refusals), `CommitWrite` (the batch: guard row, revision bump, versions,
live rows, audit). `WriteRefusedByGuard` is the batch that the SQL guard aborts; `WriteRaceLost` is the
unique constraint, retried once from a new read and then answered 409; `WriteOrphaned` is the foreign key of
a deleted environment. Rollback and rename (`secret-moves.ts`) also read their source row (`ReadSource`),
and their batch is not retried (`MoveFailed`). `ResolveListing` and `ReadListing` are the two reads behind
the ETag. `CommitDeleteEnv` cascades, `CreateEnv` makes a row with a new id and `rev` restarting.

A ciphertext is the pair of its plaintext and of what its AAD binds it to (`Seal`, `Opens`), so a value
copied without being sealed again does not open (that the AAD binds is in `Envelope`, and so is the one
value that opens otherwise than it was sealed, which starts with a byte order mark). Left out: descriptions,
actors, timestamps, export, reveal and history reads (they change nothing but an audit row), the import's
dry run, and the metadata of an environment.

### KeyRing

State: `config` (the deployed keys), `rows` (kid column and envelope of each ciphertext), `recorded`
(`keyring_state`), `req`, `answer`, `faults`. A request takes its ring from the configuration it starts
under (`Enter`) and keeps it: that is `hooks.server`/`http/app` deriving the ring before any route runs.
`Insert` stands for any write that seals, `ReadRow` for any that opens, `StartMove`/`OpenSource` for
rollback and rename. A rekey is asked for (`StartRekey`), its page read and opened (`OpenPage`), the
resealed rows written by id (`CommitPage`) and the remaining rows counted (`CountRemaining`), each a step of
its own; `StartStatus`, `TakeCensus`, `AnswerStatus` are `getKeyringStatus`. `Die` stops a request between
two awaits.

The operator of `docs/guides/key-rotation.md` is part of the model: `PutOld` and `PutActive` are the two
secrets set one after the other, `RemoveOld` acts on a green status, `RestoreOld` puts a key back. Two
constants say how much is assumed of the operator. `Patient`: the operator asks for a rekey or a status only
when the requests of earlier deploys have ended, and heeds no answer that was asked for before a deploy. The
guide does not ask for either: it is what an operator has to do beyond it, and without it
`RemovingOnGreenLosesNothing` fails (see *Findings*). `Careless`: the key may be removed without the signal
(`RemoveTooEarly`).

A key is its key id; the HKDF derivation (and a collision of two ids), the legacy v0 envelope and rows
without a kid, which this code cannot write, are left out.

### Access

State: the tables (`identities`, `groups`, `members`, `grants`), `clock`, `boot` (`BOOTSTRAP_ADMINS` as
deployed) and `req`. A request is `Arrive`, `UpsertIdentity`, `ProbeGrant`, `Heal` (bootstrap administrators
with no grant), `ReadSnapshot` (one read of all that follows from the identity), then `Find` (or `NotFound`,
`Forbidden`), for a removal `Inspect` and `CountAdmins` (or `LastAdmin`), and its batch, which may fail on a
foreign key or a row that is taken. `Snapshot`, `Can`, `ProjectVisible` and `ScopeVisible` are
`authorize.ts`; `Allowed` is what each route requires; `Explained` is `permissions.ts`, a second
implementation of the resolver. `Tick` expires grants, `Deploy` changes `BOOTSTRAP_ADMINS`.

`grants` and `group_grants` are one set told apart by the holder. Projects and environments do not come and
go, so their cascades are left out, as are display names, list filtering, audit rows, and `updateIdentity`'s
look at revoked service tokens (it is in `ServiceTokens`). The lookups of one handler before its batch are
one step, and so are a request's arrival and the count whether there is any administrator.

### ServiceTokens

State: `cf` (Cloudflare's tokens: not yet made, live, removed by prick, or deleted in the dashboard; whether
the name is this deployment's, and the time in it), `rows` (`service_tokens`), `identity` (of each token's
client id), `retired` (how many audit rows retire it), `clock`, `req`, `faults`. Each call of Cloudflare and
of D1 is a step.

`StartCreate`, `Issue`, `Lookup`, `Record` are `createServiceToken`, and `Compensate` is its delete when the
batch is refused or fails. `StartAdopt`, `FindToken`, `CheckManaged` lead to the same two last steps.
`StartRevoke`, `RequireActive`, `GuardLastAdmin`, `Retire` (the batch with `revokedGuard`; `RetireRefused`
when it aborts), `Remove` are `revokeServiceToken`. `StartReconcile`, `List`, `ReadRows` make the entries,
and each is repaired in turn (`After`, in any order): an orphan by `LookAgain` and `Remove`, an incomplete
revocation by `Remove`, a missing token by `AskAgain`, `GuardLastAdmin` and `Retire`. `CheckUnrevoked` and
`Update` are `updateIdentity`. `Fail` makes an await raise, `Die` ends a request, `ListMissesOne` is a
listing over pages that shift; `Authenticate` is a token made by hand calling prick, `DeleteInDashboard` an
administrator of the account.

What `assertNotLastAdminAfter` counts is in `Access`; here it lets pass or refuses. D1 applies a batch or
raises, never both: a batch that commits and whose answer is lost is not modelled, and there `Compensate`
would remove a recorded token. Left out: the grant in the batch of a creation, names with the prefix and no
time, tokens of other deployments (which reconcile leaves alone). Rotate, refresh and the list are in
`TokenSecrets`.

### Resources, AuditLog, TokenSecrets

`Resources`: `projects`, `environments`, `rows` (the audit log in the order of commits), and per request its
command and how far it has come. `Begin`, `AssertRole`, `RequireProject`, `RequireEnvironment` find by slug;
`Count`, `List` read; `CreateProject`, `UpdateProject`, `DeleteProject`, `CreateEnvironment` and
`DeleteEnvironment` are the batches, each with its audit row, written by the id that was found; `ReadBack`
is the read after `updateProject`, by slug; `Fail` is a statement that raises. Roles are global here; what a
scoped one sees is in `Access`.

`AuditLog`: `Build` makes a row and its id in an isolate (a timestamp and a counter, never backwards),
`Commit` and `Abort` are its batch; `Ask`, `ResolveView`, `Filter` and `Select` are the three reads of a
page, between which grants (`Revoke`) and environments may change; `AskForMore` sends the cursor.
`reader.old` are the rows that were there at the first page, `reader.lost` that the page was refused.

`TokenSecrets`: `token` at Cloudflare (state, current and previous secret, enabled, leak), `record` (its
row), `trail` (the audit rows), `asked` (each request). `Create`, `GetBefore`, `Rotate`, `Enable`, `Record`,
`Look` are creation and rotation with the steps after a failure; `Refresh` and `Audit` extend a lifetime;
`Retire`, `Remove` are a revocation; `ReadRows` and then `List`, a step per page, are the list. `account` is
what else the account holds, `ahead` of this token and `behind` it, and how many Cloudflare puts on a page;
`listing` is how far a request has come; `AddOther` and `RemoveOther` are the account changing between two
pages. `Listed` is the loop over an account that nobody touches, as a pure operator. `Leak`,
`DisableInDashboard`, `DeleteInDashboard`, `GraceEnds`, `Fail`, `LoseAnswer`, `Die` are the world.

### SigningKeys, Requests, Credentials

`SigningKeys`: what a request does between two waits for the network is one step, since JavaScript runs one
thing at a time. `FindCached`, `RefuseUnknown`, `StartRefetch`, `StartFetch` are the four ways a token finds
the entry; `Serve` is an answer through Cloudflare's edge cache, as published at some time within `EdgeTtl`;
`Land` writes it, `Fail` writes back the entry that was held; `Recycle` is an isolate that goes.

`Requests`: `Arrive` is everything up to the first statement: the guards in the order of `http/app.ts` or of
`hooks.server.ts` (`Gates`, the first that refuses answers), on any of the routes, each a record of what
matters of it (method, whether it writes, what it makes of `If-Match`, its body). `AssertAdminsConfigured`,
`Identify`, `Hydrate` are the statements that authenticate, `ReadInstance` joins or starts the isolate's one
read of its instance id (`Evaluate` finds it, `Settle` answers all who wait), `Handle` is the handler,
`Fail` a statement that raises anywhere, `Migrate` the migration that makes the row. `deployment` is what is
wrong with the bindings, if anything.

`Credentials`: `Arrive` takes an assertion from header or cookie and verifies form, algorithm, key, issuer,
audience, times and claims under the deployment's settings; `UpsertIdentity`, `Snapshot`,
`FetchAccessDisplayName`, `WriteName` (and `Cancel`, the runtime ending what runs behind an answer) follow;
`Rename` is an administrator. A signature is the key and the algorithm that made it.

### ProfileConfig and Prk

`ProfileConfig` is pure, as the code is: `Valid`, the edits (`CanAdd`/`Add`, `CanRename`/`Rename`,
`CanForget`/`Forget`, `Remove`, `SetDefault`), and the choice of a profile (`Through`, `ByName`, `ByUrl`,
`ByDefault`, `ByInstance`, `FromProject`, `Select`). A server is its normalised URL, a credential file a
number, 0 for the file of builds that knew no profiles. `HostNames` bounds the names made from a URL to two;
a login or a hand-over that would need a third is not begun (`Nameable`), as prk tries as many as it takes.

`Prk`: `config` (`config.toml`), `lock`, `files` (the credential files), `live` (refresh tokens the servers
honour), `proc` (what each process holds). A step is one access to a shared file or one answer of a server.
`StartEdit` ... `StartResolve` are the commands up to there; `UpdateLock`, `JudgeStale`, `TakeOver`,
`GiveUp`, `ReadConfig`, `WriteConfig`, `Unlock` are `ProfileStore::update` under its lock file;
`LoadSession`, `Refresh`, `SaveRenewed`, `Verify` a command that uses a session; `SignIn`, `StoreSession` a
login (its wait is in `SignIn`), `TakeSession`, `Revoke`, `ClearSession` a logout or a removal. `Die`,
`LoseRenewal`, `AgeLock`, `OlderBuildSignsIn`, `Redeploy` are the world. `calm`, `trouble`, `crowded` and
`meant` are history: they say under which circumstances a property is claimed.

### ApiCalls, SignIn, RunChild, CmdLine

`ApiCalls`: a command (its effect: read, write, guarded write, create, delete, mint; whether its answer is
read as a document; whether it is never resent), the `flight` of requests, the `reply`. `Serve` is the
Worker, `ServeInVain` with the answer lost, `ServeLate` after the client has gone, `Intercept` an edge that
answers in its place, `Vanish` a request that never arrives; `Receive`, `Expire`, `Break`, `Refuse` what the
client makes of it, with `classify.rs` as the table of outcomes.

`SignIn`: the command (`Probe`, `ReadResource`, `ReadServer`, `Bind`, `Register`, `Receive`, `Exchange`,
`Check`, `Revoke`, `Save`, `Record`), the loopback thread (`Accept`, `Serve`, `ReadExpires`, `GiveUp`,
`Dribble`) and the pasting thread share a channel; `Connect`, `Paste`, `Consent` are a browser and a person;
`Tick` is the clock.

`RunChild`: `Export` classifies the names, then on Unix `Exec`, on Windows `Resolve`, `InstallHandler`,
`CreateJob`, `Spawn`, `Assign`, `Wait`; `CtrlC`, `Killed`, `ProgramStarts`, `ProgramExits` are the world.
`CmdLine` escapes an argument for `cmd.exe` and reads it back as `cmd.exe` and the program would.

### The web interface

`SecretsScreen`: a call is `Serve`d, its list (`ListSecrets`) and environment (`GetEnvironment`) read on
their own, and `Answer`ed, in any order or not (`Fail`); the controller's `rows`, `seen` (its `rev`),
`busy`, `editor`, and the store of revealed values `shown` with its `timer` (`Expire`, `Sweep`), which
outlives the page; `Other` is somebody else's write. A value is the revision that wrote it.

`TokenScreen`: dialogs that can be closed and opened again while a call of theirs is on its way, and the
panel that holds the only copy of a secret. `ImportDialog`: `Preview`, `Apply`, `Serve`, `Previewed`,
`Applied`, while `Type`, `ChooseFile`, `Switch`, `CloseDialog`, `OtherWrites`, `GetEnvironment` happen; it
keeps what the preview `promised` and whether it is `loose`, that is whether something the dialog does not
watch has changed.

### What stands around

`Mcp`: `Begin` is a tool call, `Deliver`, `Intercept`, `Receive` its requests to whatever deployment answers
(`Move`), `Expire` its deadline and `Break` a connection that fails before or after delivery. What answers a
failed write may repeat its value in any field of the error (`Echoes`), of which `ScrubEchoedValue` cleans
two; the pin is verified once, by the first answer that names the instance. `Dotenv`: three readers and
writers over texts of symbols, a symbol for each character the code treats in its own way; it and `Action`
are written with RECURSIVE operators and only model-checked. `Action`: `Stage`, `Verify`, `Install`,
`RunPrk`, `PlanInjection`, `Mask`, `Redraw`, `Write`, `WriteNames` are `install` and `inject`, `MoveTag` the
registry, and `Resolves` what a version, a range or a tag means there. `ReleaseTags`: `Fetch`, `Plan`,
`Create`, `Push` and the answers of git. `Publish`: the jobs of the workflow, each step that writes where
others read on its own, `Fail` and `Rerun` from any of them. `Launcher`: `Spawn`, `Finish`, `Return`,
`Raise` and the signals. `Envelope`: `encryptSecretValue`, the older format (`WriteLegacy`), `Meddle` (one
character replaced, cut or appended), `decryptSecretValue`; bytes and base-64 digits have their widths, the
fields of the envelope fewer bytes, and AES-GCM is ideal; `decodeUtf8` drops a leading byte order mark, as
the decoder of `codec.ts` does.

## 3. The runs

Sizes and times are of a run with two workers.

| run | module, configuration | instance | states, time |
| --- | --- | --- | --- |
| `store_safety` | `MCSecretStore`, `SecretStoreSafety.cfg` | 2 keys, 2 values, 2 slots, revisions to 3, slug created twice; and 4 rows, 4 plaintexts, 2 master keys of a column | 398,721, 92 s |
| `KeyRingRotation` | `KeyRing`, `KeyRingRotation.cfg` | 1 client, 2 administrators, 3 keys, 2 rows, pages of 1 and 2; patient operator | 1,420,310, 56 s |
| `KeyRingLive` | `KeyRing`, `KeyRingLive.cfg` | 1 client, 1 administrator, 2 keys, 2 rows, 2 values, 1 crash; impatient, careless operator | 173,611, 48 s |
| `app_server` | `MCAppServer`, `AppServer.cfg` | 4 scenes, see below | 1,586,409, 229 s |
| `service_tokens` | `ServiceTokens`, `ServiceTokens.cfg` | 2 slots, 2 tokens (one made by hand), 3 ticks, 1 failure; prompt requests | 221,509, 54 s |
| `request_path` | `MCRequestPath`, `RequestPath.cfg` | 3 scenes, see below | 4,099,554, 163 s |
| `prk` | `MCPrk`, `Prk.cfg` | 6 scenes, see below | 2,323,103, 103 s |
| `clients` | `MCClients`, `Clients.cfg` | 10 scenes, see below | 1,104,626, 88 s |
| `secrets_screen` | `SecretsScreen`, `SecretsScreen.cfg` | 2 keys, 3 calls, 2 at a time, 1 write of somebody else | 1,760,899, 114 s |
| `tools` | `MCTools`, `Tools.cfg` | 5 scenes, see below | 300,712, 125 s |
| `access_lockout` | `MCAppServer`, `AccessLockout.cfg` | expected violation of `LastAdminIsRefused` | - |
| `KeyRingGreen` | `KeyRing`, `KeyRingGreen.cfg` | expected violation of `RemovingOnGreenLosesNothing` | - |

### What each run checks

*`store_safety`.* `LiveIsLatest`: the live row of a key points at the newest version of its history, which
carries a value that opens for that version. `GuardedWriteLosesNothing`: within one lifetime of the
environment, a write with `If-Match` commits only over the very listing its ETag came with, although the
listing and the ETag were two reads; a replace then leaves exactly what it named. `AuditDiffIsExact`: the
audit row of a batch names what the batch added, updated and deleted, though the names come from an earlier
read. `AnsweredRevIsSafe`: the revision in an answer is never later than the environment's, and if it equals
it no other write came between the read and the batch, so a client may send it as its next condition.
`ImplementsVersionedStore`: the store behaves as the append-only one. `ValuesOpenAsSealed` (`Envelope`): an
altered column is not read as if it were the one written, and a value opens for its row under its key only,
as itself but for a leading byte order mark, which is lost (section 4).

*`KeyRingRotation`.* For an operator who waits until the requests of an earlier deploy have ended, which the
guide does not ask for: `NothingStranded`, no row is sealed under a key that is not loaded, and
`DoneMeansDone`, while an answer "0 remaining" or green stands, no row needs an old key. What the guide
alone gives is the run `KeyRingGreen`.

*`KeyRingLive`.* `ContentsSurvive`: no step changes the plaintext of a stored row. `RotationFinishes`: a
rotation that is pursued ends.

*`app_server`.* `RevocationsTakeWhatWasFound`: the batch of a revocation removes the row that its
administrator found and was let to remove, or nothing, and not the one that the same holder was given at the
same scope since. `AccessChangesByAuthority`: an effective role changes only by the clock, which takes; by a
deploy or a heal, for those `BOOTSTRAP_ADMINS` names; or by the batch of a request whose actor was admin of
all of the scope. `ExclusionIsExact`: the number of administrators counted before a removal is the number
the snapshots find after it. `ExplainAgrees`: the effective-permissions screen says what the resolver does.
`ResourcesAreAsReported`: the audit log, replayed, gives the projects and environments there are; an answer
about one is true; and of a service token, a secret handed out is on record, is nobody else's and works
until somebody does something to the token; a rotation that could not be recorded is explained; "missing"
and "revoked" are so, but for "missing" in a list between whose pages another token was removed, where the
code is wrong (section 4); a list of an account that nobody touches is whole or refused.
`LogIsCompleteAndPrivate`: whoever pages to the end has seen every row that was there when he began, once,
newest first, none outside what he administers, and the ids of an isolate increase whatever its clock does.

*`service_tokens`.* `RecordedTokensSurvive`: prick removes from Cloudflare no token that a creation recorded
and nobody revoked, reconcile included. `RevocationIsFinal`: once a token is revoked, its identity disabled
and no enabling that had looked before is left, that stays so. `DriftIsRepaired`: a token that is revoked
but not removed, or made and never recorded, is gone in the end, unless reconcile takes what is missing for
a mistake and refuses.

*`request_path`.* `AcceptedKeysAreRecent`: a token is accepted on a key published until less than the two
cache lifetimes before the request came, or after the request's own fetch failed. `RefetchesAreTimely`: a
key long published is refused only after a failure within the limit, and refetches for unknown keys keep the
limit while no fetches overlap. `AnswersAreTrue`: a refusal wrote nothing, a write that named a revision was
made against it, an instance id once told is told by every later answer, and a failed read fails those that
waited for it and nobody later. `StrangersTouchNothing`: another site's request changes nothing on any
route, one without a vouched caller is not so much as recorded; what Access issued is accepted exactly while
it is valid, by a clock off by no more than the skew, for one identity; and an administrator's display name
is overwritten only by a look that began before it was set.

*`prk`.* `NamesKeepTheirMeaning`: what was pinned to a name first since it was free is what its profile is
pinned to, across renames, adoptions and sign-ins. `SessionsAreKept`: while nothing dies, a stored session
is live or about to be replaced or cleared by somebody; between commands that did not overlap, no file is
left that nothing can sign out; a login alone on the machine is refused after its session was saved only on
a fresh machine under a name that is not the default. `BothPersist`: a configuration that is written
replaces the one that was read and none written since, unless a lock grew old under its holder.

*`clients`.* `OutcomesAreTrue`: a write reported as done was done, one refused at its first try was not and
never will be. `AppliedOnce`: what mints, or names a revision, is applied at most once.
`LoginsEndAsTheyShould`: only this login's redirect ends its wait; its session is stored, revoked or
reported as lost; the deadline holds, but for a connection that keeps sending. `ProgramsStartCleanAndEnd`: a
program gets the secrets it was to be given and none that prk or a loader would follow unasked, or is not
started; it does not outlive prk, and Ctrl-C is its own; an argument arrives as given, or is refused.
`EndsAsTheProgram` (`Launcher`). `WritesLandWhereSaid` (`Mcp`): with a pin nothing is written before some
answer has named the pinned instance, or elsewhere unless the name moved after that; what a tool says it did
is so, and after a deadline or a broken connection it does not say what it did; a stored value leaves only
by the tool that reveals, the value of a set comes back at most in its error's code or request id, where
nothing replaces it (section 4), and no file outside the workspace is opened. `ReleasesAreComplete`
(`ReleaseTags`, `Publish`): a number is released once; a launcher on npm finds its platform packages, a
release its launcher and archives, a manifest its release; only tags release. `PagesDoAsTheyShow`
(`TokenScreen`, `ImportDialog`): a secret goes only when the user says so or is long away, or for one asked
for before it appeared; an import does what its preview showed, unless something the dialog does not watch
has changed.

*`secrets_screen`.* `NothingOldLingers`: a value on the screen is no older than what the tab knows it has
saved, where the busy set saw every call on the key. `SavesReplaceWhatWasSeen`: a save is refused or
replaces the value its editor was opened with, unless the page's revision moved under it.
`RevealedIsDropped`.

*`tools`.* `WhatIsWrittenReadsBack` (`Dotenv`): the two readers agree on every file the import accepts, an
export is imported as it was. `SecretsArriveAndOnlyThey` (`Action`): the installed `prk` is one whose
provenance was verified; later steps read back what was planned; nothing is written unmasked.
`WhatIsBegunEnds`: each call of `prk` (`ApiCalls!EveryCommandEnds`), each login (`SignIn`), and each request
of the store (`SecretStore!EveryRequestAnswered`): one retry and no more, and an answer in the end.

### Bounds, and why they are enough

- `MaxRev`, `MaxEnv` (`SecretStore`): no request starts once the revision has reached the bound, and the
  slug is created at most `MaxEnv` times. A request already begun may commit beyond `MaxRev`. Three
  revisions are a write, another that races it and a third that reads the outcome of either; two lifetimes
  are what a request of the earlier one needs to meet the later. Two keys are the two ends of a rename, and
  a batch that touches one key and not the other. More slots add no hazard that two do not have: what one
  request can suffer from others is a sequence of their commits, and one slot that is used again produces
  every sequence within the bound.
- Themes (`MCSecretStore!ThemedSpec`): the full product of request bodies is out of reach, so the theme,
  chosen at the start, says which bodies are sent: writes, deletions and replaces; rollbacks and renames
  against writes and deletion of the environment; conditional writes and listings while the slug is
  recreated. Every behaviour is one of `SecretStore`, and the proofs cover all bodies at once. The slots are
  symmetric in this run and in no run with fairness.
- `MaxKeys`, `MaxRows`, `MaxFaults` (`KeyRing`): three keys are two rotations, the second begun before the
  first has drained; two rows make a page of one that is full and hides work, and a page of two that is full
  and hides none. Two administrators page and ask at once.
- `Serial`, `MaxTime` (`Access`, in `app_server`): a holder has at most as many rows at one scope, over
  time, as there are serials; two tell a row from the one that replaces it. One tick separates a grant from
  its expiry. One of the slots administers, the other races it with less, and either identity is bootstrap
  administrator or not.
- `MaxIds`, `MaxErrors` (`Resources`): three requests over one slug and four ids are a project, its
  environment, both deleted and created again, under a request that found the first; one statement fails.
- `Scenes`, `Limit`, `MaxCounter` (`AuditLog`): pages of one row, and up to four rows written, make every
  order of ids, commits and pages; a counter that is full at one makes an isolate run ahead of its clock.
  Each scene gives a reader (of a project, an environment, everything, nothing), what is asked, and what is
  written meanwhile.
- `MaxSecrets`, `MaxEvents`, `MaxFailures` (`TokenSecrets`): three secrets are two rotations, the second
  ending the grace of the first; two events and one failure meet any one request between any two calls.
- `Ahead`, `Behind`, `PerPage`, `PageSize`, `MaxPages`: one token ahead of the one in question and one on a
  page let a list take two pages, with whatever happens between them; up to three may be on a page where
  `ListingsAreWhole` compares all accounts that three pages hold, and one more. Others are made and removed
  only while somebody lists, and count as events.
- `MinAge`, `MaxTime`, `MaxFaults` (`ServiceTokens`): an age limit of two ticks lets one pass while a
  request is in flight, so that the clock moves between any two of its steps; three ticks let what was begun
  at the first or second be judged, and no creation, adoption or revocation begins too late for that
  (`InTime`). One failure is what a compensation, a repair or a listing needs to go wrong once. With two
  tokens the limit of missing ones (10 in the code) is reached only through its second clause, all that are
  active. The workloads name the operations of each slot, so that each pair that shares a token or an
  identity meets. `Prompt`: no request lives as long as the age limit, five minutes in the code. A call of
  Cloudflare ends in ten seconds (`TIMEOUT_MS`), and D1 has a limit of its own, but nothing in the code adds
  them up, so this is an assumption about the runtime, and named as one.
- `Ttl`, `MinInterval`, `EdgeTtl`, `MaxTime`, `MaxFailures` (`SigningKeys`): lifetimes of three, one and one
  keep the order of those in the code (an hour, a minute, an hour at the edge) far enough to tell them
  apart; five ticks let a key be published, cached, withdrawn and forgotten. Five schedules overlap, meet or
  leave a gap.
- `Sent`, `Peer`, `MaxRev`, `MaxFaults` (`Requests`): one caller sends any request there is, in any state of
  the deployment; the other, in order, moves the revision and shares the instance read.
- `Deployments`, `Offers`, `LastTime`, `AssertionLife`, `Skew`, `MaxEdits` (`Credentials`): each assertion
  tried differs from one that Access issued in one claim, or in the three that name somebody at once; three
  themes vary the settings, the claims, and the names.
- The scenes of `MCPrk`: names (2 terminals, 3 commands; 1, 4), locks (2, 4, and a death), sessions (2, 3, a
  death or a lost renewal), servers (2, 2 and 1, 3, with an older build or a redeployment). Two terminals
  are what a race needs; four commands rename away, reuse and rename back. Each menu holds the commands that
  share what the scene is about. Terminals are symmetric; no liveness is stated.
- The commands of `prk`: in `clients`, one call of each of two clients, one resend, one fault of the edge;
  in `tools`, for liveness, two calls of one client, one resend and two faults. A login has a deadline of
  three ticks and a read limit of two, so that a read may begin before the deadline and end after it; two
  connections, one of which dribbles; arguments of up to four characters of seven classes, which hold every
  pair of an escape and what it escapes.
- `SecretsScreen`: three calls are a reveal, a save that overtakes it and what refreshes; one write of
  somebody else makes either stale.
- `MCClients`, the other scenes: two calls of the MCP server and two deployments; three cuts from two clones
  with one fault; one tag, one dispatch by hand and one rerun of the workflow; three signals; three calls of
  the token screen; two requests of the import dialog and a write of somebody else.
- `MCTools`, the other scenes: texts of up to four symbols after `x=`, and of six of those that quote; the
  environments and inputs of the action vary one entry of a good one. Versions are asked for exactly, by one
  range (`Admits`), by one tag beside `latest` (`Tags`), and wrongly. The store has two racing requests over
  two keys, one value, a cap of one and revisions to two: a race is lost, retried and lost again.
- `Envelope`, in `store_safety`: four rows that differ by their version or by where a field ends, envelopes
  with fields of one byte, one alteration. The plaintexts are empty, of one byte, a byte order mark, and
  that and a byte; `MaxLength` of three refuses the last where the limit is checked. A ciphertext is one
  byte, repeated, and any tag.

`CHECK_DEADLOCK FALSE` stands in the configurations of the store, of the key ring and of the runs with
scenes: their bounds stop the system, and some of what they model ends. In `ServiceTokens` and
`SecretsScreen` nothing is bounded in a way that stops every step, and deadlock is checked.

### Fairness

- `MCTools!Fairness`, the store: weak fairness of `Step(c)`, the continuation of a request that has begun:
  every `await` is a call of D1 that answers or raises. Clients need not ask anything.
- `KeyRing!FairSpec`: weak fairness of `StepOf(s)` likewise. `StartRekey` and `StartStatus` are strongly
  fair, as the guide tells the operator to repeat them until zero and until green: they are enabled only
  between requests of the slot. `RemoveOld` is strongly fair, because it is enabled only while the green
  answer stands; `PutActive` weakly, since nothing but the operator disables it. Starting a rotation,
  traffic, crashes and mistakes have no fairness: none need happen, and crashes are bounded.
- `ServiceTokens!FairSpec`: weak fairness of `Step(s)` and of `Tick`: awaits end and time passes.
  `StartReconcile` is strongly fair: an administrator runs reconcile again and again, as the hints of a
  failed creation and of a failed revocation say. Where a slot may not reconcile this asks nothing.
- `MCTools!Fairness`, `prk`: weak fairness of what it does with an answer that has arrived and of its own
  time limit (`Receive`, `Expire`), of the two threads of a login and of its clock. The edge, the server,
  the browser and the person have none.
- `SecretsScreen!FairSpec`: weak fairness of `Expire` (thirty seconds pass) and of `Sweep` (a timer that is
  armed fires). The server and the user have none.
- The other specifications state no liveness.

## 4. Findings

Each of these two is a run, in which TLC finds the sentence quoted violated by what the code does.

- `access_lockout`: **the last administrator may disable itself** (`core/identities.ts:141`).
  `docs/guides/access-control.md:458`: "The `LAST_ADMIN` guard covers every route that can remove the last
  one". The run heals a bootstrap administrator, deploys an empty `BOOTSTRAP_ADMINS`, and lets that
  administrator disable its own identity.
- `KeyRingGreen`: **removing the old key on green may lose a value** (`core/keyring.ts:260`).
  `http/routes/admin.ts:47`: "Only `oldKeyLoaded && safeToRemoveOldKey` means removing the key now loses
  nothing". Green is a census of what is stored: a write of the deploy before, sealed under its key, commits
  after the census, and the key is removed. Putting the key back is the cure. Neither the guide nor the
  route asks to wait for the requests of an earlier deploy; `KeyRingRotation`, and the theorems on
  `Patient`, show that waiting is enough.

### Exceptions that the code's own comments deny

These are in the models, and the properties named admit them, no more and no less: each exception is
reached, and without it the property fails in its run.

- **A live token may be reported missing** (`cloudflare/access.ts:245`). `http/routes/service-tokens.ts:62`:
  "`status: "missing"` is a token prick still considers live that Cloudflare no longer has". The list is
  read a page per await, by page number; when a token of an earlier page is removed between two pages, what
  follows moves up by one, and the first of the next page is on no page that was read.
  (`TokenSecrets!StatusesAreTrue`: `listing[s].shifted`.)
- **An echoed value reaches the model in an error's code or request id** (`mcp/src/errors.ts:126`).
  `:104-107`: "If the value it just sent appears anywhere in the error it got back, that text does not reach
  the model". Message and hint are scrubbed; `api.ts:343-348` forwards the envelope's `code` and
  `request_id` as well. (`Mcp!ValuesAndFilesStayIn`: `"code"`, `"request id"`.)
- **"Could not be reached" is said of writes that were made** (`mcp/src/api.ts:329`). `errors.ts:23-24`:
  "The request never reached the API". A connection that is reset after delivery is told so too; only a
  timeout is told with the hint that the write may have been applied. (`Mcp!WhatIsSaidIsSo`.)
- **A leading U+FEFF is lost** (`crypto/codec.ts:45`). `crypto/index.ts:4-5`: "THEY EITHER RETURN A CORRECT
  RESULT OR THEY THROW". The decoder is made without `ignoreBOM`; `SecretValue`
  (`packages/shared/src/primitives.ts:98`) admits a value that begins with that character. A rollback, a
  rename and a re-encryption seal what was opened, so after one of them the mark is gone from the row too.
  (`Envelope!OpensAsSealed`: `mark`.)

### Met while modelling, without a run

*Store.*

- A rollback of a deleted key restores nothing (`secret-moves.ts:145`): the batch updates the live row by
  key, and there is none. A version is added, `rev` moves, the answer is OK, the key stays deleted.
  `docs/reference/cli/secrets.md:494`: "Restores an earlier value."
- A rollback or a rename that loses a race is a 500 (`secret-moves.ts:132`): its batch is neither retried
  nor classified. `docs/architecture/overview.md:160`: "retries once against the new state, and returns
  `409` if it loses again."
- Two replaces without `If-Match` commute into the union of their keys: each deletes what it saw. The cap on
  an environment's secrets is checked against a read, so two writers may exceed it together. A slug deleted
  and created again counts its revisions from the start, so a revision of the earlier lifetime may match by
  chance; `GuardedWriteLosesNothing` is about one lifetime.

*Key ring.*

- Between the two steps of a rotation (`MASTER_KEY_OLD` set, `MASTER_KEY` not yet) the ring is refused and
  every route answers 500. A request of the earlier deploy may add rows under the key that is being retired,
  and for an operator who does not wait, a rekey of the earlier deploy may move rows back to it.

*Access and resources.*

- The last-administrator guard counts and then deletes in two calls: two administrators who remove each
  other both pass. It does not count what expires. A bootstrap administrator with a global row of a lower
  role, or an expired one, is never healed, since the insert does nothing on conflict; its role holds by
  `BOOTSTRAP_ADMINS` all the same. A request acts on the snapshot it took, to its end.
- An enabling undoes a revocation (`core/identities.ts:114`): `updateIdentity` looks for a revoked token,
  then writes; a revocation that commits between them is undone as far as the identity goes. `:110`: "A
  revoked service token's identity stays disabled." `RevocationIsFinal` says that nothing else undoes it.
- `updateProject` reads back by slug: renamed or recreated meanwhile, it answers another project, or 404 for
  an update that was done and logged (`updateGroup`, `groups.ts:251-283`, likewise). Creating an environment
  under a project being deleted is a foreign-key error and a 500. Two concurrent deletions are both logged
  as done.
- `core/audit.ts:502` finds denials of an environment's scope through the environments that exist now, so
  they vanish with it, whoever may see them. A row whose id is below the cursor but which commits after its
  page was read is never shown. `client/audit.ts` has no labels for `group.*` and `service_token.*`.

*Requests.*

- `If-Match` is ignored on routes that do not know it (the deletion of an environment, say); weak tags are
  accepted. The UI's guard lets `application/json` of a foreign origin through: the identity is upserted and
  SvelteKit then answers 415. The UI checks CSRF before the key ring, the API after. A request that joins an
  instance read begun before the migration gets no id.
- `middleware.ts:294-298` says of an optional body "`RekeyBody` is the only one"; `RotateServiceTokenBody`,
  `UpdateProjectBody`, `UpdateIdentityBody` and `UpdateGroupBody` (`shared/src/api.ts:438-442`, `:39-44`,
  `:231-236`, `:270-275`) have no required field either.
- `getJwks` does not consult `attemptedAt` when its entry is old (comments `jwks.ts:17-19`, `:46-53`);
  concurrent requests all pass the limit; the edge's cache may be staler than the entry; a fetch that fails
  late, or is slower, writes an older entry back.
- A name an administrator set between the snapshot and the `UPDATE` is overwritten, even with nothing
  (`directory.ts:193`). `:168`: "A NAME ALREADY SET IS NEVER OVERWRITTEN". The name fetched is that of the
  cookie, also when the assertion in the header is another's.

*Service tokens.*

- Reconcile may remove a token that another request is recording, if that request is an adoption: an old
  orphan is found and looked at again before the adoption's batch. An adoption that commits during a
  creation of the same token makes the creation's batch fail, and its compensation removes the token. In
  both cases the row is left missing and reconcile retires it. The refusal of reconcile when too many tokens
  are missing holds back every other repair; hence the exception in `DriftIsRepaired`.
- The `UPDATE` of `rotatedAt` asks for no unrevoked row: a rotation that races a revocation enables the
  token at Cloudflare until it is removed, logs a success after the revocation, and answers "active". A leak
  reported between the rotation's read and its rotation leaves the secret it hands out disabled without a
  warning. A rotation whose answer is lost ends the earlier secret with no later one known. The hint "keeps
  working for the grace period" is wrong when enabling failed too.
- Without `per_page` or totals a page of Cloudflare's shorter than 1000 ends the list early. Reconcile lists
  the same way, so a list that misses one token (`ListMissesOne`) makes it look missing to it too; it asks
  for that token again before it retires it.

*prk.*

- The takeover of a stale lock races: two processes may find it stale, and a guard removes any lock it
  finds. The loop spins if a stale lock cannot be removed. Removing a profile frees its old names.
- A first login under a name that is not the default is refused after its session was saved (`auth.rs:187`;
  `docs/examples/work-with-two-organisations.md:32-37`). Two first logins pick the same legacy file. A
  refresh in flight saves its session after a logout. `profile remove` clears the file even if its session
  is for another server, and does not revoke it.
- "Signed in" is shown for an `error` redirect too. A failure of the store or of the profile after the
  exchange leaves a live token unrevoked; an exchange sent again after a lost answer leaves a session nobody
  holds. A dribbling connection outlasts the deadline (`callback.rs:313-315`, `:355-371`).
- Creations, deletions and batches are sent again after a lost answer, so a done one may be reported as 409,
  404 or 412 (`classify.rs:129-147`). `classify_env` compares names exactly, but on Windows `Path` is
  `PATH`.

*Web interface.*

- A late reveal shows an old value as current after navigating and a rollback (`secrets.svelte.ts:168-169`).
  A revision that moves forward under an open editor makes its save silent (`:154-157`). Rows and revision
  are read on their own. A reveal answered after a wipe puts a value back (`reveal.svelte.ts:88-93`); an
  open draft survives the idle wipe.
- On the screen of service tokens an answer replaces a secret not yet stored if both were in flight; one
  that arrives while idle is wiped unseen; cancelling and opening for another token lets the earlier answer
  close the other's dialog; two crossing loads leave the older list.
- `import-dialog.svelte:46-47` "A preview is only meaningful for the exact text it was computed from",
  `:147` "Nothing is written until you have seen the diff": the text is taken at the answer (`:94`), and
  switches of format or replacement after the preview do not make it stale. An earlier save's refresh may
  move the revision under a preview. After a 412 the dialog never refreshes the revision. A preview answered
  after closing and opening again shows there.

*Around the server.*

- MCP: a deletion says removed also when nothing was there; a 2xx answer with foreign JSON is taken as
  written with no revision; a submitted value of fewer than four characters is never scrubbed.
- Action: outputs are written as one JSON document, whose escaped values the masks do not match; a failure
  between the two files leaves secrets in the environment of a failed step.
- Releases: a stale local tag that the origin lacks survives `git fetch --tags --force --prune`, so a number
  may be skipped (comments `version.mjs:714-717`, `:767-770`). Two cuts in one clone may both report one tag
  (`:668-670`). A push whose answer is lost leaves a second release of one cut. An older pending run of a
  concurrency group is cancelled. Running an older tag again moves "Latest" and the manifests back.
  `releasing.md:452-456` and the workflow disagree on what to run again.
- Launcher: a signal sent to it alone is held and never passed on; one that node ignores becomes 128 plus
  its number.

## 5. What is proved

TLAPS checks these for every value of the constants that satisfies the named assumptions: any number of
slots, keys, rows, identities, revisions, any request bodies, any menus, any schedules. Each invariant was
checked by TLC on the instance of its run before it was proved.

**`SecretStoreProofs`**, from `InputsAssumption`, `NoValueAssumption`, `BoundsAssumption`. `IInv` is
`TypeOK`, `Tables` and `Flight`. `Tables` is about the database: versions are dense (`Dense`) and unique,
the live row is the newest, stored values open for their row, a missing environment has no rows. That is not
inductive alone: a batch is composed from what the handler read, so `Flight` says of every request in flight
that it holds only what its checks let through (`WellFormed`); that nothing it read has been taken back, and
that its snapshot is exact until the revision moves (`Grounded`); and that an ETag whose revision is the
present one came with the present listing (`Conditional`). From it: `TypeCorrect`, `LiveKeysAreLatest`,
`VersionsNeverSkipOrRepeat`, `GuardedWritesLoseNothing`, `AnsweredRevsAreSafe`, `AuditDiffsAreExact`.

The refinement is proved from the same invariant and one strengthening, `Carried`: a rollback or a rename
that is ready to be saved still carries the value of the row it was made from, which is why no history can
change under it. `StoreIsAppendOnly` (`Spec => ImplementsVersionedStore`): every batch is one operation of
`VersionedStore`, every other step a stutter. The history of a slot is read off its rows, which `Dense`
makes a function on `1..n`; a batch extends it by one row or moves it whole.

**`KeyRingProofs`**, in three layers by what is assumed of the operator.

- Nothing: `BaseInv` (types, envelopes as labelled, rings older than the deployed one, ids minted once,
  pages held in memory with the values of the rows they came from) gives `TypeCorrect`, `RowsAreSealed` and
  `NoValueIsLost`.
- `Patient`, an operator who waits as the guide does not say he must: `PatientInv` adds that what the
  operator asked for is in flight with nothing that seals under an earlier key, that every promise given
  still holds, that a page not full held all there was to move, and that a page of an earlier deploy holds
  no row of the active key. It gives `AnswersHold` (`DoneMeansDone`) and `NoRowMovesBack`.
- `Patient` and not `Careless`: `PatientIInv` adds that every row, and the active key of every ring in
  flight, is of the deployed ring, and gives `NoRowIsStranded` and `EverythingOpens`.

**`ServiceTokensProofs`**, from `TokensAssumption` and `BoundsAssumption`. `BaseInv` adds to the types and
`OneRetirement` what each request is doing (`Shape`) and what its checks have found and nothing takes back
(`Found`): a recorded token stays recorded, a revoked one revoked, and a token that has left Cloudflare does
not return. It gives `TypeCorrect`, `TokensRetireOnce`, `OnlyMissingAreRetired` and `RevocationsAreFinal`,
which needs also that no request comes to enable the identity of a revoked token (`NoNewEnabling`). The
safety of recorded tokens needs `Prompt`, and `PromptInv`: what reconcile holds as an orphan was named at
least the age limit before it began (`Judged`), a creation is as young as the name of its token (`Own`), and
no request is older than the limit (`Timely`); so the two never hold the same token, and
`RecordedTokensAreSafe` follows under `ASSUME Prompt`.

**`RequestPathProofs`**, in three parts, one for each scene of a request's way.

- Keys, from `ScheduleAssumption`, `IntervalAssumption` and `NoneAssumption` of `SigningKeys`. `IInv` says
  of the entry and of what every fetch holds that it is an answer as published lately enough (`Sound`), or
  has been attempted since; a late write-back of an older entry is why the invariant is about the failures
  on record and not about the order of writes. `OldKeysAreForgotten`, `NewKeysAreNoticed`,
  `RefetchesKeepTheLimit`, `RefetchesKeepTime`; `KeysOnThePath` carries them to the path, whose steps in
  this scene are those of `SigningKeys` and stutters in the others.
- Guards, from `SentAssumption`. `HttpInv` is the types, `InstanceOK` (what the isolate knows of its
  instance's id, the row and the pending read agree) and per request `ProgressOK`: `WayOK` (how far it has
  come is what its guards let through), `AnswerOK` (what its status says it did, it did) and `ToldOK` (who
  was told the id before it came, and who waited for which read). From it `HttpInvariant` and
  `AnswersStayTrue`.
- Login, from `TimesAssumption`. `LoginInv` is per visit `VisitOK`: `Accepted` (signed by its key's
  algorithm, in time, of the audience, of one identity), `Refused` (not an assertion Access issued, or not
  in its time), and that whoever still looks for a name has been overtaken by any that was set.
  `LoginInvariant`; with `HttpInv` it gives `StrangersStayOut`, the whole of `StrangersTouchNothing`, its
  step property included.

**`PrkProofs`**, from the assumptions of `Prk` and `ProfileConfig`. First each edit of a configuration on
its own: it yields a configuration, every old name leads to a profile, meanings are kept. Then `IInv`:
types, `LockHolds`, `ConfigIsValid`, what each process has for its next step (`Well`), and that a write that
is ready is valid and, with no trouble about the lock, made from the configuration there is and consistent
with what names mean (`Ready`, `Consistent`). `ProfilesInvariant`, `LockKeepsUpdatesApart`,
`ConfigStaysValid`, `MeaningsAreKept`, `UpdatesPersist`.

Sessions need two more invariants, each inductive with `IInv`. `TokensInv`: no two files hold the same
token; a session that a process has just been given is live, in no file, and held by nobody else (`Unused`,
`Differ`); one that it works on is in the file it came from or in none (`Lent`); so, while nothing dies and
no answer is lost, a token is spent only by whoever is about to replace or clear its file (`Excuses`).
`OwnersInv`, of commands that do not overlap (`Orderly`): what a login has worked out fits the configuration
(`Fits`, `Written`, with `PlanFits` for the plan and `RecordAccepted` for the record it leads to); a profile
is removed, or its file handed over, only when that file is gone (`Parts`, `AdoptFits`); a write that is
ready covers every credential file (`Ends`, with `ApplyOwns`: an edit takes a file from a profile in no
other way). It gives `NoSessionIsLost` and `RefusedOnlyOnAFreshMachine`. With the tokens:
`StoredSessionsStayLive`, `SessionsStayKept`.

**`ClientsProofs`**, about the ten parts of `MCClients`. `ClientsInv` has one conjunct for each.

- Calls, from `BoundsAssumption`: `RequestsInv` says that requests of one call are tries of one write, that
  one that mints is a first try and, while under way, not applied, and that a guarded write which was
  applied names a revision that has passed; `CallInv` that what a client would conclude from the answer it
  holds (`Believed`) is warranted by what is in flight and what was applied. `OutcomesAreTrueAlways`;
  `RequestsAppliedOnce` is a step property.
- Login, from the same: `LoginInv` ties the wait, its two threads, their channel, the port and the clock
  together, and the session to whoever has to store or revoke it. `LoginsEndAsTheyShouldAlways`.
- Program: `RunInv` says how far a start has come on each platform and what the job and the environment are
  by then.
- Argument: an escaped line is read by `cmd.exe` in and out of quotes (`Passes`), and by the C runtime by
  runs of backslashes. Both readings are folds, unrolled one character at a time by the induction on
  lengths, so what TLC tries on short arguments is proved of those of any length. With the program,
  `ProgramsStartCleanAndEndAlways`.
- Launcher: `LaunchInv` says what the two processes are by then, and that while the launcher waits it holds
  its signals. `EndsAsTheProgramAlways`.
- MCP server, from `DeploymentAssumption` (the id of a deployment is none of the other words an answer can
  hold in its place): `ToolInv` says of each call that what it has opened its settings allow, that what it
  has learned of the instance some answer said, and that the answer on the wire, and the word the call ends
  with, are true of the write that landed (`ToolCallInv`); a mismatch is reported only before one has. Of
  values it says which request carried what an answer repeats (`WireQuotes`), so that what is left of it
  after the scrubbing is a code or a request id of a set's failure, or a revealed value (`ToolQuotes`).
  `WritesLandWhereSaidAlways`.
- Cuts, from `HomeAssumption`: `CutInv` says that the numbers of the origin, and of each clone, are of one
  tag each, and that where nobody else cuts, the tag about to be pushed is one's own. The step that needs it
  is the fetch, which replaces the local tag of a number by the origin's.
- Release workflow, from `PlatformAssumption`: `PublishInv` says of the shops that they only hold what a
  tagged version gave them, in the order of the jobs (`ShopInv`), and of each run, under way, pending or
  stopped, that what it believes to be out is out and what it built says its version (`WorkflowInv`); shops
  take nothing back, so that a run stopped long ago is still right when it is taken up again. With the cuts,
  `ReleasesAreCompleteAlways`.
- Token screen: `ScreenInv` says that while a secret is on screen every request on its way that brings
  another was made before it appeared. Import: `ImportInv` says that a preview, or the answer to one, is the
  difference that its text makes while the page's revision is the server's, and that a write under way which
  names the present revision would do as it promised. `PagesDoAsTheyShowAlways`, its step property included.

**`SecretsScreenProofs`**, from `PresentAssumption` and `NoneAssumption`. `IInv` is `TypeOK`, `RevisionsOK`
(no revision anyone holds is ahead of the server's; a key's value is no newer than the revision; what the
tab saved is no newer than what is there) and `TurnsOK` (of the calls on a key the busy set saw, one is
under way at a time, so what it shows when answered is no older than what was saved). `ScreenInvariant`,
`ScreenTypes`, `OldValuesDoNotLinger`; `SavesMeetWhatWasSeen` is a step property from the same invariant.

**`AppServerProofs`**, about the four parts of `MCAppServer`; `ServerInv` joins the last three and gives
`ResourcesAndTokensAreAsReported` and `LogIsCompleteAndPrivateAlways`.

- Identities, groups and grants (`Access`), from `NamesAssumption` and the bounds. `IInv` is `TypeOK`,
  `Coherent` and `RequestsAreAuthorised`, which says what a request still knows of the row it is about to
  remove: the row it found, and the scope at which it was let to. It is a part of the invariant and no
  result; what follows from it is a property of the step, that the batch removes that row or none, and not
  one the same holder was given since. `TypeCorrect`, `GraphIsCoherent`, `RevocationsTakeTheirRow`,
  `AccessByAuthority`, `CountIsWhatIsLeft` and `ExplanationAgrees` (which needs no invariant beyond types:
  the two implementations agree in every state).

- Projects and environments: `ResourcesInv` says that ids are never given twice, that what a request holds
  of a row outlives the row and comes to name no other (`Holds`), where it can be (`Course`) and what its
  answer says of the rows there are (`Says`), and that the log, replayed, gives those rows. Replaying is a
  fold of the community modules, which is defined over sets of indices; that a row appended to the log is
  replayed last is proved by induction on the length of the log, with the library's least elements of
  well-founded orders (its induction theorem takes an operator).
- The secret of one token, from `PagesAssumption`: `SecretsInv` says of each request how far it has come
  (`StepOK`), what it has said and been given (`SaidOK`), and what is still as it left it as long as nobody
  has told it otherwise (`KeepsOK`); of two, that they were given different secrets (`Apart`). One lemma
  (`WaitingStaysOK`) carries all of that over whatever others do to the token (`Survives`). Of a list it
  takes an invariant of its own, `PagesInv`: while nothing was removed from the account since its first
  page, a token that is there is among those already read or stands behind them (`PageOK`), whatever is
  added meanwhile; so at the end it has been read, or the list says itself that something was removed. That
  a listing of an account which nobody touches is whole is arithmetic on the pages, by the least page that
  ends it.
- The audit log, from `AuditAssumption`. `LogInv`: ids are unique, and each is a number of its isolate that
  the isolate has passed; a clock that goes back and a full counter both go to a greater number, and two
  isolates cannot meet because the remainder of an id tells which made it (`OneRemainder`). `ReaderInv`: the
  view and the filter of a page admit every row that is due and still has its environment, and only rows the
  snapshot owns (`ViewOK`, `FilterOK`); grants only shrink, so an earlier page was not narrower than a later
  one (`GrantsOK`); and every row that was there, is due and is not below the cursor is among those shown,
  in descending order (`ShownOK`). That rows can be put in order at all is an induction on how many there
  are (`OrderExists`).

**Proved and not a property of a run.** `OneRowPerVersion`, `SealedAsLabelled`, `RekeyedRowsLeaveForGood`,
`DeployedRingOpensEverything`, `Coherent`, `OneRetirement`, `RetiredWereMissing`, `PromptInv`, `LockHolds`,
`ConfigIsValid`, `StoredSessionsAreLive`, `RefusalsAreBrief`, `RefetchesAreSpaced`, and the inductive
invariants themselves.

**Only model-checked.**

- Liveness, and with it ENABLED, which the prover does not handle: `WhatIsBegunEnds`, `RotationFinishes`,
  `DriftIsRepaired`, `RevealedIsDropped`.
- What a recursive operator computes for every input: `WhatIsWrittenReadsBack` (`Dotenv` reads a text by
  recursion) and `SecretsArriveAndOnlyThey` (`Action` reads back a file of the runner so). Both are
  induction over data, and the prover cannot read a module that declares a RECURSIVE operator at all; hence
  these two parts have an instance of their own, `MCTools`, beside the liveness of `prk` and of the store,
  and nothing is proved about it. `Envelope`, which compares every way of altering an encoded value, byte by
  byte, is a theme of `MCSecretStore`, about which nothing is proved either.

## 6. Not modelled, and what is left

- Proofs about `Envelope`, and about the steps of `Action` that do not read a file back.
- Access and the secret store extended by the cascades of deleted projects and environments, and the reads
  (export, reveal, history).
- Rows per statement (`core/sql`), a pure operator.
- crates.io and WinGet in the release workflow, which publish beside the rest.

Not planned: verification of signatures and the HKDF (cryptography), the other screens of the web interface,
which load and show, the grammar of names and URLs, the texts of output and errors, and the documentation
site: none of them keeps state that two actors share.
