------------------------------- MODULE KeyRing -------------------------------
(***************************************************************************)
(* The rotation of MASTER_KEY over the rows of secret_versions.            *)
(*                                                                         *)
(* The deployed configuration names the active key and the retired ones.   *)
(* A request builds its ring from the configuration it starts under and    *)
(* keeps it to its end, so a request in flight across a deploy still seals *)
(* under the key that was active when it began.  Each await is a step: the *)
(* read of a row, the page of a rekey, its batch, its count, the census.   *)
(*                                                                         *)
(* Data abstraction: a key is its key id (the HKDF derivation, and with it *)
(* a collision of two ids, is left out); the AAD of a value is the id of   *)
(* its row, which stands for (environment, key, version) because a row     *)
(* never changes those; keys are numbered in the order they are generated; *)
(* a value is a text that opens as it was sealed, so that one which begins *)
(* with a byte-order mark is none (Envelope says what becomes of that).    *)
(***************************************************************************)
EXTENDS Naturals, FiniteSets, Functions

CONSTANTS
    Client,     \* request slots of ordinary traffic
    Admin,      \* request slots of global administrators
    Value,      \* plaintexts
    Limits,     \* page sizes a rekey asks for
    MaxKeys,    \* bound: master keys ever generated
    MaxRows,    \* bound: rows of secret_versions ever written
    MaxFaults,  \* bound: requests that die between two of their awaits
    Patient,    \* the operator waits for requests of earlier deploys to
                \*   end, which the guide does not ask of him
    Careless    \* the operator may remove MASTER_KEY_OLD without the signal

ASSUME SlotsAssumption == Client \cap Admin = {}
ASSUME BoundsAssumption ==
    /\ MaxKeys \in Nat \ {0}
    /\ MaxRows \in Nat
    /\ MaxFaults \in Nat
    /\ Limits \subseteq Nat \ {0}
ASSUME OperatorAssumption == Patient \in BOOLEAN /\ Careless \in BOOLEAN

VARIABLES
    config,    \* MASTER_KEY and MASTER_KEY_OLD as deployed
    rows,      \* the rows of secret_versions that carry a ciphertext, by id
    nextId,    \* the next UUIDv7: ids are minted in order, before the batch
    recorded,  \* keyring_state.rows_remaining by kid
    req,       \* what each request in flight holds in memory
    answer,    \* the answer to the last request of each slot under config
    faults     \* requests that died so far

vars == <<config, rows, nextId, recorded, req, answer, faults>>
----------------------------------------------------------------------------
(* Keys, rows and rings. *)

Slot == Client \cup Admin
MasterKey == 1..MaxKeys
Id == 1..MaxRows
Ring == [active: MasterKey, old: SUBSET MasterKey]

(* An envelope names the key it is sealed under and opens under one identity. *)
Envelope == [kid: MasterKey, id: Id, plain: Value]
Encrypt(kid, id, x) == [kid |-> kid, id |-> id, plain |-> x]
SealedRow(kid, id, x) == [kid |-> kid, envelope |-> Encrypt(kid, id, x)]
Row == [kid: MasterKey, envelope: Envelope]

Kids(ring) == {ring.active} \cup ring.old
Knows(ring, envelope) == envelope.kid \in Kids(ring)
Opens(ring, envelope, id) == Knows(ring, envelope) /\ envelope.id = id

(* deriveKeyring: a retired key identical to the active one is refused. *)
Refused(ring) == ring.active \in ring.old

(* stalePredicate. *)
Stale(kid) == {i \in DOMAIN rows : rows[i].kid # kid}
(* Mutation: a cursor that starts one row late. *)
SkipsFirst(S, n) == {i \in S : Cardinality({j \in S : j <= i}) \in 2..(n + 1)}

(* ORDER BY id LIMIT n. *)
FirstOf(S, n) == {i \in S : Cardinality({j \in S : j <= i}) <= n}
ReadPage(kid, n) == Restrict(rows, FirstOf(Stale(kid), n))

(* census: stored ciphertexts by the kid COLUMN. *)
Census(table, kid) == Cardinality({i \in DOMAIN table : table[i].kid = kid})

(* Mutation: trust the cached counts. *)
SafeByCache(ring) == \A k \in DOMAIN recorded : k = ring.active \/ recorded[k] = 0

(* safeToRemoveOldKey, over every kid a row names. *)
SafeToRemove(ring) ==
    \A k \in MasterKey : k = ring.active \/ Census(rows, k) = 0
OldKeyLoaded(ring) == ring.old # {}

Idle == [pc |-> "idle"]
InFlight(s) == req[s].pc # "idle"
Request ==
    {Idle}
    \cup [pc: {"write"}, ring: Ring, id: Id, plain: Value]
    \cup [pc: {"read"}, ring: Ring, id: Id]
    \cup [pc: {"move"}, ring: Ring, source: Id, id: Id]
    \cup [pc: {"page"}, ring: Ring, limit: Nat]
    \cup [pc: {"count"}, ring: Ring]
    \cup [pc: {"census"}, ring: Ring]
    \cup [pc: {"recorded"}, ring: Ring, safe: BOOLEAN]

IsTable(f) == DOMAIN f \subseteq Id /\ \A i \in DOMAIN f : f[i] \in Row
Resealing(ring, n, page) == [pc |-> "reseal", ring |-> ring, limit |-> n, page |-> page]
IsResealing(r) ==
    /\ r = Resealing(r.ring, r.limit, r.page)
    /\ r.ring \in Ring
    /\ r.limit \in Nat
    /\ IsTable(r.page)

Nothing == [kind |-> "none"]
Failed(code) == [kind |-> "error", code |-> code]
Answer ==
    {Nothing}
    \cup [kind: {"error"}, code: {"SERVER_MISCONFIGURED", "UNKNOWN_KID", "DECRYPT_FAILED", "NOT_FOUND"}]
    \cup [kind: {"done"}]
    \cup [kind: {"rekeyed"}, remaining: Nat]
    \cup [kind: {"status"}, loaded: BOOLEAN, safe: BOOLEAN]
Done == [kind |-> "done"]
Rekeyed(n) == [kind |-> "rekeyed", remaining |-> n]
Status(ring, safe) == [kind |-> "status", loaded |-> OldKeyLoaded(ring), safe |-> safe]

(* decryptSecretValue on an envelope that will not open. *)
WhyNot(ring, envelope) ==
    Failed(IF Knows(ring, envelope) THEN "DECRYPT_FAILED" ELSE "UNKNOWN_KID")

Init ==
    /\ config = [active |-> 1, old |-> {}]
    /\ rows = <<>>
    /\ nextId = 1
    /\ recorded = <<>>
    /\ req = [s \in Slot |-> Idle]
    /\ answer = [s \in Slot |-> Nothing]
    /\ faults = 0
----------------------------------------------------------------------------
(* Requests: the ring is built before any route runs, and kept to the end. *)

Enter(s, r) ==
    /\ ~InFlight(s)
    /\ ~Refused(config)
    /\ req' = [req EXCEPT ![s] = r]

(* A patient operator goes by no answer to what was asked before a deploy. *)
Heeded(s, a) == IF Patient /\ req[s].ring # config THEN Nothing ELSE a

Reply(s, a) ==
    /\ req' = [req EXCEPT ![s] = Idle]
    /\ answer' = [answer EXCEPT ![s] = Heeded(s, a)]

(* A ring that does not build: 500 on every route, /health included. *)
RefuseRequest(s) ==
    /\ ~InFlight(s)
    /\ Refused(config)
    /\ answer' = [answer EXCEPT ![s] = Failed("SERVER_MISCONFIGURED")]
    /\ UNCHANGED <<config, rows, nextId, recorded, req, faults>>

(* A write seals and mints its row id before its batch reaches D1. *)
StartWrite(s) ==
    /\ nextId <= MaxRows
    /\ \E x \in Value :
        Enter(s, [pc |-> "write", ring |-> config, id |-> nextId, plain |-> x])
    /\ nextId' = nextId + 1
    /\ UNCHANGED <<config, rows, recorded, answer, faults>>

Insert(id, row) == rows' = [i \in DOMAIN rows \cup {id} |-> IF i = id THEN row ELSE rows[i]]

CommitWrite(s) ==
    /\ req[s].pc = "write"
    /\ Insert(req[s].id, SealedRow(req[s].ring.active, req[s].id, req[s].plain))
    /\ Reply(s, Done)
    /\ UNCHANGED <<config, nextId, recorded, faults>>

(* getSecret, and every listing: decrypt under the ring of the request. *)
StartRead(s) ==
    /\ \E i \in DOMAIN rows : Enter(s, [pc |-> "read", ring |-> config, id |-> i])
    /\ UNCHANGED <<config, rows, nextId, recorded, answer, faults>>

ReadRow(s) ==
    /\ req[s].pc = "read"
    /\ LET i == req[s].id
           ring == req[s].ring
       IN  Reply(s, IF i \notin DOMAIN rows THEN Failed("NOT_FOUND")
                    ELSE IF Opens(ring, rows[i].envelope, i) THEN Done
                    ELSE WhyNot(ring, rows[i].envelope))
    /\ UNCHANGED <<config, rows, nextId, recorded, faults>>

(* A rollback or a rename: open a stored version, seal it as a new row. *)
StartMove(s) ==
    /\ nextId <= MaxRows
    /\ \E i \in DOMAIN rows :
        Enter(s, [pc |-> "move", ring |-> config, source |-> i, id |-> nextId])
    /\ nextId' = nextId + 1
    /\ UNCHANGED <<config, rows, recorded, answer, faults>>

OpenSource(s) ==
    /\ req[s].pc = "move"
    /\ req[s].source \in DOMAIN rows
    /\ LET e == rows[req[s].source].envelope
       IN  /\ Opens(req[s].ring, e, req[s].source)
           /\ req' = [req EXCEPT ![s] = [pc |-> "write", ring |-> req[s].ring,
                                         id |-> req[s].id, plain |-> e.plain]]
    /\ UNCHANGED <<config, rows, nextId, recorded, answer, faults>>

SourceUnreadable(s) ==
    /\ req[s].pc = "move"
    /\ LET i == req[s].source
           ring == req[s].ring
       IN  \/ /\ i \notin DOMAIN rows
              /\ Reply(s, Failed("NOT_FOUND"))
           \/ /\ i \in DOMAIN rows
              /\ ~Opens(ring, rows[i].envelope, i)
              /\ Reply(s, WhyNot(ring, rows[i].envelope))
    /\ UNCHANGED <<config, rows, nextId, recorded, faults>>

(* deleteEnvironment: a whole environment and its history, in one batch. *)
DeleteEnvironment ==
    /\ \E S \in SUBSET DOMAIN rows :
        /\ S # {}
        /\ rows' = Restrict(rows, DOMAIN rows \ S)
    /\ UNCHANGED <<config, nextId, recorded, req, answer, faults>>
----------------------------------------------------------------------------
(* rekeyPage. *)

Settled == \A s \in Slot : InFlight(s) => req[s].ring = config
Ready == Patient => Settled

StartRekey(a) ==
    /\ Ready
    /\ \E n \in Limits : Enter(a, [pc |-> "page", ring |-> config, limit |-> n])
    /\ UNCHANGED <<config, rows, nextId, recorded, answer, faults>>

EmptyPage(a) ==
    /\ req[a].pc = "page"
    /\ Stale(req[a].ring.active) = {}
    /\ Reply(a, Rekeyed(0))
    /\ UNCHANGED <<config, rows, nextId, recorded, faults>>

Readable(ring, page) == \A i \in DOMAIN page : Opens(ring, page[i].envelope, i)

OpenPage(a) ==
    /\ req[a].pc = "page"
    /\ LET ring == req[a].ring
           page == ReadPage(ring.active, req[a].limit)
       IN  /\ DOMAIN page # {}
           /\ Readable(ring, page)
           /\ req' = [req EXCEPT ![a] = Resealing(ring, req[a].limit, page)]
    /\ UNCHANGED <<config, rows, nextId, recorded, answer, faults>>

(* A row that will not open ends the whole page: nothing is written. *)
PageUnreadable(a) ==
    /\ req[a].pc = "page"
    /\ LET ring == req[a].ring
           page == ReadPage(ring.active, req[a].limit)
       IN  \E i \in DOMAIN page :
            /\ ~Opens(ring, page[i].envelope, i)
            /\ Reply(a, WhyNot(ring, page[i].envelope))
    /\ UNCHANGED <<config, rows, nextId, recorded, faults>>

(* Mutation: every row of the page is given one row's value. *)
ResealOneValue(ring, page) ==
    [i \in DOMAIN rows |->
        IF i \in DOMAIN page
        THEN SealedRow(ring.active, i, page[CHOOSE j \in DOMAIN page : TRUE].envelope.plain)
        ELSE rows[i]]

(* UPDATE ... WHERE id = ?: a row deleted meanwhile is not brought back. *)
Reseal(ring, page) ==
    [i \in DOMAIN rows |->
        IF i \in DOMAIN page THEN SealedRow(ring.active, i, page[i].envelope.plain)
        ELSE rows[i]]

(* recordKids, then rows_remaining counted again for every recorded kid. *)
Record(ring, page) ==
    LET seen == {ring.active} \cup {page[i].kid : i \in DOMAIN page}
    IN  recorded' = [k \in DOMAIN recorded \cup seen |-> Census(rows', k)]

(* Mutation: whatever the page held, nothing is left. *)
CommitPageClaimsAll(a) ==
    /\ req[a].pc = "reseal"
    /\ rows' = Reseal(req[a].ring, req[a].page)
    /\ Record(req[a].ring, req[a].page)
    /\ Reply(a, Rekeyed(0))
    /\ UNCHANGED <<config, nextId, faults>>

CommitPage(a) ==
    /\ req[a].pc = "reseal"
    /\ LET ring == req[a].ring
           page == req[a].page
       IN  /\ rows' = Reseal(ring, page)
           /\ Record(ring, page)
           /\ IF Cardinality(DOMAIN page) < req[a].limit
                THEN Reply(a, Rekeyed(0))
                ELSE /\ req' = [req EXCEPT ![a] = [pc |-> "count", ring |-> ring]]
                     /\ UNCHANGED answer
    /\ UNCHANGED <<config, nextId, faults>>

CountRemaining(a) ==
    /\ req[a].pc = "count"
    /\ Reply(a, Rekeyed(Cardinality(Stale(req[a].ring.active))))
    /\ UNCHANGED <<config, rows, nextId, recorded, faults>>
----------------------------------------------------------------------------
(* getKeyringStatus: the census, then the read of keyring_state. *)

StartStatus(a) ==
    /\ Ready
    /\ Enter(a, [pc |-> "census", ring |-> config])
    /\ UNCHANGED <<config, rows, nextId, recorded, answer, faults>>

TakeCensus(a) ==
    /\ req[a].pc = "census"
    /\ req' = [req EXCEPT ![a] = [pc |-> "recorded", ring |-> req[a].ring,
                                  safe |-> SafeToRemove(req[a].ring)]]
    /\ UNCHANGED <<config, rows, nextId, recorded, answer, faults>>

AnswerStatus(a) ==
    /\ req[a].pc = "recorded"
    /\ Reply(a, Status(req[a].ring, req[a].safe))
    /\ UNCHANGED <<config, rows, nextId, recorded, faults>>

(* A D1 call that raises, or an isolate that is evicted: no answer arrives. *)
Die(s) ==
    /\ InFlight(s)
    /\ faults < MaxFaults
    /\ faults' = faults + 1
    /\ Reply(s, Nothing)
    /\ UNCHANGED <<config, rows, nextId, recorded>>
----------------------------------------------------------------------------
(* The operator, following docs/guides/key-rotation.md. *)

Deploy(c) ==
    /\ config' = c
    /\ answer' = [s \in Slot |-> Nothing]
    /\ UNCHANGED <<rows, nextId, recorded, req, faults>>

(* Step 2: the current key also becomes a retired one. *)
PutOld ==
    /\ config.active < MaxKeys
    /\ ~Refused(config)
    /\ Deploy([config EXCEPT !.old = @ \cup {config.active}])

(* Steps 3 and 4: a fresh key becomes the active one. *)
PutActive ==
    /\ config.active < MaxKeys
    /\ Refused(config)
    /\ Deploy([config EXCEPT !.active = @ + 1])

Green(a) == answer[a].kind = "status" /\ answer[a].safe /\ answer[a].loaded

(* Step 6: only on oldKeyLoaded and safeToRemoveOldKey. *)
RemoveOld ==
    /\ ~Refused(config)
    /\ \E a \in Admin : Green(a)
    /\ Deploy([config EXCEPT !.old = {}])

(* The one irreversible mistake, and its cure: put the key back. *)
RemoveTooEarly ==
    /\ Careless
    /\ ~Refused(config)
    /\ config.old # {}
    /\ Deploy([config EXCEPT !.old = {}])

RestoreOld ==
    /\ ~Refused(config)
    /\ LET missing == {rows[i].kid : i \in DOMAIN rows} \ Kids(config)
       IN  /\ missing # {}
           /\ Deploy([config EXCEPT !.old = @ \cup missing])
----------------------------------------------------------------------------
StepOf(s) ==
    \/ CommitWrite(s)
    \/ ReadRow(s)
    \/ OpenSource(s)
    \/ SourceUnreadable(s)
    \/ EmptyPage(s)
    \/ OpenPage(s)
    \/ PageUnreadable(s)
    \/ CommitPage(s)
    \/ CountRemaining(s)
    \/ TakeCensus(s)
    \/ AnswerStatus(s)

Traffic(c) == StartWrite(c) \/ StartRead(c) \/ StartMove(c)

Operate ==
    \/ PutOld
    \/ PutActive
    \/ RemoveOld
    \/ RemoveTooEarly
    \/ RestoreOld

Next ==
    \/ \E s \in Slot : RefuseRequest(s) \/ StepOf(s) \/ Die(s)
    \/ \E c \in Client : Traffic(c)
    \/ \E a \in Admin : StartRekey(a) \/ StartStatus(a)
    \/ DeleteEnvironment
    \/ Operate

Spec == Init /\ [][Next]_vars

(* Every await of a request is answered; the operator finishes what it began. *)
Fairness ==
    /\ \A s \in Slot : WF_vars(StepOf(s))
    /\ \A a \in Admin : SF_vars(StartRekey(a)) /\ SF_vars(StartStatus(a))
    /\ WF_vars(PutActive)
    /\ SF_vars(RemoveOld)

FairSpec == Spec /\ Fairness
----------------------------------------------------------------------------
(* Properties. *)

TypeOK ==
    /\ config \in Ring
    /\ IsTable(rows)
    /\ nextId \in 1..(MaxRows + 1)
    /\ DOMAIN recorded \subseteq MasterKey
    /\ \A k \in DOMAIN recorded : recorded[k] \in Nat
    /\ DOMAIN req = Slot
    /\ \A s \in Slot : req[s] \in Request \/ IsResealing(req[s])
    /\ answer \in [Slot -> Answer]
    /\ faults \in 0..MaxFaults

(* Every stored value opens under the identity of its own row, by the key   *)
(* its kid column names: the census counts the column, decryption reads the *)
(* envelope, and a rekey changes both or neither.                           *)
SealedAsLabelled ==
    \A i \in DOMAIN rows :
        /\ rows[i].envelope.kid = rows[i].kid
        /\ rows[i].envelope.id = i

(* No rotation leaves a row sealed under a key that the deployed ring has   *)
(* lost, for an operator who removes the old key on green only and does one *)
(* thing more than the guide asks: he lets the requests of earlier deploys  *)
(* end before he asks for a rekey or a status, and heeds no answer to one   *)
(* of them (Patient, and not Careless).                                     *)
NothingStranded == \A i \in DOMAIN rows : rows[i].kid \in Kids(config)

(* What an answer promises about the table now: a rekey that answers        *)
(* `remaining: 0`, or a green status, means that no row is left to move, as *)
(* long as it stands. It is so for the patient operator only: to any other  *)
(* a request of the earlier deploy may add a row after the answer.          *)
DoneMeansDone ==
    \A a \in Admin :
        answer[a] = Rekeyed(0) \/ Green(a)
            => \A i \in DOMAIN rows : rows[i].kid = config.active

(* "Only `oldKeyLoaded && safeToRemoveOldKey` means removing the key now    *)
(* loses nothing" (http/routes/admin.ts:47), for whoever follows the guide  *)
(* to the letter: no stored value is one that the deployed ring cannot open.*)
(* It is not so: a write that was sealed before the deploy commits after    *)
(* the census, and what it wrote goes with the key.                         *)
RemovingOnGreenLosesNothing ==
    \A i \in DOMAIN rows : Opens(config, rows[i].envelope, i)

(* A request that holds the deployed ring never meets UNKNOWN_KID or a row  *)
(* that will not open: neither a read, nor a rollback, nor a rekey page.    *)
Unreadable(a) == a.kind = "error" /\ a.code \in {"UNKNOWN_KID", "DECRYPT_FAILED"}
DeployedRingOpensEverything ==
    [][\A s \in Slot :
        InFlight(s) /\ req[s].ring = config /\ answer'[s] # answer[s]
            => ~Unreadable(answer'[s])]_vars

(* A rotation moves a row to another key and changes nothing else in it:    *)
(* as long as the row is stored, it keeps its value.                        *)
ContentsSurvive ==
    [][\A i \in DOMAIN rows \cap DOMAIN rows' :
        rows'[i].envelope.plain = rows[i].envelope.plain]_vars

(* A row on the deployed active key leaves the rekey's predicate for good:  *)
(* nothing moves it back to a retired key (core/keyring.ts, readPage), if   *)
(* the operator is patient.                                                 *)
RekeyedRowsLeaveForGood ==
    [][\A i \in DOMAIN rows \cap DOMAIN rows' :
        rows[i].kid = config.active => rows'[i].kid = rows[i].kid]_vars

(* A rotation that was begun ends with no retired key loaded.               *)
RotationFinishes == (config.old # {}) ~> (config.old = {})
-----------------------------------------------------------------------------
(* The inductive invariant behind the safety properties: what the stored    *)
(* rows satisfy, what a page held in memory still says of them, and what    *)
(* the operator's patience adds.                                            *)

(* Every ring ever deployed holds keys up to its active one. *)
Past(ring) == \A k \in Kids(ring) : k <= ring.active
RingsArePast ==
    /\ Past(config)
    /\ \A s \in Slot : InFlight(s) => Past(req[s].ring) /\ req[s].ring.active <= config.active
    /\ \A i \in DOMAIN rows : rows[i].kid <= config.active

(* A row id is minted once: no row has the id of a write in flight. *)
Minting(s) == req[s].pc \in {"write", "move"}
FreshIds ==
    /\ \A i \in DOMAIN rows : i < nextId
    /\ \A s \in Slot : Minting(s) => req[s].id < nextId /\ req[s].id \notin DOMAIN rows
    /\ \A s, t \in Slot : Minting(s) /\ Minting(t) /\ req[s].id = req[t].id => s = t

(* A page in memory holds rows as they were stored, and each row that is   *)
(* still there keeps that value; its id is not one about to be inserted.   *)
Holding(s) == req[s].pc = "reseal"
PagesAreTrue ==
    \A s \in Slot : Holding(s) =>
        \A i \in DOMAIN req[s].page :
            /\ req[s].page[i].envelope.id = i
            /\ i < nextId
            /\ i \in DOMAIN rows => rows[i].envelope.plain = req[s].page[i].envelope.plain
            /\ \A t \in Slot : Minting(t) => req[t].id # i

BaseInv ==
    /\ TypeOK
    /\ SealedAsLabelled
    /\ RingsArePast
    /\ FreshIds
    /\ PagesAreTrue

(* What a patient operator has asked for is in flight with nothing that    *)
(* seals under an earlier key, at least until the next key is installed.   *)
Asking(s) == req[s].pc \in {"page", "reseal", "count", "census", "recorded"}
UpToDate(s) == req[s].ring.active = config.active
Current == \A s \in Slot : InFlight(s) => UpToDate(s)
AskedTogether ==
    /\ \A s \in Slot : Asking(s) /\ UpToDate(s) => Current
    /\ \A s, t \in Slot : Asking(s) /\ Asking(t) => req[s].ring.active = req[t].ring.active

AllActive == \A i \in DOMAIN rows : rows[i].kid = config.active
Promised(a) ==
    \/ a.kind = "rekeyed" /\ a.remaining = 0
    \/ a.kind = "status" /\ a.safe
AnswersAreKept ==
    /\ \A s \in Slot : Promised(answer[s]) => Current /\ AllActive
    /\ \A s \in Slot : req[s].pc = "recorded" /\ UpToDate(s) /\ req[s].safe => AllActive

(* A short page held every row there was to move. *)
ShortPagesAreLast ==
    \A s \in Slot :
        Holding(s) /\ UpToDate(s) /\ Cardinality(DOMAIN req[s].page) < req[s].limit
            => \A i \in DOMAIN rows : rows[i].kid = config.active \/ i \in DOMAIN req[s].page

(* A page held from an earlier deploy holds no row of the active key. *)
OldPagesAreStale ==
    \A s \in Slot :
        Holding(s) /\ ~UpToDate(s)
            => \A i \in DOMAIN req[s].page \cap DOMAIN rows : rows[i].kid # config.active

PatientInv ==
    /\ BaseInv
    /\ AskedTogether
    /\ AnswersAreKept
    /\ ShortPagesAreLast
    /\ OldPagesAreStale

(* Nobody seals, or has sealed, under a key the deployed ring has lost. *)
NothingLost ==
    /\ NothingStranded
    /\ \A s \in Slot : InFlight(s) => req[s].ring.active \in Kids(config)

PatientIInv == PatientInv /\ NothingLost
=============================================================================
