---------------------------- MODULE SigningKeys ----------------------------
(***************************************************************************)
(* The signing keys of Cloudflare Access as one isolate of the worker sees *)
(* them: a cache entry that requests share, read before a fetch and written*)
(* after it, so an answer or a failure may come when the entry has moved on*)
(*                                                                         *)
(* JavaScript runs one thing at a time, so all a request does between two  *)
(* waits for the network is one step.  A key is its kid, with the time it  *)
(* is published and the time it is withdrawn; an answer is the key set as  *)
(* published at some time in the last EdgeTtl, since Cloudflare's cache    *)
(* stands between the worker and Access and other isolates fill it.  Left  *)
(* out: which algorithms a key may declare, and the claims of the token.   *)
(***************************************************************************)
EXTENDS Naturals, FiniteSets

CONSTANTS
    Slot,         \* requests that an isolate handles at once
    Kid,          \* key ids that a token may name
    Schedules,    \* when each key is published and withdrawn
    Ttl,          \* JWKS_TTL_MS
    MinInterval,  \* JWKS_MIN_REFETCH_INTERVAL_MS
    EdgeTtl,      \* cacheTtl
    MaxTime,      \* bound on the clock
    MaxFailures,  \* bound on the times at which failed fetches may have started
    None

Time == Nat
Life == [from: Time, until: Time]
Entry == [keys: SUBSET Kid, fetchedAt: Time, attemptedAt: Time]

ASSUME ScheduleAssumption == Schedules \subseteq [Kid -> Life]
ASSUME IntervalAssumption ==
    /\ Ttl \in Nat \ {0} /\ MinInterval \in Nat \ {0} /\ EdgeTtl \in Nat \ {0}
    /\ MaxTime \in Nat /\ MaxFailures \in Nat
ASSUME NoneAssumption == None \notin Entry /\ None \notin Time /\ None \notin Kid

VARIABLES
    clock,
    life,        \* when each key is published and withdrawn
    entry,       \* the cache entry, or None
    req,         \* what each request is doing
    failed,      \* the times that requests started whose fetch failed
    latest,      \* when the request started that was the last to end a fetch
    overlapped   \* two fetches have been under way at once

vars == <<clock, life, entry, req, failed, latest, overlapped>>

Request ==
    [pc: {"idle", "fetch", "answer", "accepted", "refused", "unavailable"},
     kid: Kid \cup {None}, now: Time,
     refetch: BOOLEAN,               \* for an unknown kid, not for an old entry
     held: Entry \cup {None},        \* the entry it found
     answer: SUBSET Kid,             \* the keys on their way to it
     failed: BOOLEAN]                \* its own fetch failed

Idle ==
    [pc |-> "idle", kid |-> None, now |-> 0, refetch |-> FALSE, held |-> None,
     answer |-> {}, failed |-> FALSE]

At(s, pc) == req[s].pc = pc
Fetching(s) == req[s].pc \in {"fetch", "answer"}
Published(t) == {k \in Kid : life[k].from <= t /\ t < life[k].until}

Init ==
    /\ clock = 0
    /\ life \in Schedules
    /\ entry = None
    /\ req = [s \in Slot |-> Idle]
    /\ failed = {}
    /\ latest = None
    /\ overlapped = FALSE
----------------------------------------------------------------------------
(* A request with a token arrives. *)

Fresh(e, now) == e # None /\ now < e.fetchedAt + Ttl
LimitedByTtl(e, now) == now < e.fetchedAt + Ttl
Limited(e, now) == now < e.attemptedAt + MinInterval

Arrive(s, r) ==
    /\ ~Fetching(s)
    /\ req' = [req EXCEPT ![s] = r]
    /\ overlapped' = (overlapped \/ (r.pc = "fetch" /\ \E o \in Slot : Fetching(o)))
    /\ UNCHANGED <<clock, life, entry, failed, latest>>

New(k, pc) == [Idle EXCEPT !.pc = pc, !.kid = k, !.now = clock]
Fetch(k, again) == [New(k, "fetch") EXCEPT !.refetch = again, !.held = entry]

FindCached(s, k) ==
    /\ Fresh(entry, clock) /\ k \in entry.keys
    /\ Arrive(s, New(k, "accepted"))

\* The entry is fresh, and within the limit nothing else is tried.
RefuseUnknown(s, k) ==
    /\ Fresh(entry, clock) /\ k \notin entry.keys
    /\ Limited(entry, clock)
    /\ Arrive(s, New(k, "refused"))

StartRefetch(s, k) ==
    /\ Fresh(entry, clock) /\ k \notin entry.keys
    /\ ~Limited(entry, clock)
    /\ Arrive(s, Fetch(k, TRUE))

StartFetch(s, k) ==
    /\ ~Fresh(entry, clock)
    /\ Arrive(s, Fetch(k, FALSE))
----------------------------------------------------------------------------
(* The fetch. *)

Serve(s) ==
    /\ At(s, "fetch")
    /\ \E t \in 0..clock : /\ clock <= t + EdgeTtl
                           /\ req' = [req EXCEPT ![s].pc = "answer", ![s].answer = Published(t)]
    /\ UNCHANGED <<clock, life, entry, failed, latest, overlapped>>

Answered(s, pc, own) ==
    [Idle EXCEPT !.pc = pc, !.kid = req[s].kid, !.now = req[s].now, !.failed = own]

\* Whether the kid is among the keys decides: an entry that was attempted just
\* now is never fetched again for the same request.
Conclude(s, keys, own) ==
    /\ req' = [req EXCEPT ![s] =
                  Answered(s, IF req[s].kid \in keys THEN "accepted" ELSE "refused", own)]
    /\ latest' = req[s].now

Land(s) ==
    /\ At(s, "answer")
    /\ entry' = [keys |-> req[s].answer, fetchedAt |-> req[s].now, attemptedAt |-> req[s].now]
    /\ Conclude(s, req[s].answer, FALSE)
    /\ UNCHANGED <<clock, life, failed, overlapped>>

\* The origin is out of reach, or answers with an error or with something that
\* is no key set.  What the request found before is what it goes on with.
FailAsFetched(s) ==
    /\ Fetching(s)
    /\ failed' = failed \cup {req[s].now} /\ Cardinality(failed') <= MaxFailures
    /\ IF req[s].held = None
       THEN /\ req' = [req EXCEPT ![s] = Answered(s, "unavailable", TRUE)]
            /\ latest' = req[s].now
            /\ UNCHANGED entry
       ELSE /\ entry' = [req[s].held EXCEPT !.attemptedAt = req[s].now, !.fetchedAt = req[s].now]
            /\ Conclude(s, req[s].held.keys, TRUE)
    /\ UNCHANGED <<clock, life, overlapped>>
Fail(s) ==
    /\ Fetching(s)
    /\ failed' = failed \cup {req[s].now} /\ Cardinality(failed') <= MaxFailures
    /\ IF req[s].held = None
       THEN /\ req' = [req EXCEPT ![s] = Answered(s, "unavailable", TRUE)]
            /\ latest' = req[s].now
            /\ UNCHANGED entry
       ELSE /\ entry' = [req[s].held EXCEPT !.attemptedAt = req[s].now]
            /\ Conclude(s, req[s].held.keys, TRUE)
    /\ UNCHANGED <<clock, life, overlapped>>

\* The isolate goes, with its cache and the requests it was handling.
Recycle ==
    /\ entry' = None
    /\ req' = [s \in Slot |-> Idle]
    /\ UNCHANGED <<clock, life, failed, latest, overlapped>>

Tick ==
    /\ clock < MaxTime
    /\ clock' = clock + 1
    /\ UNCHANGED <<life, entry, req, failed, latest, overlapped>>

Next ==
    \/ \E s \in Slot :
          \/ \E k \in Kid : FindCached(s, k) \/ RefuseUnknown(s, k) \/ StartRefetch(s, k) \/ StartFetch(s, k)
          \/ Serve(s) \/ Land(s) \/ Fail(s)
    \/ Recycle
    \/ Tick

Spec == Init /\ [][Next]_vars
----------------------------------------------------------------------------
(* What the cache keeps to. *)

\* "TTL bounds how long a key we have stopped trusting can keep being trusted"
\* (jwks.ts:6-8), with the hour that Cloudflare's own cache adds (:195-199): a
\* token is accepted on a key that was published until less than both before the
\* request came, whoever wrote the entry it was found in and in whatever order;
\* or the request's own fetch has failed and it went on with what it had.
AcceptedKeysAreRecent ==
    \A s \in Slot : At(s, "accepted") /\ ~req[s].failed =>
       life[req[s].kid].until + Ttl + EdgeTtl > req[s].now

\* "Unknown-kid refetch bounds how long a key we have never seen stays unknown"
\* (jwks.ts:10-15): a token on a key that has long been published, and still is,
\* is refused only after a failure, and never because of one that a request
\* longer ago than the limit has met, though such a failure may put an older
\* entry back over a newer one (:294-297).
RefusalsAreBrief ==
    \A s \in Slot :
       /\ At(s, "refused")
       /\ life[req[s].kid].from + MinInterval + EdgeTtl <= req[s].now
       /\ clock < life[req[s].kid].until
       => \E t \in failed : req[s].now < t + MinInterval

\* "The refetch is rate-limited to at most once per 60 s per URL" (jwks.ts:17-19),
\* counting attempts that failed as well, as long as no two fetches overlap.
RefetchesAreSpaced ==
    ~overlapped => \A s \in Slot : Fetching(s) /\ req[s].refetch => latest + MinInterval <= req[s].now

\* Refetches come soon enough that a new key is noticed, and no sooner than the
\* limit lets them (jwks.ts:10-19).
RefetchesAreTimely == RefusalsAreBrief /\ RefetchesAreSpaced
----------------------------------------------------------------------------
(* The inductive invariant. *)

TypeOK ==
    /\ clock \in Time
    /\ life \in [Kid -> Life]
    /\ entry \in Entry \cup {None}
    /\ req \in [Slot -> Request]
    /\ failed \subseteq Time
    /\ latest \in Time \cup {None}
    /\ overlapped \in BOOLEAN

\* The keys are a set that was published within EdgeTtl of the time, or later.
PublishedSince(keys, time) ==
    \E t \in 0..clock : time <= t + EdgeTtl /\ keys = Published(t)

\* An entry is as recent as it says, and its attempt was its fetch or a failure.
Sound(e) ==
    e # None => /\ e.fetchedAt <= clock /\ e.attemptedAt <= clock
                /\ PublishedSince(e.keys, e.fetchedAt)
                /\ e.attemptedAt # e.fetchedAt => e.attemptedAt \in failed

RequestsAreSound ==
    \A s \in Slot :
       /\ req[s].now <= clock
       /\ ~At(s, "idle") => req[s].kid # None
       /\ Sound(req[s].held)
       /\ At(s, "answer") => PublishedSince(req[s].answer, req[s].now)

\* With one fetch at a time the entry knows of the last attempt.
AttemptsAreKnown ==
    ~overlapped =>
       /\ entry # None => latest = entry.attemptedAt
       /\ \A s \in Slot : Fetching(s) => req[s].held = entry
       /\ \A s, o \in Slot : Fetching(s) /\ Fetching(o) => s = o
       /\ \A s \in Slot : Fetching(s) /\ req[s].refetch => entry # None

IInv ==
    /\ TypeOK
    /\ Sound(entry)
    /\ RequestsAreSound
    /\ AttemptsAreKnown
    /\ AcceptedKeysAreRecent
    /\ RefusalsAreBrief
    /\ RefetchesAreSpaced
=============================================================================
