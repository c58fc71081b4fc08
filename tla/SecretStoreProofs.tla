------------------------- MODULE SecretStoreProofs -------------------------
(***************************************************************************)
(* Proofs about SecretStore: its invariant is inductive, for any sets of   *)
(* keys, plaintexts, clients and request bodies; the safety properties of  *)
(* the runs follow from it, and so does that the store implements the      *)
(* append-only one of VersionedStore.                                      *)
(***************************************************************************)
EXTENDS SecretStore, Sequences, FiniteSetTheorems, TLAPS

(* The largest of the versions a key-state read aggregates. *)
LEMMA MaxOfInterval ==
    ASSUME NEW n \in Nat, NEW m \in 0..n, NEW S, S = {0, m} \cup 1..n
    PROVE  Max(S) = n
<1>1. S = 0..n
  OBVIOUS
<1>2. n \in S /\ \A y \in S : n >= y
  BY <1>1
<1>3. \A x \in S : (\A y \in S : x >= y) => x = n
  BY <1>1, <1>2
<1> QED
  BY <1>2, <1>3 DEF Max

LEMMA MaxOfVersions ==
    ASSUME NEW n \in Nat, n > 0
    PROVE  Max(1..n) = n
<1>1. n \in 1..n /\ \A y \in 1..n : n >= y
  OBVIOUS
<1>2. \A x \in 1..n : (\A y \in 1..n : x >= y) => x = n
  BY <1>1
<1> QED
  BY <1>1, <1>2 DEF Max

(* What the fields of a request body are, by its kind. *)
LEMMA InputFacts ==
    ASSUME NEW in \in Inputs
    PROVE  /\ in.kind \in {"write", "rollback", "rename", "list", "delete_env", "create_env"}
           /\ in.kind = "write" => /\ DOMAIN in.set \in SUBSET Key
                                   /\ \A k \in DOMAIN in.set : in.set[k] \in Value
           /\ in.kind = "rollback" => in.key \in Key /\ in.to \in Nat
           /\ in.kind = "rename" => in.old \in Key /\ in.new \in Key
  BY InputsAssumption
     DEF Input, WriteInput, RollbackInput, RenameInput, PlainInput, PartialMap

(* A request that computed the next version number of a key from a state   *)
(* whose rows are still there, and does not collide, continues the key.    *)
LEMMA NextIsNewest ==
    ASSUME NEW S, S # {} => \E n \in S : S = 1..n, S \subseteq Nat,
           NEW m \in Nat, 1..m \subseteq S, m + 1 \notin S
    PROVE  S = 1..m
<1>1. CASE S = {}
  <2>1. m = 0
    BY <1>1
  <2> QED
    BY <1>1, <2>1
<1>2. CASE S # {}
  <2>1. PICK n \in S : S = 1..n
    BY <1>2
  <2>2. n \in Nat /\ m <= n /\ ~(m + 1 <= n)
    BY <2>1
  <2> QED
    BY <2>1, <2>2
<1> QED
  BY <1>1, <1>2

(* The key state a read returns, over tables that satisfy the invariant. *)
LEMMA ReadKeyStateFacts ==
    ASSUME TypeOK, Dense, Newest, NEW id \in Nat
    PROVE  /\ ReadKeyState(id) \in [Key -> KeyState]
           /\ Present(id) => \A k \in Key :
                /\ VersionsOf(k) = 1..ReadKeyState(id)[k].max
                /\ ReadKeyState(id)[k].live = (k \in Live)
<1> SUFFICES ASSUME NEW k \in Key
             PROVE  /\ ReadKeyState(id)[k] \in KeyState
                    /\ Present(id) => /\ VersionsOf(k) = 1..ReadKeyState(id)[k].max
                                      /\ ReadKeyState(id)[k].live = (k \in Live)
  BY DEF ReadKeyState
<1>0. CASE ~Present(id)
  BY <1>0 DEF ReadKeyState, KeyState
<1>1. CASE Present(id)
  <2>1. PICK n \in Nat : VersionsOf(k) = 1..n
    <3>1. VersionsOf(k) \subseteq Nat
      BY DEF TypeOK, VersionsOf, VersionRow
    <3>2. VersionsOf(k) = {} => VersionsOf(k) = 1..0
      OBVIOUS
    <3> QED
      BY <3>1, <3>2 DEF Dense
  <2>2. current[k] \in 0..n
    <3>1. CASE k \in Live
      <4>1. current[k] \in Nat /\ current[k] # 0
        BY <3>1 DEF Live, TypeOK
      <4>2. 1..current[k] = 1..n
        BY <3>1, <2>1 DEF Newest
      <4> QED
        BY <4>1, <4>2
    <3>2. CASE k \notin Live
      BY <3>2 DEF Live
    <3> QED
      BY <3>1, <3>2
  <2>3. Max({0, current[k]} \cup VersionsOf(k)) = n
    BY <2>1, <2>2, MaxOfInterval
  <2>4. ReadKeyState(id)[k] = [max |-> n, live |-> k \in Live]
    BY <1>1, <2>3 DEF ReadKeyState
  <2> QED
    BY <2>1, <2>4 DEF KeyState
<1> QED
  BY <1>0, <1>1
----------------------------------------------------------------------------
(* Steps that leave the tables alone. *)

LEMMA IdleType == Idle \in Request
  BY DEF Idle, Request, NoInput, NoState, KeyState, Pc

(* Only what client c holds has to be looked at again. *)
LEMMA LocalStep ==
    ASSUME IInv, NEW c \in Client, UNCHANGED <<env, versions, current>>,
           \A d \in Client \ {c} : req'[d] = req[d] /\ etag'[d] = etag[d],
           WellFormed(c)', Grounded(c)', Conditional(c)'
    PROVE  Tables' /\ Flight'
<1>1. Tables'
  BY DEF IInv, Tables, Dense, Unique, Newest, Opened, Absent, VersionsOf, Live
<1>2. ASSUME NEW d \in Client, d # c
      PROVE  WellFormed(d)' /\ Grounded(d)' /\ Conditional(d)'
  <2>1. WellFormed(d) /\ Grounded(d) /\ Conditional(d)
    BY DEF IInv, Flight
  <2>2. req'[d] = req[d] /\ etag'[d] = etag[d]
    BY <1>2
  <2>3. ReadKeyState(env.id)' = ReadKeyState(env.id)
    BY DEF ReadKeyState, Present, VersionsOf, Live
  <2>4. \A k \in Key : VersionsOf(k)' = VersionsOf(k) /\ (k \in Live' <=> k \in Live)
    BY DEF VersionsOf, Live
  <2>5. WellFormed(d)'
    BY <2>1, <2>2 DEF WellFormed
  <2>6. Grounded(d)'
    BY <2>1, <2>2, <2>3, <2>4 DEF Grounded, Present
  <2>7. Conditional(d)'
    BY <2>1, <2>2, <2>3 DEF Conditional, Present
  <2> QED
    BY <2>5, <2>6, <2>7
<1> QED
  BY <1>1, <1>2 DEF Flight

(* A request that ends: nothing is left for it to rely on. *)
LEMMA IdleIsGrounded ==
    ASSUME NEW c \in Client, WellFormed(c), Conditional(c),
           UNCHANGED <<env, versions, current>>, req'[c] = Idle, etag'[c] = etag[c], TypeOK
    PROVE  WellFormed(c)' /\ Grounded(c)' /\ Conditional(c)'
<1>1. WellFormed(c)'
  BY DEF WellFormed, Idle, NoInput, TypeOK
<1>2. Grounded(c)'
  BY DEF Grounded, Idle
<1>3. Conditional(c)'
  BY DEF Conditional, Idle, Present
<1> QED
  BY <1>1, <1>2, <1>3

LEMMA FailPreserves ==
    ASSUME IInv, NEW c \in Client, NEW code \in Code, Fail(c, code)
    PROVE  IInv'
<1> USE DEF IInv
<1>1. TypeOK'
  BY IdleType DEF TypeOK, Fail, Reply, Answer
<1>2. req'[c] = Idle /\ \A d \in Client \ {c} : req'[d] = req[d]
  BY DEF TypeOK, Fail, Reply
<1>3. UNCHANGED <<env, versions, current, etag>>
  BY DEF Fail
<1>4. WellFormed(c) /\ Conditional(c)
  BY DEF Flight
<1>5. WellFormed(c)' /\ Grounded(c)' /\ Conditional(c)'
  BY <1>2, <1>3, <1>4, IdleIsGrounded
<1>6. Tables' /\ Flight'
  BY <1>2, <1>3, <1>5, LocalStep
<1> QED
  BY <1>1, <1>6

(* requireEnvironment: the request begins with the row it resolved. *)
LEMMA ResolvePreserves ==
    ASSUME IInv, NEW c \in Client, NEW in \in Inputs, NEW pc \in {"read", "listing", "deleting"},
           Resolve(c, in, pc), pc = "read" => in.kind \in {"write", "rollback", "rename"},
           pc = "read" /\ in.kind = "write" /\ in.guarded => etag[c].held,
           \/ etag' = etag
           \/ pc = "listing" /\ etag' = [etag EXCEPT ![c] = Tag(FALSE, env.id, env.rev, NoListing)]
    PROVE  IInv'
<1> USE DEF IInv
<1> DEFINE r == [Idle EXCEPT !.pc = pc, !.input = in, !.seen = [id |-> env.id, rev |-> env.rev]]
<1>1. r \in Request
  BY IdleType DEF Idle, Request, Pc, TypeOK
<1>2. TypeOK'
  <2>1. Tag(FALSE, env.id, env.rev, NoListing) \in
          [held: BOOLEAN, id: Nat, rev: Nat, listing: [Key -> Nat]]
    BY DEF Tag, NoListing, TypeOK
  <2>2. etag' \in [Client -> [held: BOOLEAN, id: Nat, rev: Nat, listing: [Key -> Nat]]]
    BY <2>1 DEF TypeOK
  <2>3. req' \in [Client -> Request]
    BY <1>1 DEF TypeOK, Resolve
  <2>4. answer' \in [Client -> Answer]
    BY DEF TypeOK, Resolve, Answer, Code
  <2> QED
    BY <2>2, <2>3, <2>4 DEF TypeOK, Resolve
<1>3. req'[c] = r /\ UNCHANGED <<env, versions, current>>
  BY DEF Resolve, TypeOK
<1>4. \A d \in Client \ {c} : req'[d] = req[d] /\ etag'[d] = etag[d]
  BY DEF Resolve, TypeOK
<1>5. /\ r.pc = pc /\ r.input = in /\ r.seen.id = env.id /\ r.seen.rev = env.rev
  BY DEF Idle
<1>6. \/ etag'[c] = etag[c]
      \/ pc = "listing" /\ etag'[c] = Tag(FALSE, env.id, env.rev, NoListing)
  BY DEF TypeOK
<1>7. WellFormed(c)'
  BY <1>3, <1>5, <1>6 DEF WellFormed, Flight, TypeOK, Tag
<1>8. Grounded(c)'
  BY <1>3, <1>5 DEF Grounded, TypeOK
<1>9. Conditional(c)'
  BY <1>3, <1>5, <1>6 DEF Conditional, Present, Flight, TypeOK, Tag
<1> QED
  BY <1>2, <1>3, <1>4, <1>7, <1>8, <1>9, LocalStep

LEMMA StartPreserves ==
    ASSUME IInv, NEW c \in Client, Start(c), ~ \E in \in Inputs : CreateEnv(c, in)
    PROVE  IInv'
<1>1. CASE ResolveMissing(c)
  BY <1>1, FailPreserves DEF ResolveMissing, Code
<1>2. CASE \E in \in Inputs : StartOversized(c, in)
  BY <1>2, FailPreserves DEF StartOversized, Code
<1>3. ASSUME NEW in \in Inputs, StartWrite(c, in) \/ StartMove(c, in)
      PROVE  IInv'
  BY <1>3, ResolvePreserves DEF StartWrite, StartMove
<1>4. ASSUME NEW in \in Inputs, StartList(c, in)
      PROVE  IInv'
  BY <1>4, ResolvePreserves DEF StartList
<1>5. ASSUME NEW in \in Inputs, StartDeleteEnv(c, in)
      PROVE  IInv'
  BY <1>5, ResolvePreserves DEF StartDeleteEnv
<1> QED
  BY <1>1, <1>2, <1>3, <1>4, <1>5 DEF Start

LEMMA ResolveListingPreserves ==
    ASSUME IInv, NEW c \in Client, ResolveListing(c)
    PROVE  IInv'
<1> USE DEF IInv
<1>1. CASE Fail(c, "NOT_FOUND")
  BY <1>1, FailPreserves DEF Code
<1>2. CASE /\ req' = [req EXCEPT ![c].pc = "list_resolved",
                                    ![c].seen = [id |-> env.id, rev |-> @.rev]]
           /\ UNCHANGED <<env, versions, current, audit, etag, answer>>
  <2>1. req[c] \in Request /\ req[c].pc = "listing"
    BY DEF TypeOK, ResolveListing
  <2>2. /\ req'[c] = [req[c] EXCEPT !.pc = "list_resolved",
                                   !.seen = [id |-> env.id, rev |-> @.rev]]
        /\ \A d \in Client \ {c} : req'[d] = req[d]
    BY <1>2 DEF TypeOK
  <2>3. req'[c] \in Request /\ req'[c].pc = "list_resolved" /\ req'[c].seen.id = env.id
    <3> DEFINE s == [id |-> env.id, rev |-> req[c].seen.rev]
    <3>1. s \in [id: Nat, rev: Nat] /\ s.id = env.id
      BY <2>1 DEF Request, TypeOK
    <3> DEFINE q == [pc |-> "list_resolved", input |-> req[c].input, seen |-> s,
                     snap |-> req[c].snap, value |-> req[c].value, attempt |-> req[c].attempt]
    <3>2. req'[c] = q
      BY <2>1, <2>2 DEF Request
    <3>3. q \in Request
      BY <2>1, <3>1 DEF Request, Pc
    <3> QED
      BY <3>1, <3>2, <3>3
  <2>4. TypeOK'
    BY <1>2, <2>3 DEF TypeOK
  <2>5. WellFormed(c)' /\ Grounded(c)' /\ Conditional(c)'
    BY <1>2, <2>3 DEF WellFormed, Grounded, Conditional, Present, Flight, TypeOK
  <2> QED
    BY <1>2, <2>2, <2>4, <2>5, LocalStep
<1> QED
  BY <1>1, <1>2 DEF ResolveListing

(* The listing is exact for the revision read before it, or that revision  *)
(* has moved on.                                                           *)
LEMMA ReadListingPreserves ==
    ASSUME IInv, NEW c \in Client, ReadListing(c)
    PROVE  IInv'
<1> USE DEF IInv
<1>1. /\ req'[c] = Idle /\ \A d \in Client \ {c} : req'[d] = req[d] /\ etag'[d] = etag[d]
      /\ UNCHANGED <<env, versions, current>>
  BY DEF ReadListing, Reply, TypeOK
<1>2. /\ etag'[c].id = etag[c].id /\ etag'[c].rev = etag[c].rev
      /\ etag'[c].listing = IF Present(req[c].seen.id) THEN current ELSE NoListing
  BY DEF ReadListing, TypeOK, Tag
<1>3. TypeOK'
  BY IdleType DEF ReadListing, Reply, TypeOK, Answer, Code, Tag, NoListing
<1>4. WellFormed(c)'
  BY <1>1, <1>2 DEF WellFormed, Idle, NoInput, TypeOK, Flight
<1>5. Grounded(c)'
  BY <1>1 DEF Grounded, Idle
<1>6. Conditional(c)'
  <2> SUFFICES ASSUME Present(etag[c].id)
               PROVE  /\ etag[c].rev <= env.rev
                      /\ etag'[c].listing = current
    BY <1>1, <1>2 DEF Conditional, Present, Idle
  <2>1. etag[c].rev <= env.rev
    BY DEF Flight, Conditional
  <2>2. etag[c].id <= req[c].seen.id /\ req[c].seen.id <= env.id
    BY DEF Flight, WellFormed, ReadListing
  <2>3. etag[c].id \in Nat /\ req[c].seen.id \in Nat /\ env.id \in Nat
    BY DEF TypeOK, Request
  <2>4. Present(req[c].seen.id)
    BY <2>2, <2>3 DEF Present
  <2> QED
    BY <1>2, <2>1, <2>4
<1> QED
  BY <1>1, <1>3, <1>4, <1>5, <1>6, LocalStep

(* readKeyState: the snapshot is exact when it is taken. *)
LEMMA ReadStatePreserves ==
    ASSUME IInv, NEW c \in Client, ReadState(c)
    PROVE  IInv'
<1> USE DEF IInv
<1> DEFINE in   == req[c].input
           snap == ReadKeyState(req[c].seen.id)
           pc   == IF in.kind = "write" THEN "commit" ELSE "source"
<1>1. /\ req[c] \in Request /\ req[c].pc = "read"
      /\ in.kind \in {"write", "rollback", "rename"}
  BY DEF ReadState, TypeOK, Flight, WellFormed
<1>2. in \in Inputs
  BY <1>1 DEF Request, NoInput
<1>3. CASE Refusal(in, snap) # "none"
  <2>1. Refusal(in, snap) \in Code
    BY <1>1 DEF Refusal, RefuseWrite, RefuseRollback, RefuseRename, Code
  <2> QED
    BY <1>3, <2>1, FailPreserves DEF ReadState
<1>4. CASE Refusal(in, snap) = "none"
  <2>1. /\ req' = [req EXCEPT ![c].snap = snap, ![c].pc = pc]
        /\ UNCHANGED <<env, versions, current, audit, etag, answer>>
    BY <1>4 DEF ReadState
  <2>2. /\ snap \in [Key -> KeyState]
        /\ Present(req[c].seen.id) => \A k \in Key : /\ VersionsOf(k) = 1..snap[k].max
                                                    /\ snap[k].live = (k \in Live)
    BY <1>1, ReadKeyStateFacts DEF Tables, Request
  <2> DEFINE q == [pc |-> pc, input |-> in, seen |-> req[c].seen, snap |-> snap,
                   value |-> req[c].value, attempt |-> req[c].attempt]
  <2>3. req'[c] = q /\ \A d \in Client \ {c} : req'[d] = req[d]
    BY <1>1, <2>1 DEF Request, TypeOK
  <2>4. q \in Request
    BY <1>1, <2>2 DEF Request, Pc
  <2>5. TypeOK'
    BY <2>1, <2>3, <2>4 DEF TypeOK
  <2>6. WellFormed(c)'
    <3>1. WellFormed(c)
      BY DEF Flight
    <3> QED
      BY <1>1, <1>4, <2>1, <2>3, <3>1 DEF WellFormed
  <2>7. Grounded(c)'
    <3>1. Grounded(c)
      BY DEF Flight
    <3>2. \A k \in Key : VersionsOf(k)' = VersionsOf(k) /\ (k \in Live' <=> k \in Live)
      BY <2>1 DEF VersionsOf, Live
    <3>3. ReadKeyState(env.id)' = ReadKeyState(env.id)
      BY <2>1 DEF ReadKeyState, Present, VersionsOf, Live
    <3>4. q.pc \in {"source", "commit"} /\ q.seen = req[c].seen /\ q.snap = snap
      OBVIOUS
    <3>5. req'[c].pc = q.pc /\ req'[c].seen = req[c].seen /\ req'[c].snap = snap
      BY <2>3, <3>4
    <3>6. Present(req[c].seen.id)' = Present(req[c].seen.id) /\ env' = env
      BY <2>1, <3>5 DEF Present
    <3> SUFFICES ASSUME Present(req[c].seen.id)
                 PROVE  Grounded(c)'
      BY <3>5, <3>6 DEF Grounded
    <3>7. req[c].seen.rev <= env'.rev
      BY <1>1, <3>1, <3>6 DEF Grounded
    <3>8. \A k \in Key : 1..snap[k].max \subseteq VersionsOf(k)'
      BY <2>2, <3>2
    <3>9. \A k \in Key : snap[k].live <=> k \in Live'
      BY <2>2, <3>2
    <3>10. snap = ReadKeyState(env.id)'
      BY <3>3 DEF Present
    <3> HIDE DEF snap, q, pc, in, IInv
    <3> QED
      BY <3>5, <3>7, <3>8, <3>9, <3>10 DEF Grounded
  <2>8. Conditional(c)'
    <3>1. Conditional(c)
      BY DEF Flight
    <3>2. ReadKeyState(env.id)' = ReadKeyState(env.id)
      BY <2>1 DEF ReadKeyState, Present, VersionsOf, Live
    <3> QED
      BY <2>1, <2>3, <3>1, <3>2 DEF Conditional, Present
  <2> QED
    BY <2>1, <2>3, <2>5, <2>6, <2>7, <2>8, LocalStep
<1> QED
  BY <1>3, <1>4

(* A move opens a row that is there, and holds its plaintext. *)
LEMMA ReadSourcePreserves ==
    ASSUME IInv, NEW c \in Client, ReadSource(c)
    PROVE  IInv'
<1> USE DEF IInv
<1> DEFINE s    == SourceOf(req[c])
           row  == RowAt(s.key, s.version)
<1>1. CASE \E code \in Code : Fail(c, code)
  BY <1>1, FailPreserves
<1>2. CASE /\ Present(req[c].seen.id) /\ s.version \in VersionsOf(s.key)
           /\ row.blob # NoBlob
           /\ req' = [req EXCEPT ![c].value = row.blob.plain, ![c].pc = "commit"]
           /\ UNCHANGED <<env, versions, current, audit, etag, answer>>
  <2>1. req[c] \in Request /\ req[c].pc = "source" /\ WellFormed(c) /\ Grounded(c) /\ Conditional(c)
    BY DEF ReadSource, TypeOK, Flight
  <2>2. row.blob.plain \in Value
    <3>1. row \in versions
      BY <1>2 DEF RowAt, VersionsOf
    <3> QED
      BY <1>2, <3>1 DEF TypeOK, VersionRow, Blob
  <2> DEFINE q == [pc |-> "commit", input |-> req[c].input, seen |-> req[c].seen,
                   snap |-> req[c].snap, value |-> row.blob.plain, attempt |-> req[c].attempt]
  <2>3. req'[c] = q /\ \A d \in Client \ {c} : req'[d] = req[d]
    BY <1>2, <2>1 DEF Request, TypeOK
  <2>4. q \in Request
    BY <2>1, <2>2 DEF Request, Pc
  <2>5. TypeOK'
    BY <1>2, <2>3, <2>4 DEF TypeOK
  <2>6. WellFormed(c)'
    BY SMTT(40), <1>2, <2>1, <2>2, <2>3 DEF WellFormed
  <2>7. /\ ReadKeyState(env.id)' = ReadKeyState(env.id)
        /\ \A k \in Key : VersionsOf(k)' = VersionsOf(k) /\ (k \in Live' <=> k \in Live)
    BY <1>2 DEF ReadKeyState, Present, VersionsOf, Live
  <2>8. Grounded(c)'
    <3>1. q.pc = "commit" /\ q.seen = req[c].seen /\ q.snap = req[c].snap
      OBVIOUS
    <3> HIDE DEF q
    <3> QED
      BY <1>2, <2>1, <2>3, <2>7, <3>1 DEF Grounded, Present
  <2>9. Conditional(c)'
    BY <1>2, <2>1, <2>3, <2>7 DEF Conditional, Present
  <2> QED
    BY <1>2, <2>3, <2>5, <2>6, <2>8, <2>9, LocalStep
<1> QED
  BY <1>1, <1>2 DEF ReadSource, Code

(* A batch that lost its race is planned again, once. *)
LEMMA WriteRaceLostPreserves ==
    ASSUME IInv, NEW c \in Client, WriteRaceLost(c)
    PROVE  IInv'
<1> USE DEF IInv
<1>1. CASE Fail(c, "VERSION_CONFLICT")
  BY <1>1, FailPreserves DEF Code
<1>2. CASE /\ req' = [req EXCEPT ![c].pc = "read", ![c].attempt = 1, ![c].snap = NoState]
           /\ UNCHANGED <<env, versions, current, audit, etag, answer>>
  <2>1. /\ req[c] \in Request /\ req[c].pc = "commit" /\ req[c].input.kind = "write"
        /\ WellFormed(c) /\ Grounded(c) /\ Conditional(c)
    BY DEF WriteRaceLost, AtWriteCommit, TypeOK, Flight
  <2> DEFINE q == [pc |-> "read", input |-> req[c].input, seen |-> req[c].seen,
                   snap |-> NoState, value |-> req[c].value, attempt |-> 1]
  <2>2. req'[c] = q /\ \A d \in Client \ {c} : req'[d] = req[d]
    BY <1>2, <2>1 DEF Request, TypeOK
  <2>3. q \in Request
    BY <2>1 DEF Request, Pc, NoState, KeyState
  <2>4. TypeOK'
    BY <1>2, <2>2, <2>3 DEF TypeOK
  <2>5. WellFormed(c)'
    BY <1>2, <2>1, <2>2 DEF WellFormed
  <2>6. Grounded(c)'
    BY <1>2, <2>1, <2>2 DEF Grounded, Present
  <2>7. Conditional(c)'
    BY <1>2, <2>1, <2>2 DEF Conditional, Present
  <2> QED
    BY <1>2, <2>2, <2>4, <2>5, <2>6, <2>7, LocalStep
<1> QED
  BY <1>1, <1>2 DEF WriteRaceLost
----------------------------------------------------------------------------
(* Steps that append rows. *)

(* No row goes away, and a key without a new row is as live as before. *)
Grows ==
    \A k \in Key :
        /\ VersionsOf(k) \subseteq VersionsOf(k)'
        /\ VersionsOf(k)' = VersionsOf(k) => (k \in Live' <=> k \in Live)

(* Rows that continue the history of their keys, one per key, keep the     *)
(* tables right if a key they touch ends up deleted or at its new row.     *)
LEMMA AppendPreservesTables ==
    ASSUME TypeOK, Tables, env.exists, env'.exists, env'.id = env.id,
           NEW rows \in SUBSET VersionRow,
           \A r \in rows : r.version > 0 /\ VersionsOf(r.key) = 1..(r.version - 1),
           \A r, s \in rows : r.key = s.key => r = s,
           versions' = versions \cup rows,
           \A k \in Key : (\A r \in rows : r.key # k) => current'[k] = current[k],
           \A r \in rows : \/ current'[r.key] = 0
                           \/ /\ current'[r.key] = r.version
                              /\ Opens(r.blob, env.id, r.key, r.version)
    PROVE  Tables' /\ Grows
<1>1. ASSUME NEW r \in rows
      PROVE  r.key \in Key /\ r.version \in Nat /\ VersionsOf(r.key)' = 1..r.version
  <2>1. r.key \in Key /\ r.version \in Nat /\ r.version > 0
    BY DEF VersionRow
  <2>2. VersionsOf(r.key)' = VersionsOf(r.key) \cup {r.version}
    BY DEF VersionsOf
  <2>3. VersionsOf(r.key)' = 1..(r.version - 1) \cup {r.version}
    BY <2>2
  <2> QED
    BY <2>1, <2>3
<1>2. ASSUME NEW k \in Key, \A r \in rows : r.key # k
      PROVE  VersionsOf(k)' = VersionsOf(k) /\ (k \in Live' <=> k \in Live)
             /\ current'[k] = current[k]
  BY <1>2 DEF VersionsOf, Live
<1>3. Dense'
  <2> SUFFICES ASSUME NEW k \in Key, VersionsOf(k)' # {}
               PROVE  \E n \in VersionsOf(k)' : VersionsOf(k)' = 1..n
    BY DEF Dense
  <2>1. CASE \A r \in rows : r.key # k
    BY <2>1, <1>2 DEF Tables, Dense
  <2>2. CASE \E r \in rows : r.key = k
    <3>1. PICK r \in rows : r.key = k
      BY <2>2
    <3>2. r.version \in Nat /\ r.version > 0 /\ VersionsOf(k)' = 1..r.version
      BY <1>1, <3>1
    <3>3. r.version \in VersionsOf(k)'
      BY <3>2
    <3> QED
      BY <3>2, <3>3
  <2> QED
    BY <2>1, <2>2
<1>4. Unique'
  <2> SUFFICES ASSUME NEW r \in versions', NEW s \in versions', r.key = s.key, r.version = s.version
               PROVE  r = s
    BY DEF Unique
  <2>1. \A o \in versions, n \in rows : ~(o.key = n.key /\ o.version = n.version)
    <3> SUFFICES ASSUME NEW o \in versions, NEW n \in rows, o.key = n.key, o.version = n.version
                 PROVE  FALSE
      OBVIOUS
    <3>1. n.version \in VersionsOf(n.key)
      BY DEF VersionsOf
    <3>2. n.version \in 1..(n.version - 1) /\ n.version \in Nat
      BY <3>1, <1>1
    <3> QED
      BY <3>2
  <2>2. CASE r \in versions /\ s \in versions
    BY <2>2 DEF Tables, Unique
  <2> QED
    BY <2>1, <2>2
<1>5. Newest'
  <2> SUFFICES ASSUME NEW k \in Key, current'[k] # 0
               PROVE  VersionsOf(k)' = 1..current'[k]
    BY DEF Newest, Live
  <2>1. CASE \A r \in rows : r.key # k
    BY <2>1, <1>2 DEF Tables, Newest, Live
  <2>2. CASE \E r \in rows : r.key = k
    BY <2>2, <1>1
  <2> QED
    BY <2>1, <2>2
<1>6. Opened'
  <2> SUFFICES ASSUME NEW r \in versions', r.key \in Key, current'[r.key] # 0,
                      r.version = current'[r.key]
               PROVE  Opens(r.blob, env.id, r.key, r.version)
    BY DEF Opened, Live, Opens
  <2>1. CASE r \in rows
    BY <2>1
  <2>2. CASE r \in versions /\ \A n \in rows : n.key # r.key
    BY <2>2, <1>2 DEF Tables, Opened, Live
  <2>3. CASE r \in versions /\ \E n \in rows : n.key = r.key
    <3>1. PICK n \in rows : n.key = r.key
      BY <2>3
    <3>2. r.version = n.version
      BY <3>1
    <3>3. n.version \in VersionsOf(n.key)
      BY <2>3, <3>1, <3>2 DEF VersionsOf
    <3>4. n.version \in 1..(n.version - 1) /\ n.version \in Nat
      BY <3>3, <1>1
    <3> QED
      BY <3>4
  <2> QED
    BY <2>1, <2>2, <2>3
<1>7. Absent'
  BY DEF Absent
<1>8. Grows
  <2> SUFFICES ASSUME NEW k \in Key, ~(k \in Live' <=> k \in Live)
               PROVE  VersionsOf(k)' # VersionsOf(k)
    BY DEF Grows, VersionsOf
  <2>1. PICK r \in rows : r.key = k
    BY <1>2
  <2>2. r.version \in Nat /\ r.version > 0 /\ VersionsOf(k) = 1..(r.version - 1)
        /\ VersionsOf(k)' = 1..r.version
    BY <1>1, <2>1
  <2>3. r.version \in VersionsOf(k)' /\ r.version \notin VersionsOf(k)
    BY <2>2
  <2> QED
    BY <2>3
<1> QED
  BY <1>3, <1>4, <1>5, <1>6, <1>7, <1>8 DEF Tables

(* The revision moves, so nothing in flight counts on the old snapshot. *)
LEMMA BumpPreservesFlight ==
    ASSUME IInv, NEW c \in Client, env.exists, Bump, etag' = etag,
           req' = [req EXCEPT ![c] = Idle], Grows
    PROVE  Flight'
<1> USE DEF IInv
<1>1. env'.exists = env.exists /\ env'.id = env.id /\ env'.rev = env.rev + 1 /\ env.rev \in Nat
  BY DEF Bump, TypeOK
<1>2. \A i : Present(i)' = Present(i)
  BY <1>1 DEF Present
<1> SUFFICES ASSUME NEW d \in Client
             PROVE  WellFormed(d)' /\ Grounded(d)' /\ Conditional(d)'
  BY DEF Flight
<1>3. WellFormed(d) /\ Grounded(d) /\ Conditional(d)
  BY DEF Flight
<1>4. etag[d].rev \in Nat /\ req[d].seen.rev \in Nat /\ req[d].seen.id \in Nat /\ env.id \in Nat
      /\ etag[d].id \in Nat
  BY DEF TypeOK, Request
<1>5. Conditional(d)'
  BY <1>1, <1>2, <1>3, <1>4 DEF Conditional
<1>6. CASE d = c
  <2>1. req'[d] = Idle
    BY <1>6 DEF TypeOK
  <2>2. WellFormed(d)'
    BY <1>1, <1>3, <1>4, <2>1 DEF WellFormed, Idle, NoInput
  <2> QED
    BY <1>5, <2>1, <2>2 DEF Grounded, Idle
<1>7. CASE d # c
  <2>1. req'[d] = req[d]
    BY <1>7 DEF TypeOK
  <2>2. WellFormed(d)'
    BY <1>1, <1>3, <2>1 DEF WellFormed
  <2>3. Grounded(d)'
    <3> SUFFICES ASSUME Present(req[d].seen.id), req[d].pc # "idle",
                        req[d].pc # "list_resolved"
                 PROVE  /\ req[d].seen.rev <= env'.rev
                        /\ req[d].seen.rev # env'.rev
                        /\ req[d].pc \in {"source", "commit"} => \A k \in Key :
                             /\ 1..req[d].snap[k].max \subseteq VersionsOf(k)'
                             /\ VersionsOf(k)' = 1..req[d].snap[k].max
                                  => (req[d].snap[k].live <=> k \in Live')
      BY <1>2, <2>1 DEF Grounded
    <3>1. req[d].seen.rev <= env.rev
      BY <1>3 DEF Grounded
    <3>2. ASSUME req[d].pc \in {"source", "commit"}, NEW k \in Key
          PROVE  /\ 1..req[d].snap[k].max \subseteq VersionsOf(k)'
                 /\ VersionsOf(k)' = 1..req[d].snap[k].max
                      => (req[d].snap[k].live <=> k \in Live')
      <4>1. /\ 1..req[d].snap[k].max \subseteq VersionsOf(k)
            /\ VersionsOf(k) = 1..req[d].snap[k].max => (req[d].snap[k].live <=> k \in Live)
        BY <1>3, <3>2 DEF Grounded
      <4>2. /\ VersionsOf(k) \subseteq VersionsOf(k)'
            /\ VersionsOf(k)' = VersionsOf(k) => (k \in Live' <=> k \in Live)
        BY DEF Grows
      <4> QED
        BY <4>1, <4>2
    <3> QED
      BY <1>1, <1>4, <3>1, <3>2
  <2> QED
    BY <1>5, <2>2, <2>3
<1> QED
  BY <1>6, <1>7

(* A number computed from the snapshot, if it is still free, continues the *)
(* history of its key.                                                     *)
LEMMA NumberContinues ==
    ASSUME IInv, NEW c \in Client, Present(req[c].seen.id), req[c].pc = "commit",
           NEW k \in Key, NextVersion(req[c].snap, k) \notin VersionsOf(k)
    PROVE  /\ NextVersion(req[c].snap, k) \in Nat \ {0}
           /\ VersionsOf(k) = 1..(NextVersion(req[c].snap, k) - 1)
<1> USE DEF IInv
<1>1. req[c].snap[k].max \in Nat
  BY DEF TypeOK, Request, KeyState
<1>2. 1..req[c].snap[k].max \subseteq VersionsOf(k)
  BY DEF Flight, Grounded
<1>3. VersionsOf(k) \subseteq Nat
  BY DEF TypeOK, VersionsOf, VersionRow
<1>4. VersionsOf(k) # {} => \E n \in VersionsOf(k) : VersionsOf(k) = 1..n
  BY DEF Tables, Dense
<1>5. VersionsOf(k) = 1..req[c].snap[k].max
  BY <1>1, <1>2, <1>3, <1>4, NextIsNewest DEF NextVersion
<1>6. NextVersion(req[c].snap, k) \in Nat \ {0} /\ NextVersion(req[c].snap, k) - 1 = req[c].snap[k].max
  BY <1>1 DEF NextVersion
<1> QED
  BY <1>5, <1>6

LEMMA RepliedType ==
    ASSUME TypeOK, NEW c \in Client, NEW code \in Code, NEW rev \in Nat, Reply(c, code, rev)
    PROVE  /\ req' = [req EXCEPT ![c] = Idle]
           /\ req' \in [Client -> Request]
           /\ answer' \in [Client -> Answer]
  BY IdleType DEF Reply, TypeOK, Answer

LEMMA CommitWritePreserves ==
    ASSUME IInv, NEW c \in Client, CommitWrite(c)
    PROVE  IInv'
<1> USE DEF IInv
<1> DEFINE in   == req[c].input
           snap == req[c].snap
           id   == req[c].seen.id
           rows == PlannedRows(in, snap, id)
<1>1. /\ req[c] \in Request /\ req[c].pc = "commit" /\ in.kind = "write" /\ in \in Inputs
      /\ snap \in [Key -> KeyState] /\ id \in Nat /\ req[c].seen.rev \in Nat
  BY DEF CommitWrite, AtWriteCommit, TypeOK, Request, NoInput
<1>2. /\ DOMAIN in.set \in SUBSET Key /\ \A k \in DOMAIN in.set : in.set[k] \in Value
  BY <1>1, InputFacts
<1>3. /\ Present(id) /\ ~Collides(rows) /\ ApplyWrite(c)
  BY DEF CommitWrite, PlannedBy
<1>4. DOMAIN in.set \cap Deletes(in, snap) = {} /\ Deletes(in, snap) \subseteq Key
  BY <1>1 DEF Flight, WellFormed, Refusal, RefuseWrite, Overlaps, Deletes, LiveIn
<1>5. \A k \in Key : snap[k].max \in Nat
  BY <1>1 DEF KeyState
<1>6. rows \subseteq VersionRow
  BY <1>1, <1>2, <1>4, <1>5
     DEF PlannedRows, SetRows, Tombstone, VersionRow, NextVersion, Seal, Blob, Op
<1>7. \A r \in rows : r.key \in Key /\ r.version = NextVersion(snap, r.key)
  BY <1>2, <1>4 DEF PlannedRows, SetRows, Tombstone
<1>8. \A r \in rows : r.version > 0 /\ VersionsOf(r.key) = 1..(r.version - 1)
  BY <1>1, <1>3, <1>7, NumberContinues DEF Collides
<1>9. /\ \A r \in SetRows(in, snap, id) :
           r.key \in DOMAIN in.set
           /\ r = [key |-> r.key, version |-> NextVersion(snap, r.key), op |-> "set",
                   blob |-> Seal(id, r.key, NextVersion(snap, r.key), in.set[r.key])]
      /\ \A r \in rows \ SetRows(in, snap, id) :
           r.key \in Deletes(in, snap) /\ r = Tombstone(snap, r.key)
  BY DEF PlannedRows, SetRows, Tombstone
<1>10. \A r, s \in rows : r.key = s.key => r = s
  <2> SUFFICES ASSUME NEW r \in rows, NEW s \in rows, r.key = s.key
               PROVE  r = s
    OBVIOUS
  <2> HIDE DEF rows
  <2>1. r \in SetRows(in, snap, id) <=> s \in SetRows(in, snap, id)
    BY <1>4, <1>9
  <2> QED
    BY <1>9, <2>1
<1>11. \A k \in Key : (\A r \in rows : r.key # k) => k \notin DOMAIN in.set /\ k \notin Deletes(in, snap)
  <2> SUFFICES ASSUME NEW k \in Key, k \in DOMAIN in.set \/ k \in Deletes(in, snap)
               PROVE  \E r \in rows : r.key = k
    OBVIOUS
  <2>1. CASE k \in DOMAIN in.set
    <3> DEFINE n == [key |-> k, version |-> NextVersion(snap, k), op |-> "set",
                     blob |-> Seal(id, k, NextVersion(snap, k), in.set[k])]
    <3>1. n \in rows /\ n.key = k
      BY <2>1 DEF PlannedRows, SetRows
    <3> QED
      BY <3>1
  <2>2. CASE k \in Deletes(in, snap)
    <3>1. Tombstone(snap, k) \in rows /\ Tombstone(snap, k).key = k
      BY <2>2 DEF PlannedRows, Tombstone
    <3> QED
      BY <3>1
  <2> QED
    BY <2>1, <2>2
<1>12. /\ versions' = versions \cup rows
       /\ current' = [k \in Key |->
             IF k \in DOMAIN in.set THEN NextVersion(snap, k)
             ELSE IF k \in Deletes(in, snap) THEN 0
             ELSE current[k]]
       /\ Bump /\ audit' = WriteAudit(in, snap) /\ Reply(c, "OK", Bumped(c)) /\ etag' = etag
  BY <1>3 DEF ApplyWrite
<1>13. \A k \in Key : (\A r \in rows : r.key # k) => current'[k] = current[k]
  <2> HIDE DEF rows
  <2> QED
    BY <1>11, <1>12
<1>14. \A r \in rows : \/ current'[r.key] = 0
                        \/ /\ current'[r.key] = r.version
                           /\ Opens(r.blob, env.id, r.key, r.version)
  <2> SUFFICES ASSUME NEW r \in rows
               PROVE  \/ current'[r.key] = 0
                      \/ /\ current'[r.key] = r.version
                         /\ Opens(r.blob, env.id, r.key, r.version)
    OBVIOUS
  <2>1. CASE r \in SetRows(in, snap, id)
    <3>1. r.key \in DOMAIN in.set /\ r.version = NextVersion(snap, r.key)
          /\ r.blob = Seal(id, r.key, r.version, in.set[r.key]) /\ r.key \in Key
      BY <1>2, <1>9, <2>1
    <3>2. current'[r.key] = r.version
      BY <1>12, <3>1
    <3>3. Opens(r.blob, env.id, r.key, r.version)
      BY <1>2, <1>3, <3>1, NoValueAssumption DEF Opens, Seal, Present
    <3> QED
      BY <3>2, <3>3
  <2>2. CASE r \in rows \ SetRows(in, snap, id)
    <3>1. r.key \in Deletes(in, snap) /\ r.key \in Key /\ r.key \notin DOMAIN in.set
      BY <1>4, <1>9, <2>2
    <3> QED
      BY <1>12, <3>1
  <2> QED
    BY <2>1, <2>2
<1>15. env.exists /\ env'.exists /\ env'.id = env.id
  BY <1>3, <1>12 DEF Present, Bump, TypeOK
<1>16. Tables' /\ Grows
  <2> HIDE DEF rows
  <2> QED
    BY <1>6, <1>8, <1>10, <1>12, <1>13, <1>14, <1>15, AppendPreservesTables
<1>17. TypeOK'
  <2>1. Bumped(c) \in Nat /\ "OK" \in Code
    BY <1>1 DEF Bumped, Code
  <2>2. req' \in [Client -> Request] /\ answer' \in [Client -> Answer]
    BY <1>12, <2>1, RepliedType
  <2>3. audit' \in AuditRow
    BY <1>2, <1>4, <1>12 DEF WriteAudit, Audited, AuditRow
  <2>4. current' \in [Key -> Nat]
    BY <1>5, <1>12 DEF NextVersion, TypeOK
  <2>5. versions' \subseteq VersionRow
    BY <1>6, <1>12 DEF TypeOK
  <2>6. env' \in [exists: BOOLEAN, id: Nat, rev: Nat]
    BY <1>12 DEF Bump, TypeOK
  <2> QED
    BY <1>12, <2>2, <2>3, <2>4, <2>5, <2>6 DEF TypeOK
<1>18. Flight'
  BY <1>12, <1>15, <1>16, BumpPreservesFlight DEF Reply
<1> QED
  BY <1>16, <1>17, <1>18

(* A request that ends without touching the tables. *)
LEMMA AnswerPreserves ==
    ASSUME IInv, NEW c \in Client, NEW code \in Code, NEW rev \in Nat, Reply(c, code, rev),
           audit' \in AuditRow, UNCHANGED <<env, versions, current, etag>>
    PROVE  IInv'
<1> USE DEF IInv
<1>1. req' = [req EXCEPT ![c] = Idle] /\ req' \in [Client -> Request] /\ answer' \in [Client -> Answer]
  BY RepliedType
<1>2. TypeOK'
  BY <1>1 DEF TypeOK
<1>3. req'[c] = Idle /\ \A d \in Client \ {c} : req'[d] = req[d]
  BY <1>1 DEF TypeOK
<1>4. WellFormed(c) /\ Conditional(c)
  BY DEF Flight
<1>5. WellFormed(c)' /\ Grounded(c)' /\ Conditional(c)'
  BY <1>3, <1>4, IdleIsGrounded
<1> QED
  BY <1>2, <1>3, <1>5, LocalStep

LEMMA WriteOrphanedPreserves ==
    ASSUME IInv, NEW c \in Client, WriteOrphaned(c)
    PROVE  IInv'
<1>1. CASE Fail(c, "INTERNAL")
  BY <1>1, FailPreserves DEF Code
<1>2. CASE /\ audit' = WriteAudit(req[c].input, req[c].snap)
           /\ Reply(c, "OK", Bumped(c))
           /\ UNCHANGED <<env, versions, current, etag>>
  <2>1. req[c] \in Request /\ req[c].input \in Inputs /\ req[c].input.kind = "write"
    BY DEF WriteOrphaned, AtWriteCommit, IInv, TypeOK, Request, NoInput
  <2>2. DOMAIN req[c].input.set \in SUBSET Key
    BY <2>1, InputFacts
  <2>3. Deletes(req[c].input, req[c].snap) \subseteq Key
    BY DEF Deletes, LiveIn
  <2>4. audit' \in AuditRow
    BY <1>2, <2>2, <2>3 DEF WriteAudit, Audited, AuditRow
  <2>5. Bumped(c) \in Nat /\ "OK" \in Code
    BY <2>1 DEF Bumped, Code, Request
  <2> QED
    BY <1>2, <2>4, <2>5, AnswerPreserves
<1> QED
  BY <1>1, <1>2 DEF WriteOrphaned

LEMMA CommitRollbackPreserves ==
    ASSUME IInv, NEW c \in Client, CommitRollback(c)
    PROVE  IInv'
<1> USE DEF IInv
<1> DEFINE k   == req[c].input.key
           id  == req[c].seen.id
           v   == NextVersion(req[c].snap, k)
           new == [key |-> k, version |-> v, op |-> "rollback", blob |-> Seal(id, k, v, req[c].value)]
<1>1. /\ req[c] \in Request /\ req[c].pc = "commit" /\ req[c].input.kind = "rollback"
      /\ req[c].input \in Inputs /\ Present(id) /\ id \in Nat /\ req[c].seen.rev \in Nat
      /\ req[c].value \in Value
  BY DEF CommitRollback, AtMove, TypeOK, Request, NoInput, Flight, WellFormed
<1>2. k \in Key
  BY <1>1, InputFacts
<1>3. MovedRows(c) = {new}
  BY <1>1 DEF MovedRows
<1>4. /\ versions' = versions \cup {new}
      /\ current' = IF k \in Live THEN [current EXCEPT ![k] = v] ELSE current
      /\ Bump /\ audit' = Audited("secret.rollback", {}, {k}, {})
      /\ Reply(c, "OK", Bumped(c)) /\ etag' = etag
  BY <1>3 DEF CommitRollback
<1>5. new.key = k /\ new.version = v
  OBVIOUS
<1>6. v \notin VersionsOf(k)
  BY <1>3, <1>5 DEF CommitRollback, Collides
<1>7. v \in Nat \ {0} /\ VersionsOf(k) = 1..(v - 1)
  BY <1>1, <1>2, <1>6, NumberContinues
<1>8. new \in VersionRow
  BY <1>1, <1>2, <1>7 DEF VersionRow, Op, Blob, Seal
<1>9. current'[k] = 0 \/ (current'[k] = v /\ Opens(new.blob, env.id, k, v))
  <2>1. Opens(new.blob, env.id, k, v)
    BY <1>1, NoValueAssumption DEF Opens, Seal, Present
  <2> QED
    BY <1>2, <1>4, <2>1 DEF Live, TypeOK
<1>10. \A j \in Key : j # k => current'[j] = current[j]
  BY <1>4 DEF TypeOK
<1>11. env.exists /\ env'.exists /\ env'.id = env.id
  BY <1>1, <1>4 DEF Present, Bump, TypeOK
<1>12. Tables' /\ Grows
  <2> DEFINE rows == {new}
  <2>1. /\ rows \in SUBSET VersionRow
        /\ \A r \in rows : r.version > 0 /\ VersionsOf(r.key) = 1..(r.version - 1)
        /\ \A r, s \in rows : r.key = s.key => r = s
        /\ versions' = versions \cup rows
        /\ \A j \in Key : (\A r \in rows : r.key # j) => current'[j] = current[j]
        /\ \A r \in rows : \/ current'[r.key] = 0
                           \/ current'[r.key] = r.version /\ Opens(r.blob, env.id, r.key, r.version)
    <3> HIDE DEF new
    <3> QED
      BY <1>4, <1>5, <1>7, <1>8, <1>9, <1>10
  <2> HIDE DEF rows
  <2> QED
    BY <2>1, <1>11, AppendPreservesTables
<1>13. TypeOK'
  <2>1. Bumped(c) \in Nat /\ "OK" \in Code
    BY <1>1 DEF Bumped, Code
  <2>2. req' \in [Client -> Request] /\ answer' \in [Client -> Answer]
    BY <1>4, <2>1, RepliedType
  <2>3. audit' \in AuditRow
    BY <1>2, <1>4 DEF Audited, AuditRow
  <2>4. current' \in [Key -> Nat]
    BY <1>4, <1>7 DEF TypeOK
  <2>5. env' \in [exists: BOOLEAN, id: Nat, rev: Nat]
    BY <1>4 DEF Bump, TypeOK
  <2> QED
    BY <1>4, <1>8, <2>2, <2>3, <2>4, <2>5 DEF TypeOK
<1>14. Flight'
  BY <1>4, <1>11, <1>12, BumpPreservesFlight DEF Reply
<1> QED
  BY <1>12, <1>13, <1>14

LEMMA CommitRenamePreserves ==
    ASSUME IInv, NEW c \in Client, CommitRename(c)
    PROVE  IInv'
<1> USE DEF IInv
<1> DEFINE old == req[c].input.old
           new == req[c].input.new
           id  == req[c].seen.id
           v   == NextVersion(req[c].snap, new)
           w   == NextVersion(req[c].snap, old)
           to  == [key |-> new, version |-> v, op |-> "rename", blob |-> Seal(id, new, v, req[c].value)]
           gone == Tombstone(req[c].snap, old)
<1>1. /\ req[c] \in Request /\ req[c].pc = "commit" /\ req[c].input.kind = "rename"
      /\ req[c].input \in Inputs /\ Present(id) /\ id \in Nat /\ req[c].seen.rev \in Nat
      /\ req[c].value \in Value /\ old # new
  <2>1. /\ req[c] \in Request /\ req[c].pc = "commit" /\ req[c].input.kind = "rename"
        /\ Present(id) /\ WellFormed(c)
    BY DEF CommitRename, AtMove, TypeOK, Flight
  <2>2. RefuseRename(req[c].input, req[c].snap) = "none"
    BY <2>1 DEF WellFormed, Refusal
  <2>3. old # new
    BY <2>2 DEF RefuseRename
  <2> QED
    BY <2>1, <2>3 DEF WellFormed, Request, NoInput
<1>2. old \in Key /\ new \in Key
  BY <1>1, InputFacts
<1>3. MovedRows(c) = {to, gone}
  BY <1>1 DEF MovedRows
<1>4. /\ versions' = versions \cup {to, gone}
      /\ current' = [current EXCEPT ![new] = v, ![old] = 0]
      /\ Bump /\ audit' = Audited("secret.rename", {new}, {}, {old})
      /\ Reply(c, "OK", Bumped(c)) /\ etag' = etag
  BY <1>3 DEF CommitRename
<1>5. to.key = new /\ to.version = v /\ gone.key = old /\ gone.version = w
  BY DEF Tombstone
<1>6. v \notin VersionsOf(new) /\ w \notin VersionsOf(old)
  BY <1>3, <1>5 DEF CommitRename, Collides
<1>7. v \in Nat \ {0} /\ VersionsOf(new) = 1..(v - 1) /\ w \in Nat \ {0} /\ VersionsOf(old) = 1..(w - 1)
  BY <1>1, <1>2, <1>6, NumberContinues
<1>8. to \in VersionRow /\ gone \in VersionRow
  BY <1>1, <1>2, <1>7 DEF VersionRow, Op, Blob, Seal, Tombstone
<1>9. current'[old] = 0 /\ current'[new] = v /\ Opens(to.blob, env.id, new, v)
  BY <1>1, <1>2, <1>4, NoValueAssumption DEF Opens, Seal, Present, TypeOK
<1>10. \A j \in Key : j # old /\ j # new => current'[j] = current[j]
  BY <1>4 DEF TypeOK
<1>11. env.exists /\ env'.exists /\ env'.id = env.id
  BY <1>1, <1>4 DEF Present, Bump, TypeOK
<1>12. Tables' /\ Grows
  <2> DEFINE rows == {to, gone}
  <2>1. rows \in SUBSET VersionRow /\ versions' = versions \cup rows
    BY <1>4, <1>8
  <2> HIDE DEF to, gone
  <2>2. \A r \in rows : r.version > 0 /\ VersionsOf(r.key) = 1..(r.version - 1)
    BY <1>5, <1>7
  <2>3. \A r, s \in rows : r.key = s.key => r = s
    BY <1>1, <1>5
  <2>4. \A j \in Key : (\A r \in rows : r.key # j) => current'[j] = current[j]
    BY <1>5, <1>10
  <2>5. \A r \in rows : \/ current'[r.key] = 0
                        \/ current'[r.key] = r.version /\ Opens(r.blob, env.id, r.key, r.version)
    BY <1>5, <1>9
  <2> HIDE DEF rows
  <2> QED
    BY <2>1, <2>2, <2>3, <2>4, <2>5, <1>11, AppendPreservesTables
<1>13. TypeOK'
  <2>1. Bumped(c) \in Nat /\ "OK" \in Code
    BY <1>1 DEF Bumped, Code
  <2>2. req' \in [Client -> Request] /\ answer' \in [Client -> Answer]
    BY <1>4, <2>1, RepliedType
  <2>3. audit' \in AuditRow
    BY <1>2, <1>4 DEF Audited, AuditRow
  <2>4. current' \in [Key -> Nat]
    BY <1>4, <1>7 DEF TypeOK
  <2>5. env' \in [exists: BOOLEAN, id: Nat, rev: Nat]
    BY <1>4 DEF Bump, TypeOK
  <2> QED
    BY <1>4, <1>8, <2>2, <2>3, <2>4, <2>5 DEF TypeOK
<1>14. Flight'
  BY <1>4, <1>11, <1>12, BumpPreservesFlight DEF Reply
<1> QED
  BY <1>12, <1>13, <1>14
----------------------------------------------------------------------------
(* The environment itself. *)

(* After a cascade nothing is left to rely on, and no row refers to it. *)
LEMMA CommitDeleteEnvPreserves ==
    ASSUME IInv, NEW c \in Client, CommitDeleteEnv(c)
    PROVE  IInv'
<1> USE DEF IInv
<1>1. Reply(c, "OK", 0) /\ "OK" \in Code /\ audit' \in AuditRow /\ etag' = etag
  BY DEF CommitDeleteEnv, Audited, AuditRow, Code
<1>2. CASE UNCHANGED <<env, versions, current>>
  BY <1>1, <1>2, AnswerPreserves
<1>3. CASE /\ env' = [env EXCEPT !.exists = FALSE]
           /\ versions' = {}
           /\ current' = [k \in Key |-> 0]
  <2>1. /\ req' = [req EXCEPT ![c] = Idle] /\ req' \in [Client -> Request]
        /\ answer' \in [Client -> Answer]
    BY <1>1, RepliedType
  <2>2. TypeOK'
    BY <1>1, <1>3, <2>1 DEF TypeOK
  <2>3. ~env'.exists /\ env'.id = env.id
    BY <1>3 DEF TypeOK
  <2>4. Tables'
    BY <1>3, <2>3 DEF Tables, Dense, Unique, Newest, Opened, Absent, VersionsOf, Live
  <2>5. ASSUME NEW d \in Client
        PROVE  WellFormed(d)' /\ Grounded(d)' /\ Conditional(d)'
    <3>1. WellFormed(d) /\ etag[d].id \in Nat /\ env.id \in Nat
      BY DEF Flight, TypeOK
    <3>2. req'[d] = IF d = c THEN Idle ELSE req[d]
      BY <2>1 DEF TypeOK
    <3>3. WellFormed(d)'
      BY <1>1, <2>3, <3>1, <3>2 DEF WellFormed, Idle, NoInput
    <3>4. Grounded(d)' /\ Conditional(d)'
      BY <2>3 DEF Grounded, Conditional, Present
    <3> QED
      BY <3>3, <3>4
  <2> QED
    BY <2>2, <2>4, <2>5 DEF Flight
<1> QED
  BY <1>2, <1>3 DEF CommitDeleteEnv

(* A recreated slug is a row no request and no ETag can name yet. *)
LEMMA CreateEnvPreserves ==
    ASSUME IInv, NEW c \in Client, NEW in \in Inputs, CreateEnv(c, in)
    PROVE  IInv'
<1> USE DEF IInv
<1>1. CASE Fail(c, "CONFLICT")
  BY <1>1, FailPreserves DEF Code
<1>2. CASE /\ ~env.exists
           /\ env' = [exists |-> TRUE, id |-> env.id + 1, rev |-> 0]
           /\ audit' = Audited("environment.create", {}, {}, {})
           /\ Reply(c, "OK", 0)
           /\ UNCHANGED <<versions, current, etag>>
  <2>1. audit' \in AuditRow /\ "OK" \in Code
    BY <1>2 DEF Audited, AuditRow, Code
  <2>2. /\ req' = [req EXCEPT ![c] = Idle] /\ req' \in [Client -> Request]
        /\ answer' \in [Client -> Answer]
    BY <1>2, <2>1, RepliedType
  <2>3. TypeOK'
    BY <1>2, <2>1, <2>2 DEF TypeOK
  <2>4. env'.exists /\ env'.id = env.id + 1 /\ env.id \in Nat
    BY <1>2 DEF TypeOK
  <2>5. Tables'
    BY <1>2, <2>4 DEF Tables, Dense, Unique, Newest, Opened, Absent, VersionsOf, Live
  <2>6. ASSUME NEW d \in Client
        PROVE  WellFormed(d)' /\ Grounded(d)' /\ Conditional(d)'
    <3>1. WellFormed(d) /\ etag[d].id \in Nat /\ req[d].seen.id \in Nat
      BY DEF Flight, TypeOK, Request
    <3>2. req'[d] = IF d = c THEN Idle ELSE req[d]
      BY <2>2 DEF TypeOK
    <3>3. Idle.seen.id = 0 /\ Idle.pc = "idle" /\ Idle.input = NoInput
      BY DEF Idle
    <3>4. WellFormed(d)'
      BY <1>2, <2>4, <3>1, <3>2, <3>3 DEF WellFormed, NoInput
    <3>5. etag[d].id <= env.id /\ req[d].seen.id <= env.id
      BY <3>1 DEF WellFormed
    <3>6. Grounded(d)'
      BY <2>4, <3>1, <3>2, <3>3, <3>5 DEF Grounded, Present
    <3>7. Conditional(d)'
      BY <1>2, <2>4, <3>1, <3>5 DEF Conditional, Present
    <3> QED
      BY <3>4, <3>6, <3>7
  <2> QED
    BY <2>3, <2>5, <2>6 DEF Flight
<1> QED
  BY <1>1, <1>2 DEF CreateEnv
----------------------------------------------------------------------------
(* The invariant. *)

LEMMA InitEstablishes == Init => IInv
<1> SUFFICES ASSUME Init
             PROVE  IInv
  OBVIOUS
<1>1. TypeOK
  BY IdleType DEF Init, TypeOK, Audited, AuditRow, NoTag, Tag, NoListing, Answer, Code
<1>2. Tables
  BY DEF Init, Tables, Dense, Unique, Newest, Opened, Absent, VersionsOf, Live
<1>3. Flight
  BY DEF Init, Flight, WellFormed, Grounded, Conditional, Present, Idle, NoInput, NoTag, Tag
<1> QED
  BY <1>1, <1>2, <1>3 DEF IInv

LEMMA StepPreserves ==
    ASSUME IInv, NEW c \in Client, Step(c)
    PROVE  IInv'
<1>1. CASE ResolveListing(c)
  BY <1>1, ResolveListingPreserves
<1>2. CASE ReadListing(c)
  BY <1>2, ReadListingPreserves
<1>3. CASE ReadState(c)
  BY <1>3, ReadStatePreserves
<1>4. CASE ReadSource(c)
  BY <1>4, ReadSourcePreserves
<1>5. CASE CommitWrite(c)
  BY <1>5, CommitWritePreserves
<1>6. CASE WriteRefusedByGuard(c)
  BY <1>6, FailPreserves DEF WriteRefusedByGuard, Code
<1>7. CASE WriteRaceLost(c)
  BY <1>7, WriteRaceLostPreserves
<1>8. CASE WriteOrphaned(c)
  BY <1>8, WriteOrphanedPreserves
<1>9. CASE CommitRollback(c)
  BY <1>9, CommitRollbackPreserves
<1>10. CASE CommitRename(c)
  BY <1>10, CommitRenamePreserves
<1>11. CASE MoveFailed(c)
  BY <1>11, FailPreserves DEF MoveFailed, Code
<1>12. CASE CommitDeleteEnv(c)
  BY <1>12, CommitDeleteEnvPreserves
<1> QED
  BY <1>1, <1>2, <1>3, <1>4, <1>5, <1>6, <1>7, <1>8, <1>9, <1>10, <1>11, <1>12 DEF Step

LEMMA NextPreserves == IInv /\ [Next]_vars => IInv'
<1> SUFFICES ASSUME IInv, [Next]_vars
             PROVE  IInv'
  OBVIOUS
<1>1. ASSUME NEW c \in Client, Step(c)
      PROVE  IInv'
  BY <1>1, StepPreserves
<1>2. ASSUME NEW c \in Client, NEW in \in Inputs, CreateEnv(c, in)
      PROVE  IInv'
  BY <1>2, CreateEnvPreserves
<1>3. ASSUME NEW c \in Client, Start(c)
      PROVE  IInv'
  BY <1>2, <1>3, StartPreserves
<1>4. CASE UNCHANGED vars
  <2> USE <1>4 DEF vars, IInv
  <2>1. TypeOK'
    BY DEF TypeOK
  <2>2. Tables'
    BY DEF Tables, Dense, Unique, Newest, Opened, Absent, VersionsOf, Live
  <2>3. Flight'
    <3>1. ReadKeyState(env.id)' = ReadKeyState(env.id)
      BY DEF ReadKeyState, Present, VersionsOf, Live
    <3>2. \A k \in Key : VersionsOf(k)' = VersionsOf(k) /\ (k \in Live' <=> k \in Live)
      BY DEF VersionsOf, Live
    <3> QED
      BY <3>1, <3>2 DEF Flight, WellFormed, Grounded, Conditional, Present
  <2> QED
    BY <2>1, <2>2, <2>3
<1> QED
  BY <1>1, <1>3, <1>4 DEF Next

(* The invariant holds of every behaviour: tables and requests in flight   *)
(* agree, whatever interleaving of handlers produced them.                 *)
THEOREM Invariance == Spec => []IInv
  BY InitEstablishes, NextPreserves, PTL DEF Spec
----------------------------------------------------------------------------
(* The properties of the runs. *)

(* Every reachable state is well typed: see TypeOK. *)
THEOREM TypeCorrect == Spec => []TypeOK
  BY Invariance, PTL DEF IInv

LEMMA NewestIsLatest == IInv => LiveIsLatest
<1> SUFFICES ASSUME IInv, NEW k \in Live
             PROVE  /\ VersionsOf(k) # {}
                    /\ current[k] = Max(VersionsOf(k))
                    /\ \A r \in versions :
                         r.key = k /\ r.version = current[k] => Opens(r.blob, env.id, k, current[k])
  BY DEF LiveIsLatest
<1>1. k \in Key /\ current[k] \in Nat /\ current[k] > 0
  BY DEF Live, IInv, TypeOK
<1>2. VersionsOf(k) = 1..current[k]
  BY DEF IInv, Tables, Newest
<1>3. VersionsOf(k) # {} /\ current[k] = Max(VersionsOf(k))
  BY <1>1, <1>2, MaxOfVersions
<1>4. \A r \in versions :
         r.key = k /\ r.version = current[k] => Opens(r.blob, env.id, k, current[k])
  BY DEF IInv, Tables, Opened
<1> QED
  BY <1>3, <1>4

(* The row a live key points at is the newest of the key and opens as      *)
(* itself, in every reachable state.                                       *)
THEOREM LiveKeysAreLatest == Spec => []LiveIsLatest
  BY Invariance, NewestIsLatest, PTL

LEMMA DenseIsOneRowPerVersion == IInv => OneRowPerVersion
<1> SUFFICES ASSUME IInv, NEW k \in Key
             PROVE  VersionsOf(k) = 1..Cardinality(VersionsOf(k))
  BY DEF OneRowPerVersion, IInv, Tables, Unique
<1>1. PICK n \in Nat : VersionsOf(k) = 1..n
  <2>1. VersionsOf(k) \subseteq Nat
    BY DEF IInv, TypeOK, VersionsOf, VersionRow
  <2>2. VersionsOf(k) = {} => VersionsOf(k) = 1..0
    OBVIOUS
  <2> QED
    BY <2>1, <2>2 DEF IInv, Tables, Dense
<1>2. Cardinality(1..n) = n
  BY <1>1, FS_Interval
<1> QED
  BY <1>1, <1>2

(* The version numbers of a key are 1..n with one row each, always. *)
THEOREM VersionsNeverSkipOrRepeat == Spec => []OneRowPerVersion
  BY Invariance, DenseIsOneRowPerVersion, PTL

(* A commit is the work of the client that commits: of its own CommitWrite, *)
(* or of a write with nothing to insert into a vanished environment.        *)
LEMMA WhoCommits ==
    ASSUME IInv, [Next]_vars, NEW c \in Client, Commits(c, "write"), Present(req[c].seen.id)
    PROVE  CommitWrite(c)
<1>1. req[c].pc = "commit" /\ req[c].input.kind = "write" /\ req'[c].pc = "idle" /\ answer'[c].code = "OK"
  BY DEF Commits
<1>2. req \in [Client -> Request] /\ answer \in [Client -> Answer]
  BY DEF IInv, TypeOK
<1>3. ASSUME NEW code, Fail(c, code), code # "OK"
      PROVE  FALSE
  BY <1>1, <1>2, <1>3 DEF Fail, Reply
<1>4. ASSUME NEW d \in Client, d # c, Start(d) \/ Step(d)
      PROVE  FALSE
  <2>1. req'[c] = req[c]
    BY <1>2, <1>4
       DEF Start, ResolveMissing, StartWrite, StartOversized, StartMove, StartList, StartDeleteEnv,
           CreateEnv, Resolve, Step, ResolveListing, ReadListing, ReadState, ReadSource, CommitWrite,
           ApplyWrite, WriteRefusedByGuard, WriteRaceLost, WriteOrphaned, CommitRollback, CommitRename,
           MoveFailed, CommitDeleteEnv, Fail, Reply
  <2> QED
    BY <1>1, <2>1
<1>5. ~Start(c)
  BY <1>1 DEF Start, ResolveMissing, StartWrite, StartOversized, StartMove, StartList, StartDeleteEnv,
              CreateEnv, Resolve
<1>6. Step(c)
  <2>1. ~UNCHANGED vars
    BY <1>1 DEF vars
  <2> QED
    BY <1>4, <1>5, <2>1 DEF Next
<1>7. ~WriteRaceLost(c)
  <2>1. ASSUME req' = [req EXCEPT ![c].pc = "read", ![c].attempt = 1, ![c].snap = NoState]
        PROVE  FALSE
    <3>1. req'[c].pc = "read"
      BY <1>2, <2>1 DEF Request
    <3> QED
      BY <1>1, <3>1
  <2> QED
    BY <1>3, <2>1 DEF WriteRaceLost
<1>8. ~WriteRefusedByGuard(c) /\ ~MoveFailed(c) /\ ~CommitRollback(c) /\ ~CommitRename(c)
      /\ ~WriteOrphaned(c)
  BY <1>1, <1>3 DEF WriteRefusedByGuard, MoveFailed, CommitRollback, CommitRename, AtMove, WriteOrphaned
<1>9. ~ResolveListing(c) /\ ~ReadListing(c) /\ ~ReadState(c) /\ ~ReadSource(c) /\ ~CommitDeleteEnv(c)
  BY <1>1 DEF ResolveListing, ReadListing, ReadState, ReadSource, CommitDeleteEnv
<1> QED
  BY <1>6, <1>7, <1>8, <1>9 DEF Step

(* What a client that commits knows of the tables it commits to. *)
LEMMA CommitFacts ==
    ASSUME IInv, NEW c \in Client, CommitWrite(c)
    PROVE  /\ req[c] \in Request /\ req[c].input \in Inputs
           /\ DOMAIN req[c].input.set \in SUBSET Key
           /\ \A k \in Key : NextVersion(req[c].snap, k) \in Nat \ {0}
           /\ env'.id = env.id /\ env'.rev = env.rev + 1 /\ env.rev \in Nat
           /\ answer'[c].rev = req[c].seen.rev + 1
           /\ req[c].seen.rev <= env.rev /\ req[c].seen.rev \in Nat
           /\ req[c].seen.rev = env.rev => req[c].snap = ReadKeyState(env.id)
<1>1. /\ req[c] \in Request /\ req[c].input \in Inputs /\ req[c].input.kind = "write"
      /\ req[c].pc = "commit" /\ Present(req[c].seen.id)
  BY DEF CommitWrite, AtWriteCommit, IInv, TypeOK, Request, NoInput
<1>2. DOMAIN req[c].input.set \in SUBSET Key
  BY <1>1, InputFacts
<1>3. \A k \in Key : NextVersion(req[c].snap, k) \in Nat \ {0}
  BY <1>1 DEF Request, KeyState, NextVersion
<1>4. env'.id = env.id /\ env'.rev = env.rev + 1 /\ env.rev \in Nat
  BY DEF CommitWrite, ApplyWrite, Bump, IInv, TypeOK
<1>5. answer'[c].rev = req[c].seen.rev + 1
  BY DEF CommitWrite, ApplyWrite, Reply, Bumped, IInv, TypeOK
<1>6. Grounded(c)
  BY DEF IInv, Flight
<1> QED
  BY <1>1, <1>2, <1>3, <1>4, <1>5, <1>6 DEF Grounded, Request

(* A commit leaves live what was live and the body's keys, less its deletes. *)
LEMMA LiveAfterWrite ==
    ASSUME IInv, NEW c \in Client, CommitWrite(c)
    PROVE  Live' = (Live \ Deletes(req[c].input, req[c].snap)) \cup DOMAIN req[c].input.set
<1>1. current' = [k \in Key |->
             IF k \in DOMAIN req[c].input.set THEN NextVersion(req[c].snap, k)
             ELSE IF k \in Deletes(req[c].input, req[c].snap) THEN 0
             ELSE current[k]]
  BY DEF CommitWrite, ApplyWrite
<1>2. /\ DOMAIN req[c].input.set \in SUBSET Key
      /\ \A k \in Key : NextVersion(req[c].snap, k) # 0
  BY CommitFacts
<1> QED
  BY <1>1, <1>2 DEF Live

(* A conditional write that commits found exactly the listing its ETag     *)
(* came with, and in replace mode leaves exactly the keys of its body.     *)
THEOREM GuardedWritesLoseNothing == Spec => GuardedWriteLosesNothing
<1>1. ASSUME IInv, [Next]_vars
      PROVE  \A c \in Client :
               Commits(c, "write") /\ req[c].input.guarded /\ Present(etag[c].id)
                 => /\ current = etag[c].listing
                    /\ req[c].input.mode = "replace" => Live' = DOMAIN req[c].input.set
  <2> USE <1>1
  <2> SUFFICES ASSUME NEW c \in Client, Commits(c, "write"), req[c].input.guarded, Present(etag[c].id)
               PROVE  /\ current = etag[c].listing
                      /\ req[c].input.mode = "replace" => Live' = DOMAIN req[c].input.set
    OBVIOUS
  <2>1. /\ req[c] \in Request /\ etag[c].id \in Nat /\ env.id \in Nat
        /\ WellFormed(c) /\ Conditional(c) /\ req[c].pc = "commit" /\ req[c].input.kind = "write"
    BY DEF IInv, TypeOK, Flight, Commits
  <2>2. Present(req[c].seen.id)
    BY <2>1 DEF WellFormed, Present, Request
  <2>3. CommitWrite(c)
    BY <2>2, WhoCommits
  <2>4. env.rev = etag[c].rev
    BY <2>3 DEF CommitWrite, GuardFires
  <2>5. etag[c].held
    BY <2>1 DEF WellFormed
  <2>6. current = etag[c].listing
    BY <2>1, <2>4, <2>5 DEF Conditional
  <2>7. ASSUME req[c].input.mode = "replace"
        PROVE  Live' = DOMAIN req[c].input.set
    <3>1. req[c].snap = ReadKeyState(env.id)
      BY <2>1, <2>2, <2>4 DEF Conditional
    <3>2. \A k \in Key : req[c].snap[k].live = (k \in Live)
      <4>1. TypeOK /\ Dense /\ Newest /\ Present(env.id)
        BY <2>2 DEF IInv, Tables, Present
      <4> QED
        BY <2>1, <3>1, <4>1, ReadKeyStateFacts
    <3>3. LiveIn(req[c].snap) = Live
      BY <3>2 DEF LiveIn, Live
    <3>4. Deletes(req[c].input, req[c].snap) = Live \ DOMAIN req[c].input.set
      BY <2>7, <3>3 DEF Deletes
    <3> QED
      BY <2>3, <3>4, LiveAfterWrite
  <2> QED
    BY <2>6, <2>7
<1> QED
  BY <1>1, Invariance, PTL DEF Spec, GuardedWriteLosesNothing

(* The revision a write is answered with is never ahead of the             *)
(* environment's, and marks a write that met no other when it equals it.   *)
THEOREM AnsweredRevsAreSafe == Spec => AnsweredRevIsSafe
<1>1. ASSUME IInv, [Next]_vars
      PROVE  \A c \in Client :
               Commits(c, "write") /\ Present(req[c].seen.id)
                 => /\ answer'[c].rev <= env'.rev
                    /\ answer'[c].rev = env'.rev => req[c].snap = ReadKeyState(env.id)
  <2> SUFFICES ASSUME NEW c \in Client, Commits(c, "write"), Present(req[c].seen.id)
               PROVE  /\ answer'[c].rev <= env'.rev
                      /\ answer'[c].rev = env'.rev => req[c].snap = ReadKeyState(env.id)
    OBVIOUS
  <2>1. CommitWrite(c)
    BY <1>1, WhoCommits
  <2> QED
    BY <1>1, <2>1, CommitFacts
<1> QED
  BY <1>1, Invariance, PTL DEF Spec, AnsweredRevIsSafe

(* A key whose next number is still free is as live as the snapshot says. *)
LEMMA FreeNumberMeansUnchanged ==
    ASSUME IInv, NEW c \in Client, Present(req[c].seen.id), req[c].pc = "commit",
           NEW k \in Key, NextVersion(req[c].snap, k) \notin VersionsOf(k)
    PROVE  req[c].snap[k].live <=> k \in Live
<1>1. VersionsOf(k) = 1..(NextVersion(req[c].snap, k) - 1)
  BY NumberContinues
<1>2. req[c].snap[k].max \in Nat
  BY DEF IInv, TypeOK, Request, KeyState
<1>3. VersionsOf(k) = 1..req[c].snap[k].max
  BY <1>1, <1>2 DEF NextVersion
<1> QED
  BY <1>3 DEF IInv, Flight, Grounded

LEMMA WriteAuditExact ==
    ASSUME IInv, NEW c \in Client, CommitWrite(c)
    PROVE  /\ audit'.added \cap Live = {}
           /\ audit'.changed \cup audit'.removed \subseteq Live
           /\ Live' = (Live \cup audit'.added) \ audit'.removed
<1> DEFINE in   == req[c].input
           snap == req[c].snap
           rows == PlannedRows(in, snap, req[c].seen.id)
<1>1. /\ Present(req[c].seen.id) /\ req[c].pc = "commit" /\ in.kind = "write"
      /\ ~Collides(rows) /\ audit' = WriteAudit(in, snap)
  BY DEF CommitWrite, AtWriteCommit, PlannedBy, ApplyWrite
<1>2. DOMAIN in.set \in SUBSET Key
  BY CommitFacts
<1>3. Deletes(in, snap) \subseteq Key /\ DOMAIN in.set \cap Deletes(in, snap) = {}
      /\ Deletes(in, snap) \subseteq LiveIn(snap)
  <2>1. Refusal(in, snap) = "none"
    BY <1>1 DEF IInv, Flight, WellFormed
  <2> QED
    BY <1>1, <2>1 DEF Refusal, RefuseWrite, Overlaps, Deletes, LiveIn
<1>4. \A k \in DOMAIN in.set \cup Deletes(in, snap) : k \in LiveIn(snap) <=> k \in Live
  <2> SUFFICES ASSUME NEW k \in DOMAIN in.set \cup Deletes(in, snap)
               PROVE  k \in LiveIn(snap) <=> k \in Live
    OBVIOUS
  <2>1. k \in Key
    BY <1>2, <1>3
  <2>2. \E r \in rows : r.key = k /\ r.version = NextVersion(snap, k)
    <3>1. CASE k \in DOMAIN in.set
      <4> DEFINE n == [key |-> k, version |-> NextVersion(snap, k), op |-> "set",
                       blob |-> Seal(req[c].seen.id, k, NextVersion(snap, k), in.set[k])]
      <4>1. n \in rows /\ n.key = k /\ n.version = NextVersion(snap, k)
        BY <3>1 DEF PlannedRows, SetRows
      <4> QED
        BY <4>1
    <3>2. CASE k \in Deletes(in, snap)
      <4>1. /\ Tombstone(snap, k) \in rows /\ Tombstone(snap, k).key = k
            /\ Tombstone(snap, k).version = NextVersion(snap, k)
        BY <3>2 DEF PlannedRows, Tombstone
      <4> QED
        BY <4>1
    <3> QED
      BY <3>1, <3>2
  <2>3. NextVersion(snap, k) \notin VersionsOf(k)
    BY <1>1, <2>2 DEF Collides
  <2>4. snap[k].live <=> k \in Live
    BY <1>1, <2>1, <2>3, FreeNumberMeansUnchanged
  <2> QED
    BY <2>1, <2>4 DEF LiveIn
<1>5. Live' = (Live \ Deletes(in, snap)) \cup DOMAIN in.set
  BY LiveAfterWrite
<1>6. /\ audit'.added = DOMAIN in.set \ LiveIn(snap) /\ audit'.changed = DOMAIN in.set \cap LiveIn(snap)
      /\ audit'.removed = Deletes(in, snap)
  BY <1>1 DEF WriteAudit, Audited
<1> QED
  BY <1>3, <1>4, <1>5, <1>6

LEMMA RenameAuditExact ==
    ASSUME IInv, NEW c \in Client, CommitRename(c)
    PROVE  /\ audit'.added \cap Live = {}
           /\ audit'.changed \cup audit'.removed \subseteq Live
           /\ Live' = (Live \cup audit'.added) \ audit'.removed
<1> DEFINE old == req[c].input.old
           new == req[c].input.new
<1>1. /\ Present(req[c].seen.id) /\ req[c].pc = "commit" /\ req[c].input.kind = "rename"
      /\ req[c] \in Request /\ req[c].input \in Inputs /\ ~Collides(MovedRows(c)) /\ new \notin Live
      /\ audit' = Audited("secret.rename", {new}, {}, {old})
      /\ current' = [current EXCEPT ![new] = NextVersion(req[c].snap, new), ![old] = 0]
  BY DEF CommitRename, AtMove, IInv, TypeOK, Request, NoInput
<1>2. old \in Key /\ new \in Key
  BY <1>1, InputFacts
<1>3. req[c].snap[old].live /\ ~req[c].snap[new].live
  <2>1. Refusal(req[c].input, req[c].snap) = "none"
    BY <1>1 DEF IInv, Flight, WellFormed
  <2> QED
    BY <1>1, <2>1 DEF Refusal, RefuseRename
<1>4. old # new
  BY <1>3
<1>5. NextVersion(req[c].snap, old) \notin VersionsOf(old)
  <2>1. Tombstone(req[c].snap, old) \in MovedRows(c)
    BY <1>1 DEF MovedRows
  <2> QED
    BY <1>1, <2>1 DEF Collides, Tombstone
<1>6. old \in Live
  BY <1>1, <1>2, <1>3, <1>5, FreeNumberMeansUnchanged
<1>7. NextVersion(req[c].snap, new) # 0
  BY <1>1, <1>2 DEF Request, KeyState, NextVersion
<1>8. Live' = (Live \cup {new}) \ {old}
  BY <1>1, <1>2, <1>4, <1>7 DEF Live, IInv, TypeOK
<1>9. audit'.added = {new} /\ audit'.changed = {} /\ audit'.removed = {old}
  BY <1>1 DEF Audited
<1> QED
  BY <1>1, <1>6, <1>8, <1>9

(* The audit row of a write or a rename is an exact account of the change  *)
(* of the live keys it is committed with.                                  *)
THEOREM AuditDiffsAreExact == Spec => AuditDiffIsExact
<1>1. ASSUME IInv, [Next]_vars
      PROVE  env'.id = env.id /\ env'.rev # env.rev
               /\ audit'.action \in {"secret.write", "secret.rename"}
               => /\ audit'.added \cap Live = {}
                  /\ audit'.changed \cup audit'.removed \subseteq Live
                  /\ Live' = (Live \cup audit'.added) \ audit'.removed
  <2> SUFFICES ASSUME env'.id = env.id, env'.rev # env.rev,
                      audit'.action \in {"secret.write", "secret.rename"}
               PROVE  \E c \in Client : CommitWrite(c) \/ CommitRename(c)
    BY <1>1, WriteAuditExact, RenameAuditExact
  <2>1. PICK c \in Client : Start(c) \/ Step(c)
    BY <1>1 DEF Next, vars
  <2>2. env.id \in Nat
    BY <1>1 DEF IInv, TypeOK
  <2>3. ~Start(c)
    <3>1. ASSUME NEW in \in Inputs, CreateEnv(c, in)
          PROVE  FALSE
      BY <2>2, <3>1 DEF CreateEnv, Fail
    <3>2. ~ResolveMissing(c)
      BY DEF ResolveMissing, Fail
    <3>3. ASSUME NEW in \in Inputs, \/ StartWrite(c, in) \/ StartOversized(c, in) \/ StartMove(c, in)
                                    \/ StartList(c, in) \/ StartDeleteEnv(c, in)
          PROVE  FALSE
      BY <3>3 DEF StartWrite, StartOversized, StartMove, StartList, StartDeleteEnv, Resolve, Fail
    <3> QED
      BY <3>1, <3>2, <3>3 DEF Start
  <2>4. ~CommitRollback(c)
    BY DEF CommitRollback, Audited
  <2>5. /\ ~ResolveListing(c) /\ ~ReadListing(c) /\ ~ReadState(c) /\ ~ReadSource(c)
        /\ ~WriteRefusedByGuard(c) /\ ~WriteRaceLost(c) /\ ~WriteOrphaned(c) /\ ~MoveFailed(c)
    BY DEF ResolveListing, ReadListing, ReadState, ReadSource, WriteRefusedByGuard, WriteRaceLost,
           WriteOrphaned, MoveFailed, Fail
  <2>6. ~CommitDeleteEnv(c)
    BY <1>1 DEF CommitDeleteEnv, Audited
  <2> QED
    BY <2>1, <2>3, <2>4, <2>5, <2>6 DEF Step
<1> QED
  BY <1>1, Invariance, PTL DEF Spec, AuditDiffIsExact
----------------------------------------------------------------------------
(* The store is the append-only one of VersionedStore. *)

(* What a step does to the tables: nothing, or it is one of the batches.    *)
TablesStand == UNCHANGED <<env, versions, current>>
Replaced(c, in) == CreateEnv(c, in) /\ ~env.exists
Dropped(c) == CommitDeleteEnv(c) /\ Present(req[c].seen.id)

(* The history of a key, as the refinement mapping reads it off the rows. *)
HistoryOf(k) == [i \in 1..Cardinality(VersionsOf(k)) |-> Contents(k, i)]
HistoryNow == [k \in Key |-> HistoryOf(k)]
RevNow == IF env.exists THEN env.rev ELSE 0

(* The steps that change the tables are the batches, and a slug that comes *)
(* or goes; all others leave every row alone.                              *)
LEMMA StepOnTables ==
    ASSUME [Next]_vars
    PROVE  \/ TablesStand
           \/ \E c \in Client : \/ CommitWrite(c) \/ CommitRollback(c) \/ CommitRename(c)
                                \/ Dropped(c)
                                \/ \E in \in Inputs : Replaced(c, in)
<1> USE DEF TablesStand
<1>1. CASE UNCHANGED vars
  BY <1>1 DEF vars
<1>2. ASSUME NEW c \in Client, Start(c), ~ \E in \in Inputs : Replaced(c, in)
      PROVE  TablesStand
  BY <1>2 DEF Start, ResolveMissing, StartWrite, StartOversized, StartMove, StartList, StartDeleteEnv,
              CreateEnv, Replaced, Resolve, Fail
<1>3. ASSUME NEW c \in Client, Step(c), ~CommitWrite(c), ~CommitRollback(c), ~CommitRename(c),
             ~Dropped(c)
      PROVE  TablesStand
  BY <1>3 DEF Step, ResolveListing, ReadListing, ReadState, ReadSource, WriteRefusedByGuard,
              WriteRaceLost, WriteOrphaned, MoveFailed, CommitDeleteEnv, Dropped, Fail
<1> QED
  BY <1>1, <1>2, <1>3 DEF Next

(* Rows that are there stay as they are while rows are only added. *)
LEMMA RowsStand ==
    ASSUME Unique', versions \subseteq versions', NEW k, NEW i \in VersionsOf(k)
    PROVE  i \in VersionsOf(k)' /\ RowAt(k, i)' = RowAt(k, i)
<1>1. PICK r \in versions : r.key = k /\ r.version = i
  BY DEF VersionsOf
<1>2. \A s \in versions' : s.key = k /\ s.version = i => s = r
  BY <1>1 DEF Unique
<1>3. RowAt(k, i) = r
  <2>1. \E s \in versions : s.key = k /\ s.version = i
    BY <1>1
  <2>2. RowAt(k, i) \in versions /\ RowAt(k, i).key = k /\ RowAt(k, i).version = i
    BY <2>1 DEF RowAt
  <2> QED
    BY <1>2, <2>2
<1>4. RowAt(k, i)' = r
  <2>1. \E s \in versions' : s.key = k /\ s.version = i
    BY <1>1
  <2>2. RowAt(k, i)' \in versions' /\ RowAt(k, i)'.key = k /\ RowAt(k, i)'.version = i
    BY <2>1 DEF RowAt
  <2> QED
    BY <1>2, <2>2
<1> QED
  BY <1>1, <1>3, <1>4 DEF VersionsOf

(* A batch adds rows to the environment it finds, and leaves no other      *)
(* request's memory and no revision number but its own behind.             *)
LEMMA BatchesAdd ==
    ASSUME IInv, NEW c \in Client, CommitWrite(c) \/ CommitRollback(c) \/ CommitRename(c)
    PROVE  /\ versions \subseteq versions'
           /\ env.exists /\ env'.exists /\ env'.id = env.id /\ env'.rev = env.rev + 1
           /\ req' = [req EXCEPT ![c] = Idle]
           /\ Present(req[c].seen.id)
  BY DEF CommitWrite, ApplyWrite, CommitRollback, CommitRename, Bump, Reply, Present, IInv, TypeOK

(* Only its own ReadSource makes a request a move that is ready to commit. *)
LEMMA MemoryOfAStep ==
    ASSUME IInv, [Next]_vars, NEW d \in Client
    PROVE  \/ req'[d] = req[d]
           \/ ~(req'[d].pc = "commit" /\ req'[d].input.kind \in {"rollback", "rename"})
           \/ ReadSource(d)
<1>1. req \in [Client -> Request]
  BY DEF IInv, TypeOK
<1>2. CASE UNCHANGED vars
  BY <1>2 DEF vars
<1>3. ASSUME NEW c \in Client, Start(c)
      PROVE  req'[d] = req[d] \/ req'[d].pc # "commit"
  <2>1. \/ req' = [req EXCEPT ![c] = Idle]
        \/ \E in \in Inputs, pc \in {"read", "listing", "deleting"} : Resolve(c, in, pc)
    BY <1>3 DEF Start, ResolveMissing, StartWrite, StartOversized, StartMove, StartList,
                StartDeleteEnv, CreateEnv, Fail, Reply
  <2>2. CASE req' = [req EXCEPT ![c] = Idle]
    BY <1>1, <2>2 DEF Idle
  <2>3. ASSUME NEW in \in Inputs, NEW pc \in {"read", "listing", "deleting"}, Resolve(c, in, pc)
        PROVE  req'[d] = req[d] \/ req'[d].pc # "commit"
    BY <1>1, <2>3 DEF Resolve, Idle
  <2> QED
    BY <2>1, <2>2, <2>3
<1>4. ASSUME NEW c \in Client, Step(c), c # d
      PROVE  req'[d] = req[d]
  BY <1>1, <1>4 DEF Step, ResolveListing, ReadListing, ReadState, ReadSource, CommitWrite, ApplyWrite,
       WriteRefusedByGuard, WriteRaceLost, WriteOrphaned, CommitRollback, CommitRename, MoveFailed,
       CommitDeleteEnv, Fail, Reply
<1>5. ASSUME Step(d), ~ReadSource(d)
      PROVE  ~(req'[d].pc = "commit" /\ req'[d].input.kind \in {"rollback", "rename"})
  <2>1. ASSUME req' = [req EXCEPT ![d] = Idle]
        PROVE  req'[d].pc # "commit"
    BY <1>1, <2>1 DEF Idle
  <2>2. CASE ResolveListing(d)
    BY <1>1, <2>1, <2>2 DEF ResolveListing, Fail, Reply, Request
  <2>3. CASE ReadState(d)
    BY <1>1, <2>1, <2>3 DEF ReadState, Fail, Reply, Request
  <2>4. CASE WriteRaceLost(d)
    BY <1>1, <2>1, <2>4 DEF WriteRaceLost, Fail, Reply, Request
  <2>5. CASE ~ResolveListing(d) /\ ~ReadState(d) /\ ~WriteRaceLost(d)
    BY <1>5, <2>1, <2>5 DEF Step, ReadListing, CommitWrite, ApplyWrite, WriteRefusedByGuard,
       WriteOrphaned, CommitRollback, CommitRename, MoveFailed, CommitDeleteEnv, Fail, Reply
  <2> QED
    BY <2>2, <2>3, <2>4, <2>5
<1> QED
  BY <1>2, <1>3, <1>4, <1>5 DEF Next

(* A move that stands ready still holds what its source row holds. *)
LEMMA CarriedPreserved ==
    ASSUME IInv, IInv', Carried, [Next]_vars
    PROVE  Carried'
<1> SUFFICES ASSUME NEW d \in Client, AtMove(d, "rollback")' \/ AtMove(d, "rename")',
                    Present(req[d].seen.id)'
             PROVE  /\ (SourceOf(req[d]).version \in VersionsOf(SourceOf(req[d]).key))'
                    /\ (req[d].value = RowAt(SourceOf(req[d]).key, SourceOf(req[d]).version).blob.plain)'
  BY DEF Carried, Carries
<1>1. CASE req'[d] = req[d] /\ Present(req[d].seen.id) /\ versions \subseteq versions'
  <2>1. /\ SourceOf(req[d]).version \in VersionsOf(SourceOf(req[d]).key)
        /\ req[d].value = RowAt(SourceOf(req[d]).key, SourceOf(req[d]).version).blob.plain
    BY <1>1 DEF Carried, Carries, AtMove
  <2>2. SourceOf(req[d])' = SourceOf(req[d])
    BY <1>1 DEF SourceOf
  <2>3. Unique'
    BY DEF IInv, Tables
  <2>4. PICK k, i : k = SourceOf(req[d]).key /\ i = SourceOf(req[d]).version
    OBVIOUS
  <2>5. i \in VersionsOf(k) /\ req[d].value = RowAt(k, i).blob.plain
    BY <2>1, <2>4
  <2>6. i \in VersionsOf(k)' /\ RowAt(k, i)' = RowAt(k, i)
    BY <1>1, <2>3, <2>5, RowsStand
  <2>7. SourceOf(req[d])'.key = k /\ SourceOf(req[d])'.version = i /\ req'[d].value = req[d].value
    BY <1>1, <2>2, <2>4
  <2> QED
    BY <2>5, <2>6, <2>7
<1>2. CASE ReadSource(d)
  <2>0. req \in [Client -> Request]
    BY DEF IInv, TypeOK
  <2>1. ASSUME NEW code, Fail(d, code)
        PROVE  FALSE
    BY <2>0, <2>1 DEF Fail, Reply, Idle, AtMove
  <2> DEFINE s == SourceOf(req[d])
  <2>2. /\ s.version \in VersionsOf(s.key)
        /\ req' = [req EXCEPT ![d].value = RowAt(s.key, s.version).blob.plain, ![d].pc = "commit"]
        /\ versions' = versions
    BY <1>2, <2>1 DEF ReadSource
  <2>3. PICK k, i : k = s.key /\ i = s.version
    OBVIOUS
  <2>4. /\ i \in VersionsOf(k)
        /\ req' = [req EXCEPT ![d].value = RowAt(k, i).blob.plain, ![d].pc = "commit"]
    BY <2>2, <2>3
  <2>5. /\ req'[d].value = RowAt(k, i).blob.plain
        /\ req'[d].input = req[d].input /\ req'[d].snap = req[d].snap
    BY <2>0, <2>4 DEF Request
  <2>6. SourceOf(req[d])' = s
    BY <2>5 DEF SourceOf
  <2>7. RowAt(k, i)' = RowAt(k, i) /\ VersionsOf(k)' = VersionsOf(k)
    BY <2>2 DEF RowAt, VersionsOf
  <2>8. SourceOf(req[d])'.key = k /\ SourceOf(req[d])'.version = i
    BY <2>3, <2>6
  <2> QED
    BY <2>4, <2>5, <2>7, <2>8
<1>3. CASE req'[d] = req[d] /\ TablesStand
  BY <1>1, <1>3 DEF TablesStand, Present
<1>4. ASSUME NEW c \in Client, CommitWrite(c) \/ CommitRollback(c) \/ CommitRename(c), req'[d] = req[d]
      PROVE  Present(req[d].seen.id) /\ versions \subseteq versions'
  BY <1>4, BatchesAdd DEF Present
<1>5. ASSUME NEW c \in Client, Dropped(c)
      PROVE  FALSE
  BY <1>5 DEF Dropped, CommitDeleteEnv, Present, IInv, TypeOK
<1>6. ASSUME NEW c \in Client, NEW in \in Inputs, Replaced(c, in), req'[d] = req[d]
      PROVE  FALSE
  BY <1>6 DEF Replaced, CreateEnv, Present, IInv, TypeOK, Flight, WellFormed, Request
<1>7. req'[d] = req[d] \/ ReadSource(d)
  BY MemoryOfAStep DEF AtMove
<1> QED
  BY <1>1, <1>2, <1>3, <1>4, <1>5, <1>6, <1>7, StepOnTables

(* No request is in flight at the start. *)
LEMMA InitCarries == Init => Carried
  BY DEF Init, Carried, Carries, AtMove, Idle

(* A move that is ready to commit holds the value its source has, whatever *)
(* was written, renamed or rolled back since it opened that source.        *)
THEOREM MovesStayTrue == Spec => []Carried
<1>1. IInv /\ Carried /\ [Next]_vars => Carried'
  BY NextPreserves, CarriedPreserved
<1> QED
  BY <1>1, InitCarries, Invariance, PTL DEF Spec
----------------------------------------------------------------------------
(* The history of a key before and after a batch. *)

(* The versions of a key are an interval, as long as they are many. *)
LEMMA HistoryLength ==
    ASSUME IInv, NEW k \in Key
    PROVE  \E n \in Nat : /\ VersionsOf(k) = 1..n
                          /\ Cardinality(VersionsOf(k)) = n
<1>1. PICK n \in Nat : VersionsOf(k) = 1..n
  <2>1. VersionsOf(k) \subseteq Nat
    BY DEF IInv, TypeOK, VersionsOf, VersionRow
  <2>2. VersionsOf(k) = {} => VersionsOf(k) = 1..0
    OBVIOUS
  <2> QED
    BY <2>1, <2>2 DEF IInv, Tables, Dense
<1>2. Cardinality(1..n) = n
  BY <1>1, FS_Interval
<1> QED
  BY <1>1, <1>2

(* A key without a new row keeps its history. *)
LEMMA HistoryStands ==
    ASSUME Unique', versions \subseteq versions', NEW k \in Key, VersionsOf(k)' = VersionsOf(k)
    PROVE  HistoryOf(k)' = HistoryOf(k)
<1>1. \A i \in VersionsOf(k) : RowAt(k, i)' = RowAt(k, i)
  BY RowsStand
<1>2. \A i : Contents(k, i)' = Contents(k, i)
  BY <1>1 DEF Contents
<1> QED
  BY <1>2 DEF HistoryOf

(* A key with a new row has one more value at the end. *)
LEMMA HistoryGrows ==
    ASSUME IInv, Unique', versions \subseteq versions', NEW r \in versions',
           r.key \in Key, r.version \in Nat \ {0},
           VersionsOf(r.key) = 1..(r.version - 1), VersionsOf(r.key)' = 1..r.version
    PROVE  HistoryOf(r.key)' = Append(HistoryOf(r.key), r.blob.plain)
<1> DEFINE k == r.key
           n == r.version - 1
<1>0. n \in Nat /\ r.version = n + 1 /\ k \in Key
  OBVIOUS
<1>1. Cardinality(VersionsOf(k)) = n /\ Cardinality(VersionsOf(k)') = n + 1
  <2>1. VersionsOf(k) = 1..n /\ VersionsOf(k)' = 1..(n + 1)
    BY <1>0
  <2> HIDE DEF k, n
  <2>2. Cardinality(1..n) = n /\ Cardinality(1..(n + 1)) = n + 1
    BY <1>0, FS_Interval
  <2> QED
    BY <2>1, <2>2
<1>2. \A i \in 1..n : RowAt(k, i)' = RowAt(k, i)
  BY RowsStand
<1>3. \A i \in 1..n : Contents(k, i)' = Contents(k, i)
  BY <1>0, <1>2 DEF Contents
<1>4. Contents(k, n + 1)' = r.blob.plain
  <2>1. RowAt(k, n + 1)' \in versions' /\ RowAt(k, n + 1)'.key = k /\ RowAt(k, n + 1)'.version = n + 1
    BY <1>0 DEF RowAt
  <2>2. RowAt(k, n + 1)' = r
    BY <1>0, <2>1 DEF Unique
  <2> QED
    BY <1>0, <2>2 DEF Contents
<1>5. HistoryOf(k) = [i \in 1..n |-> Contents(k, i)]
  BY <1>1 DEF HistoryOf
<1>6. HistoryOf(k)' = [i \in 1..(n + 1) |-> Contents(k, i)']
  BY <1>1 DEF HistoryOf
<1> HIDE DEF k, n
<1>7. Append(HistoryOf(k), r.blob.plain)
        = [i \in 1..(n + 1) |-> IF i = n + 1 THEN r.blob.plain ELSE Contents(k, i)]
  BY <1>0, <1>5
<1>8. \A i \in 1..(n + 1) : Contents(k, i)' = IF i = n + 1 THEN r.blob.plain ELSE Contents(k, i)
  BY <1>0, <1>3, <1>4
<1>9. HistoryOf(k)' = Append(HistoryOf(k), r.blob.plain)
  BY <1>6, <1>7, <1>8
<1> QED
  BY <1>9 DEF k
----------------------------------------------------------------------------
(* Each batch is the operation of VersionedStore it is named after. *)

(* A write gives each key of its body a value and marks the keys it gives  *)
(* up, all at the number after their newest: nothing else in the history    *)
(* has moved since it was planned.                                         *)
LEMMA WriteRefines ==
    ASSUME IInv, IInv', NEW c \in Client, CommitWrite(c)
    PROVE  Promise!Write(req[c].input.set, Deletes(req[c].input, req[c].snap))
           /\ DOMAIN req[c].input.set \in SUBSET Key
           /\ req[c].input.set \in [DOMAIN req[c].input.set -> Value]
           /\ Deletes(req[c].input, req[c].snap) \in SUBSET Live
<1> DEFINE in   == req[c].input
           snap == req[c].snap
           set  == in.set
           gone == Deletes(in, snap)
           id   == req[c].seen.id
<1>1. /\ req[c] \in Request /\ in \in Inputs /\ in.kind = "write" /\ req[c].pc = "commit"
      /\ Present(id) /\ WellFormed(c)
  BY DEF CommitWrite, AtWriteCommit, IInv, TypeOK, Request, NoInput, Flight
<1>2. DOMAIN set \in SUBSET Key /\ \A k \in DOMAIN set : set[k] \in Value
  BY <1>1, InputFacts
<1>2a. set \in [DOMAIN set -> Value]
  <2>1. in \in WriteInput
    BY <1>1, InputsAssumption DEF Input, WriteInput, RollbackInput, RenameInput, PlainInput
  <2>2. set \in PartialMap
    BY <2>1 DEF WriteInput
  <2> QED
    BY <2>2 DEF PartialMap
<1>3. gone \subseteq Key \ DOMAIN set
  <2>1. RefuseWrite(in, snap) = "none"
    BY <1>1 DEF WellFormed, Refusal
  <2>2. ~Overlaps(in)
    BY <2>1 DEF RefuseWrite
  <2>3. in.mode = "replace" \/ DOMAIN set \cap in.delete = {}
    BY <2>2 DEF Overlaps
  <2> QED
    BY <2>3 DEF Deletes, LiveIn
<1>4. versions' = versions \cup PlannedBy(c) /\ ~Collides(PlannedBy(c))
  BY DEF CommitWrite, ApplyWrite, PlannedBy
<1>5. \A k \in DOMAIN set \cup gone : NextVersion(snap, k) \notin VersionsOf(k)
  <2>1. ASSUME NEW k \in DOMAIN set
        PROVE  NextVersion(snap, k) \notin VersionsOf(k)
    <3>1. [key |-> k, version |-> NextVersion(snap, k), op |-> "set",
           blob |-> Seal(id, k, NextVersion(snap, k), set[k])] \in PlannedBy(c)
      BY DEF PlannedBy, PlannedRows, SetRows
    <3> QED
      BY <1>4, <3>1 DEF Collides
  <2>2. ASSUME NEW k \in gone
        PROVE  NextVersion(snap, k) \notin VersionsOf(k)
    <3>1. Tombstone(snap, k) \in PlannedBy(c)
      BY DEF PlannedBy, PlannedRows
    <3> QED
      BY <1>4, <3>1 DEF Collides, Tombstone
  <2> QED
    BY <2>1, <2>2
<1>6. gone \subseteq Live
  <2> SUFFICES ASSUME NEW k \in gone
               PROVE  k \in Live
    OBVIOUS
  <2>1. k \in Key /\ snap[k].live
    BY DEF Deletes, LiveIn
  <2>2. NextVersion(snap, k) \notin VersionsOf(k)
    BY <1>5
  <2> QED
    BY <1>1, <2>1, <2>2, FreeNumberMeansUnchanged
<1>7. Live' = (Live \cup DOMAIN set) \ gone
  <2>1. Live' = (Live \ gone) \cup DOMAIN set
    BY LiveAfterWrite
  <2> QED
    BY <1>3, <2>1
<1>8. env.exists /\ env'.exists /\ env'.rev = env.rev + 1 /\ versions \subseteq versions'
  BY BatchesAdd
<1>9. Unique'
  BY DEF IInv, Tables
<1>10. ASSUME NEW k \in DOMAIN set
       PROVE  HistoryOf(k)' = Append(HistoryOf(k), set[k])
  <2>0. PICK r : r = [key |-> k, version |-> NextVersion(snap, k), op |-> "set",
                      blob |-> Seal(id, k, NextVersion(snap, k), set[k])]
    OBVIOUS
  <2>1. r \in versions'
    BY <1>4, <2>0 DEF PlannedBy, PlannedRows, SetRows
  <2>2. r.key = k /\ r.version = NextVersion(snap, k) /\ r.blob.plain = set[k]
    BY <2>0 DEF Seal
  <2>3. ASSUME NEW s \in PlannedBy(c), s.key = k
        PROVE  s.version = NextVersion(snap, k)
    BY <2>3 DEF PlannedBy, PlannedRows, SetRows, Tombstone
  <2>4. PICK v : v = NextVersion(snap, k)
    OBVIOUS
  <2>5. v \in Nat \ {0} /\ VersionsOf(k) = 1..(v - 1)
    BY <1>1, <1>2, <1>5, <2>4, NumberContinues
  <2>6. VersionsOf(k)' = VersionsOf(k) \cup {v}
    BY <1>4, <2>1, <2>2, <2>3, <2>4 DEF VersionsOf
  <2>7. VersionsOf(k)' = 1..v
    BY <2>5, <2>6
  <2>8. r.version \in Nat \ {0} /\ VersionsOf(r.key) = 1..(r.version - 1) /\ VersionsOf(r.key)' = 1..r.version
    BY <2>2, <2>4, <2>5, <2>7
  <2>9. HistoryOf(r.key)' = Append(HistoryOf(r.key), r.blob.plain)
    BY <1>2, <1>8, <1>9, <2>1, <2>2, <2>8, HistoryGrows
  <2> QED
    BY <2>2, <2>9
<1>11. ASSUME NEW k \in gone
       PROVE  HistoryOf(k)' = Append(HistoryOf(k), NoValue)
  <2>0. PICK r : r = Tombstone(snap, k)
    OBVIOUS
  <2>1. r \in versions'
    BY <1>4, <2>0 DEF PlannedBy, PlannedRows
  <2>2. r.key = k /\ r.version = NextVersion(snap, k) /\ r.blob.plain = NoValue
    BY <2>0 DEF Tombstone, NoBlob
  <2>3. ASSUME NEW s \in PlannedBy(c), s.key = k
        PROVE  s.version = NextVersion(snap, k)
    BY <2>3 DEF PlannedBy, PlannedRows, SetRows, Tombstone
  <2>4. PICK v : v = NextVersion(snap, k)
    OBVIOUS
  <2>5. v \in Nat \ {0} /\ VersionsOf(k) = 1..(v - 1)
    BY <1>1, <1>3, <1>5, <2>4, NumberContinues
  <2>6. VersionsOf(k)' = VersionsOf(k) \cup {v}
    BY <1>4, <2>1, <2>2, <2>3, <2>4 DEF VersionsOf
  <2>7. VersionsOf(k)' = 1..v
    BY <2>5, <2>6
  <2>8. r.version \in Nat \ {0} /\ VersionsOf(r.key) = 1..(r.version - 1) /\ VersionsOf(r.key)' = 1..r.version
    BY <2>2, <2>4, <2>5, <2>7
  <2>9. HistoryOf(r.key)' = Append(HistoryOf(r.key), r.blob.plain)
    BY <1>3, <1>8, <1>9, <2>1, <2>2, <2>8, HistoryGrows
  <2> QED
    BY <2>2, <2>9
<1>12. ASSUME NEW k \in Key, k \notin DOMAIN set, k \notin gone
       PROVE  HistoryOf(k)' = HistoryOf(k)
  <2>1. \A s \in PlannedBy(c) : s.key # k
    BY <1>12 DEF PlannedBy, PlannedRows, SetRows, Tombstone
  <2>2. VersionsOf(k)' = VersionsOf(k)
    BY <1>4, <2>1 DEF VersionsOf
  <2> QED
    BY <1>8, <1>9, <2>2, HistoryStands
<1> HIDE DEF in, snap, set, gone, id
<1>13. HistoryNow' = [k \in Key |->
         IF k \in DOMAIN set THEN Append(HistoryNow[k], set[k])
         ELSE IF k \in gone THEN Append(HistoryNow[k], NoValue)
         ELSE HistoryNow[k]]
  BY <1>10, <1>11, <1>12 DEF HistoryNow
<1>14. Promise!Write(set, gone)
  BY <1>3, <1>6, <1>7, <1>8, <1>13 DEF Promise!Write, HistoryNow, HistoryOf
<1> QED
  BY <1>2, <1>2a, <1>6, <1>14 DEF in, snap, set, gone

(* A rollback appends a value its key had at the version it names. *)
LEMMA RollbackRefines ==
    ASSUME IInv, IInv', Carried, NEW c \in Client, CommitRollback(c)
    PROVE  \E k \in Key : \E i \in DOMAIN HistoryOf(k) : Promise!Rollback(k, i)
<1>1. /\ req[c] \in Request /\ req[c].pc = "commit" /\ req[c].input.kind = "rollback"
      /\ req[c].input \in Inputs /\ Present(req[c].seen.id) /\ req[c].value \in Value
  BY DEF CommitRollback, AtMove, IInv, TypeOK, Request, NoInput, Flight, WellFormed
<1>2. PICK k, i, v : /\ k = req[c].input.key /\ i = req[c].input.to
                     /\ v = NextVersion(req[c].snap, k)
  OBVIOUS
<1>3. k \in Key
  BY <1>1, <1>2, InputFacts
<1>4. PICK r : r = [key |-> k, version |-> v, op |-> "rollback",
                    blob |-> Seal(req[c].seen.id, k, v, req[c].value)]
  OBVIOUS
<1>5. r.key = k /\ r.version = v /\ r.blob.plain = req[c].value
  BY <1>4 DEF Seal
<1>6. MovedRows(c) = {r}
  BY <1>1, <1>2, <1>4 DEF MovedRows
<1>7. /\ versions' = versions \cup {r} /\ v \notin VersionsOf(k)
      /\ current' = IF k \in Live THEN [current EXCEPT ![k] = v] ELSE current
  BY <1>2, <1>5, <1>6 DEF CommitRollback, Collides
<1>8. v \in Nat \ {0} /\ VersionsOf(k) = 1..(v - 1)
  BY <1>1, <1>2, <1>3, <1>7, NumberContinues
<1>9. VersionsOf(k)' = 1..v
  <2>1. VersionsOf(k)' = VersionsOf(k) \cup {v}
    BY <1>5, <1>7 DEF VersionsOf
  <2> QED
    BY <1>8, <2>1
<1>10. env.exists /\ env'.exists /\ env'.rev = env.rev + 1 /\ versions \subseteq versions'
  BY BatchesAdd
<1>11. Unique'
  BY DEF IInv, Tables
<1>12. HistoryOf(k)' = Append(HistoryOf(k), req[c].value)
  <2>1. /\ r \in versions' /\ r.key \in Key /\ r.version \in Nat \ {0}
        /\ VersionsOf(r.key) = 1..(r.version - 1) /\ VersionsOf(r.key)' = 1..r.version
    BY <1>3, <1>5, <1>7, <1>8, <1>9
  <2>2. HistoryOf(r.key)' = Append(HistoryOf(r.key), r.blob.plain)
    BY <1>10, <1>11, <2>1, HistoryGrows
  <2> QED
    BY <1>5, <2>2
<1>13. ASSUME NEW j \in Key, j # k
       PROVE  HistoryOf(j)' = HistoryOf(j)
  <2>1. VersionsOf(j)' = VersionsOf(j)
    BY <1>5, <1>7, <1>13 DEF VersionsOf
  <2> QED
    BY <1>10, <1>11, <2>1, HistoryStands
<1>14. i \in VersionsOf(k) /\ req[c].value = Contents(k, i)
  <2>1. SourceOf(req[c]).key = k /\ SourceOf(req[c]).version = i
    BY <1>1, <1>2 DEF SourceOf
  <2>2. Carries(c) /\ AtMove(c, "rollback")
    BY <1>1 DEF Carried, AtMove
  <2>3. i \in VersionsOf(k) /\ req[c].value = RowAt(k, i).blob.plain
    BY <1>1, <2>1, <2>2 DEF Carries
  <2> QED
    BY <2>3 DEF Contents
<1>15. i \in DOMAIN HistoryOf(k) /\ HistoryOf(k)[i] = req[c].value
  <2>1. PICK n \in Nat : VersionsOf(k) = 1..n /\ Cardinality(VersionsOf(k)) = n
    BY <1>3, HistoryLength
  <2> QED
    BY <1>14, <2>1 DEF HistoryOf
<1>16. Live' = Live
  BY <1>3, <1>7, <1>8 DEF Live, IInv, TypeOK
<1>17. HistoryNow' = [HistoryNow EXCEPT ![k] = Append(@, HistoryNow[k][i])]
  BY <1>3, <1>12, <1>13, <1>15 DEF HistoryNow
<1>18. HistoryNow[k][i] # NoValue
  BY <1>1, <1>3, <1>15, NoValueAssumption DEF HistoryNow
<1>19. Promise!Rollback(k, i)
  BY <1>10, <1>16, <1>17, <1>18 DEF Promise!Rollback, HistoryNow, HistoryOf
<1> QED
  BY <1>3, <1>15, <1>19

(* A rename takes the newest value of a key that is still live. *)
LEMMA RenameRefines ==
    ASSUME IInv, IInv', Carried, NEW c \in Client, CommitRename(c)
    PROVE  \E old, new \in Key : Promise!Rename(old, new)
<1>1. /\ req[c] \in Request /\ req[c].pc = "commit" /\ req[c].input.kind = "rename"
      /\ req[c].input \in Inputs /\ Present(req[c].seen.id) /\ req[c].value \in Value
      /\ WellFormed(c)
  BY DEF CommitRename, AtMove, IInv, TypeOK, Request, NoInput, Flight, WellFormed
<1>2. PICK old, new, v, w :
         /\ old = req[c].input.old /\ new = req[c].input.new
         /\ v = NextVersion(req[c].snap, new) /\ w = NextVersion(req[c].snap, old)
  OBVIOUS
<1>3. old \in Key /\ new \in Key
  BY <1>1, <1>2, InputFacts
<1>4. req[c].snap[old].live /\ old # new
  <2>1. RefuseRename(req[c].input, req[c].snap) = "none"
    BY <1>1 DEF WellFormed, Refusal
  <2> QED
    BY <1>2, <2>1 DEF RefuseRename
<1>5. PICK to, gone :
         /\ to = [key |-> new, version |-> v, op |-> "rename",
                  blob |-> Seal(req[c].seen.id, new, v, req[c].value)]
         /\ gone = Tombstone(req[c].snap, old)
  OBVIOUS
<1>6. /\ to.key = new /\ to.version = v /\ to.blob.plain = req[c].value
      /\ gone.key = old /\ gone.version = w /\ gone.blob.plain = NoValue
  BY <1>2, <1>5 DEF Seal, Tombstone, NoBlob
<1>7. MovedRows(c) = {to, gone}
  BY <1>1, <1>2, <1>5 DEF MovedRows
<1>8. /\ versions' = versions \cup {to, gone} /\ v \notin VersionsOf(new) /\ w \notin VersionsOf(old)
      /\ new \notin Live /\ current' = [current EXCEPT ![new] = v, ![old] = 0]
  BY <1>2, <1>6, <1>7 DEF CommitRename, Collides
<1>9. /\ v \in Nat \ {0} /\ VersionsOf(new) = 1..(v - 1)
      /\ w \in Nat \ {0} /\ VersionsOf(old) = 1..(w - 1)
  BY <1>1, <1>2, <1>3, <1>8, NumberContinues
<1>10. VersionsOf(new)' = 1..v /\ VersionsOf(old)' = 1..w
  <2>1. VersionsOf(new)' = VersionsOf(new) \cup {v} /\ VersionsOf(old)' = VersionsOf(old) \cup {w}
    BY <1>4, <1>6, <1>8 DEF VersionsOf
  <2> QED
    BY <1>9, <2>1
<1>11. old \in Live
  BY <1>1, <1>2, <1>3, <1>4, <1>8, FreeNumberMeansUnchanged
<1>12. env.exists /\ env'.exists /\ env'.rev = env.rev + 1 /\ versions \subseteq versions'
  BY BatchesAdd
<1>13. Unique'
  BY DEF IInv, Tables
<1>14. HistoryOf(new)' = Append(HistoryOf(new), req[c].value)
  <2>1. /\ to \in versions' /\ to.key \in Key /\ to.version \in Nat \ {0}
        /\ VersionsOf(to.key) = 1..(to.version - 1) /\ VersionsOf(to.key)' = 1..to.version
    BY <1>3, <1>6, <1>8, <1>9, <1>10
  <2>2. HistoryOf(to.key)' = Append(HistoryOf(to.key), to.blob.plain)
    BY <1>12, <1>13, <2>1, HistoryGrows
  <2> QED
    BY <1>6, <2>2
<1>15. HistoryOf(old)' = Append(HistoryOf(old), NoValue)
  <2>1. /\ gone \in versions' /\ gone.key \in Key /\ gone.version \in Nat \ {0}
        /\ VersionsOf(gone.key) = 1..(gone.version - 1) /\ VersionsOf(gone.key)' = 1..gone.version
    BY <1>3, <1>6, <1>8, <1>9, <1>10
  <2>2. HistoryOf(gone.key)' = Append(HistoryOf(gone.key), gone.blob.plain)
    BY <1>12, <1>13, <2>1, HistoryGrows
  <2> QED
    BY <1>6, <2>2
<1>16. ASSUME NEW j \in Key, j # new, j # old
       PROVE  HistoryOf(j)' = HistoryOf(j)
  <2>1. VersionsOf(j)' = VersionsOf(j)
    BY <1>6, <1>8, <1>16 DEF VersionsOf
  <2> QED
    BY <1>12, <1>13, <2>1, HistoryStands
<1>17. Len(HistoryOf(old)) = w - 1 /\ HistoryOf(old)[w - 1] = req[c].value
  <2>1. PICK n \in Nat : VersionsOf(old) = 1..n /\ Cardinality(VersionsOf(old)) = n
    BY <1>3, HistoryLength
  <2>2. n = w - 1
    BY <1>9, <2>1, FS_Interval
  <2>3. SourceOf(req[c]).key = old /\ SourceOf(req[c]).version = w - 1
    <3>1. req[c].snap[old].max \in Nat
      BY <1>1, <1>3 DEF Request, KeyState
    <3> QED
      BY <1>1, <1>2, <3>1 DEF SourceOf, NextVersion
  <2>4. Carries(c) /\ AtMove(c, "rename")
    BY <1>1 DEF Carried, AtMove
  <2>5. w - 1 \in VersionsOf(old) /\ req[c].value = RowAt(old, w - 1).blob.plain
    BY <1>1, <2>3, <2>4 DEF Carries
  <2>6. HistoryOf(old) = [i \in 1..n |-> Contents(old, i)]
    BY <2>1 DEF HistoryOf
  <2>7. Contents(old, n) = req[c].value /\ n \in 1..n
    BY <2>1, <2>2, <2>5 DEF Contents
  <2> QED
    BY <2>2, <2>6, <2>7
<1>18. Live' = (Live \cup {new}) \ {old}
  BY <1>3, <1>4, <1>8, <1>9 DEF Live, IInv, TypeOK
<1>19. HistoryNow' = [HistoryNow EXCEPT ![new] = Append(@, HistoryNow[old][Len(HistoryNow[old])]),
                                        ![old] = Append(@, NoValue)]
  BY <1>3, <1>4, <1>14, <1>15, <1>16, <1>17 DEF HistoryNow
<1>20. Promise!Rename(old, new)
  BY <1>8, <1>11, <1>12, <1>18, <1>19 DEF Promise!Rename, Promise!Latest, HistoryNow, HistoryOf
<1> QED
  BY <1>3, <1>20

(* Deleting the environment and creating it again both leave nothing. *)
LEMMA ResetRefines ==
    ASSUME IInv, IInv', NEW c \in Client, Dropped(c) \/ \E in \in Inputs : Replaced(c, in)
    PROVE  \E present \in BOOLEAN : Promise!Reset(present)
<1>1. versions' = {} /\ Live' = {} /\ env.exists = ~env'.exists /\ env'.exists \in BOOLEAN
      /\ (env'.exists => env'.rev = 0)
  <2>1. CASE Dropped(c)
    BY <2>1 DEF Dropped, CommitDeleteEnv, Present, Live, IInv, TypeOK
  <2>2. ASSUME NEW in \in Inputs, Replaced(c, in)
        PROVE  versions' = {} /\ Live' = {} /\ env.exists = ~env'.exists /\ env'.exists \in BOOLEAN
               /\ env'.rev = 0
    <3>1. /\ env.exists = FALSE /\ env' = [exists |-> TRUE, id |-> env.id + 1, rev |-> 0]
          /\ versions' = versions /\ current' = current
      BY <2>2 DEF Replaced, CreateEnv, IInv, TypeOK
    <3>2. versions = {} /\ Live = {}
      BY <3>1 DEF IInv, Tables, Absent
    <3> QED
      BY <3>1, <3>2 DEF Live
  <2> QED
    BY <2>1, <2>2
<1>2. HistoryNow' = [k \in Key |-> <<>>]
  <2>1. ASSUME NEW k \in Key
        PROVE  HistoryOf(k)' = <<>>
    <3>1. VersionsOf(k)' = {}
      BY <1>1 DEF VersionsOf
    <3>2. Cardinality(VersionsOf(k)') = 0
      BY <3>1, FS_EmptySet
    <3> QED
      BY <3>2 DEF HistoryOf
  <2> QED
    BY <2>1 DEF HistoryNow
<1>3. Promise!Reset(env'.exists)
  BY <1>1, <1>2 DEF Promise!Reset, Promise!Empty, HistoryNow, HistoryOf
<1> QED
  BY <1>1, <1>3

(* A new environment is an empty store. *)
LEMMA InitRefines == Init => Promise!Init
<1> SUFFICES ASSUME Init
             PROVE  Promise!Init
  OBVIOUS
<1>1. HistoryNow = [k \in Key |-> <<>>]
  <2>1. ASSUME NEW k \in Key
        PROVE  HistoryOf(k) = <<>>
    <3>1. VersionsOf(k) = {}
      BY DEF Init, VersionsOf
    <3>2. Cardinality(VersionsOf(k)) = 0
      BY <3>1, FS_EmptySet
    <3> QED
      BY <3>2 DEF HistoryOf
  <2> QED
    BY <2>1 DEF HistoryNow
<1> QED
  BY <1>1 DEF Init, Live, Promise!Init, Promise!Empty, HistoryNow, HistoryOf

(* What leaves the tables alone leaves the mapped store alone. *)
LEMMA TablesStandRefines ==
    ASSUME TablesStand
    PROVE  UNCHANGED Promise!store
<1>1. \A k : VersionsOf(k)' = VersionsOf(k)
  BY DEF TablesStand, VersionsOf
<1>2. \A k, i : Contents(k, i)' = Contents(k, i)
  BY <1>1 DEF TablesStand, Contents, RowAt
<1>3. HistoryNow' = HistoryNow
  BY <1>1, <1>2 DEF HistoryNow, HistoryOf
<1>4. Live' = Live /\ RevNow' = RevNow
  BY DEF TablesStand, Live, RevNow
<1> QED
  BY <1>3, <1>4 DEF TablesStand, Promise!store, HistoryNow, HistoryOf, RevNow

(* Every step is one operation of VersionedStore, or none. *)
LEMMA StepRefines ==
    ASSUME IInv, IInv', Carried, [Next]_vars
    PROVE  [Promise!Next]_(Promise!store)
<1>1. CASE TablesStand
  BY <1>1, TablesStandRefines
<1>2. ASSUME NEW c \in Client, CommitWrite(c)
      PROVE  Promise!Next
  BY <1>2, WriteRefines DEF Promise!Next
<1>3. ASSUME NEW c \in Client, CommitRollback(c)
      PROVE  Promise!Next
  BY <1>3, RollbackRefines DEF Promise!Next, HistoryOf
<1>4. ASSUME NEW c \in Client, CommitRename(c)
      PROVE  Promise!Next
  BY <1>4, RenameRefines DEF Promise!Next
<1>5. ASSUME NEW c \in Client, Dropped(c) \/ \E in \in Inputs : Replaced(c, in)
      PROVE  Promise!Next
  BY <1>5, ResetRefines DEF Promise!Next
<1> QED
  BY <1>1, <1>2, <1>3, <1>4, <1>5, StepOnTables

(* The tables, the batches and the requests between their awaits implement  *)
(* the append-only store of VersionedStore: each batch is one operation of  *)
(* it, and every other step changes nothing a reader of the store can see.  *)
THEOREM StoreIsAppendOnly == Spec => ImplementsVersionedStore
<1>1. IInv /\ IInv' /\ Carried /\ [Next]_vars => [Promise!Next]_(Promise!store)
  BY StepRefines
<1> QED
  BY <1>1, InitRefines, Invariance, MovesStayTrue, PTL DEF Spec, ImplementsVersionedStore, Promise!Spec
=============================================================================
