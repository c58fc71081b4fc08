--------------------------- MODULE KeyRingProofs ---------------------------
(***************************************************************************)
(* Proofs about KeyRing, for any number of keys, rows, request slots and   *)
(* page sizes: what no interleaving can break, what a patient operator may *)
(* rely on, and that his rotations, with the key removed on green, strand  *)
(* no row. The guide does not ask for that patience.                       *)
(***************************************************************************)
EXTENDS KeyRing, FiniteSetTheorems, WellFoundedInduction, TLAPS

(* The fields a request in flight carries, by where it stands. *)
LEMMA RequestFacts ==
    ASSUME TypeOK, NEW s \in Slot
    PROVE  /\ req[s].pc \in {"idle", "write", "read", "move", "page", "reseal", "count", "census", "recorded"}
           /\ req[s].pc # "idle" => req[s].ring \in Ring
           /\ req[s].pc \in {"write", "move", "read"} => req[s].id \in Id
           /\ req[s].pc = "write" => req[s].plain \in Value
           /\ req[s].pc = "move" => req[s].source \in Id
           /\ req[s].pc \in {"page", "reseal"} => req[s].limit \in Nat
           /\ req[s].pc = "reseal" => IsTable(req[s].page)
           /\ req[s].pc = "recorded" => req[s].safe \in BOOLEAN
<1>1. CASE req[s] \in Request
  BY <1>1 DEF Request, Idle
<1>2. CASE IsResealing(req[s])
  <2>1. req[s].pc = "reseal"
    BY <1>2 DEF IsResealing, Resealing
  <2> QED
    BY <1>2, <2>1 DEF IsResealing
<1> QED
  BY <1>1, <1>2 DEF TypeOK

(* A request record of the flat kinds, written into its slot. *)
LEMMA PutRequest ==
    ASSUME TypeOK, NEW s \in Slot, NEW r, r \in Request \/ IsResealing(r),
           req' = [req EXCEPT ![s] = r]
    PROVE  /\ DOMAIN req' = Slot
           /\ req'[s] = r
           /\ \A t \in Slot : t # s => req'[t] = req[t]
           /\ \A t \in Slot : req'[t] \in Request \/ IsResealing(req'[t])
  BY DEF TypeOK

(* The answer a slot goes by after a reply. *)
LEMMA PutAnswer ==
    ASSUME TypeOK, NEW s \in Slot, NEW a \in Answer, Reply(s, a)
    PROVE  /\ req' = [req EXCEPT ![s] = Idle]
           /\ answer' \in [Slot -> Answer]
           /\ answer'[s] \in {a, Nothing}
           /\ req[s].ring = config => answer'[s] = a
           /\ Patient /\ req[s].ring # config => answer'[s] = Nothing
           /\ \A t \in Slot : t # s => answer'[t] = answer[t]
<1>1. Nothing \in Answer
  BY DEF Answer
<1> QED
  BY <1>1, OperatorAssumption DEF TypeOK, Reply, Heeded

LEMMA Idles == Idle \in Request
  BY DEF Request

LEMMA TablesAreFinite ==
    ASSUME NEW f, IsTable(f), NEW S \in SUBSET DOMAIN f
    PROVE  /\ IsFiniteSet(S)
           /\ Cardinality(S) \in Nat
           /\ Cardinality(S) = 0 <=> S = {}
<1>1. IsFiniteSet(Id)
  BY FS_Interval, BoundsAssumption DEF Id
<1>2. S \in SUBSET Id
  BY DEF IsTable
<1>3. IsFiniteSet(S)
  BY <1>1, <1>2, FS_Subset
<1> QED
  BY <1>3, FS_CardinalityType, FS_EmptySet

LEMMA SealedRowIsTyped ==
    ASSUME NEW k \in MasterKey, NEW i \in Id, NEW x \in Value
    PROVE  SealedRow(k, i, x) \in Row
  BY DEF SealedRow, Encrypt, Row, Envelope, Id

LEMMA SealedRowFields ==
    \A k, i, x : /\ SealedRow(k, i, x).kid = k
                 /\ SealedRow(k, i, x).envelope.kid = k
                 /\ SealedRow(k, i, x).envelope.id = i
                 /\ SealedRow(k, i, x).envelope.plain = x
  BY DEF SealedRow, Encrypt

(* The page read holds stored rows only. *)
LEMMA PageIsStored ==
    ASSUME TypeOK, NEW k, NEW n
    PROVE  /\ DOMAIN ReadPage(k, n) \subseteq DOMAIN rows
           /\ DOMAIN ReadPage(k, n) \subseteq Stale(k)
           /\ \A i \in DOMAIN ReadPage(k, n) : ReadPage(k, n)[i] = rows[i]
           /\ IsTable(ReadPage(k, n))
  BY DEF TypeOK, ReadPage, Restrict, FirstOf, Stale, IsTable

LEMMA ReasonIsAnswer ==
    ASSUME NEW ring, NEW e
    PROVE  WhyNot(ring, e) \in Answer
  BY DEF WhyNot, Failed, Answer

LEMMA FailedIsAnswer ==
    /\ Failed("NOT_FOUND") \in Answer
    /\ Failed("SERVER_MISCONFIGURED") \in Answer
    /\ Done \in Answer
    /\ Nothing \in Answer
    /\ \A n \in Nat : Rekeyed(n) \in Answer
    /\ \A r : \A b \in BOOLEAN : Status(r, b) \in Answer
  BY DEF Failed, Answer, Done, Nothing, Rekeyed, Status, OldKeyLoaded

----------------------------------------------------------------------------
(* Types. *)

LEMMA TypeStep == TypeOK /\ [Next]_vars => TypeOK'
<1> SUFFICES ASSUME TypeOK, [Next]_vars PROVE TypeOK'
  OBVIOUS
<1> USE Idles, FailedIsAnswer
<1>1. ASSUME NEW s \in Slot, RefuseRequest(s) PROVE TypeOK'
  BY <1>1 DEF RefuseRequest, TypeOK
<1>2. ASSUME NEW s \in Slot, CommitWrite(s) PROVE TypeOK'
  <2>1. SealedRow(req[s].ring.active, req[s].id, req[s].plain) \in Row
    BY <1>2, RequestFacts, SealedRowIsTyped DEF CommitWrite, Ring
  <2>2. IsTable(rows')
    BY <1>2, <2>1, RequestFacts DEF CommitWrite, Insert, IsTable, TypeOK
  <2> QED
    BY <1>2, <2>2, PutAnswer, PutRequest DEF CommitWrite, TypeOK
<1>3. ASSUME NEW s \in Slot, ReadRow(s) PROVE TypeOK'
  <2>1. \E a \in Answer : Reply(s, a)
    BY <1>3, ReasonIsAnswer DEF ReadRow
  <2> QED
    BY <1>3, <2>1, PutAnswer, PutRequest DEF ReadRow, TypeOK
<1>4. ASSUME NEW s \in Slot, OpenSource(s) PROVE TypeOK'
  <2>1. PICK r : /\ req' = [req EXCEPT ![s] = r]
                 /\ r = [pc |-> "write", ring |-> req[s].ring, id |-> req[s].id,
                         plain |-> rows[req[s].source].envelope.plain]
    BY <1>4 DEF OpenSource
  <2>2. r \in Request
    BY <1>4, <2>1, RequestFacts DEF OpenSource, Request, TypeOK, IsTable, Row, Envelope
  <2> QED
    BY <1>4, <2>1, <2>2, PutRequest DEF OpenSource, TypeOK
<1>5. ASSUME NEW s \in Slot, SourceUnreadable(s) PROVE TypeOK'
  <2>1. \E a \in Answer : Reply(s, a)
    BY <1>5, ReasonIsAnswer DEF SourceUnreadable
  <2> QED
    BY <1>5, <2>1, PutAnswer, PutRequest DEF SourceUnreadable, TypeOK
<1>6. ASSUME NEW s \in Slot, EmptyPage(s) PROVE TypeOK'
  BY <1>6, PutAnswer, PutRequest DEF EmptyPage, TypeOK
<1>7. ASSUME NEW s \in Slot, OpenPage(s) PROVE TypeOK'
  <2> DEFINE page == ReadPage(req[s].ring.active, req[s].limit)
  <2>1. IsResealing(Resealing(req[s].ring, req[s].limit, page))
    BY <1>7, RequestFacts, PageIsStored DEF OpenPage, IsResealing, Resealing
  <2>2. req' = [req EXCEPT ![s] = Resealing(req[s].ring, req[s].limit, page)]
    BY <1>7 DEF OpenPage
  <2> QED
    BY <1>7, <2>1, <2>2, PutRequest DEF OpenPage, TypeOK
<1>8. ASSUME NEW s \in Slot, PageUnreadable(s) PROVE TypeOK'
  <2>1. \E a \in Answer : Reply(s, a)
    BY <1>8, ReasonIsAnswer DEF PageUnreadable
  <2> QED
    BY <1>8, <2>1, PutAnswer, PutRequest DEF PageUnreadable, TypeOK
<1>9. ASSUME NEW s \in Slot, CommitPage(s) PROVE TypeOK'
  <2> DEFINE ring == req[s].ring
             page == req[s].page
  <2>1. ring \in Ring /\ IsTable(page)
    BY <1>9, RequestFacts DEF CommitPage
  <2>2. rows' = Reseal(ring, page) /\ Record(ring, page)
    BY <1>9 DEF CommitPage
  <2>3. \A i \in DOMAIN page : SealedRow(ring.active, i, page[i].envelope.plain) \in Row
    BY <2>1, SealedRowIsTyped DEF Ring, IsTable, Row, Envelope
  <2>4. IsTable(rows')
    BY <2>2, <2>3 DEF Reseal, TypeOK, IsTable
  <2>5. DOMAIN recorded' \subseteq MasterKey
    BY <2>1, <2>2 DEF Record, TypeOK, IsTable, Row, Ring
  <2>6. \A k : Census(rows', k) \in Nat
    BY <2>4, TablesAreFinite DEF Census
  <2>7. \A k \in DOMAIN recorded' : recorded'[k] \in Nat
    BY <2>2, <2>6 DEF Record
  <2>8. CASE Cardinality(DOMAIN page) < req[s].limit
    <3>1. Reply(s, Rekeyed(0))
      BY <1>9, <2>8 DEF CommitPage
    <3> QED
      BY <1>9, <2>4, <2>5, <2>7, <3>1, PutAnswer, PutRequest DEF CommitPage, TypeOK
  <2>9. CASE ~(Cardinality(DOMAIN page) < req[s].limit)
    <3>1. req' = [req EXCEPT ![s] = [pc |-> "count", ring |-> ring]] /\ UNCHANGED answer
      BY <1>9, <2>9 DEF CommitPage
    <3>2. [pc |-> "count", ring |-> ring] \in Request
      BY <2>1 DEF Request
    <3> QED
      BY <1>9, <2>4, <2>5, <2>7, <3>1, <3>2, PutRequest DEF CommitPage, TypeOK
  <2> QED
    BY <2>8, <2>9
<1>10. ASSUME NEW s \in Slot, CountRemaining(s) PROVE TypeOK'
  <2>1. Cardinality(Stale(req[s].ring.active)) \in Nat
    BY TablesAreFinite DEF TypeOK, Stale
  <2> QED
    BY <1>10, <2>1, PutAnswer, PutRequest DEF CountRemaining, TypeOK
<1>11. ASSUME NEW s \in Slot, TakeCensus(s) PROVE TypeOK'
  <2> DEFINE r == [pc |-> "recorded", ring |-> req[s].ring, safe |-> SafeToRemove(req[s].ring)]
  <2>1. r \in Request
    BY <1>11, RequestFacts DEF TakeCensus, Request, SafeToRemove
  <2>2. req' = [req EXCEPT ![s] = r]
    BY <1>11 DEF TakeCensus
  <2> HIDE DEF r
  <2> QED
    BY <1>11, <2>1, <2>2, PutRequest DEF TakeCensus, TypeOK
<1>12. ASSUME NEW s \in Slot, AnswerStatus(s) PROVE TypeOK'
  <2>1. Status(req[s].ring, req[s].safe) \in Answer
    BY <1>12, RequestFacts DEF AnswerStatus
  <2> QED
    BY <1>12, <2>1, PutAnswer, PutRequest DEF AnswerStatus, TypeOK
<1>13. ASSUME NEW s \in Slot, Die(s) PROVE TypeOK'
  BY <1>13, PutAnswer, PutRequest, BoundsAssumption DEF Die, TypeOK
<1>14. ASSUME NEW c \in Client, Traffic(c) PROVE TypeOK'
  <2>0. c \in Slot
    BY DEF Slot
  <2>1. CASE StartWrite(c)
    <3>1. PICK x \in Value :
            req' = [req EXCEPT ![c] = [pc |-> "write", ring |-> config, id |-> nextId, plain |-> x]]
      BY <2>1 DEF StartWrite, Enter
    <3>2. [pc |-> "write", ring |-> config, id |-> nextId, plain |-> x] \in Request
      BY <2>1 DEF Request, TypeOK, StartWrite, Id
    <3> QED
      BY <2>0, <2>1, <3>1, <3>2, PutRequest, BoundsAssumption DEF StartWrite, TypeOK
  <2>2. CASE StartRead(c)
    <3>1. PICK i \in DOMAIN rows : req' = [req EXCEPT ![c] = [pc |-> "read", ring |-> config, id |-> i]]
      BY <2>2 DEF StartRead, Enter
    <3>2. [pc |-> "read", ring |-> config, id |-> i] \in Request
      BY DEF Request, TypeOK, IsTable
    <3> QED
      BY <2>0, <2>2, <3>1, <3>2, PutRequest DEF StartRead, TypeOK
  <2>3. CASE StartMove(c)
    <3>1. PICK i \in DOMAIN rows :
            req' = [req EXCEPT ![c] = [pc |-> "move", ring |-> config, source |-> i, id |-> nextId]]
      BY <2>3 DEF StartMove, Enter
    <3>2. [pc |-> "move", ring |-> config, source |-> i, id |-> nextId] \in Request
      BY <2>3 DEF Request, TypeOK, IsTable, StartMove, Id
    <3> QED
      BY <2>0, <2>3, <3>1, <3>2, PutRequest, BoundsAssumption DEF StartMove, TypeOK
  <2> QED
    BY <1>14, <2>1, <2>2, <2>3 DEF Traffic
<1>15. ASSUME NEW a \in Admin, StartRekey(a) PROVE TypeOK'
  <2>0. a \in Slot
    BY DEF Slot
  <2>1. PICK n \in Limits : req' = [req EXCEPT ![a] = [pc |-> "page", ring |-> config, limit |-> n]]
    BY <1>15 DEF StartRekey, Enter
  <2>2. [pc |-> "page", ring |-> config, limit |-> n] \in Request
    BY BoundsAssumption DEF Request, TypeOK
  <2> QED
    BY <1>15, <2>0, <2>1, <2>2, PutRequest DEF StartRekey, TypeOK
<1>16. ASSUME NEW a \in Admin, StartStatus(a) PROVE TypeOK'
  <2>0. a \in Slot
    BY DEF Slot
  <2>1. [pc |-> "census", ring |-> config] \in Request
    BY DEF Request, TypeOK
  <2> QED
    BY <1>16, <2>0, <2>1, PutRequest DEF StartStatus, Enter, TypeOK
<1>17. ASSUME DeleteEnvironment PROVE TypeOK'
  BY <1>17 DEF DeleteEnvironment, TypeOK, IsTable, Restrict
<1>18. ASSUME Operate PROVE TypeOK'
  <2>1. config' \in Ring
    <3>1. CASE PutOld
      BY <3>1 DEF PutOld, Deploy, TypeOK, Ring
    <3>2. CASE PutActive
      <4>1. config.active + 1 \in MasterKey
        BY <3>2, BoundsAssumption DEF PutActive, TypeOK, Ring, MasterKey
      <4> QED
        BY <3>2, <4>1 DEF PutActive, Deploy, TypeOK, Ring
    <3>3. CASE RemoveOld \/ RemoveTooEarly
      BY <3>3 DEF RemoveOld, RemoveTooEarly, Deploy, TypeOK, Ring
    <3>4. CASE RestoreOld
      BY <3>4 DEF RestoreOld, Deploy, TypeOK, Ring, IsTable, Row
    <3> QED
      BY <1>18, <3>1, <3>2, <3>3, <3>4 DEF Operate
  <2>2. Deploy(config')
    BY <1>18 DEF Operate, PutOld, PutActive, RemoveOld, RemoveTooEarly, RestoreOld, Deploy
  <2> QED
    BY <2>1, <2>2 DEF Deploy, TypeOK
<1>19. CASE UNCHANGED vars
  BY <1>19 DEF vars, TypeOK
<1> QED
  BY <1>1, <1>2, <1>3, <1>4, <1>5, <1>6, <1>7, <1>8, <1>9, <1>10, <1>11, <1>12, <1>13,
     <1>14, <1>15, <1>16, <1>17, <1>18, <1>19 DEF Next, StepOf
----------------------------------------------------------------------------
(* What a step does to the tables and to the requests in flight. *)

Others(s) == DOMAIN req' = Slot /\ \A t \in Slot : t # s => req'[t] = req[t]

(* A request begins, under the deployed ring. *)
Enters(s) ==
    /\ ~InFlight(s)
    /\ Others(s)
    /\ req'[s].pc \in {"write", "read", "move", "page", "census"}
    /\ req'[s].ring = config
    /\ Minting(s)' => req'[s].id = nextId /\ nextId' = nextId + 1
    /\ ~Minting(s)' => nextId' = nextId
    /\ Asking(s)' => Ready
    /\ UNCHANGED <<config, rows, answer>>

(* A request ends and leaves the tables as they are. *)
Quits(s) ==
    /\ InFlight(s)
    /\ Others(s)
    /\ req'[s] = Idle
    /\ \A t \in Slot : t # s => answer'[t] = answer[t]
    /\ UNCHANGED <<config, rows, nextId>>
    /\ \/ ReadRow(s) \/ SourceUnreadable(s) \/ EmptyPage(s) \/ PageUnreadable(s)
       \/ CountRemaining(s) \/ AnswerStatus(s) \/ Die(s)

(* A request goes on under the same ring, and nothing else changes. *)
Continues(s) ==
    /\ InFlight(s)
    /\ Others(s)
    /\ req'[s].ring = req[s].ring
    /\ UNCHANGED <<config, rows, nextId, answer>>
    /\ OpenSource(s) \/ OpenPage(s) \/ TakeCensus(s)

Rests ==
    /\ UNCHANGED <<config, rows, nextId, req>>
    /\ \A s \in Slot : Promised(answer'[s]) => answer'[s] = answer[s]

LEMMA StepKinds ==
    ASSUME TypeOK, [Next]_vars
    PROVE  \/ Rests
           \/ \E s \in Slot : Enters(s) \/ Quits(s) \/ Continues(s) \/ CommitWrite(s) \/ CommitPage(s)
           \/ DeleteEnvironment
           \/ Operate /\ Deploy(config')
<1> USE Idles
<1>1. ASSUME NEW s \in Slot, RefuseRequest(s) PROVE Rests
  BY <1>1 DEF RefuseRequest, Rests, Promised, Failed, TypeOK
<1>2. ASSUME NEW s \in Slot,
             \/ ReadRow(s) \/ SourceUnreadable(s) \/ EmptyPage(s) \/ PageUnreadable(s)
             \/ CountRemaining(s) \/ AnswerStatus(s) \/ Die(s)
      PROVE  Quits(s)
  <2>1. /\ req' = [req EXCEPT ![s] = Idle] /\ UNCHANGED <<config, rows, nextId>> /\ InFlight(s)
        /\ \A t \in Slot : t # s => answer'[t] = answer[t]
    BY <1>2 DEF TypeOK, ReadRow, SourceUnreadable, EmptyPage, PageUnreadable, CountRemaining, AnswerStatus,
                Die, Reply, InFlight
  <2> QED
    BY <1>2, <2>1 DEF Quits, Others, TypeOK
<1>3. ASSUME NEW s \in Slot, OpenSource(s) \/ OpenPage(s) \/ TakeCensus(s) PROVE Continues(s)
  <2>1. CASE OpenSource(s)
    BY <2>1 DEF OpenSource, Continues, Others, InFlight, TypeOK
  <2>2. CASE OpenPage(s)
    BY <2>2 DEF OpenPage, Resealing, Continues, Others, InFlight, TypeOK
  <2>3. CASE TakeCensus(s)
    BY <2>3 DEF TakeCensus, Continues, Others, InFlight, TypeOK
  <2> QED
    BY <1>3, <2>1, <2>2, <2>3
<1>4. ASSUME NEW c \in Client, Traffic(c) PROVE Enters(c)
  <2>1. c \in Slot
    BY DEF Slot
  <2>2. CASE StartWrite(c)
    BY <2>1, <2>2 DEF StartWrite, Enter, Enters, Others, Minting, Asking, TypeOK
  <2>3. CASE StartRead(c)
    BY <2>1, <2>3 DEF StartRead, Enter, Enters, Others, Minting, Asking, TypeOK
  <2>4. CASE StartMove(c)
    BY <2>1, <2>4 DEF StartMove, Enter, Enters, Others, Minting, Asking, TypeOK
  <2> QED
    BY <1>4, <2>2, <2>3, <2>4 DEF Traffic
<1>5. ASSUME NEW a \in Admin, StartRekey(a) \/ StartStatus(a) PROVE a \in Slot /\ Enters(a)
  <2>1. a \in Slot
    BY DEF Slot
  <2>2. CASE StartRekey(a)
    BY <2>1, <2>2 DEF StartRekey, Enter, Enters, Others, Minting, Asking, TypeOK
  <2>3. CASE StartStatus(a)
    BY <2>1, <2>3 DEF StartStatus, Enter, Enters, Others, Minting, Asking, TypeOK
  <2> QED
    BY <1>5, <2>1, <2>2, <2>3
<1>6. ASSUME Operate PROVE Deploy(config')
  BY <1>6 DEF Operate, PutOld, PutActive, RemoveOld, RemoveTooEarly, RestoreOld, Deploy
<1>7. CASE UNCHANGED vars
  BY <1>7 DEF vars, Rests
<1>8. \A c \in Client : c \in Slot
  BY DEF Slot
<1> QED
  BY <1>1, <1>2, <1>3, <1>4, <1>5, <1>6, <1>7, <1>8 DEF Next, StepOf

(* The rows after a page is committed. *)
LEMMA AfterPage ==
    ASSUME TypeOK, NEW s \in Slot, CommitPage(s)
    PROVE  /\ InFlight(s) /\ Others(s)
           /\ UNCHANGED <<config, nextId>>
           /\ req'[s] = Idle \/ (req'[s].pc = "count" /\ req'[s].ring = req[s].ring)
           /\ DOMAIN rows' = DOMAIN rows
           /\ \A i \in DOMAIN rows :
                rows'[i] = IF i \in DOMAIN req[s].page
                           THEN SealedRow(req[s].ring.active, i, req[s].page[i].envelope.plain)
                           ELSE rows[i]
<1>1. rows' = Reseal(req[s].ring, req[s].page)
  BY DEF CommitPage
<1>2. \/ req' = [req EXCEPT ![s] = Idle]
      \/ req' = [req EXCEPT ![s] = [pc |-> "count", ring |-> req[s].ring]]
  BY DEF CommitPage, Reply
<1> QED
  BY <1>1, <1>2 DEF CommitPage, Reseal, Others, InFlight, TypeOK

(* The rows after a write. *)
LEMMA AfterWrite ==
    ASSUME TypeOK, NEW s \in Slot, CommitWrite(s)
    PROVE  /\ InFlight(s) /\ Others(s)
           /\ UNCHANGED <<config, nextId>>
           /\ req'[s] = Idle
           /\ rows'[req[s].id] = SealedRow(req[s].ring.active, req[s].id, req[s].plain)
           /\ \A i \in DOMAIN rows' : i = req[s].id \/ (i \in DOMAIN rows /\ rows'[i] = rows[i])
           /\ \A i \in DOMAIN rows : i # req[s].id => rows'[i] = rows[i]
<1>1. rows' = [i \in DOMAIN rows \cup {req[s].id} |->
                IF i = req[s].id THEN SealedRow(req[s].ring.active, req[s].id, req[s].plain)
                ELSE rows[i]]
  BY DEF CommitWrite, Insert
<1>2. DOMAIN rows' = DOMAIN rows \cup {req[s].id}
  BY <1>1
<1>3. req[s].pc = "write" /\ req' = [req EXCEPT ![s] = Idle] /\ UNCHANGED <<config, nextId>>
  BY DEF CommitWrite, Reply
<1>4. InFlight(s) /\ Others(s) /\ req'[s] = Idle
  BY <1>3 DEF InFlight, Others, TypeOK
<1>5. \A i \in DOMAIN rows' : i = req[s].id \/ (i \in DOMAIN rows /\ rows'[i] = rows[i])
  BY <1>1, <1>2
<1>6. \A i \in DOMAIN rows : i # req[s].id => rows'[i] = rows[i]
  BY <1>1
<1>7. rows'[req[s].id] = SealedRow(req[s].ring.active, req[s].id, req[s].plain)
  BY <1>1
<1> QED
  BY <1>3, <1>4, <1>5, <1>6, <1>7

LEMMA AfterDelete ==
    ASSUME DeleteEnvironment
    PROVE  /\ UNCHANGED <<config, nextId, req, answer>>
           /\ DOMAIN rows' \subseteq DOMAIN rows
           /\ \A i \in DOMAIN rows' : rows'[i] = rows[i]
  BY DEF DeleteEnvironment, Restrict
----------------------------------------------------------------------------
(* What no interleaving can break, patient operator or not. *)

LEMMA SealedStep == TypeOK /\ SealedAsLabelled /\ [Next]_vars => SealedAsLabelled'
<1> SUFFICES ASSUME TypeOK, SealedAsLabelled, [Next]_vars PROVE SealedAsLabelled'
  OBVIOUS
<1>1. ASSUME UNCHANGED rows PROVE SealedAsLabelled'
  BY <1>1 DEF SealedAsLabelled
<1>2. ASSUME NEW s \in Slot, CommitWrite(s) PROVE SealedAsLabelled'
  <2>1. \A i \in DOMAIN rows' : i = req[s].id \/ (i \in DOMAIN rows /\ rows'[i] = rows[i])
    BY <1>2, AfterWrite
  <2>2. rows'[req[s].id] = SealedRow(req[s].ring.active, req[s].id, req[s].plain)
    BY <1>2, AfterWrite
  <2> QED
    BY <2>1, <2>2, SealedRowFields DEF SealedAsLabelled
<1>3. ASSUME NEW s \in Slot, CommitPage(s) PROVE SealedAsLabelled'
  <2>1. \A i \in DOMAIN rows' :
          \/ i \in DOMAIN rows /\ rows'[i] = rows[i]
          \/ rows'[i] = SealedRow(req[s].ring.active, i, req[s].page[i].envelope.plain)
    BY <1>3, AfterPage
  <2> QED
    BY <2>1, SealedRowFields DEF SealedAsLabelled
<1>4. ASSUME DeleteEnvironment PROVE SealedAsLabelled'
  BY <1>4, AfterDelete DEF SealedAsLabelled
<1> QED
  BY <1>1, <1>2, <1>3, <1>4, StepKinds DEF Rests, Enters, Quits, Continues, Deploy

(* A deploy activates no older key, and keeps every ring below its active. *)
LEMMA DeployMovesOn ==
    ASSUME TypeOK, RingsArePast, Operate
    PROVE  Past(config') /\ config.active <= config'.active
<1> USE DEF TypeOK, Ring, MasterKey
<1>1. CASE PutOld
  BY <1>1, BoundsAssumption DEF PutOld, Deploy, RingsArePast, Past, Kids
<1>2. CASE PutActive
  BY <1>2, BoundsAssumption DEF PutActive, Deploy, RingsArePast, Past, Kids
<1>3. CASE RemoveOld \/ RemoveTooEarly
  BY <1>3, BoundsAssumption DEF RemoveOld, RemoveTooEarly, Deploy, RingsArePast, Past, Kids
<1>4. CASE RestoreOld
  BY <1>4, BoundsAssumption DEF RestoreOld, Deploy, RingsArePast, Past, Kids
<1> QED
  BY <1>1, <1>2, <1>3, <1>4 DEF Operate

LEMMA RingsStep == TypeOK /\ RingsArePast /\ [Next]_vars => RingsArePast'
<1> SUFFICES ASSUME TypeOK, RingsArePast, [Next]_vars PROVE RingsArePast'
  OBVIOUS
<1>0. \A s \in Slot : InFlight(s) => req[s].ring \in Ring
  BY RequestFacts DEF InFlight
<1>1. CASE Rests
  BY <1>1 DEF Rests, RingsArePast, Past, InFlight, Kids
<1>2. ASSUME NEW s \in Slot, Enters(s) PROVE RingsArePast'
  BY <1>2 DEF Enters, Others, RingsArePast, Past, InFlight, Kids, TypeOK, Ring, MasterKey
<1>3. ASSUME NEW s \in Slot, Quits(s) PROVE RingsArePast'
  BY <1>3 DEF Quits, Others, RingsArePast, Past, InFlight, Kids, Idle
<1>4. ASSUME NEW s \in Slot, Continues(s) PROVE RingsArePast'
  BY <1>4 DEF Continues, Others, RingsArePast, Past, InFlight, Kids
<1>5. ASSUME NEW s \in Slot, CommitWrite(s) PROVE RingsArePast'
  <2>1. \A i \in DOMAIN rows' : i = req[s].id \/ (i \in DOMAIN rows /\ rows'[i] = rows[i])
    BY <1>5, AfterWrite
  <2>2. rows'[req[s].id].kid = req[s].ring.active
    BY <1>5, AfterWrite, SealedRowFields
  <2>3. \A i \in DOMAIN rows' : rows'[i].kid <= config.active
    BY <1>5, <2>1, <2>2, AfterWrite DEF RingsArePast
  <2>4. \A t \in Slot : InFlight(t)' => InFlight(t) /\ req'[t].ring = req[t].ring
    BY <1>5, AfterWrite DEF Others, InFlight, Idle
  <2> QED
    BY <1>5, <2>3, <2>4, AfterWrite DEF RingsArePast, Past, Kids
<1>6. ASSUME NEW s \in Slot, CommitPage(s) PROVE RingsArePast'
  <2>0. \A i \in DOMAIN rows' :
          i \in DOMAIN rows /\ (rows'[i] = rows[i] \/ rows'[i].kid = req[s].ring.active)
    BY <1>6, AfterPage, SealedRowFields
  <2>1. \A i \in DOMAIN rows' : rows'[i].kid <= config.active
    BY <1>6, <2>0, AfterPage DEF RingsArePast
  <2>2. \A t \in Slot : InFlight(t)' => InFlight(t) /\ req'[t].ring = req[t].ring
    BY <1>6, AfterPage DEF Others, InFlight, Idle
  <2> QED
    BY <1>6, <2>1, <2>2, AfterPage DEF RingsArePast, Past, Kids
<1>7. CASE DeleteEnvironment
  BY <1>7, AfterDelete DEF RingsArePast, Past, InFlight, Kids
<1>8. CASE Operate /\ Deploy(config')
  <2>1. Past(config') /\ config.active <= config'.active
    BY <1>8, DeployMovesOn
  <2>2. config'.active \in Nat /\ config.active \in Nat
    BY TypeStep DEF TypeOK, Ring, MasterKey
  <2>3. \A i \in DOMAIN rows : rows[i].kid \in Nat
    BY DEF TypeOK, IsTable, Row, MasterKey
  <2>4. \A s \in Slot : InFlight(s) => req[s].ring.active \in Nat
    BY <1>0 DEF Ring, MasterKey
  <2> QED
    BY <1>8, <2>1, <2>2, <2>3, <2>4 DEF Deploy, RingsArePast, Past, InFlight, Kids
<1> QED
  BY <1>1, <1>2, <1>3, <1>4, <1>5, <1>6, <1>7, <1>8, StepKinds

LEMMA FreshStep == TypeOK /\ FreshIds /\ [Next]_vars => FreshIds'
<1> SUFFICES ASSUME TypeOK, FreshIds, [Next]_vars PROVE FreshIds'
  OBVIOUS
<1> USE DEF FreshIds, Minting
<1>0. /\ nextId \in Nat
      /\ \A i \in DOMAIN rows : i \in Nat
      /\ \A s \in Slot : Minting(s) => req[s].id \in Nat
  BY RequestFacts, BoundsAssumption DEF TypeOK, IsTable, Id
<1>1. CASE Rests
  BY <1>1 DEF Rests
<1>2. ASSUME NEW s \in Slot, Enters(s) PROVE FreshIds'
  <2>1. CASE Minting(s)'
    BY <1>0, <1>2, <2>1 DEF Enters, Others
  <2>2. CASE ~Minting(s)'
    BY <1>0, <1>2, <2>2 DEF Enters, Others
  <2> QED
    BY <2>1, <2>2
<1>3. ASSUME NEW s \in Slot, Quits(s) PROVE FreshIds'
  BY <1>3 DEF Quits, Others, Idle
<1>4. ASSUME NEW s \in Slot, Continues(s) PROVE FreshIds'
  <2>1. Minting(s)' => Minting(s) /\ req'[s].id = req[s].id
    BY <1>4 DEF Continues, OpenSource, OpenPage, Resealing, TakeCensus, TypeOK
  <2> QED
    BY <1>4, <2>1 DEF Continues, Others
<1>5. ASSUME NEW s \in Slot, CommitWrite(s) PROVE FreshIds'
  <2>1. req[s].pc = "write"
    BY <1>5 DEF CommitWrite
  <2> QED
    BY <1>5, <2>1, AfterWrite DEF Others, Idle
<1>6. ASSUME NEW s \in Slot, CommitPage(s) PROVE FreshIds'
  BY <1>6, AfterPage DEF Others, Idle
<1>7. CASE DeleteEnvironment
  BY <1>7, AfterDelete
<1>8. CASE Operate /\ Deploy(config')
  BY <1>8 DEF Deploy
<1> QED
  BY <1>1, <1>2, <1>3, <1>4, <1>5, <1>6, <1>7, <1>8, StepKinds

LEMMA PagesStep ==
    TypeOK /\ SealedAsLabelled /\ FreshIds /\ PagesAreTrue /\ [Next]_vars => PagesAreTrue'
<1> SUFFICES ASSUME TypeOK, SealedAsLabelled, FreshIds, PagesAreTrue, [Next]_vars
             PROVE  PagesAreTrue'
  OBVIOUS
<1> USE DEF PagesAreTrue, Holding, Minting
<1>0. /\ nextId \in Nat
      /\ \A i \in DOMAIN rows : i \in Nat
      /\ \A s \in Slot : Holding(s) => \A i \in DOMAIN req[s].page : i \in Nat
  BY RequestFacts, BoundsAssumption DEF TypeOK, IsTable, Id
<1>1. CASE Rests
  BY <1>1 DEF Rests
<1>2. ASSUME NEW s \in Slot, Enters(s) PROVE PagesAreTrue'
  <2>1. CASE Minting(s)'
    BY <1>0, <1>2, <2>1 DEF Enters, Others
  <2>2. CASE ~Minting(s)'
    BY <1>0, <1>2, <2>2 DEF Enters, Others
  <2> QED
    BY <2>1, <2>2
<1>3. ASSUME NEW s \in Slot, Quits(s) PROVE PagesAreTrue'
  BY <1>3 DEF Quits, Others, Idle
<1>4. ASSUME NEW s \in Slot, Continues(s) PROVE PagesAreTrue'
  <2>1. Minting(s)' => Minting(s) /\ req'[s].id = req[s].id
    BY <1>4 DEF Continues, OpenSource, OpenPage, Resealing, TakeCensus, TypeOK
  <2>2. \A t \in Slot : Minting(t)' => Minting(t) /\ req'[t].id = req[t].id
    BY <1>4, <2>1 DEF Continues, Others
  <2>3. CASE Holding(s)'
    <3>1. OpenPage(s)
      BY <1>4, <2>3 DEF Continues, OpenSource, TakeCensus, TypeOK
    <3>2. req'[s].page = ReadPage(req[s].ring.active, req[s].limit)
      BY <3>1 DEF OpenPage, Resealing, TypeOK
    <3>3. \A i \in DOMAIN req'[s].page : i \in DOMAIN rows /\ req'[s].page[i] = rows[i]
      BY <3>2, PageIsStored
    <3>4. \A i \in DOMAIN req'[s].page :
            /\ req'[s].page[i].envelope.id = i
            /\ i < nextId'
            /\ rows'[i].envelope.plain = req'[s].page[i].envelope.plain
            /\ \A t \in Slot : Minting(t)' => req'[t].id # i
      BY <1>4, <2>2, <3>3 DEF SealedAsLabelled, FreshIds, Continues
    <3> QED
      BY <1>4, <2>2, <3>4 DEF Continues, Others
  <2>4. CASE ~Holding(s)'
    BY <1>4, <2>2, <2>4 DEF Continues, Others
  <2> QED
    BY <2>3, <2>4
<1>5. ASSUME NEW s \in Slot, CommitWrite(s) PROVE PagesAreTrue'
  <2>1. req[s].pc = "write"
    BY <1>5 DEF CommitWrite
  <2> QED
    BY <1>5, <2>1, AfterWrite DEF Others, Idle
<1>6. ASSUME NEW s \in Slot, CommitPage(s) PROVE PagesAreTrue'
  <2>1. req[s].pc = "reseal"
    BY <1>6 DEF CommitPage
  <2>2. \A i \in DOMAIN rows : rows'[i].envelope.plain = rows[i].envelope.plain
    <3>1. \A i \in DOMAIN rows \cap DOMAIN req[s].page :
            rows'[i].envelope.plain = req[s].page[i].envelope.plain
      BY <1>6, AfterPage, SealedRowFields
    <3>2. \A i \in DOMAIN rows \ DOMAIN req[s].page : rows'[i] = rows[i]
      BY <1>6, AfterPage
    <3> QED
      BY <2>1, <3>1, <3>2
  <2> QED
    BY <1>6, <2>2, AfterPage DEF Others, Idle
<1>7. CASE DeleteEnvironment
  BY <1>7, AfterDelete
<1>8. CASE Operate /\ Deploy(config')
  BY <1>8 DEF Deploy
<1> QED
  BY <1>1, <1>2, <1>3, <1>4, <1>5, <1>6, <1>7, <1>8, StepKinds

LEMMA BaseInit == Init => BaseInv
<1> SUFFICES ASSUME Init PROVE BaseInv
  OBVIOUS
<1>1. DOMAIN rows = {} /\ DOMAIN recorded = {}
  BY DEF Init
<1>2. config \in Ring /\ Past(config)
  BY BoundsAssumption DEF Init, Ring, MasterKey, Past, Kids
<1>3. \A s \in Slot : req[s] = Idle
  BY DEF Init
<1>4. TypeOK
  BY <1>1, <1>2, <1>3, Idles, FailedIsAnswer, BoundsAssumption DEF Init, TypeOK, IsTable
<1> QED
  BY <1>1, <1>2, <1>3, <1>4 DEF BaseInv, SealedAsLabelled, RingsArePast, FreshIds, PagesAreTrue,
     InFlight, Minting, Holding, Idle

LEMMA BaseStep == BaseInv /\ [Next]_vars => BaseInv'
  BY TypeStep, SealedStep, RingsStep, FreshStep, PagesStep DEF BaseInv

THEOREM BaseInvariance == Spec => []BaseInv
  BY BaseInit, BaseStep, PTL DEF Spec
(* The kid column, the envelope and the identity of a row agree, whatever  *)
(* interleaves: the census counts what decryption will ask for.            *)
THEOREM RowsAreSealed == Spec => []SealedAsLabelled
<1>1. BaseInv => SealedAsLabelled
  BY DEF BaseInv
<1> QED
  BY <1>1, BaseInvariance, PTL

THEOREM TypeCorrect == Spec => []TypeOK
<1>1. BaseInv => TypeOK
  BY DEF BaseInv
<1> QED
  BY <1>1, BaseInvariance, PTL

(* No rotation, and no page held across one, changes a stored value.       *)
THEOREM NoValueIsLost == Spec => ContentsSurvive
<1> DEFINE Kept == \A i \in DOMAIN rows \cap DOMAIN rows' :
                      rows'[i].envelope.plain = rows[i].envelope.plain
<1>1. ASSUME BaseInv, [Next]_vars PROVE Kept
  <2> USE <1>1 DEF BaseInv
  <2>1. ASSUME UNCHANGED rows PROVE Kept
    BY <2>1
  <2>2. ASSUME NEW s \in Slot, CommitWrite(s) PROVE Kept
    <3>1. Minting(s)
      BY <2>2 DEF CommitWrite, Minting
    <3> QED
      BY <2>2, <3>1, AfterWrite DEF FreshIds
  <2>3. ASSUME NEW s \in Slot, CommitPage(s) PROVE Kept
    <3>1. Holding(s)
      BY <2>3 DEF CommitPage, Holding
    <3>2. \A i \in DOMAIN rows \cap DOMAIN req[s].page :
            rows'[i].envelope.plain = req[s].page[i].envelope.plain
      BY <2>3, AfterPage, SealedRowFields
    <3>3. \A i \in DOMAIN rows \ DOMAIN req[s].page : rows'[i] = rows[i]
      BY <2>3, AfterPage
    <3> QED
      BY <3>1, <3>2, <3>3 DEF PagesAreTrue
  <2>4. ASSUME DeleteEnvironment PROVE Kept
    BY <2>4, AfterDelete
  <2> QED
    BY <2>1, <2>2, <2>3, <2>4, StepKinds DEF Rests, Enters, Quits, Continues, Deploy
<1>2. ASSUME BaseInv, [Next]_vars PROVE [Kept]_vars
  BY <1>1, <1>2
<1> QED
  BY <1>2, BaseInvariance, PTL DEF Spec, ContentsSurvive
----------------------------------------------------------------------------
(* What a patient operator may rely on. *)

(* A page that is shorter than its limit holds every stale row. *)
LEMMA ShortPage ==
    ASSUME TypeOK, NEW k, NEW n \in Nat, Cardinality(DOMAIN ReadPage(k, n)) < n
    PROVE  Stale(k) \subseteq DOMAIN ReadPage(k, n)
<1> DEFINE S == Stale(k)
           F == FirstOf(S, n)
<1>1. DOMAIN ReadPage(k, n) = F
  BY DEF ReadPage, Restrict
<1>2. S \subseteq Nat /\ F \subseteq S
  BY DEF TypeOK, IsTable, Id, Stale, FirstOf
<1>3. SUFFICES ASSUME S \ F # {} PROVE FALSE
  BY <1>1
<1>4. PICK x \in S \ F : \A y \in S \ F : ~(<<y, x>> \in OpToRel(<, Nat))
  BY <1>2, <1>3, NatLessThanWellFounded, WFMin
<1>5. \A y \in S : y < x => y \in F
  BY <1>2, <1>4 DEF OpToRel
<1> DEFINE P == {j \in S : j <= x}
<1>6. P \in SUBSET (F \cup {x})
  BY <1>2, <1>5
<1>7. IsFiniteSet(F) /\ Cardinality(F) \in Nat
  BY <1>2, TablesAreFinite DEF TypeOK, Stale
<1>8. IsFiniteSet(F \cup {x}) /\ Cardinality(F \cup {x}) = Cardinality(F) + 1
  BY <1>4, <1>7, FS_AddElement
<1>9. Cardinality(P) <= Cardinality(F) + 1
  <2> HIDE DEF P, F
  <2> QED
    BY <1>6, <1>8, FS_Subset
<1>10. IsFiniteSet(P) /\ Cardinality(P) \in Nat
  BY TablesAreFinite DEF TypeOK, Stale
<1>11. Cardinality(P) <= n
  BY <1>1, <1>7, <1>9, <1>10
<1>12. x \in F
  BY <1>4, <1>11 DEF FirstOf
<1> QED
  BY <1>4, <1>12
(* In-flight requests of every kind keep the ring they began with. *)
LEMMA RingsStay ==
    ASSUME TypeOK, NEW s \in Slot,
           Quits(s) \/ Continues(s) \/ CommitWrite(s) \/ CommitPage(s)
    PROVE  /\ UNCHANGED config
           /\ \A t \in Slot : InFlight(t)' => InFlight(t) /\ req'[t].ring = req[t].ring
           /\ \A t \in Slot : Asking(t)' => Asking(t)
           /\ \A t \in Slot : t # s => req'[t] = req[t]
<1>1. CASE Quits(s)
  BY <1>1 DEF Quits, Others, Idle, InFlight, Asking
<1>2. CASE Continues(s)
  <2>1. Asking(s)' => Asking(s)
    BY <1>2 DEF Continues, OpenSource, OpenPage, TakeCensus, Asking, TypeOK
  <2> QED
    BY <1>2, <2>1 DEF Continues, Others, InFlight, Asking
<1>3. CASE CommitWrite(s)
  BY <1>3, AfterWrite DEF Others, Idle, InFlight, Asking
<1>4. CASE CommitPage(s)
  <2>1. Asking(s)
    BY <1>4 DEF CommitPage, Asking
  <2> QED
    BY <1>4, <2>1, AfterPage DEF Others, Idle, InFlight, Asking
<1> QED
  BY <1>1, <1>2, <1>3, <1>4

LEMMA AskingIsInFlight == \A s : Asking(s) => InFlight(s)
  BY DEF Asking, InFlight

(* A deploy with another active key outdates every request in flight. *)
LEMMA NewKeyOutdates ==
    ASSUME TypeOK, RingsArePast, Operate, Deploy(config'), config'.active # config.active
    PROVE  /\ \A s \in Slot : InFlight(s) => req[s].ring.active # config'.active
           /\ \A i \in DOMAIN rows : rows[i].kid # config'.active
<1>1. config.active < config'.active /\ config.active \in Nat /\ config'.active \in Nat
  BY DeployMovesOn, TypeStep DEF TypeOK, Ring, MasterKey, Next
<1>2. \A s \in Slot : InFlight(s) => req[s].ring.active \in Nat
  BY RequestFacts DEF InFlight, Ring, MasterKey
<1>3. \A i \in DOMAIN rows : rows[i].kid \in Nat
  BY DEF TypeOK, IsTable, Row, MasterKey
<1> QED
  BY <1>1, <1>2, <1>3 DEF RingsArePast

LEMMA AskedStep ==
    ASSUME Patient, BaseInv, AskedTogether, [Next]_vars
    PROVE  AskedTogether'
<1> USE DEF BaseInv, AskedTogether
<1>1. CASE Rests \/ DeleteEnvironment
  <2>1. UNCHANGED <<config, req>>
    BY <1>1, AfterDelete DEF Rests
  <2> QED
    BY <2>1 DEF Current, UpToDate, Asking, InFlight
<1>2. ASSUME NEW s \in Slot, Enters(s) PROVE AskedTogether'
  <2>1. \A t \in Slot : t # s => req'[t] = req[t]
    BY <1>2 DEF Enters, Others
  <2>2. /\ UNCHANGED config /\ req'[s].ring = config
        /\ Asking(s)' => Settled
        /\ ~InFlight(s)
    BY <1>2 DEF Enters, Ready
  <2>3. Current => Current'
    BY <2>1, <2>2 DEF Current, UpToDate, InFlight
  <2>4. Settled => Current
    BY DEF Settled, Current, UpToDate
  <2>5. \A t \in Slot : t # s /\ Asking(t)' => Asking(t) /\ InFlight(t) /\ req'[t].ring = req[t].ring
    BY <2>1, AskingIsInFlight DEF Asking
  <2>6. ASSUME NEW t \in Slot, Asking(t)', UpToDate(t)' PROVE Current'
    <3>1. CASE t = s
      BY <2>2, <2>3, <2>4, <2>6, <3>1
    <3>2. CASE t # s
      BY <2>2, <2>3, <2>5, <2>6, <3>2 DEF UpToDate
    <3> QED
      BY <3>1, <3>2
  <2>7. ASSUME NEW t \in Slot, Asking(t)', Asking(s)', t # s
        PROVE  req'[t].ring.active = req'[s].ring.active
    BY <2>2, <2>4, <2>5, <2>7 DEF Current, UpToDate
  <2>8. \A t, u \in Slot : Asking(t)' /\ Asking(u)' => req'[t].ring.active = req'[u].ring.active
    BY <2>5, <2>7
  <2> QED
    BY <2>6, <2>8
<1>3. ASSUME NEW s \in Slot, Quits(s) \/ Continues(s) \/ CommitWrite(s) \/ CommitPage(s)
      PROVE  AskedTogether'
  <2>1. /\ UNCHANGED config
        /\ \A t \in Slot : InFlight(t)' => InFlight(t) /\ req'[t].ring = req[t].ring
        /\ \A t \in Slot : Asking(t)' => Asking(t) /\ req'[t].ring = req[t].ring
    BY <1>3, RingsStay, AskingIsInFlight DEF Asking, InFlight
  <2>2. Current => Current'
    BY <2>1 DEF Current, UpToDate
  <2>3. \A t \in Slot : Asking(t)' /\ UpToDate(t)' => Current'
    BY <2>1, <2>2 DEF UpToDate
  <2> QED
    BY <2>1, <2>3
<1>4. CASE Operate /\ Deploy(config')
  <2>1. UNCHANGED req
    BY <1>4 DEF Deploy
  <2>2. CASE config'.active = config.active
    BY <2>1, <2>2 DEF Current, UpToDate, Asking, InFlight
  <2>3. CASE config'.active # config.active
    BY <1>4, <2>1, <2>3, NewKeyOutdates, AskingIsInFlight DEF UpToDate, Asking, InFlight
  <2> QED
    BY <2>2, <2>3
<1> QED
  BY <1>1, <1>2, <1>3, <1>4, StepKinds

(* With no request of an earlier key in flight, a table that is drained     *)
(* stays drained: every row that is written is sealed under the active key. *)
LEMMA DrainedStays ==
    ASSUME BaseInv, Current, AllActive, NEW s \in Slot, CommitWrite(s) \/ CommitPage(s)
    PROVE  AllActive'
<1> USE DEF BaseInv
<1>1. CASE CommitWrite(s)
  <2>1. rows'[req[s].id].kid = config.active
    BY <1>1, AfterWrite, SealedRowFields DEF Current, UpToDate
  <2> QED
    BY <1>1, <2>1, AfterWrite DEF AllActive
<1>2. CASE CommitPage(s)
  <2>1. \A i \in DOMAIN rows' : rows'[i] = rows[i] \/ rows'[i].kid = config.active
    BY <1>2, AfterPage, SealedRowFields DEF Current, UpToDate
  <2> QED
    BY <1>2, <2>1, AfterPage DEF AllActive
<1> QED
  BY <1>1, <1>2

LEMMA NothingStaleIsAllActive == \A k : k = config.active /\ Stale(k) = {} => AllActive
  BY DEF Stale, AllActive

LEMMA OnlyCountsPromise ==
    /\ ~Promised(Nothing) /\ ~Promised(Done)
    /\ \A c : ~Promised(Failed(c))
    /\ \A ring, e : ~Promised(WhyNot(ring, e))
    /\ \A n : Promised(Rekeyed(n)) => n = 0
    /\ \A r, b : Promised(Status(r, b)) => b
  BY DEF Promised, Nothing, Done, Failed, WhyNot, Rekeyed, Status

(* A promising answer is given only when it is true. *)
LEMMA AnswersAreTrue ==
    ASSUME Patient, BaseInv, AskedTogether, AnswersAreKept,
           NEW s \in Slot, Quits(s), Promised(answer'[s])
    PROVE  Current /\ AllActive
<1> USE OnlyCountsPromise DEF BaseInv
<1>1. ASSUME NEW a \in Answer, Reply(s, a)
      PROVE  req[s].ring = config /\ Promised(a)
  BY <1>1, PutAnswer
<1>2. ASSUME Asking(s), req[s].ring = config PROVE Current
  BY <1>2 DEF AskedTogether, UpToDate
<1>3. CASE ReadRow(s)
  <2>1. PICK a \in Answer : Reply(s, a) /\ ~Promised(a)
    BY <1>3, ReasonIsAnswer, FailedIsAnswer DEF ReadRow
  <2> QED
    BY <1>1, <2>1
<1>4. CASE SourceUnreadable(s)
  <2>1. PICK a \in Answer : Reply(s, a) /\ ~Promised(a)
    BY <1>4, ReasonIsAnswer, FailedIsAnswer DEF SourceUnreadable
  <2> QED
    BY <1>1, <2>1
<1>5. CASE PageUnreadable(s)
  <2>1. PICK a \in Answer : Reply(s, a) /\ ~Promised(a)
    BY <1>5, ReasonIsAnswer, FailedIsAnswer DEF PageUnreadable
  <2> QED
    BY <1>1, <2>1
<1>6. CASE Die(s)
  BY <1>1, <1>6, FailedIsAnswer DEF Die
<1>7. CASE EmptyPage(s)
  <2>1. req[s].ring = config
    BY <1>1, <1>7, FailedIsAnswer DEF EmptyPage
  <2>2. Asking(s) /\ Stale(config.active) = {}
    BY <1>7, <2>1 DEF EmptyPage, Asking
  <2> QED
    BY <1>2, <2>1, <2>2, NothingStaleIsAllActive
<1>8. CASE CountRemaining(s)
  <2>1. Cardinality(Stale(req[s].ring.active)) \in Nat
    BY TablesAreFinite DEF TypeOK, Stale
  <2>2. req[s].ring = config /\ Cardinality(Stale(req[s].ring.active)) = 0
    BY <1>1, <1>8, <2>1, FailedIsAnswer DEF CountRemaining
  <2>3. Asking(s) /\ Stale(config.active) = {}
    BY <1>8, <2>2, TablesAreFinite DEF CountRemaining, Asking, TypeOK, Stale
  <2> QED
    BY <1>2, <2>2, <2>3, NothingStaleIsAllActive
<1>9. CASE AnswerStatus(s)
  <2>1. req[s].pc = "recorded" /\ req[s].safe \in BOOLEAN
    BY <1>9, RequestFacts DEF AnswerStatus
  <2>2. req[s].ring = config /\ req[s].safe
    BY <1>1, <1>9, <2>1, FailedIsAnswer DEF AnswerStatus
  <2> QED
    BY <1>2, <2>1, <2>2 DEF Asking, AnswersAreKept, UpToDate
<1> QED
  BY <1>3, <1>4, <1>5, <1>6, <1>7, <1>8, <1>9 DEF Quits

(* What the last page leaves, when it was a short one of the active key. *)
LEMMA LastPageDrains ==
    ASSUME BaseInv, ShortPagesAreLast, NEW s \in Slot, CommitPage(s), UpToDate(s),
           Cardinality(DOMAIN req[s].page) < req[s].limit
    PROVE  AllActive'
<1> USE DEF BaseInv
<1>1. \A i \in DOMAIN rows : rows[i].kid = config.active \/ i \in DOMAIN req[s].page
  BY DEF ShortPagesAreLast, CommitPage, Holding
<1>2. \A i \in DOMAIN rows' :
        \/ i \in DOMAIN rows /\ i \notin DOMAIN req[s].page /\ rows'[i] = rows[i]
        \/ rows'[i].kid = req[s].ring.active
  BY AfterPage, SealedRowFields
<1> QED
  BY <1>1, <1>2, AfterPage DEF AllActive, UpToDate

(* An answer that promises and was there before is still true. *)
LEMMA AnswersStep ==
    ASSUME Patient, BaseInv, AskedTogether, AnswersAreKept, ShortPagesAreLast, [Next]_vars
    PROVE  AnswersAreKept'
<1> USE DEF BaseInv
<1> DEFINE Kept == \A t \in Slot : Promised(answer'[t]) => Current' /\ AllActive'
           Seen == \A t \in Slot : req'[t].pc = "recorded" /\ UpToDate(t)' /\ req'[t].safe => AllActive'
<1>1. CASE Rests
  BY <1>1 DEF Rests, AnswersAreKept, Current, UpToDate, AllActive, InFlight
<1>2. ASSUME NEW s \in Slot, Enters(s) PROVE Kept /\ Seen
  <2>1. Current => Current'
    BY <1>2 DEF Enters, Others, Current, UpToDate, InFlight
  <2>2. AllActive => AllActive'
    BY <1>2 DEF Enters, AllActive
  <2> QED
    BY <1>2, <2>1, <2>2 DEF Enters, Others, AnswersAreKept, UpToDate
<1>3. ASSUME NEW s \in Slot, Quits(s) PROVE Kept /\ Seen
  <2>1. Current => Current'
    BY <1>3, RingsStay DEF Current, UpToDate
  <2>2. AllActive => AllActive'
    BY <1>3 DEF Quits, AllActive
  <2>3. Kept
    BY <1>3, <2>1, <2>2, AnswersAreTrue DEF Quits, AnswersAreKept
  <2> QED
    BY <1>3, <2>2, <2>3 DEF Quits, Others, Idle, AnswersAreKept, UpToDate
<1>4. ASSUME NEW s \in Slot, Continues(s) PROVE Kept /\ Seen
  <2>1. Current => Current'
    BY <1>4, RingsStay DEF Current, UpToDate
  <2>2. AllActive => AllActive'
    BY <1>4 DEF Continues, AllActive
  <2>3. ASSUME req'[s].pc = "recorded", UpToDate(s)', req'[s].safe PROVE AllActive
    <3>1. TakeCensus(s)
      BY <1>4, <2>3 DEF Continues, OpenSource, OpenPage, Resealing, TypeOK
    <3>2. SafeToRemove(req[s].ring) /\ req[s].ring.active = config.active
      BY <1>4, <2>3, <3>1 DEF TakeCensus, TypeOK, UpToDate, Continues
    <3>3. \A k \in MasterKey : k = config.active \/ {i \in DOMAIN rows : rows[i].kid = k} = {}
      BY <3>2, TablesAreFinite DEF SafeToRemove, Census, TypeOK
    <3> QED
      BY <3>3 DEF AllActive, TypeOK, IsTable, Row
  <2> QED
    BY <1>4, <2>1, <2>2, <2>3 DEF Continues, Others, AnswersAreKept, UpToDate
<1>5. ASSUME NEW s \in Slot, CommitWrite(s) PROVE Kept /\ Seen
  <2>1. Current => Current'
    BY <1>5, RingsStay DEF Current, UpToDate
  <2>2. \A t \in Slot : Promised(answer'[t]) => answer'[t] = answer[t]
    <3>1. Reply(s, Done)
      BY <1>5 DEF CommitWrite
    <3> QED
      BY <3>1, PutAnswer, FailedIsAnswer, OnlyCountsPromise
  <2>3. \A t \in Slot : req'[t].pc = "recorded" => req'[t] = req[t]
    BY <1>5, AfterWrite DEF Others, Idle
  <2>4. \A t \in Slot : req[t].pc = "recorded" /\ UpToDate(t) => Current
    BY DEF AskedTogether, Asking
  <2>5. UNCHANGED config
    BY <1>5, AfterWrite
  <2>6. Current /\ AllActive => AllActive'
    BY <1>5, DrainedStays
  <2> QED
    BY <2>1, <2>2, <2>3, <2>4, <2>5, <2>6 DEF AnswersAreKept, UpToDate
<1>6. ASSUME NEW s \in Slot, CommitPage(s) PROVE Kept /\ Seen
  <2>1. Current => Current'
    BY <1>6, RingsStay DEF Current, UpToDate
  <2>2. \A t \in Slot : t # s => answer'[t] = answer[t]
    BY <1>6 DEF CommitPage, Reply, TypeOK
  <2>3. \A t \in Slot : req'[t].pc = "recorded" => req'[t] = req[t]
    BY <1>6, AfterPage DEF Others, Idle
  <2>4. \A t \in Slot : req[t].pc = "recorded" /\ UpToDate(t) => Current
    BY DEF AskedTogether, Asking
  <2>5. UNCHANGED config
    BY <1>6, AfterPage
  <2>6. Current /\ AllActive => AllActive'
    BY <1>6, DrainedStays
  <2>7. ASSUME Promised(answer'[s]) PROVE Current /\ AllActive'
    <3>1. CASE Cardinality(DOMAIN req[s].page) < req[s].limit
      <4>1. Reply(s, Rekeyed(0))
        BY <1>6, <3>1 DEF CommitPage
      <4>2. req[s].ring = config
        BY <2>7, <4>1, PutAnswer, FailedIsAnswer, OnlyCountsPromise
      <4>3. Current
        BY <1>6, <4>2 DEF AskedTogether, Asking, UpToDate, CommitPage
      <4> QED
        BY <1>6, <3>1, <4>2, <4>3, LastPageDrains DEF UpToDate
    <3>2. CASE ~(Cardinality(DOMAIN req[s].page) < req[s].limit)
      <4>1. UNCHANGED answer
        BY <1>6, <3>2 DEF CommitPage
      <4> QED
        BY <2>6, <2>7, <4>1 DEF AnswersAreKept
    <3> QED
      BY <3>1, <3>2
  <2> QED
    BY <2>1, <2>2, <2>3, <2>4, <2>5, <2>6, <2>7 DEF AnswersAreKept, UpToDate
<1>7. CASE DeleteEnvironment
  BY <1>7, AfterDelete DEF AnswersAreKept, Current, UpToDate, AllActive, InFlight
<1>8. CASE Operate /\ Deploy(config')
  <2>1. Kept
    BY <1>8, OnlyCountsPromise DEF Deploy
  <2>2. UNCHANGED <<req, rows>>
    BY <1>8 DEF Deploy
  <2>3. CASE config'.active = config.active
    BY <2>1, <2>2, <2>3 DEF AnswersAreKept, UpToDate, AllActive
  <2>4. CASE config'.active # config.active
    BY <1>8, <2>1, <2>2, <2>4, NewKeyOutdates DEF AnswersAreKept, UpToDate, InFlight
  <2> QED
    BY <2>3, <2>4
<1> QED
  BY <1>1, <1>2, <1>3, <1>4, <1>5, <1>6, <1>7, <1>8, StepKinds DEF AnswersAreKept
LEMMA ShortPagesStep ==
    ASSUME BaseInv, AskedTogether, ShortPagesAreLast, [Next]_vars
    PROVE  ShortPagesAreLast'
<1> USE DEF BaseInv
<1> DEFINE Covered(t) == \A i \in DOMAIN rows : rows[i].kid = config.active \/ i \in DOMAIN req[t].page
           Short(t) == Holding(t) /\ UpToDate(t) /\ Cardinality(DOMAIN req[t].page) < req[t].limit
<1>0. ShortPagesAreLast <=> \A t \in Slot : Short(t) => Covered(t)
  BY DEF ShortPagesAreLast
<1>1. ASSUME UNCHANGED <<config, rows>>, NEW t \in Slot, req'[t] = req[t], Short(t)' PROVE Covered(t)'
  BY <1>0, <1>1 DEF Holding, UpToDate
<1>2. CASE Rests
  BY <1>1, <1>2 DEF Rests, ShortPagesAreLast
<1>3. ASSUME NEW s \in Slot, Enters(s) \/ Quits(s) PROVE ShortPagesAreLast'
  <2>1. ~Holding(s)'
    BY <1>3 DEF Enters, Quits, Holding, Idle
  <2> QED
    BY <1>1, <1>3, <2>1 DEF Enters, Quits, Others, ShortPagesAreLast
<1>4. ASSUME NEW s \in Slot, Continues(s) PROVE ShortPagesAreLast'
  <2>1. ASSUME Short(s)' PROVE Covered(s)'
    <3>1. OpenPage(s)
      BY <1>4, <2>1 DEF Continues, OpenSource, TakeCensus, TypeOK, Holding
    <3>2. req'[s] = Resealing(req[s].ring, req[s].limit, ReadPage(req[s].ring.active, req[s].limit))
      BY <3>1 DEF OpenPage, TypeOK
    <3>3. req[s].limit \in Nat
      BY <3>1, RequestFacts DEF OpenPage
    <3>4. Stale(config.active) \subseteq DOMAIN req'[s].page
      BY <1>4, <2>1, <3>2, <3>3, ShortPage DEF Resealing, UpToDate, Continues
    <3> QED
      BY <1>4, <3>4 DEF Stale, Continues
  <2> QED
    BY <1>1, <1>4, <2>1 DEF Continues, Others, ShortPagesAreLast
<1>5. ASSUME NEW s \in Slot, CommitWrite(s) \/ CommitPage(s) PROVE ShortPagesAreLast'
  <2>1. UNCHANGED config /\ ~Holding(s)' /\ \A t \in Slot : t # s => req'[t] = req[t]
    BY <1>5, AfterWrite, AfterPage DEF Others, Holding, Idle
  <2>2. ASSUME Current
        PROVE  \A i \in DOMAIN rows' : rows'[i].kid = config.active
                                        \/ (i \in DOMAIN rows /\ rows'[i] = rows[i])
    <3>1. CASE CommitWrite(s)
      BY <2>2, <3>1, AfterWrite, SealedRowFields DEF Current, UpToDate
    <3>2. CASE CommitPage(s)
      BY <2>2, <3>2, AfterPage, SealedRowFields DEF Current, UpToDate
    <3> QED
      BY <1>5, <3>1, <3>2
  <2>3. ASSUME NEW t \in Slot, t # s, Short(t)' PROVE Covered(t)'
    <3>1. Short(t) /\ req'[t] = req[t]
      BY <2>1, <2>3 DEF Holding, UpToDate
    <3>2. Current
      BY <3>1 DEF AskedTogether, Asking, Holding
    <3> QED
      BY <1>0, <2>1, <2>2, <3>1, <3>2
  <2> QED
    BY <2>1, <2>3 DEF ShortPagesAreLast
<1>6. CASE DeleteEnvironment
  <2>1. ASSUME NEW t \in Slot, Short(t)' PROVE Covered(t)'
    BY <1>0, <1>6, <2>1, AfterDelete DEF Holding, UpToDate
  <2> QED
    BY <2>1 DEF ShortPagesAreLast
<1>7. CASE Operate /\ Deploy(config')
  <2>1. UNCHANGED <<req, rows>>
    BY <1>7 DEF Deploy
  <2>2. CASE config'.active = config.active
    BY <2>1, <2>2 DEF ShortPagesAreLast, UpToDate, Holding
  <2>3. CASE config'.active # config.active
    BY <1>7, <2>1, <2>3, NewKeyOutdates DEF ShortPagesAreLast, UpToDate, Holding, InFlight
  <2> QED
    BY <2>2, <2>3
<1> QED
  BY <1>2, <1>3, <1>4, <1>5, <1>6, <1>7, StepKinds

LEMMA OldPagesStep ==
    ASSUME BaseInv, AskedTogether, OldPagesAreStale, [Next]_vars
    PROVE  OldPagesAreStale'
<1> USE DEF BaseInv
<1> DEFINE Elsewhere(t) == \A i \in DOMAIN req[t].page \cap DOMAIN rows : rows[i].kid # config.active
           Old(t) == Holding(t) /\ ~UpToDate(t)
<1>0. OldPagesAreStale <=> \A t \in Slot : Old(t) => Elsewhere(t)
  BY DEF OldPagesAreStale
<1>1. ASSUME UNCHANGED <<config, rows>>, NEW t \in Slot, req'[t] = req[t], Old(t)' PROVE Elsewhere(t)'
  BY <1>0, <1>1 DEF Holding, UpToDate
<1>2. CASE Rests
  BY <1>1, <1>2 DEF Rests, OldPagesAreStale
<1>3. ASSUME NEW s \in Slot, Enters(s) \/ Quits(s) PROVE OldPagesAreStale'
  <2>1. ~Holding(s)'
    BY <1>3 DEF Enters, Quits, Holding, Idle
  <2> QED
    BY <1>1, <1>3, <2>1 DEF Enters, Quits, Others, OldPagesAreStale
<1>4. ASSUME NEW s \in Slot, Continues(s) PROVE OldPagesAreStale'
  <2>1. ASSUME Old(s)' PROVE Elsewhere(s)'
    <3>1. OpenPage(s)
      BY <1>4, <2>1 DEF Continues, OpenSource, TakeCensus, TypeOK, Holding
    <3> DEFINE page == ReadPage(req[s].ring.active, req[s].limit)
    <3>2. req'[s] = Resealing(req[s].ring, req[s].limit, page) /\ Readable(req[s].ring, page)
      BY <3>1 DEF OpenPage, TypeOK
    <3>3. \A i \in DOMAIN page : i \in DOMAIN rows /\ rows[i].kid \in Kids(req[s].ring)
      BY <3>2, PageIsStored DEF Readable, Opens, Knows, SealedAsLabelled
    <3>4. req[s].ring.active < config.active
      <4>1. req[s].ring.active <= config.active /\ req[s].ring.active # config.active
        BY <1>4, <2>1 DEF RingsArePast, Continues, UpToDate
      <4>2. req[s].ring.active \in Nat /\ config.active \in Nat
        BY <1>4, RequestFacts DEF Continues, InFlight, TypeOK, Ring, MasterKey
      <4> QED
        BY <4>1, <4>2
    <3>5. \A k \in Kids(req[s].ring) : k <= req[s].ring.active /\ k \in Nat
      BY <1>4, RequestFacts DEF RingsArePast, Past, Kids, Continues, InFlight, Ring, MasterKey
    <3>6. req[s].ring.active \in Nat /\ config.active \in Nat
      BY <3>5 DEF Kids, TypeOK, Ring, MasterKey
    <3>7. \A i \in DOMAIN page : rows[i].kid # config.active
      BY <3>3, <3>4, <3>5, <3>6
    <3>8. DOMAIN req'[s].page = DOMAIN page /\ UNCHANGED <<config, rows>>
      BY <1>4, <3>2 DEF Resealing, Continues
    <3> QED
      BY <3>7, <3>8
  <2> QED
    BY <1>1, <1>4, <2>1 DEF Continues, Others, OldPagesAreStale
<1>5. ASSUME NEW s \in Slot, CommitWrite(s) PROVE OldPagesAreStale'
  <2>1. UNCHANGED config /\ ~Holding(s)' /\ \A t \in Slot : t # s => req'[t] = req[t]
    BY <1>5, AfterWrite DEF Others, Holding, Idle
  <2>2. Minting(s)
    BY <1>5 DEF CommitWrite, Minting
  <2>3. ASSUME NEW t \in Slot, t # s, Old(t)' PROVE Elsewhere(t)'
    <3>1. Old(t) /\ req'[t] = req[t]
      BY <2>1, <2>3 DEF Holding, UpToDate
    <3>2. req[s].id \notin DOMAIN req[t].page
      BY <2>2, <3>1 DEF PagesAreTrue
    <3> QED
      BY <1>0, <1>5, <2>1, <3>1, <3>2, AfterWrite
  <2> QED
    BY <2>1, <2>3 DEF OldPagesAreStale
<1>6. ASSUME NEW s \in Slot, CommitPage(s) PROVE OldPagesAreStale'
  <2>1. UNCHANGED config /\ ~Holding(s)' /\ \A t \in Slot : t # s => req'[t] = req[t]
    BY <1>6, AfterPage DEF Others, Holding, Idle
  <2>2. ASSUME NEW t \in Slot, t # s, Old(t)' PROVE Elsewhere(t)'
    <3>1. Old(t) /\ req'[t] = req[t]
      BY <2>1, <2>2 DEF Holding, UpToDate
    <3>2. req[s].ring.active # config.active
      BY <1>6, <3>1 DEF AskedTogether, Asking, Holding, UpToDate, CommitPage
    <3>3. \A i \in DOMAIN rows' : \/ i \in DOMAIN rows /\ rows'[i] = rows[i]
                                  \/ rows'[i].kid = req[s].ring.active
      BY <1>6, AfterPage, SealedRowFields
    <3> QED
      BY <1>0, <2>1, <3>1, <3>2, <3>3
  <2> QED
    BY <2>1, <2>2 DEF OldPagesAreStale
<1>7. CASE DeleteEnvironment
  <2>1. ASSUME NEW t \in Slot, Old(t)' PROVE Elsewhere(t)'
    BY <1>0, <1>7, <2>1, AfterDelete DEF Holding, UpToDate
  <2> QED
    BY <2>1 DEF OldPagesAreStale
<1>8. CASE Operate /\ Deploy(config')
  <2>1. UNCHANGED <<req, rows>>
    BY <1>8 DEF Deploy
  <2>2. CASE config'.active = config.active
    BY <2>1, <2>2 DEF OldPagesAreStale, UpToDate, Holding
  <2>3. CASE config'.active # config.active
    BY <1>8, <2>1, <2>3, NewKeyOutdates DEF OldPagesAreStale, UpToDate, Holding, InFlight
  <2> QED
    BY <2>2, <2>3
<1> QED
  BY <1>2, <1>3, <1>4, <1>5, <1>6, <1>7, <1>8, StepKinds
LEMMA PatientInit == Init => PatientInv
<1> SUFFICES ASSUME Init PROVE PatientInv
  OBVIOUS
<1>1. \A s \in Slot : req[s] = Idle /\ answer[s] = Nothing
  BY DEF Init
<1>2. \A s \in Slot : ~Asking(s) /\ ~Holding(s) /\ req[s].pc # "recorded" /\ ~Promised(answer[s])
  BY <1>1, OnlyCountsPromise DEF Asking, Holding, Idle
<1> QED
  BY <1>2, BaseInit DEF PatientInv, AskedTogether, AnswersAreKept, ShortPagesAreLast, OldPagesAreStale

LEMMA PatientStep == Patient /\ PatientInv /\ [Next]_vars => PatientInv'
  BY BaseStep, AskedStep, AnswersStep, ShortPagesStep, OldPagesStep DEF PatientInv

THEOREM PatientInvariance == ASSUME Patient PROVE Spec => []PatientInv
<1>1. PatientInv /\ [Next]_vars => PatientInv'
  BY PatientStep
<1> QED
  BY <1>1, PatientInit, PTL DEF Spec

(* An answer of zero rows remaining, or a green status, stays true until   *)
(* the next deploy.                                                        *)
THEOREM AnswersHold == ASSUME Patient PROVE Spec => []DoneMeansDone
<1>1. PatientInv => DoneMeansDone
  BY DEF PatientInv, AnswersAreKept, DoneMeansDone, Promised, Rekeyed, Green, AllActive, Slot
<1> QED
  BY <1>1, PatientInvariance, PTL

(* A row on the active key is never moved back, not by a page held across  *)
(* a deploy either.                                                        *)
THEOREM NoRowMovesBack == ASSUME Patient PROVE Spec => RekeyedRowsLeaveForGood
<1> DEFINE Stays == \A i \in DOMAIN rows \cap DOMAIN rows' :
                      rows[i].kid = config.active => rows'[i].kid = rows[i].kid
<1>1. ASSUME PatientInv, [Next]_vars PROVE Stays
  <2> USE <1>1 DEF PatientInv, BaseInv
  <2>1. ASSUME UNCHANGED rows PROVE Stays
    BY <2>1
  <2>2. ASSUME NEW s \in Slot, CommitWrite(s) PROVE Stays
    <3>1. Minting(s)
      BY <2>2 DEF CommitWrite, Minting
    <3> QED
      BY <2>2, <3>1, AfterWrite DEF FreshIds
  <2>3. ASSUME NEW s \in Slot, CommitPage(s) PROVE Stays
    <3>1. Holding(s)
      BY <2>3 DEF CommitPage, Holding
    <3>2. ~UpToDate(s) => \A i \in DOMAIN req[s].page \cap DOMAIN rows : rows[i].kid # config.active
      BY <3>1 DEF OldPagesAreStale
    <3>3. \A i \in DOMAIN rows : \/ rows'[i] = rows[i]
                                 \/ i \in DOMAIN req[s].page /\ rows'[i].kid = req[s].ring.active
      BY <2>3, AfterPage, SealedRowFields
    <3> QED
      BY <3>2, <3>3 DEF UpToDate
  <2>4. ASSUME DeleteEnvironment PROVE Stays
    BY <2>4, AfterDelete
  <2> QED
    BY <2>1, <2>2, <2>3, <2>4, StepKinds DEF Rests, Enters, Quits, Continues, Deploy
<1>2. PatientInv /\ [Next]_vars => [Stays]_vars
  BY <1>1
<1> QED
  BY <1>2, PatientInvariance, PTL DEF Spec, RekeyedRowsLeaveForGood
----------------------------------------------------------------------------
(* Rotations of a patient operator who removes a key on green only. *)

(* The keys that are loaded stay loaded, unless they are removed on green. *)
LEMMA DeployKeeps ==
    ASSUME ~Careless, PatientInv, NothingLost, Operate
    PROVE  \/ Kids(config) \subseteq Kids(config')
           \/ Current /\ AllActive /\ config'.active = config.active
<1> USE DEF PatientInv, BaseInv, TypeOK, Ring, Kids, Deploy
<1>1. CASE PutOld
  BY <1>1 DEF PutOld
<1>2. CASE PutActive
  BY <1>2 DEF PutActive, Refused
<1>3. CASE RemoveOld
  <2>1. PICK a \in Admin : Green(a)
    BY <1>3 DEF RemoveOld
  <2>2. Current /\ AllActive
    BY <2>1 DEF Green, AnswersAreKept, Promised, Slot
  <2> QED
    BY <1>3, <2>2 DEF RemoveOld
<1>4. CASE RestoreOld
  BY <1>4 DEF RestoreOld
<1> QED
  BY <1>1, <1>2, <1>3, <1>4 DEF Operate, RemoveTooEarly

LEMMA NothingLostStep ==
    ASSUME ~Careless, PatientInv, NothingLost, [Next]_vars
    PROVE  NothingLost'
<1> USE DEF PatientInv, BaseInv
<1>0. TypeOK'
  BY TypeStep
<1>1. CASE Rests
  BY <1>1 DEF Rests, NothingLost, NothingStranded, InFlight
<1>2. ASSUME NEW s \in Slot, Enters(s) PROVE NothingLost'
  BY <1>2 DEF Enters, Others, NothingLost, NothingStranded, InFlight, Kids
<1>3. ASSUME NEW s \in Slot, Quits(s) \/ Continues(s) PROVE NothingLost'
  <2>1. UNCHANGED rows
    BY <1>3 DEF Quits, Continues
  <2> QED
    BY <1>3, <2>1, RingsStay DEF NothingLost, NothingStranded
<1>4. ASSUME NEW s \in Slot, CommitWrite(s) \/ CommitPage(s) PROVE NothingLost'
  <2>1. InFlight(s)
    BY <1>4, AfterWrite, AfterPage
  <2>2. \A i \in DOMAIN rows' : \/ i \in DOMAIN rows /\ rows'[i] = rows[i]
                                \/ rows'[i].kid = req[s].ring.active
    BY <1>4, AfterWrite, AfterPage, SealedRowFields
  <2>3. UNCHANGED config
    BY <1>4, RingsStay
  <2>4. NothingStranded'
    BY <2>1, <2>2, <2>3 DEF NothingLost, NothingStranded
  <2> QED
    BY <1>4, <2>3, <2>4, RingsStay DEF NothingLost
<1>5. CASE DeleteEnvironment
  BY <1>5, AfterDelete DEF NothingLost, NothingStranded, InFlight
<1>6. CASE Operate /\ Deploy(config')
  <2>1. UNCHANGED <<req, rows>>
    BY <1>6 DEF Deploy
  <2>2. CASE Kids(config) \subseteq Kids(config')
    BY <2>1, <2>2 DEF NothingLost, NothingStranded, InFlight
  <2>3. CASE Current /\ AllActive /\ config'.active = config.active
    BY <2>1, <2>3 DEF NothingLost, NothingStranded, InFlight, Current, UpToDate, AllActive, Kids
  <2> QED
    BY <1>6, <2>2, <2>3, DeployKeeps
<1> QED
  BY <1>1, <1>2, <1>3, <1>4, <1>5, <1>6, StepKinds

THEOREM GuidedInvariance == ASSUME Patient, ~Careless PROVE Spec => []PatientIInv
<1>1. Init => PatientIInv
  <2> SUFFICES ASSUME Init PROVE NothingLost
    BY PatientInit DEF PatientIInv
  <2> QED
    BY DEF Init, NothingLost, NothingStranded, InFlight, Idle
<1>2. PatientIInv /\ [Next]_vars => PatientIInv'
  BY PatientStep, NothingLostStep DEF PatientIInv
<1> QED
  BY <1>1, <1>2, PTL DEF Spec

(* For an operator who lets earlier requests end, which the guide does not *)
(* ask, and removes the key on green only: every stored row is sealed      *)
(* under a key the deployed ring still holds, through any number of        *)
(* rotations, overlapping ones included.                                   *)
THEOREM NoRowIsStranded == ASSUME Patient, ~Careless PROVE Spec => []NothingStranded
<1>1. PatientIInv => NothingStranded
  BY DEF PatientIInv, NothingLost
<1> QED
  BY <1>1, GuidedInvariance, PTL

(* ... and so no request that holds the deployed ring fails for a key.     *)
THEOREM EverythingOpens ==
    ASSUME Patient, ~Careless PROVE Spec => DeployedRingOpensEverything
<1> DEFINE Opened == \A s \in Slot :
                       InFlight(s) /\ req[s].ring = config /\ answer'[s] # answer[s]
                           => ~Unreadable(answer'[s])
<1>1. ASSUME PatientIInv, [Next]_vars PROVE Opened
  <2> USE <1>1 DEF PatientIInv, PatientInv, BaseInv
  <2>1. SUFFICES ASSUME NEW s \in Slot, InFlight(s), req[s].ring = config, answer'[s] # answer[s]
                 PROVE  ~Unreadable(answer'[s])
    OBVIOUS
  <2>2. \A i \in DOMAIN rows : Opens(config, rows[i].envelope, i)
    BY DEF NothingLost, NothingStranded, SealedAsLabelled, Opens, Knows
  <2>3. /\ ~Unreadable(Nothing) /\ ~Unreadable(Done) /\ ~Unreadable(Failed("NOT_FOUND"))
        /\ \A n : ~Unreadable(Rekeyed(n))
        /\ \A r, b : ~Unreadable(Status(r, b))
    BY DEF Unreadable, Nothing, Done, Failed, Rekeyed, Status
  <2>4. ASSUME NEW a \in Answer, Reply(s, a), ~Unreadable(a) PROVE ~Unreadable(answer'[s])
    BY <2>1, <2>4, PutAnswer
  <2>5. ASSUME NEW t \in Slot, t # s, NEW a, Reply(t, a) PROVE FALSE
    BY <2>1, <2>5 DEF Reply, TypeOK
  <2>6. ASSUME NEW t \in Slot, NEW a \in Answer, Reply(t, a), ~Unreadable(a) PROVE ~Unreadable(answer'[s])
    BY <2>4, <2>5, <2>6
  <2>7. ASSUME NEW t \in Slot, ReadRow(t) PROVE ~Unreadable(answer'[s])
    <3>1. PICK a \in Answer : Reply(t, a) /\ (t = s => ~Unreadable(a))
      BY <2>1, <2>2, <2>3, <2>7, ReasonIsAnswer, FailedIsAnswer DEF ReadRow
    <3> QED
      BY <2>5, <2>6, <3>1
  <2>8. ASSUME NEW t \in Slot, SourceUnreadable(t) PROVE ~Unreadable(answer'[s])
    <3>1. PICK a \in Answer : Reply(t, a) /\ (t = s => ~Unreadable(a))
      BY <2>1, <2>2, <2>3, <2>8, ReasonIsAnswer, FailedIsAnswer DEF SourceUnreadable
    <3> QED
      BY <2>5, <2>6, <3>1
  <2>9. ASSUME NEW t \in Slot, PageUnreadable(t) PROVE ~Unreadable(answer'[s])
    <3>1. PICK i \in DOMAIN ReadPage(req[t].ring.active, req[t].limit) :
            /\ ~Opens(req[t].ring, ReadPage(req[t].ring.active, req[t].limit)[i].envelope, i)
            /\ Reply(t, WhyNot(req[t].ring, ReadPage(req[t].ring.active, req[t].limit)[i].envelope))
      BY <2>9 DEF PageUnreadable
    <3>2. t # s
      BY <2>1, <2>2, <3>1, PageIsStored
    <3> QED
      BY <2>5, <3>1, <3>2
  <2>10. ASSUME NEW t \in Slot,
                CommitWrite(t) \/ EmptyPage(t) \/ CountRemaining(t) \/ AnswerStatus(t) \/ Die(t)
         PROVE  ~Unreadable(answer'[s])
    <3>1. Cardinality(Stale(req[t].ring.active)) \in Nat
      BY TablesAreFinite DEF TypeOK, Stale
    <3>2. AnswerStatus(t) => req[t].safe \in BOOLEAN
      BY RequestFacts DEF AnswerStatus
    <3>3. PICK a \in Answer : Reply(t, a) /\ ~Unreadable(a)
      BY <2>3, <2>10, <3>1, <3>2, FailedIsAnswer
         DEF CommitWrite, EmptyPage, CountRemaining, AnswerStatus, Die
    <3> QED
      BY <2>6, <3>3
  <2>11. ASSUME NEW t \in Slot, CommitPage(t) PROVE ~Unreadable(answer'[s])
    <3>1. Reply(t, Rekeyed(0))
      BY <2>1, <2>11 DEF CommitPage
    <3> QED
      BY <2>3, <2>6, <3>1, FailedIsAnswer
  <2>12. ASSUME NEW t \in Slot, RefuseRequest(t) PROVE FALSE
    BY <2>1, <2>12 DEF RefuseRequest, TypeOK
  <2>13. ASSUME Operate PROVE ~Unreadable(answer'[s])
    <3>1. answer'[s] = Nothing
      BY <2>13 DEF Operate, PutOld, PutActive, RemoveOld, RemoveTooEarly, RestoreOld, Deploy
    <3> QED
      BY <2>3, <3>1
  <2>14. ~UNCHANGED answer
    BY <2>1
  <2>15. ASSUME NEW t \in Slot, OpenSource(t) \/ OpenPage(t) \/ TakeCensus(t) PROVE FALSE
    BY <2>14, <2>15 DEF OpenSource, OpenPage, TakeCensus
  <2>16. ASSUME NEW c \in Client, Traffic(c) PROVE FALSE
    BY <2>14, <2>16 DEF Traffic, StartWrite, StartRead, StartMove
  <2>17. ASSUME NEW a \in Admin, StartRekey(a) \/ StartStatus(a) PROVE FALSE
    BY <2>14, <2>17 DEF StartRekey, StartStatus
  <2>18. ~DeleteEnvironment /\ ~UNCHANGED vars
    BY <2>14 DEF DeleteEnvironment, vars
  <2> QED
    BY <2>7, <2>8, <2>9, <2>10, <2>11, <2>12, <2>13, <2>15, <2>16, <2>17, <2>18 DEF Next, StepOf
<1>2. PatientIInv /\ [Next]_vars => [Opened]_vars
  BY <1>1
<1> QED
  BY <1>2, GuidedInvariance, PTL DEF Spec, DeployedRingOpensEverything
=============================================================================
