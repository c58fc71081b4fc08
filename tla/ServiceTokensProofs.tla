------------------------ MODULE ServiceTokensProofs ------------------------
(***************************************************************************)
(* Proofs about ServiceTokens, for any tokens, requests in flight and      *)
(* workloads: a token is retired once and for good and only if it is       *)
(* missing; and, when requests are prompt, no recorded token is removed.   *)
(***************************************************************************)
EXTENDS ServiceTokens, TLAPS

(* A request that is of its type, and whose checks still hold. *)
Well(r) == r \in Request /\ Shape(r) /\ Found(r)

LEMMA Constants ==
    /\ ByHand \subseteq Token
    /\ NoToken \notin Token
    /\ MinAge \in Nat /\ MinAge > 0
    /\ MaxTime \in Nat
    /\ MaxFaults \in Nat
    /\ 0 \in Time
    /\ Time \subseteq Nat
  BY TokensAssumption, BoundsAssumption DEF Time

LEMMA IdleIsWell == Well(Idle)
  BY Constants DEF Well, Idle, Request, Shape, Found, OnToken

(* A request whose work on a token has ended is over, or takes an entry. *)
LEMMA NextEntry ==
    ASSUME NEW r \in Request, NEW q \in After(r), q # Idle
    PROVE  \E c \in r.todo :
              /\ q.pc = CASE c.kind = "orphan" -> "unrecorded"
                          [] c.kind = "missing" -> "get"
                          [] c.kind = "incomplete" -> "remove"
              /\ c.kind \in {"orphan", "missing", "incomplete"}
              /\ q.kind = c.kind /\ q.token = c.token /\ c.token \in Token
              /\ q.now = r.now /\ q.live = r.live /\ q.todo = r.todo \ {c}
              /\ q \in Request
<1>1. PICK c \in r.todo :
        q = [r EXCEPT !.pc = FirstStep[c.kind], !.kind = c.kind, !.token = c.token, !.todo = @ \ {c}]
  BY DEF After
<1>2. c.kind \in {"orphan", "missing", "incomplete"} /\ c.token \in Token
  BY DEF Request, Candidate
<1>3. FirstStep[c.kind] = CASE c.kind = "orphan" -> "unrecorded"
                            [] c.kind = "missing" -> "get"
                            [] c.kind = "incomplete" -> "remove"
  BY <1>2 DEF FirstStep
<1>4. q \in Request
  BY <1>1, <1>2, <1>3 DEF Request
<1>5. /\ q.pc = FirstStep[c.kind] /\ q.kind = c.kind /\ q.token = c.token
      /\ q.now = r.now /\ q.live = r.live /\ q.todo = r.todo \ {c}
  BY <1>1 DEF Request
<1> QED
  BY <1>2, <1>3, <1>4, <1>5

(* That entry is well, because what the request found it still has. *)
LEMMA AfterIsWell ==
    ASSUME NEW r, Well(r), NEW q \in After(r)
    PROVE  Well(q)
<1>1. CASE q = Idle
  BY <1>1, IdleIsWell
<1>2. CASE q # Idle
  <2>1. r \in Request
    BY DEF Well
  <2> QED
    BY <1>2, <2>1, NextEntry DEF Well, Shape, Found, OnToken
<1> QED
  BY <1>1, <1>2

(* What the tables never take back. *)
Grow ==
    \A t \in Token :
        /\ Born(t) => Born(t)'
        /\ Recorded(t) => Recorded(t)'
        /\ Revoked(t) => Revoked(t)'
        /\ Recorded(t) /\ ~Present(t) => ~Present(t)'

LEMMA WellStaysWell ==
    ASSUME NEW r, Well(r), Grow
    PROVE  Well(r)'
<1>1. r \in Request /\ Shape(r)
  BY DEF Well
<1>2. r.live \subseteq Token /\ \A c \in r.todo : c.token \in Token
  BY <1>1 DEF Request, Candidate
<1>3. Found(r)'
  BY <1>1, <1>2 DEF Well, Found, Grow, Shape, OnToken
<1> QED
  BY <1>1, <1>3 DEF Well, Shape, Request, Time

(* One request changes; the others keep what they found. *)
LEMMA OneRequestMoves ==
    ASSUME req \in [Slot -> Request], NEW s \in Slot, NEW r, req' = [req EXCEPT ![s] = r],
           \A u \in Slot : Well(req[u]), Grow, Well(r)'
    PROVE  req' \in [Slot -> Request] /\ (\A u \in Slot : Shape(req[u]) /\ Found(req[u]))'
<1>1. ASSUME NEW u \in Slot PROVE (req[u] \in Request /\ Shape(req[u]) /\ Found(req[u]))'
  <2>1. CASE u = s
    <3>1. req'[u] = r
      BY <2>1
    <3> QED
      BY <3>1 DEF Well, Shape, Found, Born, Recorded, Revoked, Present, Request, Candidate, Time, OnToken
  <2>2. CASE u # s
    <3> DEFINE q == req[u]
    <3>1. req'[u] = q
      BY <2>2
    <3>2. Well(q)'
      BY WellStaysWell
    <3> QED
      BY <3>1, <3>2 DEF Well, Shape, Found, Born, Recorded, Revoked, Present, Request, Candidate, Time, OnToken
  <2> QED
    BY <2>1, <2>2
<1> QED
  BY <1>1
----------------------------------------------------------------------------
(* What each action makes of the request that takes it. *)

Becomes(s, r) == Well(r) /\ req' = [req EXCEPT ![s] = r]

LEMMA RequestsAreWell ==
    ASSUME BaseInv
    PROVE  /\ req \in [Slot -> Request]
           /\ \A s \in Slot : Well(req[s])
  BY DEF BaseInv, TypeOK, Well

LEMMA FinishIsWell ==
    ASSUME BaseInv, NEW s \in Slot, Finish(s)
    PROVE  \E r : Becomes(s, r)
  BY RequestsAreWell, AfterIsWell DEF Finish, Becomes

LEMMA GotoIsWell ==
    ASSUME BaseInv, NEW s \in Slot, NEW pc, Goto(s, pc), Well([req[s] EXCEPT !.pc = pc])
    PROVE  \E r : Becomes(s, r)
  BY RequestsAreWell DEF Goto, Becomes

LEMMA StartIsWell ==
    ASSUME BaseInv, NEW s \in Slot, NEW kind \in Operation, NEW t \in Token \cup {NoToken}, NEW pc,
           Start(s, kind, t, pc),
           Well([Idle EXCEPT !.pc = pc, !.kind = kind, !.token = t, !.now = clock])
    PROVE  \E r : Becomes(s, r)
  BY DEF Start, Becomes

LEMMA BeginIsWell ==
    ASSUME BaseInv, NEW s \in Slot, Begin(s)
    PROVE  (\E r : Becomes(s, r)) /\ UNCHANGED <<cf, tables, clock, faults, asked>>
<1> DEFINE q(kind, t, pc) == [Idle EXCEPT !.pc = pc, !.kind = kind, !.token = t, !.now = clock]
<1>1. CASE StartCreate(s)
  <2>1. Well(q("create", NoToken, "issue"))
    BY DEF BaseInv, TypeOK, Well, Idle, Request, Shape, Found, OnToken, Operation
  <2> QED
    BY <1>1, <2>1 DEF StartCreate, Start, Becomes
<1>2. CASE StartAdopt(s)
  <2>1. \A t \in Token : Well(q("adopt", t, "find"))
    BY ZenonT(40) DEF BaseInv, TypeOK, Well, Idle, Request, Shape, Found, OnToken, Operation
  <2> QED
    BY <1>2, <2>1 DEF StartAdopt, Start, Becomes
<1>3. CASE StartRevoke(s)
  <2>1. \A t \in Token : Well(q("revoke", t, "active"))
    BY ZenonT(40) DEF BaseInv, TypeOK, Well, Idle, Request, Shape, Found, OnToken, Operation
  <2> QED
    BY <1>3, <2>1 DEF StartRevoke, Start, Becomes
<1>4. CASE StartUpdate(s)
  <2>1. \A t \in Token : Well(q("enable", t, "unrevoked"))
    BY ZenonT(40) DEF BaseInv, TypeOK, Well, Idle, Request, Shape, Found, OnToken, Operation
  <2>2. \A t \in Token : Well(q("disable", t, "update"))
    BY ZenonT(40) DEF BaseInv, TypeOK, Well, Idle, Request, Shape, Found, OnToken, Operation
  <2> QED
    BY <1>4, <2>1, <2>2 DEF StartUpdate, Start, Becomes
<1>5. CASE StartReconcile(s)
  <2>1. Well(q("reconcile", NoToken, "list"))
    BY DEF BaseInv, TypeOK, Well, Idle, Request, Shape, Found, OnToken, Operation
  <2> QED
    BY <1>5, <2>1 DEF StartReconcile, Start, Becomes
<1> QED
  BY <1>1, <1>2, <1>3, <1>4, <1>5 DEF Begin

(* The steps that look, and change no table. *)
Looks(s) ==
    \/ IssueRejected(s) \/ Lookup(s) \/ RecordRefused(s)
    \/ FindToken(s) \/ CheckManaged(s)
    \/ RequireActive(s) \/ GuardLastAdmin(s) \/ RetireRefused(s)
    \/ CheckUnrevoked(s)
    \/ List(s) \/ ReadRows(s) \/ AskAgain(s) \/ LookAgain(s)

LEMMA LookIsWell ==
    ASSUME BaseInv, NEW s \in Slot, Looks(s)
    PROVE  (\E r : Becomes(s, r)) /\ UNCHANGED <<cf, tables, clock, faults, asked>>
<1> DEFINE to(pc) == [req[s] EXCEPT !.pc = pc]
<1>0. /\ Well(req[s])
      /\ req[s] \in Request
      /\ TypeOK
  BY RequestsAreWell DEF Well, BaseInv
<1>1. CASE Lookup(s)
  <2>1. Well([req[s] EXCEPT !.pc = "record", !.fresh = identity[req[s].token] = "none"])
    BY <1>0, <1>1 DEF Lookup, At, Well, Request, Shape, Found, OnToken
  <2> QED
    BY <1>1, <2>1 DEF Lookup, Becomes
<1>2. CASE RecordRefused(s)
  <2>1. req[s].kind = "create" => Well(to("compensate"))
    BY <1>0, <1>2 DEF RecordRefused, At, Well, Request, Shape, Found, OnToken
  <2> QED
    BY <1>2, <2>1, FinishIsWell, GotoIsWell DEF RecordRefused, GiveUpRecording
<1>3. CASE FindToken(s)
  <2>1. Present(req[s].token) => Well(to("managed"))
    BY <1>0, <1>3 DEF FindToken, At, Well, Request, Shape, Found, OnToken, Present, Born
  <2> QED
    BY <1>3, <2>1, FinishIsWell, GotoIsWell DEF FindToken
<1>4. CASE CheckManaged(s)
  <2>1. Well(to("lookup"))
    BY <1>0, <1>4 DEF CheckManaged, At, Well, Request, Shape, Found, OnToken
  <2> QED
    BY <1>4, <2>1, FinishIsWell, GotoIsWell DEF CheckManaged
<1>5. CASE RequireActive(s)
  <2>1. Active(req[s].token) => Well(to("guard"))
    BY <1>0, <1>5 DEF RequireActive, At, Well, Request, Shape, Found, OnToken, Active, Recorded
  <2> QED
    BY <1>5, <2>1, FinishIsWell, GotoIsWell DEF RequireActive
<1>6. CASE GuardLastAdmin(s)
  <2>1. Well(to("retire"))
    BY <1>0, <1>6 DEF GuardLastAdmin, At, Well, Request, Shape, Found, OnToken
  <2> QED
    BY <1>6, <2>1, FinishIsWell, GotoIsWell DEF GuardLastAdmin
<1>7. CASE CheckUnrevoked(s)
  <2>1. Well(to("update"))
    BY <1>0, <1>7 DEF CheckUnrevoked, At, Well, Request, Shape, Found, OnToken
  <2> QED
    BY <1>7, <2>1, FinishIsWell, GotoIsWell DEF CheckUnrevoked
<1>8. CASE List(s)
  <2>1. Well([req[s] EXCEPT !.pc = "rows", !.live = {t \in Token : Present(t)}])
    BY <1>0, <1>8 DEF List, At, Well, Request, Shape, Found, OnToken, Present, Born
  <2> QED
    BY <1>8, <2>1 DEF List, Becomes
<1>9. CASE ReadRows(s)
  <2> DEFINE entries == Entries(req[s].live, req[s].now)
             listed == [req[s] EXCEPT !.live = {}, !.todo = entries]
  <2>1. entries \subseteq Candidate
    BY DEF Entries
  <2>2. \A c \in entries :
            /\ c.kind = "missing" => Recorded(c.token)
            /\ c.kind = "incomplete" => Revoked(c.token)
    BY DEF Entries, Candidate, Active, Recorded
  <2>3. Well(listed)
    <3> HIDE DEF entries
    <3>1. listed \in Request
      BY <1>0, <2>1 DEF Request
    <3>2. Shape(listed)
      BY <1>0, <1>9 DEF ReadRows, At, Well, Request, Shape, OnToken
    <3>3. Found(listed)
      BY <1>0, <1>9, <2>2 DEF ReadRows, At, Well, Request, Found
    <3> QED
      BY <3>1, <3>2, <3>3 DEF Well
  <2>4. \A r \in After(listed) \cup {Idle} : Well(r)
    BY <2>3, AfterIsWell, IdleIsWell
  <2> QED
    BY <1>9, <2>4 DEF ReadRows, Becomes
<1>10. CASE AskAgain(s)
  <2>1. ~Present(req[s].token) => Well(to("guard"))
    BY <1>0, <1>10 DEF AskAgain, At, Well, Request, Shape, Found, OnToken
  <2> QED
    BY <1>10, <2>1, FinishIsWell, GotoIsWell DEF AskAgain
<1>11. CASE LookAgain(s)
  <2>1. Well(to("remove"))
    BY <1>0, <1>11 DEF LookAgain, At, Well, Request, Shape, Found, OnToken
  <2> QED
    BY <1>11, <2>1, FinishIsWell, GotoIsWell DEF LookAgain
<1>12. CASE IssueRejected(s) \/ RetireRefused(s)
  BY <1>12, FinishIsWell DEF IssueRejected, RetireRefused
<1> QED
  BY <1>1, <1>2, <1>3, <1>4, <1>5, <1>6, <1>7, <1>8, <1>9, <1>10, <1>11, <1>12
  DEF Looks, Lookup, RecordRefused, FindToken, CheckManaged, RequireActive, GuardLastAdmin,
      CheckUnrevoked, List, ReadRows, AskAgain, LookAgain, IssueRejected, RetireRefused

(* What goes wrong leaves the tables alone. *)
LEMMA FaultIsWell ==
    ASSUME BaseInv, NEW s \in Slot, Fail(s) \/ ListMissesOne(s) \/ Die(s)
    PROVE  /\ \E r : Becomes(s, r)
           /\ faults' \in 0..MaxFaults
           /\ UNCHANGED <<cf, tables, clock, asked>>
<1>0. /\ Well(req[s])
      /\ req[s] \in Request
      /\ TypeOK
  BY RequestsAreWell DEF Well, BaseInv
<1>1. faults' \in 0..MaxFaults /\ UNCHANGED <<cf, tables, clock, asked>>
  BY <1>0, Constants DEF Fail, ListMissesOne, Die, TypeOK
<1>2. CASE Fail(s)
  <2>1. At(s, "record") /\ req[s].kind = "create" => Well([req[s] EXCEPT !.pc = "compensate"])
    BY <1>0 DEF At, Well, Request, Shape, Found, OnToken
  <2>2. Finish(s) \/ (At(s, "record") /\ req[s].kind = "create" /\ Goto(s, "compensate"))
    BY <1>2 DEF Fail, GiveUpRecording
  <2> QED
    BY <1>1, <2>1, <2>2, FinishIsWell, GotoIsWell
<1>3. CASE ListMissesOne(s)
  <2>1. \A t \in Token :
            Well([req[s] EXCEPT !.pc = "rows", !.live = {u \in Token : Present(u)} \ {t}])
    BY <1>0, <1>3 DEF ListMissesOne, At, Well, Request, Shape, Found, OnToken, Present, Born
  <2>2. \E r : Becomes(s, r)
    BY ZenonT(40), <1>3, <2>1 DEF ListMissesOne, Becomes
  <2> QED
    BY <1>1, <2>2
<1>4. CASE Die(s)
  <2>1. \E r : Becomes(s, r)
    BY <1>4, IdleIsWell DEF Die, Becomes
  <2> QED
    BY <1>1, <2>1
<1> QED
  BY <1>2, <1>3, <1>4

----------------------------------------------------------------------------
(* The inductive invariant, whether or not requests are prompt. *)

Tables ==
    /\ cf \in [Token -> CfToken]
    /\ rows \in [Token -> Row]
    /\ identity \in [Token -> {"none", "enabled", "disabled"}]
    /\ retired \in [Token -> Nat]
    /\ OneRetirement
    /\ RecordedAreBorn

LEMMA SameTables ==
    ASSUME BaseInv, UNCHANGED <<cf, tables>>
    PROVE  Tables' /\ Grow
  BY DEF BaseInv, TypeOK, Tables, tables, Grow, OneRetirement, RecordedAreBorn,
         Born, Recorded, Revoked, Present

LEMMA Assembled ==
    ASSUME BaseInv, NEW s \in Slot, NEW r, req' = [req EXCEPT ![s] = r], Well(r)',
           Tables', Grow, clock' \in Time, faults' \in 0..MaxFaults, asked' \in Workloads
    PROVE  BaseInv'
<1>1. req' \in [Slot -> Request] /\ (\A u \in Slot : Shape(req[u]) /\ Found(req[u]))'
  BY RequestsAreWell, OneRequestMoves
<1> QED
  BY <1>1 DEF BaseInv, Tables, TypeOK

LEMMA BaseInit == Init => BaseInv
<1> SUFFICES ASSUME Init PROVE BaseInv
  OBVIOUS
<1>1. TypeOK
  BY Constants DEF Init, TypeOK, CfToken, Row, NoRow, Idle, Request, Time
<1>2. OneRetirement /\ RecordedAreBorn
  BY DEF Init, OneRetirement, RecordedAreBorn, Recorded, Revoked, NoRow
<1>3. \A s \in Slot : Shape(req[s]) /\ Found(req[s])
  BY IdleIsWell DEF Init, Well
<1> QED
  BY <1>1, <1>2, <1>3 DEF BaseInv

(* The steps that change a table. *)
LEMMA IssueKeeps ==
    ASSUME BaseInv, NEW s \in Slot, Issue(s)
    PROVE  BaseInv'
<1>1. PICK t \in Token :
        /\ cf[t].state = "unborn"
        /\ cf' = [cf EXCEPT ![t] = [state |-> "live", ours |-> TRUE, at |-> req[s].now]]
        /\ req' = [req EXCEPT ![s] = [req[s] EXCEPT !.pc = "lookup", !.token = t]]
  BY RequestsAreWell DEF Issue
<1>2. Well(req[s]) /\ req[s] \in Request /\ req[s].now \in Time /\ At(s, "issue")
  BY <1>1, RequestsAreWell DEF Well, Request, Issue
<1>3. UNCHANGED <<tables, clock, faults, asked>>
  BY DEF Issue
<1>4. ~Recorded(t)
  BY <1>1 DEF BaseInv, RecordedAreBorn, Born
<1>5. Grow
  BY <1>1, <1>3, <1>4 DEF BaseInv, TypeOK, CfToken, tables, Grow, Born, Recorded, Revoked, Present
<1>6. Tables'
  BY <1>1, <1>2, <1>3 DEF BaseInv, TypeOK, CfToken, Tables, tables, OneRetirement, RecordedAreBorn,
         Born, Recorded, Revoked
<1>7. PICK r : r = [req[s] EXCEPT !.pc = "lookup", !.token = t]
  OBVIOUS
<1>8. r \in Request /\ r.pc = "lookup" /\ r.token = t /\ r.kind = req[s].kind
      /\ r.live = req[s].live /\ r.todo = req[s].todo
  BY <1>2, <1>7 DEF Request
<1>9. Shape(r)
  BY <1>2, <1>8 DEF Well, Shape, OnToken, At
<1>10. Born(t)'
  BY <1>1 DEF BaseInv, TypeOK, Born
<1>11. Found(r)'
  BY <1>2, <1>5, <1>8, <1>10 DEF Well, Found, Grow, Request, Candidate
<1>12. Well(r)'
  BY <1>8, <1>9, <1>11 DEF Well, Shape, Request, Time
<1> QED
  BY <1>1, <1>3, <1>5, <1>6, <1>7, <1>12, Assembled DEF BaseInv, TypeOK

LEMMA RecordKeeps ==
    ASSUME BaseInv, NEW s \in Slot, Record(s)
    PROVE  BaseInv'
<1>1. PICK r : Becomes(s, r)
  BY FinishIsWell DEF Record
<1>2. Well(req[s]) /\ req[s] \in Request /\ At(s, "record")
  BY RequestsAreWell DEF Well, Record
<1>3. req[s].token \in Token /\ Born(req[s].token) /\ req[s].now \in Time
  BY <1>2 DEF Well, Request, Shape, Found, At, OnToken
<1>4. ~Recorded(req[s].token) /\ UNCHANGED <<cf, retired, clock, faults, asked>>
  BY DEF Record, Recordable
<1>5. PICK row \in Row : row.status = "active" /\ rows' = [rows EXCEPT ![req[s].token] = row]
  <2>1. PICK adopted \in BOOLEAN : adopted = (req[s].kind = "adopt")
    OBVIOUS
  <2>2. [status |-> "active", adopted |-> adopted, at |-> req[s].now] \in Row
    BY <1>3 DEF Row
  <2>3. rows' = [rows EXCEPT ![req[s].token] =
                    [status |-> "active", adopted |-> adopted, at |-> req[s].now]]
    BY <2>1 DEF Record
  <2> QED
    BY <2>2, <2>3
<1>6. Grow
  BY <1>3, <1>4, <1>5 DEF BaseInv, TypeOK, Grow, Born, Recorded, Revoked, Present
<1>7. identity' \in [Token -> {"none", "enabled", "disabled"}]
  BY <1>3 DEF BaseInv, TypeOK, Record
<1>8. rows' \in [Token -> Row]
  BY <1>3, <1>5 DEF BaseInv, TypeOK
<1>9. OneRetirement'
  BY <1>3, <1>4, <1>5 DEF BaseInv, TypeOK, OneRetirement, Recorded, Revoked
<1>10. RecordedAreBorn'
  BY <1>3, <1>4, <1>5 DEF BaseInv, TypeOK, RecordedAreBorn, Recorded, Born
<1>11. Tables'
  BY <1>4, <1>7, <1>8, <1>9, <1>10 DEF BaseInv, TypeOK, Tables
<1>12. Well(r)'
  BY <1>1, <1>6, WellStaysWell DEF Becomes
<1> QED
  BY <1>1, <1>4, <1>6, <1>11, <1>12, Assembled DEF BaseInv, TypeOK, Becomes

(* What Cloudflare no longer has. *)
LEMMA RemovedTables ==
    ASSUME BaseInv, NEW t \in Token, UNCHANGED tables,
           RemoveToken(t) \/ (Present(t) /\ cf' = [cf EXCEPT ![t].state = "deleted"])
    PROVE  Tables' /\ Grow
<1>1. PICK c : c = cf[t]
  OBVIOUS
<1>2. PICK st \in {"unborn", "live", "gone", "deleted"} :
        /\ cf' = [cf EXCEPT ![t] = [c EXCEPT !.state = st]]
        /\ st = "unborn" => c.state = "unborn"
        /\ st = "live" => c.state = "live"
  BY <1>1 DEF RemoveToken, Present, BaseInv, TypeOK, CfToken
<1>3. c \in CfToken
  BY <1>1 DEF BaseInv, TypeOK
<1>4. cf' \in [Token -> CfToken] /\ cf'[t].state = st /\ \A u \in Token : u # t => cf'[u] = cf[u]
  BY <1>2, <1>3 DEF BaseInv, TypeOK, CfToken
<1>5. Grow
  BY <1>1, <1>2, <1>4 DEF tables, Grow, Born, Recorded, Revoked, Present
<1>6. Tables'
  BY <1>1, <1>2, <1>4 DEF BaseInv, TypeOK, Tables, tables, OneRetirement, RecordedAreBorn,
       Born, Recorded, Revoked
<1> QED
  BY <1>5, <1>6

LEMMA RemoveKeeps ==
    ASSUME BaseInv, NEW s \in Slot, Compensate(s) \/ Remove(s)
    PROVE  BaseInv'
<1>1. PICK r : Becomes(s, r)
  BY FinishIsWell DEF Compensate, Remove
<1>2. req[s].token \in Token
  BY RequestsAreWell DEF Well, Request, Shape, OnToken, Compensate, Remove, At
<1>3. Tables' /\ Grow /\ UNCHANGED <<clock, faults, asked>>
  BY <1>2, RemovedTables DEF Compensate, Remove
<1>4. Well(r)'
  BY <1>1, <1>3, WellStaysWell DEF Becomes
<1> QED
  BY <1>1, <1>3, <1>4, Assembled DEF BaseInv, TypeOK, Becomes

LEMMA RetireKeeps ==
    ASSUME BaseInv, NEW s \in Slot, Retire(s)
    PROVE  BaseInv'
<1>1. /\ Well(req[s]) /\ req[s] \in Request /\ At(s, "retire")
      /\ UNCHANGED <<cf, clock, faults, asked>>
  BY RequestsAreWell DEF Well, Retire, RetireRow
<1>2. PICK t \in Token : t = req[s].token
  BY <1>1 DEF Well, Shape, OnToken, At
<1>3. Recorded(t) /\ ~Revoked(t)
  BY <1>1, <1>2 DEF Well, Found, At, Retire
<1>4. PICK row \in Row : row.status = "revoked" /\ rows' = [rows EXCEPT ![t] = row]
  <2>1. rows[t] \in Row /\ req[s].now \in Time /\ rows[t].status = "active"
    BY <1>1, <1>3 DEF BaseInv, TypeOK, Row, Request, Recorded, Revoked
  <2>2. rows' = [rows EXCEPT ![t] = [rows[t] EXCEPT !.status = "revoked", !.at = req[s].now]]
    BY <1>2, <2>1 DEF BaseInv, TypeOK, Retire, RetireRow
  <2>3. [rows[t] EXCEPT !.status = "revoked", !.at = req[s].now] \in Row
    BY <2>1 DEF Row
  <2> QED
    BY <2>1, <2>2, <2>3 DEF Row
<1>5. Grow
  BY <1>1, <1>4 DEF BaseInv, TypeOK, Grow, Born, Recorded, Revoked, Present
<1>6. Tables'
  <2>1. retired' = [retired EXCEPT ![t] = @ + 1] /\ identity' = [identity EXCEPT ![t] = "disabled"]
    BY <1>2 DEF Retire, RetireRow
  <2>2. retired[t] = 0
    BY <1>3 DEF BaseInv, OneRetirement
  <2>3. OneRetirement'
    BY <1>4, <2>1, <2>2 DEF BaseInv, TypeOK, OneRetirement, Revoked
  <2>4. RecordedAreBorn'
    BY <1>1, <1>3, <1>4 DEF BaseInv, TypeOK, RecordedAreBorn, Recorded, Born
  <2> QED
    BY <1>1, <1>4, <2>1, <2>3, <2>4 DEF BaseInv, TypeOK, Tables
<1>7. Revoked(t)'
  BY <1>4 DEF BaseInv, TypeOK, Revoked
<1>8. CASE Finish(s)
  <2>1. PICK r : Becomes(s, r)
    BY <1>8, FinishIsWell
  <2>2. Well(r)'
    BY <1>5, <2>1, WellStaysWell DEF Becomes
  <2> QED
    BY <1>1, <1>5, <1>6, <2>1, <2>2, Assembled DEF BaseInv, TypeOK, Becomes
<1>9. CASE req[s].kind = "revoke" /\ Goto(s, "remove")
  <2>1. PICK r : r = [req[s] EXCEPT !.pc = "remove"]
    OBVIOUS
  <2>2. r \in Request /\ r.pc = "remove" /\ r.token = t /\ r.kind = "revoke"
        /\ r.live = req[s].live /\ r.todo = req[s].todo
    BY <1>1, <1>2, <1>9, <2>1 DEF Request
  <2>3. Shape(r)
    BY <2>2 DEF Shape, OnToken
  <2>4. Found(r)'
    BY <1>1, <1>5, <1>7, <2>2 DEF Well, Found, Grow, Request, Candidate
  <2>5. Well(r)'
    BY <2>2, <2>3, <2>4 DEF Well, Shape, Request, Time
  <2>6. req' = [req EXCEPT ![s] = r]
    BY <1>9, <2>1, RequestsAreWell DEF Goto
  <2> QED
    BY <1>1, <1>5, <1>6, <2>5, <2>6, Assembled DEF BaseInv, TypeOK
<1> QED
  BY <1>8, <1>9 DEF Retire, RetireRow

LEMMA UpdateKeeps ==
    ASSUME BaseInv, NEW s \in Slot, Update(s)
    PROVE  BaseInv'
<1>1. PICK r : Becomes(s, r)
  BY FinishIsWell DEF Update
<1>2. UNCHANGED <<cf, rows, retired, clock, faults, asked>>
  BY DEF Update
<1>3. identity' \in [Token -> {"none", "enabled", "disabled"}]
  BY DEF BaseInv, TypeOK, Update
<1>4. Tables' /\ Grow
  BY <1>2, <1>3 DEF BaseInv, TypeOK, Tables, Grow, OneRetirement, RecordedAreBorn,
     Born, Recorded, Revoked, Present
<1>5. Well(r)'
  BY <1>1, <1>4, WellStaysWell DEF Becomes
<1> QED
  BY <1>1, <1>2, <1>4, <1>5, Assembled DEF BaseInv, TypeOK, Becomes

(* The steps that no request takes. *)
LEMMA OthersKeep ==
    ASSUME BaseInv, Authenticate \/ DeleteInDashboard \/ Tick \/ UNCHANGED vars
    PROVE  BaseInv'
<1>1. UNCHANGED <<rows, retired, req, faults, asked>>
  BY DEF Authenticate, DeleteInDashboard, Tick, vars, tables
<1>2. identity' \in [Token -> {"none", "enabled", "disabled"}] /\ clock' \in Time
  BY Constants DEF Authenticate, DeleteInDashboard, Tick, vars, tables, BaseInv, TypeOK, Time
<1>3. Tables' /\ Grow
  <2>1. CASE DeleteInDashboard
    BY <2>1, RemovedTables DEF DeleteInDashboard
  <2>2. CASE UNCHANGED cf
    BY <1>1, <1>2, <2>2 DEF BaseInv, TypeOK, Tables, Grow, OneRetirement, RecordedAreBorn,
       Born, Recorded, Revoked, Present
  <2> QED
    BY <2>1, <2>2 DEF Authenticate, Tick, vars
<1>4. ASSUME NEW s \in Slot PROVE Shape(req[s])' /\ Found(req[s])'
  <2>1. PICK r : r = req[s]
    OBVIOUS
  <2>2. Well(r)'
    BY <1>3, <2>1, WellStaysWell, RequestsAreWell
  <2> QED
    BY <1>1, <2>1, <2>2 DEF Well, Shape, Found, Born, Recorded, Revoked, Present
<1> QED
  BY <1>1, <1>2, <1>3, <1>4 DEF BaseInv, Tables, TypeOK

LEMMA BaseStep == BaseInv /\ [Next]_vars => BaseInv'
<1> SUFFICES ASSUME BaseInv, [Next]_vars PROVE BaseInv'
  OBVIOUS
<1>1. ASSUME NEW s \in Slot, Begin(s) \/ Looks(s) \/ Fail(s) \/ ListMissesOne(s) \/ Die(s)
      PROVE  BaseInv'
  <2>1. (\E r : Becomes(s, r)) /\ faults' \in 0..MaxFaults /\ UNCHANGED <<cf, tables, clock, asked>>
    BY <1>1, BeginIsWell, LookIsWell, FaultIsWell DEF BaseInv, TypeOK
  <2>2. PICK r : Becomes(s, r)
    BY <2>1
  <2>3. Tables' /\ Grow
    BY <2>1, SameTables
  <2>4. Well(r)'
    BY <2>2, <2>3, WellStaysWell DEF Becomes
  <2> QED
    BY <2>1, <2>2, <2>3, <2>4, Assembled DEF Becomes, BaseInv, TypeOK
<1>2. ASSUME NEW s \in Slot, Step(s) PROVE BaseInv'
  BY <1>1, <1>2, IssueKeeps, RecordKeeps, RemoveKeeps, RetireKeeps, UpdateKeeps DEF Step, Looks
<1> QED
  BY <1>1, <1>2, OthersKeep DEF Next

(* The variables of ServiceTokens have their types, in every behaviour. *)
THEOREM TypeCorrect == Spec => []TypeOK
  BY BaseInit, BaseStep, PTL DEF Spec, BaseInv

(* core/service-tokens.ts, revokedGuard: of the requests that would retire  *)
(* a token, two revocations or a revocation and a reconcile, one commits.   *)
THEOREM TokensRetireOnce == Spec => []OneRetirement
  BY BaseInit, BaseStep, PTL DEF Spec, BaseInv
----------------------------------------------------------------------------
(* What a step may not do. *)

(* core/service-token-reconcile.ts, retireMissing: the second question to  *)
(* Cloudflare still holds when the row is retired.                          *)
THEOREM OnlyMissingAreRetired == Spec => RetiredWereMissing
<1> DEFINE Fact == \A s \in Slot :
        At(s, "retire") /\ req[s].kind = "missing" /\ retired' # retired => ~Present(req[s].token)
<1>1. BaseInv /\ [Next]_vars => [Fact]_vars
  BY DEF BaseInv, Found, At
<1> QED
  BY <1>1, BaseInit, BaseStep, PTL DEF Spec, RetiredWereMissing

LEMMA FinishIsNoUpdate ==
    ASSUME BaseInv, NEW s \in Slot, Finish(s)
    PROVE  req'[s].pc # "update" /\ \A u \in Slot : u # s => req'[u] = req[u]
<1>1. \A q \in After(req[s]) : q.pc # "update"
  BY NextEntry DEF Idle, BaseInv, TypeOK
<1> QED
  BY <1>1 DEF Finish, BaseInv, TypeOK

(* No request comes to enable an identity whose token is revoked. *)
LEMMA NoNewEnabling ==
    ASSUME BaseInv, [Next]_vars, NEW t \in Token, Revoked(t), Enabling(t)'
    PROVE  Enabling(t)
<1> SUFFICES ASSUME NEW u \in Slot, At(u, "update")', (req[u].kind = "enable" /\ req[u].token = t)'
             PROVE  Enabling(t)
  BY DEF Enabling
<1> DEFINE Same == req'[u] = req[u]
<1>0. Same => Enabling(t)
  BY DEF At, Enabling
<1>1. ASSUME NEW s \in Slot, Begin(s) PROVE Same
  <2>1. CASE StartCreate(s) \/ StartReconcile(s)
    BY <2>1 DEF BaseInv, TypeOK, Request, Idle, StartCreate, StartReconcile, Start, At
  <2>2. CASE StartAdopt(s) \/ StartRevoke(s)
    BY <2>2 DEF BaseInv, TypeOK, Request, Idle, StartAdopt, StartRevoke, Start, At
  <2>3. CASE StartUpdate(s)
    BY ZenonT(40), <2>3 DEF BaseInv, TypeOK, Request, Idle, StartUpdate, Start, At
  <2> QED
    BY <1>1, <2>1, <2>2, <2>3 DEF Begin
<1>2. ASSUME NEW s \in Slot, CheckUnrevoked(s) PROVE Same
  BY <1>2, FinishIsNoUpdate DEF CheckUnrevoked, Goto, BaseInv, TypeOK, Request, At
<1>3. ASSUME NEW s \in Slot, Finish(s) PROVE Same
  BY <1>3, FinishIsNoUpdate DEF At
<1>4. ASSUME NEW s \in Slot, Looks(s) PROVE Same
  <2>1. CASE ReadRows(s)
    <3> DEFINE listed == [req[s] EXCEPT !.live = {}, !.todo = Entries(req[s].live, req[s].now)]
    <3>1. Entries(req[s].live, req[s].now) \subseteq Candidate
      BY DEF Entries
    <3>2. \A q \in After(listed) \cup {Idle} : q.pc # "update"
      <4>1. listed \in Request
        BY ZenonT(40), <3>1 DEF BaseInv, TypeOK, Request
      <4> QED
        BY <4>1, NextEntry DEF Idle
    <3> QED
      BY <2>1, <3>2 DEF ReadRows, At, BaseInv, TypeOK
  <2>2. CASE Lookup(s) \/ List(s)
    BY <2>2 DEF Lookup, List, At, BaseInv, TypeOK, Request
  <2> QED
    BY <1>2, <1>3, <1>4, <2>1, <2>2
    DEF Looks, RecordRefused, GiveUpRecording, FindToken, CheckManaged, RequireActive, GuardLastAdmin,
        AskAgain, LookAgain, IssueRejected, RetireRefused, Goto, At, BaseInv, TypeOK, Request
<1>5. ASSUME NEW s \in Slot, Step(s) PROVE Same
  BY <1>3, <1>4, <1>5 DEF Step, Looks, Issue, Record, Compensate, Retire, RetireRow, Remove, Update,
     Goto, At, BaseInv, TypeOK, Request
<1>6. ASSUME NEW s \in Slot, Fail(s) \/ ListMissesOne(s) \/ Die(s) PROVE Same
  BY <1>3, <1>6 DEF Fail, GiveUpRecording, ListMissesOne, Die, Idle, Goto, At, BaseInv, TypeOK, Request
<1>7. CASE Authenticate \/ DeleteInDashboard \/ Tick \/ UNCHANGED vars
  BY <1>0, <1>7 DEF Authenticate, DeleteInDashboard, Tick, vars
<1> HIDE DEF Same
<1> QED
  BY <1>0, <1>1, <1>5, <1>6, <1>7 DEF Next

(* auth/bootstrap.ts and core/identities.ts: a revocation holds for good,   *)
(* but for the requests that had looked before it.                          *)
THEOREM RevocationsAreFinal == Spec => RevocationIsFinal
<1>1. ASSUME BaseInv, [Next]_vars, NEW t \in Token, Final(t) PROVE Final(t)'
  <2>1. ~Enabling(t)'
    BY <1>1, NoNewEnabling DEF Final
  <2>2. Revoked(t)' /\ identity'[t] = "disabled"
    <3> USE DEF Final, Revoked
    <3>1. ASSUME NEW s \in Slot, Record(s) PROVE Revoked(t)' /\ identity'[t] = "disabled"
      <4>1. req[s].token # t
        BY <1>1, <3>1 DEF Record, Recordable, Recorded
      <4> QED
        BY <1>1, <3>1, <4>1 DEF Record, BaseInv, TypeOK
    <3>2. ASSUME NEW s \in Slot, Retire(s) PROVE Revoked(t)' /\ identity'[t] = "disabled"
      <4>1. req[s].token # t
        BY <1>1, <3>2 DEF Retire
      <4> QED
        BY <1>1, <3>2, <4>1 DEF Retire, RetireRow, BaseInv, TypeOK
    <3>3. ASSUME NEW s \in Slot, Update(s) PROVE Revoked(t)' /\ identity'[t] = "disabled"
      BY <1>1, <3>3 DEF Update, Enabling, BaseInv, TypeOK
    <3>4. CASE UNCHANGED <<rows, identity>>
      BY <1>1, <3>4
    <3>5. CASE Authenticate
      BY <1>1, <3>5 DEF Authenticate, BaseInv, TypeOK
    <3>6. ASSUME NEW s \in Slot, Begin(s) \/ Looks(s) \/ Fail(s) \/ ListMissesOne(s) \/ Die(s)
          PROVE  UNCHANGED <<rows, identity>>
      BY <1>1, <3>6, BeginIsWell, LookIsWell, FaultIsWell DEF tables
    <3>7. ASSUME NEW s \in Slot, Issue(s) \/ Compensate(s) \/ Remove(s)
          PROVE  UNCHANGED <<rows, identity>>
      BY <3>7 DEF Issue, Compensate, Remove, tables
    <3>8. CASE DeleteInDashboard \/ Tick \/ UNCHANGED vars
      BY <3>4, <3>8 DEF DeleteInDashboard, Tick, vars, tables
    <3> QED
      BY <1>1, <3>1, <3>2, <3>3, <3>4, <3>5, <3>6, <3>7, <3>8 DEF Next, Step, Looks
  <2> QED
    BY <2>1, <2>2 DEF Final, Revoked
<1> DEFINE Keeps == \A t \in Token : Final(t) => Final(t)'
<1>2. BaseInv /\ [Next]_vars => [Keeps]_vars
  BY <1>1
<1> QED
  BY <1>2, BaseInit, BaseStep, PTL DEF Spec, RevocationIsFinal
----------------------------------------------------------------------------
(* Prompt requests.  What is judged is older than every request in flight, *)
(* so no creation of it is: a request that removes an orphan is too late to *)
(* meet the creation, and knows it.                                         *)

Young(r) == Timely(r) /\ Own(r) /\ Judged(r)

LEMMA FinishIsYoung ==
    ASSUME NEW r \in Request, r.pc # "idle", Young(r), NEW q \in After(r)
    PROVE  Young(q) /\ ~Creating(q)
<1>1. CASE q = Idle
  BY <1>1 DEF Idle, Young, Timely, Own, Judged, Creating
<1>2. CASE q # Idle
  <2>1. PICK c \in r.todo :
            /\ q.pc \in {"unrecorded", "get", "remove"} /\ c.kind = "orphan" => q.pc = "unrecorded"
            /\ q.kind = c.kind /\ c.kind \in {"orphan", "missing", "incomplete"}
            /\ q.token = c.token /\ q.now = r.now /\ q.todo = r.todo \ {c}
    BY <1>2, NextEntry
  <2> QED
    BY <2>1 DEF Young, Timely, Own, Judged, Creating
<1> QED
  BY <1>1, <1>2

LEMMA YoungAssembled ==
    ASSUME req \in [Slot -> Request], NEW s \in Slot, NEW r, req' = [req EXCEPT ![s] = r], Young(r)',
           \A u \in Slot \ {s} : \A q : q = req[u] => Young(q)'
    PROVE  (\A u \in Slot : Timely(req[u]) /\ Own(req[u]) /\ Judged(req[u]))'
<1>1. ASSUME NEW u \in Slot PROVE (Timely(req[u]) /\ Own(req[u]) /\ Judged(req[u]))'
  <2>1. PICK q : q = req'[u]
    OBVIOUS
  <2>2. Young(q)'
    <3>1. CASE u = s
      BY <2>1, <3>1
    <3>2. CASE u # s
      BY <2>1, <3>2
    <3> QED
      BY <3>1, <3>2
  <2> QED
    BY <2>1, <2>2 DEF Young, Timely, Own, Judged, Creating, Ripe, Born, Recorded
<1> QED
  BY <1>1

(* A step that changes neither Cloudflare nor a row. *)
LEMMA QuietIsYoung ==
    ASSUME PromptInv, NEW s \in Slot, NEW r, req' = [req EXCEPT ![s] = r], UNCHANGED <<cf, rows, clock>>,
           Young(r), Creating(r) => Creating(req[s]) /\ r.token = req[s].token, BaseInv'
    PROVE  PromptInv'
<1>1. req \in [Slot -> Request] /\ \A u \in Slot : Young(req[u])
  BY DEF PromptInv, BaseInv, TypeOK, Young
<1>2. ASSUME NEW q, Young(q) PROVE Young(q)'
  BY <1>2 DEF Young, Timely, Own, Judged, Creating, Ripe, Born, Recorded
<1>3. (\A u \in Slot : Timely(req[u]) /\ Own(req[u]) /\ Judged(req[u]))'
  BY <1>1, <1>2, YoungAssembled
<1>4. OneCreator'
  BY <1>1 DEF PromptInv, OneCreator, Creating
<1>5. RecordedTokensSurvive'
  BY DEF PromptInv, RecordedTokensSurvive, Active
<1> QED
  BY <1>3, <1>4, <1>5 DEF PromptInv

LEMMA PromptFacts ==
    ASSUME PromptInv
    PROVE  /\ req \in [Slot -> Request]
           /\ clock \in Nat
           /\ \A s \in Slot : /\ req[s] \in Request /\ req[s].now \in Nat
                             /\ Young(req[s]) /\ Well(req[s])
           /\ cf \in [Token -> CfToken]
           /\ rows \in [Token -> Row]
  BY Constants DEF PromptInv, BaseInv, TypeOK, Young, Well, Request

LEMMA BeginIsPrompt ==
    ASSUME PromptInv, NEW s \in Slot, Begin(s), BaseInv'
    PROVE  PromptInv'
<1>1. PICK kind \in Operation, t \in Token \cup {NoToken},
           pc \in {"issue", "find", "active", "unrevoked", "update", "list"} :
        req' = [req EXCEPT ![s] = [Idle EXCEPT !.pc = pc, !.kind = kind, !.token = t, !.now = clock]]
  BY DEF Begin, StartCreate, StartAdopt, StartRevoke, StartUpdate, StartReconcile, Start, Operation
<1>2. PICK r : r = [Idle EXCEPT !.pc = pc, !.kind = kind, !.token = t, !.now = clock]
  OBVIOUS
<1>3. r.pc = pc /\ r.kind = kind /\ r.now = clock /\ r.todo = {}
  BY <1>2 DEF Idle
<1>4. Young(r) /\ ~Creating(r)
  BY <1>3, PromptFacts, Constants DEF Young, Timely, Own, Judged, Creating, Operation
<1>5. UNCHANGED <<cf, rows, clock>>
  BY BeginIsWell DEF PromptInv, tables
<1> QED
  BY <1>1, <1>2, <1>4, <1>5, QuietIsYoung

(* A request that moves on with what it holds. *)
LEMMA GotoIsPrompt ==
    ASSUME PromptInv, NEW s \in Slot, NEW pc, req[s].pc # "idle", Goto(s, pc), UNCHANGED <<cf, rows, clock>>,
           pc \in {"lookup", "record", "compensate"} => Creating(req[s]) \/ req[s].kind # "create",
           pc \in {"unrecorded", "remove"} /\ req[s].kind = "orphan" =>
               req[s].pc = "unrecorded" /\ ~Recorded(req[s].token),
           BaseInv'
    PROVE  PromptInv'
<1>1. PICK r : r = [req[s] EXCEPT !.pc = pc]
  OBVIOUS
<1>2. /\ r.pc = pc /\ r.kind = req[s].kind /\ r.now = req[s].now /\ r.todo = req[s].todo
      /\ r.token = req[s].token
  BY <1>1, PromptFacts DEF Request
<1>3. Young(r) /\ (Creating(r) => Creating(req[s]))
  BY <1>2, PromptFacts DEF Young, Timely, Own, Judged, Creating
<1> QED
  BY <1>1, <1>2, <1>3, PromptFacts, QuietIsYoung DEF Goto

LEMMA FinishIsPrompt ==
    ASSUME PromptInv, NEW s \in Slot, req[s].pc # "idle", Finish(s), UNCHANGED <<cf, rows, clock>>, BaseInv'
    PROVE  PromptInv'
<1>1. PICK r \in After(req[s]) : req' = [req EXCEPT ![s] = r]
  BY DEF Finish
<1>2. Young(r) /\ ~Creating(r)
  BY <1>1, PromptFacts, FinishIsYoung
<1> QED
  BY <1>1, <1>2, QuietIsYoung

LEMMA LookIsPrompt ==
    ASSUME PromptInv, NEW s \in Slot, Looks(s), BaseInv'
    PROVE  PromptInv'
<1>0. /\ UNCHANGED <<cf, rows, clock>>
      /\ req[s] \in Request /\ Young(req[s]) /\ Shape(req[s])
      /\ req \in [Slot -> Request]
  BY LookIsWell, PromptFacts DEF PromptInv, tables, Well
<1>1. req[s].pc # "idle"
  BY DEF Looks, IssueRejected, Lookup, RecordRefused, FindToken, CheckManaged, RequireActive,
     GuardLastAdmin, RetireRefused, CheckUnrevoked, List, ReadRows, AskAgain, LookAgain, At
<1>2. CASE Finish(s)
  BY <1>0, <1>1, <1>2, FinishIsPrompt
<1>3. CASE Lookup(s)
  <2>1. PICK r : r = [req[s] EXCEPT !.pc = "record", !.fresh = identity[req[s].token] = "none"]
    OBVIOUS
  <2>2. /\ r.pc = "record" /\ r.kind = req[s].kind /\ r.now = req[s].now /\ r.todo = req[s].todo
        /\ r.token = req[s].token
    BY <1>0, <2>1 DEF Request
  <2>3. Young(r) /\ (Creating(r) => Creating(req[s]))
    BY <1>0, <1>3, <2>2 DEF Young, Timely, Own, Judged, Creating, Lookup, At
  <2>4. req' = [req EXCEPT ![s] = r]
    BY <1>0, <1>3, <2>1 DEF Lookup
  <2> QED
    BY <1>0, <2>2, <2>3, <2>4, QuietIsYoung
<1>4. CASE List(s)
  <2>1. PICK r : r = [req[s] EXCEPT !.pc = "rows", !.live = {t \in Token : Present(t)}]
    OBVIOUS
  <2>2. r.pc = "rows" /\ r.now = req[s].now /\ r.todo = req[s].todo
    BY <1>0, <2>1 DEF Request
  <2>3. Young(r) /\ ~Creating(r)
    BY <1>0, <1>1, <2>2 DEF Young, Timely, Own, Judged, Creating
  <2>4. req' = [req EXCEPT ![s] = r]
    BY <1>0, <1>4, <2>1 DEF List
  <2> QED
    BY <1>0, <2>3, <2>4, QuietIsYoung
<1>5. CASE ReadRows(s)
  <2>1. PICK entries : entries = Entries(req[s].live, req[s].now)
    OBVIOUS
  <2>2. PICK listed : listed = [req[s] EXCEPT !.live = {}, !.todo = entries]
    OBVIOUS
  <2>3. entries \subseteq Candidate
    BY <2>1 DEF Entries
  <2>4. \A c \in entries : c.kind = "orphan" => Ripe(c.token, req[s].now)
    BY <1>0, <2>1, PromptFacts DEF Entries, Candidate, Ripe, Well, Found
  <2>5. /\ listed \in Request /\ listed.pc = "rows" /\ listed.now = req[s].now /\ listed.todo = entries
    BY <1>0, <1>5, <2>2, <2>3 DEF Request, ReadRows, At
  <2>6. Young(listed)
    BY <1>0, <1>1, <2>4, <2>5 DEF Young, Timely, Own, Judged, Creating
  <2>7. PICK r \in After(listed) \cup {Idle} : req' = [req EXCEPT ![s] = r]
    BY <1>5, <2>1, <2>2 DEF ReadRows
  <2>8. Young(r) /\ ~Creating(r)
    BY <2>5, <2>6, <2>7, FinishIsYoung DEF Idle, Young, Timely, Own, Judged, Creating
  <2> QED
    BY <1>0, <2>7, <2>8, QuietIsYoung
<1>6. CASE RecordRefused(s) /\ ~Finish(s)
  <2>1. Goto(s, "compensate") /\ Creating(req[s])
    BY <1>6 DEF RecordRefused, GiveUpRecording, At, Creating
  <2> QED
    BY <1>0, <1>1, <2>1, GotoIsPrompt
<1>7. CASE CheckManaged(s) /\ ~Finish(s)
  <2>1. Goto(s, "lookup") /\ (Creating(req[s]) \/ req[s].kind # "create")
    BY <1>0, <1>7 DEF CheckManaged, At, Shape
  <2> QED
    BY <1>0, <1>1, <2>1, GotoIsPrompt
<1>8. CASE LookAgain(s) /\ ~Finish(s)
  <2>1. Goto(s, "remove") /\ req[s].pc = "unrecorded" /\ ~Recorded(req[s].token)
    BY <1>8 DEF LookAgain, At
  <2> QED
    BY <1>0, <1>1, <2>1, GotoIsPrompt
<1>9. CASE /\ FindToken(s) \/ RequireActive(s) \/ GuardLastAdmin(s) \/ CheckUnrevoked(s) \/ AskAgain(s)
           /\ ~Finish(s)
  <2>1. PICK pc \in {"managed", "guard", "retire", "update"} : Goto(s, pc)
    BY <1>9 DEF FindToken, RequireActive, GuardLastAdmin, CheckUnrevoked, AskAgain
  <2> QED
    BY <1>0, <1>1, <2>1, GotoIsPrompt
<1>10. CASE IssueRejected(s) \/ RetireRefused(s)
  BY <1>2, <1>10 DEF IssueRejected, RetireRefused
<1> QED
  BY <1>2, <1>3, <1>4, <1>5, <1>6, <1>7, <1>8, <1>9, <1>10 DEF Looks

LEMMA FaultIsPrompt ==
    ASSUME PromptInv, NEW s \in Slot, Fail(s) \/ ListMissesOne(s) \/ Die(s), BaseInv'
    PROVE  PromptInv'
<1>0. /\ UNCHANGED <<cf, rows, clock>>
      /\ req[s] \in Request /\ Young(req[s])
      /\ req \in [Slot -> Request]
  BY FaultIsWell, PromptFacts DEF PromptInv, tables
<1>1. req[s].pc # "idle"
  BY DEF Fail, ListMissesOne, Die, InFlight, At
<1>2. CASE Fail(s)
  <2>1. Finish(s) \/ (Creating(req[s]) /\ Goto(s, "compensate"))
    BY <1>2 DEF Fail, GiveUpRecording, Creating, At
  <2> QED
    BY <1>0, <1>1, <2>1, FinishIsPrompt, GotoIsPrompt
<1>3. CASE ListMissesOne(s)
  <2>1. PICK t : req' = [req EXCEPT ![s] =
                    [req[s] EXCEPT !.pc = "rows", !.live = {u \in Token : Present(u)} \ {t}]]
    BY <1>0, <1>3 DEF ListMissesOne
  <2>2. PICK r : r = [req[s] EXCEPT !.pc = "rows", !.live = {u \in Token : Present(u)} \ {t}]
    OBVIOUS
  <2>3. r.pc = "rows" /\ r.now = req[s].now /\ r.todo = req[s].todo
    BY <1>0, <2>2 DEF Request
  <2>4. Young(r) /\ ~Creating(r)
    BY <1>0, <1>1, <2>3 DEF Young, Timely, Own, Judged, Creating
  <2> QED
    BY <1>0, <2>1, <2>2, <2>4, QuietIsYoung
<1>4. CASE Die(s)
  <2>1. Young(Idle) /\ ~Creating(Idle)
    BY DEF Idle, Young, Timely, Own, Judged, Creating
  <2> QED
    BY <1>0, <1>4, <2>1, QuietIsYoung DEF Die
<1> QED
  BY <1>2, <1>3, <1>4

(* A step that takes a token, or a row, of what a request in flight makes. *)
LEMMA IssueIsPrompt ==
    ASSUME PromptInv, NEW s \in Slot, Issue(s), BaseInv'
    PROVE  PromptInv'
<1>1. PICK t \in Token :
        /\ cf[t].state = "unborn"
        /\ cf' = [cf EXCEPT ![t] = [state |-> "live", ours |-> TRUE, at |-> req[s].now]]
        /\ req' = [req EXCEPT ![s] = [req[s] EXCEPT !.pc = "lookup", !.token = t]]
  BY PromptFacts DEF Issue
<1>2. PICK r : r = [req[s] EXCEPT !.pc = "lookup", !.token = t]
  OBVIOUS
<1>3. /\ req[s] \in Request /\ Young(req[s]) /\ req[s].pc = "issue"
      /\ r.pc = "lookup" /\ r.now = req[s].now /\ r.todo = req[s].todo /\ r.token = t
      /\ r.kind = req[s].kind
      /\ UNCHANGED <<rows, clock>>
  BY <1>2, PromptFacts DEF Issue, At, Request, tables
<1>4. ~Recorded(t)
  BY <1>1 DEF PromptInv, BaseInv, RecordedAreBorn, Born
<1>5. /\ cf'[t] = [state |-> "live", ours |-> TRUE, at |-> req[s].now]
      /\ \A u \in Token : u # t => cf'[u] = cf[u]
  BY <1>1, PromptFacts
<1>6. Young(r)'
  <2>1. \A c \in r.todo : c.token \in Token
    BY <1>3 DEF Request, Candidate
  <2>2. Judged(r)'
    BY <1>1, <1>3, <1>5, <2>1 DEF Young, Judged, Ripe, Born
  <2> QED
    BY <1>3, <1>4, <1>5, <2>2 DEF Young, Timely, Own, Creating, Born, Recorded
<1>7. ASSUME NEW u \in Slot \ {s}, NEW q, q = req[u] PROVE Young(q)' /\ (Creating(q) => q.token # t)
  <2>1. Young(q) /\ q \in Request /\ Well(q)
    BY <1>7, PromptFacts
  <2>2. \A c \in q.todo : c.token \in Token
    BY <2>1 DEF Request, Candidate
  <2>3. q.pc \in OnToken => q.token \in Token
    BY <2>1 DEF Well, Shape
  <2>4. Creating(q) => q.token # t
    BY <1>1, <2>1 DEF Young, Own, Born
  <2>5. Judged(q)'
    BY <1>1, <1>3, <1>5, <2>1, <2>2, <2>3 DEF Young, Judged, Ripe, Born, Recorded, OnToken
  <2>6. Own(q)'
    BY <1>3, <1>5, <2>1, <2>3, <2>4 DEF Young, Own, Creating, Born, Recorded, OnToken
  <2> QED
    BY <1>3, <2>1, <2>4, <2>5, <2>6 DEF Young, Timely
<1>8. (\A u \in Slot : Timely(req[u]) /\ Own(req[u]) /\ Judged(req[u]))'
  BY <1>1, <1>2, <1>6, <1>7, PromptFacts, YoungAssembled
<1>9. OneCreator'
  <2>1. req'[s] = r /\ \A u \in Slot : u # s => req'[u] = req[u]
    BY <1>1, <1>2, PromptFacts
  <2> QED
    BY <1>3, <1>7, <2>1 DEF PromptInv, OneCreator, Creating
<1>10. RecordedTokensSurvive'
  BY <1>3, <1>5 DEF PromptInv, RecordedTokensSurvive, Active
<1> QED
  BY <1>8, <1>9, <1>10 DEF PromptInv

(* When the request that steps has ended its work, and the others are as   *)
(* young as they were.                                                      *)
LEMMA EndedIsPrompt ==
    ASSUME PromptInv, NEW s \in Slot, NEW r, req' = [req EXCEPT ![s] = r], ~Creating(r), Young(r)',
           \A u \in Slot \ {s} : \A q : q = req[u] => Young(q)',
           RecordedTokensSurvive', BaseInv'
    PROVE  PromptInv'
<1>1. req \in [Slot -> Request]
  BY PromptFacts
<1>2. (\A u \in Slot : Timely(req[u]) /\ Own(req[u]) /\ Judged(req[u]))'
  BY <1>1, YoungAssembled
<1>3. OneCreator'
  BY <1>1 DEF PromptInv, OneCreator, Creating
<1> QED
  BY <1>2, <1>3 DEF PromptInv

LEMMA RecordIsPrompt ==
    ASSUME PromptInv, NEW s \in Slot, Record(s), BaseInv'
    PROVE  PromptInv'
<1> DEFINE t == req[s].token
<1>1. PICK r \in After(req[s]) : req' = [req EXCEPT ![s] = r]
  BY DEF Record, Finish
<1>2. /\ req[s] \in Request /\ Young(req[s]) /\ req[s].pc = "record" /\ Well(req[s])
      /\ UNCHANGED <<cf, clock>>
      /\ ~Recorded(t)
  BY PromptFacts DEF Record, Recordable, At
<1>3. t \in Token /\ req[s].kind \in {"create", "adopt"}
  BY <1>2 DEF Well, Shape, OnToken
<1>4. /\ rows'[t].status = "active" /\ (rows'[t].adopted <=> req[s].kind = "adopt")
      /\ \A u \in Token : u # t => rows'[u] = rows[u]
  BY <1>3, PromptFacts DEF Record
<1>5. Young(r)'
  <2>1. Young(r) /\ ~Creating(r)
    BY <1>1, <1>2, FinishIsYoung
  <2>2. r.kind = "orphan" => r.pc # "remove"
    BY <1>1, <1>2, NextEntry DEF Idle
  <2> QED
    BY <1>2, <2>1, <2>2 DEF Young, Timely, Own, Judged, Creating, Ripe, Born
<1>6. ASSUME NEW u \in Slot \ {s}, NEW q, q = req[u] PROVE Young(q)'
  <2>1. Young(q) /\ q \in Request /\ Well(q)
    BY <1>6, PromptFacts
  <2>2. q.pc \in OnToken => q.token \in Token
    BY <2>1 DEF Well, Shape
  <2>3. q.now \in Nat /\ req[s].now \in Nat /\ clock \in Nat /\ MinAge \in Nat
    BY <1>6, PromptFacts, Constants
  <2>4. Creating(q) /\ q.token = t => req[s].kind = "adopt"
    BY <1>2, <1>3, <1>6 DEF PromptInv, OneCreator, Creating
  <2>5. Own(q)'
    BY <1>2, <1>4, <2>1, <2>2, <2>4 DEF Young, Own, Creating, Born, Recorded, OnToken
  <2>6. q.pc = "remove" /\ q.kind = "orphan" /\ q.token = t => req[s].kind = "adopt"
    BY <1>2, <1>3, <2>1, <2>3 DEF Young, Judged, Ripe, Old, Own, Creating, Timely
  <2>7. Judged(q)'
    BY <1>2, <1>4, <2>1, <2>2, <2>6 DEF Young, Judged, Ripe, Born, Recorded, OnToken
  <2> QED
    BY <1>2, <2>1, <2>5, <2>7 DEF Young, Timely
<1>7. RecordedTokensSurvive'
  <2>1. req[s].kind = "create" => cf[t].state \in {"live", "deleted"}
    <3>1. cf[t].state \in {"unborn", "live", "gone", "deleted"}
      BY <1>3, PromptFacts DEF CfToken
    <3> QED
      BY <1>2, <3>1 DEF Young, Own, Creating, Born
  <2> QED
    BY <1>2, <1>3, <1>4, <2>1 DEF PromptInv, RecordedTokensSurvive, Active
<1>8. ~Creating(r)
  BY <1>1, <1>2, FinishIsYoung
<1> QED
  BY <1>1, <1>5, <1>6, <1>7, <1>8, EndedIsPrompt

(* A token leaves Cloudflare: a request that is young and does not own it  *)
(* stays young.                                                             *)
LEMMA TokenLeaves ==
    ASSUME PromptInv, NEW t \in Token, NEW st, cf[t].state = "live" \/ st = cf[t].state,
           st # "unborn" \/ cf[t].state = "unborn", cf' = [cf EXCEPT ![t].state = st], UNCHANGED <<rows, clock>>,
           NEW q \in Request, Shape(q), Young(q),
           Creating(q) /\ q.token = t => Recorded(t) \/ st # "gone" \/ st = cf[t].state
    PROVE  Young(q)'
<1>1. /\ cf'[t].state = st /\ cf'[t].ours = cf[t].ours /\ cf'[t].at = cf[t].at
      /\ \A u \in Token : u # t => cf'[u] = cf[u]
  BY PromptFacts DEF CfToken
<1>2. q.pc \in OnToken => q.token \in Token
  BY DEF Shape
<1>3. \A c \in q.todo : c.token \in Token
  BY DEF Request, Candidate
<1>4. Judged(q)'
  BY <1>1, <1>2, <1>3 DEF Young, Judged, Ripe, Born, Recorded, OnToken
<1>5. Own(q)'
  BY <1>1, <1>2 DEF Young, Own, Creating, Born, Recorded, OnToken
<1> QED
  BY <1>4, <1>5 DEF Young, Timely

(* What a removal takes is no recorded token, nor one that is being made.  *)
LEMMA RemovalIsPrompt ==
    ASSUME PromptInv, NEW s \in Slot, Compensate(s) \/ Remove(s), BaseInv'
    PROVE  PromptInv'
<1> DEFINE t == req[s].token
<1>1. PICK r \in After(req[s]) : req' = [req EXCEPT ![s] = r]
  BY DEF Compensate, Remove, Finish
<1>2. /\ req[s] \in Request /\ Young(req[s]) /\ Well(req[s]) /\ req[s].pc \in {"compensate", "remove"}
      /\ UNCHANGED <<rows, clock>>
      /\ RemoveToken(t)
  BY PromptFacts DEF Compensate, Remove, At, tables
<1>3. t \in Token
  BY <1>2 DEF Well, Shape, OnToken
<1>4. PICK st : /\ st = IF cf[t].state = "live" THEN "gone" ELSE cf[t].state
                /\ cf' = [cf EXCEPT ![t].state = st]
  BY <1>2, <1>3, PromptFacts DEF RemoveToken
<1>5. ASSUME NEW u \in Slot \ {s}, Creating(req[u]), req[u].token = t PROVE Recorded(t)
  <2>1. CASE req[s].pc = "compensate"
    BY <1>2, <1>5, <2>1 DEF PromptInv, OneCreator, Creating, Well, Shape
  <2>2. CASE req[s].pc = "remove" /\ req[s].kind = "orphan"
    <3>1. Ripe(t, req[s].now) /\ cf[t].at = req[u].now
      BY <1>2, <1>5, <2>2, PromptFacts DEF Young, Judged, Own
    <3>2. /\ req[s].now <= clock /\ clock < req[u].now + MinAge
          /\ req[s].now \in Nat /\ req[u].now \in Nat /\ clock \in Nat /\ MinAge \in Nat
      BY <1>2, <1>5, PromptFacts, Constants DEF Young, Timely, Creating
    <3> QED
      BY <3>1, <3>2 DEF Ripe, Old
  <2>3. CASE req[s].pc = "remove" /\ req[s].kind # "orphan"
    BY <1>2, <2>3 DEF Well, Found, Revoked, Recorded
  <2> QED
    BY <1>2, <2>1, <2>2, <2>3
<1>6. ~Creating(r) /\ Young(r)
  BY <1>1, <1>2, FinishIsYoung
<1>7. r \in Request /\ Shape(r)
  BY <1>1, <1>2, AfterIsWell DEF Well
<1>8. st # "unborn" \/ cf[t].state = "unborn"
  BY <1>4
<1>9. Young(r)'
  BY <1>2, <1>3, <1>4, <1>6, <1>7, <1>8, TokenLeaves
<1>10. ASSUME NEW u \in Slot \ {s}, NEW q, q = req[u] PROVE Young(q)'
  <2>1. Young(q) /\ q \in Request /\ Shape(q)
    BY <1>10, PromptFacts DEF Well
  <2>2. Creating(q) /\ q.token = t => Recorded(t)
    BY <1>5, <1>10
  <2> QED
    BY <1>2, <1>3, <1>4, <1>8, <2>1, <2>2, TokenLeaves
<1>11. RecordedTokensSurvive'
  <2>1. Active(t) => rows[t].adopted
    BY <1>2 DEF Well, Shape, Found, Young, Own, Judged, Creating, Active, Recorded, Revoked
  <2>2. \A u \in Token : u # t => cf'[u] = cf[u]
    BY <1>4, PromptFacts
  <2> QED
    BY <1>2, <2>1, <2>2 DEF PromptInv, RecordedTokensSurvive, Active
<1> QED
  BY <1>1, <1>6, <1>9, <1>10, <1>11, EndedIsPrompt

LEMMA RetireIsPrompt ==
    ASSUME PromptInv, NEW s \in Slot, Retire(s), BaseInv'
    PROVE  PromptInv'
<1> DEFINE t == req[s].token
<1>1. /\ req[s] \in Request /\ Young(req[s]) /\ Well(req[s]) /\ req[s].pc = "retire"
      /\ UNCHANGED <<cf, clock>>
  BY PromptFacts DEF Retire, RetireRow, At
<1>2. t \in Token /\ Recorded(t) /\ ~Revoked(t) /\ req[s].kind \in {"revoke", "missing"}
  BY <1>1 DEF Well, Shape, Found, OnToken, Retire
<1>3. /\ rows'[t].status = "revoked" /\ rows'[t].adopted = rows[t].adopted
      /\ \A u \in Token : u # t => rows'[u] = rows[u]
  <2>1. rows[t].status = "active" /\ rows[t] \in Row
    BY <1>2, PromptFacts DEF Row, Recorded, Revoked
  <2>2. rows' = [rows EXCEPT ![t] = [rows[t] EXCEPT !.status = "revoked", !.at = req[s].now]]
    BY <1>2, <2>1, PromptFacts DEF Retire, RetireRow
  <2> QED
    BY <1>2, <2>1, <2>2, PromptFacts DEF Row
<1>4. ASSUME NEW q \in Request, Shape(q), Young(q) PROVE Young(q)'
  <2>1. q.pc \in OnToken => q.token \in Token
    BY <1>4 DEF Shape
  <2>2. \A u \in Token : (Recorded(u)' => Recorded(u)) /\ (Recorded(u) => Recorded(u)')
                         /\ rows'[u].adopted = rows[u].adopted
    BY <1>2, <1>3 DEF Recorded
  <2>3. Judged(q)'
    BY <1>1, <1>4, <2>1, <2>2 DEF Young, Judged, Ripe, Born, OnToken
  <2>4. Own(q)'
    BY <1>1, <1>4, <2>1, <2>2 DEF Young, Own, Creating, Born, OnToken
  <2> QED
    BY <1>1, <1>4, <2>3, <2>4 DEF Young, Timely
<1>5. PICK r : /\ req' = [req EXCEPT ![s] = r]
               /\ r \in Request /\ Shape(r) /\ Young(r) /\ ~Creating(r)
  <2>1. CASE Finish(s)
    BY <1>1, <2>1, FinishIsYoung, AfterIsWell DEF Finish, Well
  <2>2. CASE req[s].kind = "revoke" /\ Goto(s, "remove")
    <3>1. PICK r : r = [req[s] EXCEPT !.pc = "remove"]
      OBVIOUS
    <3>2. /\ r.pc = "remove" /\ r.kind = "revoke" /\ r.now = req[s].now /\ r.todo = req[s].todo
          /\ r.token = t /\ r \in Request
      BY <1>1, <2>2, <3>1 DEF Request
    <3>3. Shape(r) /\ Young(r) /\ ~Creating(r)
      BY <1>1, <1>2, <3>2 DEF Shape, OnToken, Young, Timely, Own, Judged, Creating
    <3>4. req' = [req EXCEPT ![s] = r]
      BY <2>2, <3>1, PromptFacts DEF Goto
    <3> QED
      BY <3>2, <3>3, <3>4
  <2> QED
    BY <2>1, <2>2 DEF Retire, RetireRow
<1>6. Young(r)'
  BY <1>4, <1>5
<1>7. ASSUME NEW u \in Slot \ {s}, NEW q, q = req[u] PROVE Young(q)'
  BY <1>4, <1>7, PromptFacts DEF Well
<1>8. RecordedTokensSurvive'
  BY <1>1, <1>2, <1>3 DEF PromptInv, RecordedTokensSurvive, Active
<1> QED
  BY <1>5, <1>6, <1>7, <1>8, EndedIsPrompt

LEMMA UpdateIsPrompt ==
    ASSUME PromptInv, NEW s \in Slot, Update(s), BaseInv'
    PROVE  PromptInv'
  BY FinishIsPrompt DEF Update, At

(* Time passes for prompt requests only as far as they are prompt. *)
LEMMA OthersArePrompt ==
    ASSUME PromptInv, Prompt, Authenticate \/ DeleteInDashboard \/ Tick \/ UNCHANGED vars, BaseInv'
    PROVE  PromptInv'
<1>1. UNCHANGED <<rows, req>>
  BY DEF Authenticate, DeleteInDashboard, Tick, vars, tables
<1>2. OneCreator'
  BY <1>1 DEF PromptInv, OneCreator, Creating
<1>3. ASSUME NEW u \in Slot, NEW q, q = req[u] PROVE Young(q)'
  <2>1. Young(q) /\ q \in Request /\ Shape(q) /\ q.now \in Nat
    BY <1>3, PromptFacts DEF Well
  <2>2. CASE DeleteInDashboard
    <3>1. PICK t \in Token : Present(t) /\ cf' = [cf EXCEPT ![t].state = "deleted"]
      BY <2>2 DEF DeleteInDashboard
    <3>2. UNCHANGED <<rows, clock>>
      BY <2>2 DEF DeleteInDashboard, tables
    <3>3. cf[t].state = "live"
      BY <3>1 DEF Present
    <3>4. PICK st : st = "deleted"
      OBVIOUS
    <3>5. cf' = [cf EXCEPT ![t].state = st] /\ st # "unborn" /\ st # "gone"
      BY <3>1, <3>4
    <3> QED
      BY <2>1, <3>2, <3>3, <3>5, TokenLeaves
  <2>3. CASE Tick
    <3>1. q.pc # "idle" => clock + 1 < q.now + MinAge
      BY <1>3, <2>3 DEF Tick, InFlight
    <3>2. Timely(q)'
      BY <2>1, <2>3, <3>1, PromptFacts, Constants DEF Tick, Young, Timely
    <3>3. UNCHANGED <<cf, rows>>
      BY <2>3 DEF Tick, tables
    <3> QED
      BY <2>1, <3>2, <3>3 DEF Young, Own, Judged, Creating, Ripe, Born, Recorded
  <2>4. CASE UNCHANGED <<cf, rows, clock>>
    BY <2>1, <2>4 DEF Young, Timely, Own, Judged, Creating, Ripe, Born, Recorded
  <2> QED
    BY <2>2, <2>3, <2>4 DEF Authenticate, vars
<1>4. ASSUME NEW u \in Slot PROVE (Timely(req[u]) /\ Own(req[u]) /\ Judged(req[u]))'
  <2>1. PICK q : q = req[u]
    OBVIOUS
  <2>2. Young(q)'
    BY <1>3, <2>1
  <2> QED
    BY <1>1, <2>1, <2>2 DEF Young, Timely, Own, Judged, Creating, Ripe, Born, Recorded
<1>5. RecordedTokensSurvive'
  <2>1. \A t \in Token : cf[t].state \in {"live", "deleted"} => cf'[t].state \in {"live", "deleted"}
    <3>1. CASE DeleteInDashboard
      BY <3>1, PromptFacts DEF DeleteInDashboard, CfToken
    <3>2. CASE UNCHANGED cf
      BY <3>2
    <3> QED
      BY <3>1, <3>2 DEF Authenticate, Tick, vars
  <2> QED
    BY <1>1, <2>1 DEF PromptInv, RecordedTokensSurvive, Active
<1> QED
  BY <1>2, <1>4, <1>5 DEF PromptInv

LEMMA PromptInit == Init => PromptInv
<1> SUFFICES ASSUME Init PROVE PromptInv
  OBVIOUS
<1>1. \A s \in Slot : Timely(req[s]) /\ Own(req[s]) /\ Judged(req[s]) /\ ~Creating(req[s])
  BY DEF Init, Idle, Timely, Own, Judged, Creating
<1>2. RecordedTokensSurvive
  BY DEF Init, RecordedTokensSurvive, Active, NoRow
<1> QED
  BY <1>1, <1>2, BaseInit DEF PromptInv, OneCreator

LEMMA PromptStep == PromptInv /\ Prompt /\ [Next]_vars => PromptInv'
<1> SUFFICES ASSUME PromptInv, Prompt, [Next]_vars PROVE PromptInv'
  OBVIOUS
<1>1. BaseInv'
  BY BaseStep DEF PromptInv
<1>2. ASSUME NEW s \in Slot, Step(s) PROVE PromptInv'
  BY <1>1, <1>2, LookIsPrompt, IssueIsPrompt, RecordIsPrompt, RemovalIsPrompt, RetireIsPrompt,
     UpdateIsPrompt DEF Step, Looks
<1>3. ASSUME NEW s \in Slot, Begin(s) \/ Fail(s) \/ ListMissesOne(s) \/ Die(s) PROVE PromptInv'
  BY <1>1, <1>3, BeginIsPrompt, FaultIsPrompt
<1> QED
  BY <1>1, <1>2, <1>3, OthersArePrompt DEF Next

(* core/service-token-reconcile.ts, RECONCILE_MIN_AGE_MS: if no request is  *)
(* as old as that, prick never removes a recorded token from Cloudflare.    *)
THEOREM RecordedTokensAreSafe == ASSUME Prompt PROVE Spec => []RecordedTokensSurvive
<1>1. PromptInv /\ [Next]_vars => PromptInv'
  BY PromptStep
<1> QED
  BY <1>1, PromptInit, PTL DEF Spec, PromptInv

(* The invariant RecordedTokensAreSafe rests on, which the runs check too.  *)
THEOREM PromptInvariance == ASSUME Prompt PROVE Spec => []PromptInv
<1>1. PromptInv /\ [Next]_vars => PromptInv'
  BY PromptStep
<1> QED
  BY <1>1, PromptInit, PTL DEF Spec
=============================================================================
