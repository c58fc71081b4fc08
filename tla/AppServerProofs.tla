--------------------------- MODULE AppServerProofs ---------------------------
(***************************************************************************)
(* Proofs about the Worker beside the secrets. First what it answers. The  *)
(* audit log of projects and environments is replayed by a fold, so facts  *)
(* about folds come before it, and an id outlives the row it was given to, *)
(* so an answer may be of a row that is gone but never of another. Then    *)
(* the secret of one service token: what a request may still rely on while *)
(* others, the dashboard and a scanner do as they like, and what it is     *)
(* told of that. Then the audit log itself: the ids that isolates give its *)
(* rows, and a reader who pages through it while rows, environments and    *)
(* his grants come and go. Each of these is one scene of MCAppServer,      *)
(* whose theorems follow. Last the access graph, that of Access itself:    *)
(* what a request was authorised for, who made a role what it is, and who  *)
(* is left to administer.                                                  *)
(***************************************************************************)
EXTENDS MCAppServer, Sequences, WellFoundedInduction, FiniteSetTheorems, SequenceTheorems,
        TLAPS

-----------------------------------------------------------------------------
(* Folding the audit log. *)

(* Induction over the naturals, for a set of them. *)
LEMMA SetInduction ==
    ASSUME NEW S \in SUBSET Nat, 0 \in S, \A n \in S : n + 1 \in S
    PROVE  S = Nat
<1> SUFFICES ASSUME S # Nat PROVE FALSE
  OBVIOUS
<1> DEFINE T == Nat \ S
           R == OpToRel(<, Nat)
<1>1. T \subseteq Nat /\ T # {}
  OBVIOUS
<1>2. IsWellFoundedOn(R, Nat)
  BY NatLessThanWellFounded
<1> HIDE DEF T, R
<1>3. PICK x \in T : \A y \in T : ~ (<<y, x>> \in R)
  BY <1>1, <1>2, WFMin
<1>4. x \in Nat /\ x \notin S /\ x # 0
  BY DEF T
<1>5. x - 1 \in Nat /\ x - 1 \notin S
  BY <1>4
<1>6. x - 1 \in T
  BY <1>5 DEF T
<1>7. <<x - 1, x>> \in R
  BY <1>4, <1>5 DEF R, OpToRel
<1> QED
  BY <1>3, <1>6, <1>7

NothingThere == [projects |-> {}, environments |-> {}]
Replay(seq) == Resource!FoldLeft(Resource!Replayed, NothingThere, seq)

(* The function the fold is an application of, over the first n places. *)
Folds(g, seq, n) ==
    g = [s \in SUBSET (1..n) |->
            IF s = {} THEN NothingThere
            ELSE Resource!Replayed(g[s \ {Resource!Max(s)}], seq[Resource!Max(s)])]

LEMMA MaxOfPlaces ==
    ASSUME NEW n \in Nat, NEW s \in SUBSET (1..(n + 1)), n + 1 \in s
    PROVE  Resource!Max(s) = n + 1
<1>1. \A x \in s : n + 1 >= x
  OBVIOUS
<1>2. \A x \in s : (\A y \in s : x >= y) => x = n + 1
  BY <1>1
<1> QED
  BY <1>1, <1>2 DEF Resource!Max

LEMMA FoldExists ==
    ASSUME NEW seq
    PROVE  \A n \in Nat : \E g : Folds(g, seq, n)
<1> DEFINE S == {n \in Nat : \E g : Folds(g, seq, n)}
<1>1. 0 \in S
  <2> DEFINE g == [s \in SUBSET (1..0) |-> NothingThere]
  <2>1. 1..0 = {}
    OBVIOUS
  <2>2. g = [s \in SUBSET (1..0) |->
               IF s = {} THEN NothingThere
               ELSE Resource!Replayed(g[s \ {Resource!Max(s)}], seq[Resource!Max(s)])]
    BY <2>1
  <2> HIDE DEF g
  <2> QED
    BY <2>2 DEF Folds
<1>2. ASSUME NEW n \in S
      PROVE  n + 1 \in S
  <2>1. PICK g : Folds(g, seq, n)
    OBVIOUS
  <2>2. n \in Nat
    OBVIOUS
  <2> HIDE DEF S
  <2> DEFINE h == [s \in SUBSET (1..(n + 1)) |->
                     IF n + 1 \in s THEN Resource!Replayed(g[s \ {n + 1}], seq[n + 1]) ELSE g[s]]
             Unroll(f, s) == IF s = {} THEN NothingThere
                           ELSE Resource!Replayed(f[s \ {Resource!Max(s)}], seq[Resource!Max(s)])
  <2>3. ASSUME NEW s \in SUBSET (1..(n + 1))
        PROVE  h[s] = Unroll(h, s)
    <3>1. CASE n + 1 \in s
      <4>1. Resource!Max(s) = n + 1
        BY <2>2, <3>1, MaxOfPlaces
      <4>2. s \ {n + 1} \in SUBSET (1..(n + 1)) /\ n + 1 \notin s \ {n + 1}
        OBVIOUS
      <4>3. h[s \ {n + 1}] = g[s \ {n + 1}]
        BY <4>2
      <4> QED
        BY <3>1, <4>1, <4>3
    <3>2. CASE n + 1 \notin s
      <4>1. s \in SUBSET (1..n)
        BY <2>2, <3>2
      <4>2. h[s] = g[s]
        BY <3>2
      <4>3. g[s] = Unroll(g, s)
        BY <2>1, <4>1 DEF Folds
      <4>4. CASE s = {}
        BY <4>2, <4>3, <4>4
      <4>5. CASE s # {}
        <5>1. s \ {Resource!Max(s)} \in SUBSET (1..(n + 1)) /\ n + 1 \notin s \ {Resource!Max(s)}
          BY <3>2
        <5>2. h[s \ {Resource!Max(s)}] = g[s \ {Resource!Max(s)}]
          BY <5>1
        <5> QED
          BY <4>2, <4>3, <4>5, <5>2
      <4> QED
        BY <4>4, <4>5
    <3> QED
      BY <3>1, <3>2
  <2>4. h = [s \in SUBSET (1..(n + 1)) |-> Unroll(h, s)]
    BY <2>3
  <2>5. Folds(h, seq, n + 1)
    <3> HIDE DEF h
    <3> QED
      BY <2>4 DEF Folds
  <2> QED
    BY <2>2, <2>5 DEF S
<1> HIDE DEF S
<1>3. S \in SUBSET Nat
  BY DEF S
<1>4. S = Nat
  BY <1>1, <1>2, <1>3, SetInduction
<1> QED
  BY <1>4 DEF S

LEMMA FoldIsUnique ==
    ASSUME NEW seq, NEW sequel, NEW n \in Nat, NEW m \in Nat, NEW g, NEW h,
           Folds(g, seq, n), Folds(h, sequel, m), n <= m,
           \A i \in 1..n : seq[i] = sequel[i]
    PROVE  g[1..n] = h[1..n]
<1> DEFINE S == {i \in Nat : i <= n => \A s \in SUBSET (1..i) : g[s] = h[s]}
<1>1. 0 \in S
  <2>1. 1..0 = {} /\ {} \in SUBSET (1..n) /\ {} \in SUBSET (1..m)
    OBVIOUS
  <2>2. g[{}] = NothingThere /\ h[{}] = NothingThere
    BY <2>1 DEF Folds
  <2> QED
    BY <2>1, <2>2
<1>2. ASSUME NEW i \in S
      PROVE  i + 1 \in S
  <2> SUFFICES ASSUME i + 1 <= n, NEW s \in SUBSET (1..(i + 1))
               PROVE  g[s] = h[s]
    OBVIOUS
  <2>1. i \in Nat /\ \A t \in SUBSET (1..i) : g[t] = h[t]
    OBVIOUS
  <2> HIDE DEF S
  <2>2. CASE i + 1 \notin s
    <3>1. s \in SUBSET (1..i)
      BY <2>1, <2>2
    <3> QED
      BY <2>1, <3>1
  <2>3. CASE i + 1 \in s
    <3>1. Resource!Max(s) = i + 1
      BY <2>1, <2>3, MaxOfPlaces
    <3>2. s \in SUBSET (1..n) /\ s \in SUBSET (1..m) /\ s # {} /\ i + 1 \in 1..n
      BY <2>1, <2>3
    <3>3. s \ {i + 1} \in SUBSET (1..i)
      BY <2>1
    <3>4. g[s] = Resource!Replayed(g[s \ {i + 1}], seq[i + 1])
      BY <3>1, <3>2 DEF Folds
    <3>5. h[s] = Resource!Replayed(h[s \ {i + 1}], sequel[i + 1])
      BY <3>1, <3>2 DEF Folds
    <3> QED
      BY <2>1, <3>2, <3>3, <3>4, <3>5
  <2> QED
    BY <2>2, <2>3
<1> HIDE DEF S
<1>3. S \in SUBSET Nat
  BY DEF S
<1>4. S = Nat
  BY <1>1, <1>2, <1>3, SetInduction
<1>5. n \in S /\ 1..n \in SUBSET (1..n)
  BY <1>4
<1> QED
  BY <1>5 DEF S

(* What the log says changes by its last row. *)
LEMMA ReplayUnfolds ==
    ASSUME NEW seq, NEW n \in Nat, DOMAIN seq = 1..n
    PROVE  \E g : Folds(g, seq, n) /\ Replay(seq) = g[1..n]
<1>1. Replay(seq) =
        LET iter[s \in SUBSET DOMAIN seq] ==
              IF s = {} THEN NothingThere
              ELSE Resource!Replayed(iter[s \ {Resource!Max(s)}], seq[Resource!Max(s)])
        IN  iter[DOMAIN seq]
  BY DEF Replay, Resource!FoldLeft, Resource!MapThenFoldSet
<1>2. Replay(seq) = (CHOOSE g : Folds(g, seq, n))[1..n]
  BY <1>1 DEF Folds
<1>3. Folds(CHOOSE g : Folds(g, seq, n), seq, n)
  BY FoldExists
<1> QED
  BY <1>2, <1>3

LEMMA ReplayAppends ==
    ASSUME NEW S, NEW seq \in Seq(S), NEW row \in S
    PROVE  Replay(Append(seq, row)) = Resource!Replayed(Replay(seq), row)
<1> DEFINE n == Len(seq)
           new == Append(seq, row)
<1>1. n \in Nat /\ DOMAIN seq = 1..n /\ DOMAIN new = 1..(n + 1) /\ new[n + 1] = row
      /\ \A i \in 1..n : seq[i] = new[i]
  OBVIOUS
<1> HIDE DEF n, new
<1>2. PICK g : Folds(g, seq, n) /\ Replay(seq) = g[1..n]
  BY <1>1, ReplayUnfolds
<1>3. n + 1 \in Nat
  BY <1>1
<1>4. PICK h : Folds(h, new, n + 1) /\ Replay(new) = h[1..(n + 1)]
  BY <1>1, <1>3, ReplayUnfolds
<1>5. g[1..n] = h[1..n]
  BY <1>1, <1>2, <1>3, <1>4, FoldIsUnique
<1>6. Resource!Max(1..(n + 1)) = n + 1
  BY <1>1, MaxOfPlaces
<1>7. 1..(n + 1) # {} /\ (1..(n + 1)) \ {n + 1} = 1..n
  <2>1. \A k \in Nat : 1..(k + 1) # {} /\ (1..(k + 1)) \ {k + 1} = 1..k
    <3> TAKE k \in Nat
    <3>1. 1 \in 1..(k + 1)
      OBVIOUS
    <3>2. \A i : i \in (1..(k + 1)) \ {k + 1} <=> i \in 1..k
      OBVIOUS
    <3> QED
      BY <3>1, <3>2
  <2> QED
    BY <1>1, <2>1
<1>8. h[1..(n + 1)] = Resource!Replayed(h[1..n], row)
  BY <1>1, <1>4, <1>6, <1>7 DEF Folds
<1> QED
  BY <1>2, <1>4, <1>5, <1>8 DEF new

LEMMA ReplayOfNothing == Replay(<<>>) = NothingThere
<1>1. DOMAIN <<>> = 1..0
  OBVIOUS
<1>2. PICK g : Folds(g, <<>>, 0) /\ Replay(<<>>) = g[1..0]
  BY <1>1, ReplayUnfolds
<1>3. 1..0 = {} /\ {} \in SUBSET (1..0)
  OBVIOUS
<1> QED
  BY <1>2, <1>3 DEF Folds

-----------------------------------------------------------------------------
(* Projects and environments. *)

Kind == Resource!Writing \cup Resource!Reading
Place == {"idle", "role", "project", "environment", "count", "list", "batch", "again", "done"}
Called == ProjectSlug \cup {"none"}
Bid == [does: Kind, slug: Called, role: Resource!Role]
Memo == [at: Place, command: Bid, project: Nat, environment: Nat, counted: Nat, wrote: Nat,
         failed: BOOLEAN, status: Nat, answer: Nat]
LogAction == {"access.denied", "project.create", "project.update", "project.delete",
              "environment.create", "environment.delete"}
LogRow == [action: LogAction, project: Nat, environment: Nat]

ResourcesTyped ==
    /\ projects \subseteq [id: Nat \ {0}, slug: Called]
    /\ environments \subseteq [id: Nat \ {0}, project: Nat]
    /\ IsFiniteSet(environments)
    /\ rows \in Seq(LogRow)
    /\ nextId \in Nat \ {0}
    /\ edit \in [Editor -> Memo]

(* Ids are never given twice, within a table or across them, and a slug     *)
(* names one project.                                                       *)
IdsAreFresh ==
    /\ \A x \in projects \cup environments : x.id < nextId
    /\ \A p \in projects, e \in environments : p.id # e.id
    /\ \A p, q \in projects : p.slug = q.slug \/ p.id = q.id => p = q

(* What a request holds of a row outlives the row, but never comes to name  *)
(* another.                                                                 *)
Holds(ps, es, n, k) ==
    /\ k.project < n /\ k.environment < n /\ k.answer < n
    /\ \A e \in es : e.id # k.project
    /\ \A p \in ps : p.id # k.environment
    /\ \A p \in ps : p.id = k.project => p.slug = k.command.slug

Gone(ps, es, id) == \A x \in ps \cup es : x.id # id

(* Where a request can be. *)
Course(k) ==
    /\ k.at \notin {"again", "done"} => k.wrote = 0
    /\ k.at = "project" => k.command.does # "create project"
    /\ k.at = "again" => k.command.does = "update project" /\ k.wrote \in {0, k.project}
    /\ k.at = "environment" => k.command.does \in {"get environment", "delete environment"}
    /\ k.at = "count" => k.command.does \in {"get environment", "delete environment",
                                             "get project", "delete project"}
    /\ k.at = "list" => k.command.does = "list environments"

IsFailure(status) == status >= 400

(* The excuses of an update: its project went, or the answer could not be   *)
(* read.                                                                    *)
Excused(ps, es, k) ==
    k.command.does = "update project" /\ (Gone(ps, es, k.project) \/ k.failed = TRUE)

Faithful(ps, es, k, answer) ==
    k.command.does = "update project" => answer = k.project \/ Gone(ps, es, k.project)

(* What its answer says, of the rows there are. *)
Says(ps, es, k) ==
    /\ k.status = 201 => k.wrote # 0 /\ k.answer = k.wrote
    /\ k.status = 204 => Gone(ps, es, k.answer)
    /\ IsFailure(k.status) /\ k.wrote # 0 => Excused(ps, es, k)
    /\ k.status = 200 => Faithful(ps, es, k, k.answer)

Courses(ps, es, k) == Course(k) /\ (k.at = "done" => Says(ps, es, k))

Existing == [projects |-> {p.id : p \in projects}, environments |-> environments]
ResourcesInv ==
    /\ ResourcesTyped
    /\ IdsAreFresh
    /\ \A r \in Editor : Holds(projects, environments, nextId, edit[r]) /\ Courses(projects, environments, edit[r])
    /\ Replay(rows) = Existing

LEMMA ResourcesAnswer ==
    ASSUME ResourcesInv
    PROVE  Resource!LogReplays /\ Resource!AnswersAreTrue
<1>1. Resource!LogReplays
  BY DEF Resource!LogReplays, Replay, NothingThere, ResourcesInv, Existing
<1>2. Resource!AnswersAreTrue
  BY DEF Resource!AnswersAreTrue, Resource!Exists, Resource!Does, ResourcesInv, Courses,
         Says, IsFailure, Excused, Faithful, Gone
<1> QED
  BY <1>1, <1>2

LEMMA ResourcesInit ==
    ASSUME Resource!Init
    PROVE  ResourcesInv
<1> USE DEF Resource!Init
<1>1. Resource!Idle \in Memo
  BY DEF Resource!Idle, Memo, Place, Bid, Called, Kind, Resource!Reading, Resource!Role
<1>2. PICK slug \in ProjectSlug : projects = {[id |-> 1, slug |-> slug]}
  OBVIOUS
<1>3. environments = {[id |-> 2, project |-> 1]} /\ nextId = 3
      /\ edit = [r \in Editor |-> Resource!Idle]
  OBVIOUS
<1>4. rows = <<Resource!Row("project.create", 1, 0), Resource!Row("environment.create", 1, 2)>>
  OBVIOUS
<1>5. Resource!Row("project.create", 1, 0) \in LogRow /\ Resource!Row("environment.create", 1, 2) \in LogRow
  BY DEF Resource!Row, LogRow, LogAction
<1>6. ResourcesTyped
  <2>1. IsFiniteSet(environments)
    BY <1>3, FS_Singleton
  <2>2. rows \in Seq(LogRow)
    BY <1>4, <1>5
  <2>3. projects \subseteq [id: Nat \ {0}, slug: Called]
    BY <1>2 DEF Called
  <2>4. environments \subseteq [id: Nat \ {0}, project: Nat]
    BY <1>3
  <2> QED
    BY <1>1, <1>3, <2>1, <2>2, <2>3, <2>4 DEF ResourcesTyped
<1>7. IdsAreFresh
  BY <1>2, <1>3 DEF IdsAreFresh
<1>8. Holds(projects, environments, nextId, Resource!Idle) /\ Courses(projects, environments, Resource!Idle)
  <2>1. Holds(projects, environments, nextId, Resource!Idle)
    <3>1. /\ \A e \in environments : e.id = 2
          /\ \A p \in projects : p.id = 1
      BY <1>2, <1>3
    <3>2. Resource!Idle.project = 0 /\ Resource!Idle.environment = 0 /\ Resource!Idle.answer = 0
      BY DEF Resource!Idle
    <3> QED
      BY <1>3, <3>1, <3>2 DEF Holds
  <2>2. Courses(projects, environments, Resource!Idle)
    BY DEF Courses, Course, Resource!Idle
  <2> QED
    BY <2>1, <2>2
<1>9. Replay(rows) = Existing
  <2> DEFINE first == Resource!Row("project.create", 1, 0)
             second == Resource!Row("environment.create", 1, 2)
  <2>1. <<>> \in Seq(LogRow) /\ <<first>> \in Seq(LogRow) /\ first \in LogRow /\ second \in LogRow
    BY <1>5
  <2>2. Append(<<>>, first) = <<first>> /\ Append(<<first>>, second) = rows
    <3>1. ASSUME NEW x \in LogRow, NEW y \in LogRow
          PROVE  Append(<<>>, x) = <<x>> /\ Append(<<x>>, y) = <<x, y>>
      <4>1. Append(<<>>, x) = <<x>>
        OBVIOUS
      <4>2. Append(<<x>>, y) = <<x, y>>
        <5>1. <<x>> \in Seq(LogRow) /\ <<x, y>> \in Seq(LogRow)
          OBVIOUS
        <5>2. /\ Append(<<x>>, y) \in Seq(LogRow) /\ Len(Append(<<x>>, y)) = 2
              /\ Append(<<x>>, y)[1] = x /\ Append(<<x>>, y)[2] = y
          OBVIOUS
        <5>3. Len(<<x, y>>) = 2 /\ <<x, y>>[1] = x /\ <<x, y>>[2] = y
          OBVIOUS
        <5> DEFINE u == Append(<<x>>, y)
                   v == <<x, y>>
        <5>4. u \in Seq(LogRow) /\ v \in Seq(LogRow) /\ Len(u) = Len(v) /\ \A i \in 1..Len(u) : u[i] = v[i]
          BY <5>1, <5>2, <5>3
        <5> HIDE DEF u, v
        <5>5. u = v
          BY <5>4, SeqEqual
        <5> QED
          BY <5>5 DEF u, v
      <4> QED
        BY <4>1, <4>2
    <3> QED
      BY <1>4, <2>1, <3>1
  <2>3. Resource!Replayed(NothingThere, first) = [projects |-> {1}, environments |-> {}]
    BY DEF Resource!Replayed, NothingThere, Resource!Row
  <2>4. Resource!Replayed([projects |-> {1}, environments |-> {}], second)
          = [projects |-> {1}, environments |-> {[id |-> 2, project |-> 1]}]
    BY DEF Resource!Replayed, Resource!Row
  <2> HIDE DEF first, second
  <2>5. Replay(<<first>>) = Resource!Replayed(NothingThere, first)
    BY <2>1, <2>2, ReplayAppends, ReplayOfNothing
  <2>6. Replay(rows) = Resource!Replayed(Replay(<<first>>), second)
    BY <2>1, <2>2, ReplayAppends
  <2> QED
    BY <1>2, <1>3, <2>3, <2>4, <2>5, <2>6, SMTT(40) DEF Existing
<1> QED
  BY <1>3, <1>6, <1>7, <1>8, <1>9 DEF ResourcesInv

(* A step of one request: rows come with new ids only, so what the others   *)
(* hold and what they have answered stays so.                               *)
LEMMA ResourcesStep ==
    ASSUME ResourcesInv, NEW r \in Editor, NEW k \in Memo, Resource!Set(r, k),
           projects' \subseteq [id: Nat \ {0}, slug: Called],
           environments' \subseteq [id: Nat \ {0}, project: Nat],
           IsFiniteSet(environments'), rows' \in Seq(LogRow), nextId' \in Nat, nextId <= nextId',
           IdsAreFresh', Replay(rows') = Existing',
           \A p \in projects' : p \in projects \/ p.id >= nextId,
           \A e \in environments' : e \in environments \/ e.id >= nextId,
           Holds(projects', environments', nextId', k), Courses(projects', environments', k)
    PROVE  ResourcesInv'
<1>1. nextId \in Nat \ {0} /\ nextId' \in Nat \ {0} /\ edit \in [Editor -> Memo]
  BY DEF ResourcesInv, ResourcesTyped
<1>2. edit' = [edit EXCEPT ![r] = k]
  BY DEF Resource!Set
<1>3. ResourcesTyped'
  BY <1>1, <1>2 DEF ResourcesTyped
<1>4. /\ \A p \in projects' : p.id \in Nat
      /\ \A e \in environments' : e.id \in Nat
  OBVIOUS
<1>5. ASSUME NEW s \in Editor
      PROVE  Holds(projects', environments', nextId', edit'[s]) /\ Courses(projects', environments', edit'[s])
  <2>1. CASE s = r
    BY <1>1, <1>2, <2>1
  <2>2. CASE s # r
    <3>1. edit'[s] = edit[s]
      BY <1>1, <1>2, <2>2
    <3>2. PICK m \in Memo : m = edit[s]
      BY <1>1
    <3>3. Holds(projects, environments, nextId, m) /\ Courses(projects, environments, m)
      BY <3>2 DEF ResourcesInv
    <3>4. m.project \in Nat /\ m.environment \in Nat /\ m.answer \in Nat
      BY DEF Memo
    <3>5. Holds(projects', environments', nextId', m)
      BY <1>1, <1>4, <3>3, <3>4 DEF Holds
    <3>6. \A id \in Nat : Gone(projects, environments, id) /\ id < nextId => Gone(projects', environments', id)
      BY <1>1, <1>4 DEF Gone
    <3>7. (Gone(projects, environments, m.answer) => Gone(projects', environments', m.answer)) /\ (Gone(projects, environments, m.project) => Gone(projects', environments', m.project))
      BY <3>3, <3>4, <3>6 DEF Holds
    <3>8. Courses(projects', environments', m)
      <4>1. Says(projects, environments, m) => Says(projects', environments', m)
        BY <3>7 DEF Says, Excused, Faithful
      <4> QED
        BY <3>3, <4>1 DEF Courses
    <3> QED
      BY <3>1, <3>2, <3>5, <3>8
  <2> QED
    BY <2>1, <2>2
<1> QED
  BY <1>3, <1>5 DEF ResourcesInv

LEMMA QuietResourcesStep ==
    ASSUME ResourcesInv, NEW r \in Editor, NEW k \in Memo, Resource!Set(r, k),
           UNCHANGED <<projects, environments, rows, nextId>>, Holds(projects, environments, nextId, k), Courses(projects, environments, k)
    PROVE  ResourcesInv'
<1>1. Holds(projects', environments', nextId', k) /\ Courses(projects', environments', k)
  BY DEF Holds, Courses, Says, Gone
<1>2. IdsAreFresh' /\ Replay(rows') = Existing'
  BY DEF ResourcesInv, IdsAreFresh, Existing
<1>3. nextId <= nextId'
  BY DEF ResourcesInv, ResourcesTyped
<1> QED
  BY <1>1, <1>2, <1>3, ResourcesStep DEF ResourcesInv, ResourcesTyped

(* A row of the log about nothing that comes or goes. *)
LEMMA RecordedResourcesStep ==
    ASSUME ResourcesInv, NEW r \in Editor, NEW k \in Memo, Resource!Set(r, k),
           UNCHANGED <<projects, environments, nextId>>,
           NEW row \in LogRow, row.action \in {"access.denied", "project.update"},
           rows' = Append(rows, row), Holds(projects, environments, nextId, k), Courses(projects, environments, k)
    PROVE  ResourcesInv'
<1>1. Holds(projects', environments', nextId', k) /\ Courses(projects', environments', k)
  BY DEF Holds, Courses, Says, Gone
<1>2. rows \in Seq(LogRow) /\ Replay(rows) = Existing
  BY DEF ResourcesInv, ResourcesTyped
<1>3. rows' \in Seq(LogRow)
  BY <1>2
<1>4. Replay(rows') = Resource!Replayed(Replay(rows), row)
  BY <1>2, ReplayAppends
<1>5. Resource!Replayed(Replay(rows), row) = Replay(rows)
  BY DEF Resource!Replayed
<1>6. Existing' = Existing
  BY DEF Existing
<1>7. IdsAreFresh' /\ Replay(rows') = Existing'
  BY <1>2, <1>4, <1>5, <1>6 DEF ResourcesInv, IdsAreFresh
<1>8. nextId <= nextId'
  BY DEF ResourcesInv, ResourcesTyped
<1> QED
  BY <1>1, <1>3, <1>7, <1>8, ResourcesStep DEF ResourcesInv, ResourcesTyped

LEMMA AnsweredFacts ==
    ASSUME NEW k \in Memo, NEW status \in Nat, NEW answer \in Nat,
           NEW d, d = Resource!Answered(k, status, answer)
    PROVE  /\ d \in Memo /\ d.at = "done" /\ d.status = status /\ d.answer = answer
           /\ d.command = k.command /\ d.project = k.project /\ d.environment = k.environment
           /\ d.wrote = k.wrote /\ d.failed = k.failed
  BY DEF Memo, Resource!Answered, Place

(* An answer that changed nothing. *)
LEMMA RefusalHolds ==
    ASSUME ResourcesInv, NEW k \in Memo, Holds(projects, environments, nextId, k), k.wrote = 0,
           NEW status \in {403, 404, 409, 500}, NEW d, d = Resource!Answered(k, status, 0)
    PROVE  d \in Memo /\ Holds(projects, environments, nextId, d) /\ Courses(projects, environments, d)
<1>1. nextId \in Nat \ {0}
  BY DEF ResourcesInv, ResourcesTyped
<1>2. /\ d \in Memo /\ d.at = "done" /\ d.status = status /\ d.answer = 0
      /\ d.command = k.command /\ d.project = k.project /\ d.environment = k.environment
      /\ d.wrote = k.wrote /\ d.failed = k.failed
  BY AnsweredFacts
<1>3. Holds(projects, environments, nextId, d)
  BY <1>1, <1>2 DEF Holds
<1>4. Courses(projects, environments, d)
  <2>1. d.wrote = 0 /\ d.at = "done" /\ d.status # 201 /\ d.status # 204 /\ d.status # 200
    BY <1>2
  <2> QED
    BY <2>1 DEF Courses, Course, Says
<1> QED
  BY <1>2, <1>3, <1>4

LEMMA EditFacts ==
    ASSUME ResourcesInv, NEW r \in Editor
    PROVE  /\ edit[r] \in Memo /\ Holds(projects, environments, nextId, edit[r]) /\ Courses(projects, environments, edit[r])
           /\ nextId \in Nat \ {0} /\ rows \in Seq(LogRow)
           /\ Resource!Does(r) = edit[r].command.does /\ edit[r].command \in Bid
  BY DEF ResourcesInv, ResourcesTyped, Memo, Resource!Does

LEMMA BeginResources ==
    ASSUME ResourcesInv, NEW r \in Editor, NEW command \in Resource!Commands, Resource!Begin(r, command)
    PROVE  ResourcesInv'
<1> DEFINE k == [Resource!Idle EXCEPT !.command = command,
                    !.at = IF command.does = "create project" THEN "role" ELSE "project"]
<1>1. Resource!Set(r, k) /\ UNCHANGED <<projects, environments, rows, nextId>>
  BY DEF Resource!Begin, Resource!tables
<1>2. command \in Bid
  BY DEF Resource!Commands, Bid, Called, Kind, Resource!Role, Resource!Writing,
         Resource!Reading
<1>3. k \in Memo /\ k.project = 0 /\ k.environment = 0 /\ k.answer = 0 /\ k.wrote = 0
      /\ k.at = (IF k.command.does = "create project" THEN "role" ELSE "project")
  BY <1>2 DEF Resource!Idle, Memo, Place
<1> HIDE DEF k
<1>4. Holds(projects, environments, nextId, k)
  <2>1. 0 < nextId /\ (\A p \in projects : p.id # 0) /\ (\A e \in environments : e.id # 0)
    BY DEF ResourcesInv, ResourcesTyped
  <2> QED
    BY <1>3, <2>1 DEF Holds
<1>5. Courses(projects, environments, k)
  BY <1>3 DEF Courses, Course
<1> QED
  BY <1>1, <1>3, <1>4, <1>5, QuietResourcesStep

LEMMA DenyResources ==
    ASSUME ResourcesInv, NEW r \in Editor, NEW status \in {403, 404}, Resource!Deny(r, status),
           edit[r].wrote = 0
    PROVE  ResourcesInv'
<1>1. edit[r] \in Memo /\ Holds(projects, environments, nextId, edit[r])
  BY EditFacts
<1>0. PICK d, row : /\ d = Resource!Answered(edit[r], status, 0)
                    /\ row = Resource!Row("access.denied", edit[r].project, 0)
  OBVIOUS
<1>2. Resource!Set(r, d) /\ rows' = Append(rows, row) /\ UNCHANGED <<projects, environments, nextId>>
  BY <1>0 DEF Resource!Deny
<1>3. d \in Memo /\ Holds(projects, environments, nextId, d) /\ Courses(projects, environments, d)
  BY <1>0, <1>1, RefusalHolds
<1>4. row \in LogRow /\ row.action = "access.denied"
  BY <1>0, <1>1 DEF LogRow, LogAction, Resource!Row, Memo
<1> QED
  BY <1>2, <1>3, <1>4, RecordedResourcesStep

(* What a request does that finds its way, or is refused: *)
LEMMA RefusedResources ==
    ASSUME ResourcesInv, NEW r \in Editor, NEW status \in {403, 404, 409, 500},
           Resource!Set(r, Resource!Answered(edit[r], status, 0)),
           UNCHANGED <<projects, environments, rows, nextId>>, edit[r].wrote = 0
    PROVE  ResourcesInv'
<1>0. PICK d : d = Resource!Answered(edit[r], status, 0)
  OBVIOUS
<1>1. Resource!Set(r, d)
  BY <1>0
<1>2. d \in Memo /\ Holds(projects, environments, nextId, d) /\ Courses(projects, environments, d)
  BY <1>0, EditFacts, RefusalHolds
<1> QED
  BY <1>1, <1>2, QuietResourcesStep

LEMMA AssertRoleResources ==
    ASSUME ResourcesInv, NEW r \in Editor, Resource!AssertRole(r)
    PROVE  ResourcesInv'
<1>1. edit[r] \in Memo /\ Holds(projects, environments, nextId, edit[r]) /\ edit[r].wrote = 0
  BY EditFacts DEF Courses, Course, Resource!AssertRole
<1>2. CASE Resource!Deny(r, 403)
  BY <1>1, <1>2, DenyResources
<1>3. CASE Resource!Set(r, [edit[r] EXCEPT !.at = "batch"]) /\ UNCHANGED Resource!tables
  <2> DEFINE k == [edit[r] EXCEPT !.at = "batch"]
  <2>1. /\ k \in Memo /\ k.at = "batch" /\ k.wrote = 0 /\ k.project = edit[r].project
        /\ k.environment = edit[r].environment /\ k.answer = edit[r].answer
        /\ k.command = edit[r].command
    BY <1>1 DEF Memo, Place
  <2>2. Resource!Set(r, k) /\ UNCHANGED <<projects, environments, rows, nextId>>
    BY <1>3 DEF Resource!tables
  <2> HIDE DEF k
  <2>3. Holds(projects, environments, nextId, k) /\ Courses(projects, environments, k)
    BY <1>1, <2>1 DEF Holds, Courses, Course
  <2> QED
    BY <2>1, <2>2, <2>3, QuietResourcesStep
<1> QED
  BY <1>2, <1>3 DEF Resource!AssertRole

LEMMA RequireProjectResources ==
    ASSUME ResourcesInv, NEW r \in Editor, Resource!RequireProject(r)
    PROVE  ResourcesInv'
<1>1. PICK k \in Memo : k = edit[r]
  BY EditFacts
<1>2. /\ Holds(projects, environments, nextId, k) /\ k.wrote = 0 /\ k.command \in Bid
      /\ nextId \in Nat \ {0} /\ Resource!Does(r) = k.command.does
  BY <1>1, EditFacts DEF Courses, Course, Resource!RequireProject
<1>3. CASE Resource!Set(r, Resource!Answered(edit[r], 404, 0)) /\ UNCHANGED Resource!tables
  BY <1>1, <1>2, <1>3, RefusedResources DEF Resource!tables
<1>4. CASE Resource!Deny(r, 403) \/ Resource!Deny(r, 404)
  BY <1>1, <1>2, <1>4, DenyResources
<1>5. ASSUME NEW p \in Resource!Named(k.command.slug),
             Resource!Set(r, [k EXCEPT !.project = p.id, !.at = Resource!After(k.command.does)]),
             UNCHANGED Resource!tables,
             k.command.role = "reader" => k.command.does \in Resource!Reading \cup {"delete environment"}
      PROVE  ResourcesInv'
  <2>1. p \in projects /\ p.slug = k.command.slug /\ p.id \in Nat /\ p.id < nextId
        /\ \A e \in environments : e.id # p.id
    BY DEF Resource!Named, ResourcesInv, ResourcesTyped, IdsAreFresh
  <2> DEFINE m == [k EXCEPT !.project = p.id, !.at = Resource!After(k.command.does)]
  <2>2. k.command.does \in Kind \ {"create project"}
    BY <1>1, <1>2, EditFacts DEF Courses, Course, Resource!RequireProject, Bid
  <2>3. /\ Resource!After(k.command.does) \in {"environment", "count", "list", "batch"}
        /\ Resource!After(k.command.does) = "environment"
             => k.command.does \in {"get environment", "delete environment"}
        /\ Resource!After(k.command.does) = "count"
             => k.command.does \in {"get project", "delete project"}
        /\ Resource!After(k.command.does) = "list" => k.command.does = "list environments"
    BY <2>2 DEF Resource!After, Kind, Resource!Reading, Resource!Writing
  <2>4. PICK at : at = Resource!After(k.command.does)
    OBVIOUS
  <2>5. /\ m \in Memo /\ m.at = at /\ m.project = p.id /\ m.environment = k.environment
        /\ m.answer = k.answer /\ m.wrote = k.wrote /\ m.command = k.command
    BY <2>1, <2>3, <2>4 DEF Memo, Place
  <2>6. Resource!Set(r, m) /\ UNCHANGED <<projects, environments, rows, nextId>>
    BY <1>5 DEF Resource!tables
  <2> HIDE DEF m
  <2>7. Holds(projects, environments, nextId, m)
    <3>1. \A q \in projects : q.id = p.id => q.slug = k.command.slug
      BY <2>1 DEF ResourcesInv, IdsAreFresh
    <3> QED
      BY <1>2, <2>1, <2>5, <3>1 DEF Holds
  <2>8. Courses(projects, environments, m)
    BY <1>2, <2>3, <2>4, <2>5 DEF Courses, Course
  <2> QED
    BY <2>5, <2>6, <2>7, <2>8, QuietResourcesStep
<1>6. CASE \E p \in Resource!Named(k.command.slug) :
             /\ Resource!Set(r, [k EXCEPT !.project = p.id, !.at = Resource!After(k.command.does)])
             /\ UNCHANGED Resource!tables
             /\ k.command.role = "reader" => k.command.does \in Resource!Reading \cup {"delete environment"}
  BY <1>5, <1>6
<1>7. edit[r] = k /\ Resource!Does(r) = k.command.does
  BY <1>1, <1>2
<1>8. \/ Resource!Set(r, Resource!Answered(edit[r], 404, 0)) /\ UNCHANGED Resource!tables
      \/ Resource!Deny(r, 403) \/ Resource!Deny(r, 404)
      \/ \E p \in Resource!Named(k.command.slug) :
             /\ Resource!Set(r, [k EXCEPT !.project = p.id, !.at = Resource!After(k.command.does)])
             /\ UNCHANGED Resource!tables
             /\ k.command.role = "reader" => k.command.does \in Resource!Reading \cup {"delete environment"}
  BY ONLY Resource!RequireProject(r), <1>7, Zenon DEF Resource!RequireProject
<1> QED
  BY ONLY <1>3, <1>4, <1>6, <1>8

(* An answer about rows there are or were. *)
LEMMA AnswerHolds ==
    ASSUME NEW ps, NEW es, NEW n \in Nat, NEW k \in Memo, Holds(ps, es, n, k),
           NEW status \in Nat, NEW answer \in Nat, answer < n,
           NEW d, d = Resource!Answered(k, status, answer)
    PROVE  d \in Memo /\ Holds(ps, es, n, d)
<1>1. /\ d \in Memo /\ d.answer = answer
      /\ d.command = k.command /\ d.project = k.project /\ d.environment = k.environment
  BY DEF Memo, Resource!Answered, Place
<1> QED
  BY <1>1 DEF Holds

LEMMA ReportCourses ==
    ASSUME NEW ps, NEW es, NEW k \in Memo, NEW status \in Nat, NEW answer \in Nat, status = 200,
           Faithful(ps, es, k, answer), NEW d, d = Resource!Answered(k, status, answer)
    PROVE  Courses(ps, es, d)
<1>1. /\ d \in Memo /\ d.at = "done" /\ d.status = 200 /\ d.answer = answer
      /\ d.command = k.command /\ d.project = k.project
  BY ZenonT(40) DEF Memo, Resource!Answered, Place
<1>2. Course(d)
  BY <1>1 DEF Course
<1>3. Faithful(ps, es, d, d.answer)
  BY <1>1, ZenonT(40) DEF Faithful
<1>4. Says(ps, es, d)
  BY <1>1, <1>3 DEF Says, IsFailure
<1> QED
  BY <1>1, <1>2, <1>4 DEF Courses

LEMMA ExcusedCourses ==
    ASSUME NEW ps, NEW es, NEW k \in Memo, NEW status \in Nat, NEW answer \in Nat, status \in {404, 500},
           k.wrote # 0 => Excused(ps, es, k), NEW d, d = Resource!Answered(k, status, answer)
    PROVE  Courses(ps, es, d)
<1>1. /\ d \in Memo /\ d.at = "done" /\ d.status \in {404, 500}
      /\ d.command = k.command /\ d.project = k.project /\ d.failed = k.failed /\ d.wrote = k.wrote
  BY ZenonT(40) DEF Memo, Resource!Answered, Place
<1>2. Course(d)
  BY <1>1 DEF Course
<1>3. d.wrote # 0 => Excused(ps, es, d)
  BY <1>1, ZenonT(40) DEF Excused
<1>4. Says(ps, es, d)
  BY <1>1, <1>3 DEF Says
<1> QED
  BY <1>1, <1>2, <1>4 DEF Courses

LEMMA ReportedResources ==
    ASSUME ResourcesInv, NEW r \in Editor, NEW k \in Memo, k = edit[r], NEW answer \in Nat, answer < nextId,
           Resource!Set(r, Resource!Answered(k, 200, answer)),
           UNCHANGED <<projects, environments, rows, nextId>>,
           Faithful(projects, environments, k, answer)
    PROVE  ResourcesInv'
<1>2. Holds(projects, environments, nextId, k) /\ nextId \in Nat
  BY EditFacts
<1>3. PICK status \in Nat : status = 200
  OBVIOUS
<1>4. PICK d : d = Resource!Answered(k, status, answer)
  OBVIOUS
<1>5. Resource!Set(r, d)
  BY <1>3, <1>4
<1>6. d \in Memo /\ Holds(projects, environments, nextId, d)
  BY <1>2, <1>4, AnswerHolds
<1>7. Courses(projects, environments, d)
  BY <1>3, <1>4, ReportCourses
<1> QED
  BY <1>5, <1>6, <1>7, QuietResourcesStep
LEMMA ExcusedResources ==
    ASSUME ResourcesInv, NEW r \in Editor, NEW k \in Memo, NEW code \in {404, 500},
           Holds(projects, environments, nextId, k), k.wrote # 0 => Excused(projects, environments, k),
           Resource!Set(r, Resource!Answered(k, code, 0)),
           UNCHANGED <<projects, environments, rows, nextId>>
    PROVE  ResourcesInv'
<1>1. nextId \in Nat \ {0}
  BY DEF ResourcesInv, ResourcesTyped
<1>2. PICK status \in Nat : status = code
  OBVIOUS
<1>3. PICK answer \in Nat : answer = 0
  OBVIOUS
<1>4. PICK d : d = Resource!Answered(k, status, answer)
  OBVIOUS
<1>5. Resource!Set(r, d)
  BY <1>2, <1>3, <1>4
<1>6. status \in {404, 500} /\ answer < nextId
  BY <1>1, <1>2, <1>3
<1>7. d \in Memo /\ Holds(projects, environments, nextId, d)
  BY <1>1, <1>4, <1>6, AnswerHolds
<1>8. Courses(projects, environments, d)
  BY <1>4, <1>6, ExcusedCourses
<1> QED
  BY <1>5, <1>7, <1>8, QuietResourcesStep

LEMMA RequireEnvironmentResources ==
    ASSUME ResourcesInv, NEW r \in Editor, Resource!RequireEnvironment(r)
    PROVE  ResourcesInv'
<1>1. PICK k \in Memo : k = edit[r]
  BY EditFacts
<1>2. /\ Holds(projects, environments, nextId, k) /\ k.wrote = 0 /\ k.command \in Bid
      /\ k.command.does \in {"get environment", "delete environment"}
      /\ nextId \in Nat \ {0} /\ Resource!Does(r) = k.command.does
  BY <1>1, EditFacts DEF Courses, Course, Resource!RequireEnvironment
<1>3. CASE Resource!Set(r, Resource!Answered(edit[r], 404, 0)) /\ UNCHANGED Resource!tables
  <2>1. edit[r].wrote = 0 /\ UNCHANGED <<projects, environments, rows, nextId>>
    BY <1>1, <1>2, <1>3 DEF Resource!tables
  <2> QED
    BY <1>3, <2>1, RefusedResources
<1>4. CASE Resource!Deny(r, 403)
  BY <1>1, <1>2, <1>4, DenyResources
<1>5. ASSUME NEW e \in environments, UNCHANGED Resource!tables,
             Resource!Set(r, [k EXCEPT !.environment = e.id, !.at = "count"])
      PROVE  ResourcesInv'
  <2>1. e.id \in Nat /\ e.id < nextId /\ \A p \in projects : p.id # e.id
    BY DEF ResourcesInv, ResourcesTyped, IdsAreFresh
  <2> DEFINE m == [k EXCEPT !.environment = e.id, !.at = "count"]
  <2>2. /\ m \in Memo /\ m.at = "count" /\ m.project = k.project /\ m.environment = e.id
        /\ m.answer = k.answer /\ m.wrote = k.wrote /\ m.command = k.command
    BY <2>1 DEF Memo, Place
  <2>3. Resource!Set(r, m) /\ UNCHANGED <<projects, environments, rows, nextId>>
    BY <1>5 DEF Resource!tables
  <2> HIDE DEF m
  <2>4. Holds(projects, environments, nextId, m)
    BY <1>2, <2>1, <2>2 DEF Holds
  <2>5. Courses(projects, environments, m)
    BY <1>2, <2>2 DEF Courses, Course
  <2> QED
    BY <2>2, <2>3, <2>4, <2>5, QuietResourcesStep
<1> QED
  BY <1>1, <1>2, <1>3, <1>4, <1>5 DEF Resource!RequireEnvironment

LEMMA CardinalitiesAgree ==
    ASSUME NEW S
    PROVE  Resource!Cardinality(S) = Cardinality(S)
  BY DEF Resource!Cardinality, Cardinality

LEMMA CountResources ==
    ASSUME ResourcesInv, NEW r \in Editor, Resource!Count(r)
    PROVE  ResourcesInv'
<1>1. PICK k \in Memo : k = edit[r]
  BY EditFacts
<1>2. /\ Holds(projects, environments, nextId, k) /\ k.wrote = 0 /\ k.command \in Bid
      /\ k.command.does # "update project"
      /\ nextId \in Nat \ {0} /\ Resource!Does(r) = k.command.does
  BY <1>1, EditFacts DEF Courses, Course, Resource!Count
<1>3. ASSUME NEW answer \in {k.project, k.environment},
             Resource!Set(r, Resource!Answered(k, 200, answer)), UNCHANGED Resource!tables
      PROVE  ResourcesInv'
  <2>1. answer \in Nat /\ answer < nextId
    BY <1>2 DEF Holds, Memo
  <2>2. UNCHANGED <<projects, environments, rows, nextId>>
    BY <1>3 DEF Resource!tables
  <2>3. Faithful(projects, environments, k, answer)
    BY <1>2 DEF Faithful
  <2> QED
    BY <1>1, <1>3, <2>1, <2>2, <2>3, ReportedResources
<1>4. ASSUME UNCHANGED Resource!tables, NEW counted \in Nat,
             Resource!Set(r, [k EXCEPT !.at = "batch", !.counted = counted])
      PROVE  ResourcesInv'
  <2> DEFINE m == [k EXCEPT !.at = "batch", !.counted = counted]
  <2>1. /\ m \in Memo /\ m.at = "batch" /\ m.project = k.project /\ m.environment = k.environment
        /\ m.answer = k.answer /\ m.wrote = k.wrote /\ m.command = k.command
    BY DEF Memo, Place
  <2>2. Resource!Set(r, m) /\ UNCHANGED <<projects, environments, rows, nextId>>
    BY <1>4 DEF Resource!tables
  <2> HIDE DEF m
  <2>3. Holds(projects, environments, nextId, m) /\ Courses(projects, environments, m)
    BY <1>2, <2>1 DEF Holds, Courses, Course
  <2> QED
    BY <2>1, <2>2, <2>3, QuietResourcesStep
<1>5. Cardinality({e \in environments : e.project = k.project}) \in Nat
  <2>1. IsFiniteSet({e \in environments : e.project = k.project})
    BY FS_Subset DEF ResourcesInv, ResourcesTyped
  <2> QED
    BY <2>1, FS_CardinalityType
<1>6. UNCHANGED Resource!tables
  BY DEF Resource!Count
<1>7. CASE Resource!Does(r) \in Resource!Writing
  BY <1>1, <1>4, <1>5, <1>6, <1>7, CardinalitiesAgree DEF Resource!Count
<1>8. CASE Resource!Does(r) \notin Resource!Writing
  BY <1>1, <1>3, <1>6, <1>8 DEF Resource!Count
<1> QED
  BY <1>7, <1>8

LEMMA ListResources ==
    ASSUME ResourcesInv, NEW r \in Editor, Resource!List(r)
    PROVE  ResourcesInv'
<1>1. PICK k \in Memo : k = edit[r]
  BY EditFacts
<1>2. Holds(projects, environments, nextId, k) /\ k.command.does = "list environments"
  BY <1>1, EditFacts DEF Courses, Course, Resource!List
<1>3. PICK answer \in Nat : answer = k.project
  BY DEF Memo
<1>4. answer < nextId
  BY <1>2, <1>3 DEF Holds
<1>5. Faithful(projects, environments, k, answer)
  BY <1>2 DEF Faithful
<1>6. /\ Resource!Set(r, Resource!Answered(k, 200, answer))
      /\ UNCHANGED <<projects, environments, rows, nextId>>
  BY <1>1, <1>3 DEF Resource!List, Resource!tables
<1> QED
  BY <1>1, <1>4, <1>5, <1>6, ReportedResources

LEMMA ReadBackResources ==
    ASSUME ResourcesInv, NEW r \in Editor, Resource!ReadBack(r)
    PROVE  ResourcesInv'
<1>1. PICK k \in Memo : k = edit[r]
  BY EditFacts
<1>2. /\ Holds(projects, environments, nextId, k) /\ k.command \in Bid /\ k.at = "again"
      /\ k.command.does = "update project" /\ k.wrote \in {0, k.project}
      /\ nextId \in Nat \ {0} /\ Resource!Does(r) = k.command.does
  BY <1>1, EditFacts DEF Courses, Course, Resource!ReadBack
<1>3. UNCHANGED <<projects, environments, rows, nextId>>
  BY DEF Resource!ReadBack, Resource!tables
<1>4. CASE Resource!Named(k.command.slug) = {}
  <2>1. Gone(projects, environments, k.project)
    BY <1>2, <1>4 DEF Holds, Gone, Resource!Named
  <2>2. Excused(projects, environments, k)
    BY <1>2, <2>1 DEF Excused
  <2>3. PICK code \in {404, 500} : code = 404
    OBVIOUS
  <2>4. Resource!Set(r, Resource!Answered(k, code, 0))
    BY <1>1, <1>4, <1>2, <2>3 DEF Resource!ReadBack
  <2> QED
    <3>1. Holds(projects, environments, nextId, k)
      BY <1>2
    <3> QED
      BY <1>3, <2>2, <2>4, <3>1, ExcusedResources
<1>5. ASSUME NEW p \in Resource!Named(k.command.slug), Resource!Set(r, Resource!Answered(k, 200, p.id))
      PROVE  ResourcesInv'
  <2>1. p \in projects /\ p.slug = k.command.slug /\ p.id \in Nat /\ p.id < nextId
    BY DEF Resource!Named, ResourcesInv, ResourcesTyped, IdsAreFresh
  <2>2. p.id = k.project \/ Gone(projects, environments, k.project)
    <3> SUFFICES ASSUME ~Gone(projects, environments, k.project)
                 PROVE  p.id = k.project
      OBVIOUS
    <3>1. PICK q \in projects : q.id = k.project
      BY <1>2 DEF Gone, Holds
    <3>2. q.slug = p.slug
      BY <1>2, <2>1, <3>1 DEF Holds
    <3> QED
      BY <2>1, <3>1, <3>2 DEF ResourcesInv, IdsAreFresh
  <2>3. Faithful(projects, environments, k, p.id)
    BY <2>2 DEF Faithful
  <2>4. PICK answer \in Nat : answer = p.id
    BY <2>1
  <2>5. answer < nextId
    BY <2>1, <2>4
  <2>6. Faithful(projects, environments, k, answer) /\ Resource!Set(r, Resource!Answered(k, 200, answer))
    BY <1>5, <2>3, <2>4
  <2> QED
    BY <1>1, <1>3, <2>5, <2>6, ReportedResources
<1> QED
  BY <1>1, <1>4, <1>5 DEF Resource!ReadBack

LEMMA FailResources ==
    ASSUME ResourcesInv, NEW r \in Editor, Resource!Fail(r)
    PROVE  ResourcesInv'
<1>1. PICK k \in Memo : k = edit[r]
  BY EditFacts
<1>2. /\ Holds(projects, environments, nextId, k) /\ Course(k) /\ k.at \notin {"idle", "done"}
      /\ nextId \in Nat
  BY <1>1, EditFacts DEF Courses, Resource!Fail
<1>3. PICK f : f = [k EXCEPT !.failed = TRUE]
  OBVIOUS
<1>4. /\ f \in Memo /\ f.failed = TRUE /\ f.wrote = k.wrote /\ f.project = k.project
      /\ f.environment = k.environment /\ f.command = k.command /\ f.answer = k.answer
  BY <1>3 DEF Memo
<1>5. Holds(projects, environments, nextId, f)
  BY <1>2, <1>4 DEF Holds
<1>6. f.wrote # 0 => Excused(projects, environments, f)
  BY <1>2, <1>4 DEF Course, Excused
<1>7. Resource!Set(r, Resource!Answered(f, 500, 0))
  BY <1>1, <1>3 DEF Resource!Fail
<1>8. UNCHANGED <<projects, environments, rows, nextId>>
  BY DEF Resource!Fail, Resource!tables
<1> QED
  BY <1>4, <1>5, <1>6, <1>7, <1>8, ExcusedResources

LEMMA UpdateProjectResources ==
    ASSUME ResourcesInv, NEW r \in Editor, Resource!UpdateProject(r)
    PROVE  ResourcesInv'
<1>1. PICK k \in Memo : k = edit[r]
  BY EditFacts
<1>2. /\ Holds(projects, environments, nextId, k) /\ k.command.does = "update project"
  BY <1>1, EditFacts DEF Resource!UpdateProject
<1>3. PICK wrote : wrote = IF \E p \in projects : p.id = k.project THEN k.project ELSE 0
  OBVIOUS
<1> DEFINE m == [k EXCEPT !.at = "again", !.wrote = wrote]
           row == Resource!Row("project.update", k.project, 0)
<1>4. /\ m \in Memo /\ m.at = "again" /\ m.wrote = wrote /\ m.project = k.project
      /\ m.environment = k.environment /\ m.answer = k.answer /\ m.command = k.command
  BY <1>3 DEF Memo, Place
<1>5. row \in LogRow /\ row.action = "project.update"
  BY DEF LogRow, LogAction, Resource!Row, Memo
<1>6. Resource!Set(r, m) /\ rows' = Append(rows, row) /\ UNCHANGED <<projects, environments, nextId>>
  BY <1>1, <1>3 DEF Resource!UpdateProject
<1> HIDE DEF m, row
<1>7. Holds(projects, environments, nextId, m) /\ Courses(projects, environments, m)
  BY <1>2, <1>3, <1>4 DEF Holds, Courses, Course
<1> QED
  BY <1>4, <1>5, <1>6, <1>7, RecordedResourcesStep

(* The answer of a batch that was applied. *)
LEMMA CreatedAnswer ==
    ASSUME NEW ps, NEW es, NEW n \in Nat, NEW k \in Memo, Holds(ps, es, n, k),
           NEW id \in Nat, id # 0, id < n, NEW status \in Nat, status = 201,
           NEW m, m = [k EXCEPT !.wrote = id], NEW d, d = Resource!Answered(m, status, id)
    PROVE  d \in Memo /\ Holds(ps, es, n, d) /\ Courses(ps, es, d)
<1>1. /\ m \in Memo /\ m.project = k.project /\ m.environment = k.environment
      /\ m.command = k.command /\ m.answer = k.answer /\ m.wrote = id
  BY DEF Memo
<1>2. Holds(ps, es, n, m)
  BY <1>1 DEF Holds
<1>3. d \in Memo /\ Holds(ps, es, n, d)
  BY <1>1, <1>2, AnswerHolds
<1>4. d.at = "done" /\ d.status = status /\ d.answer = id /\ d.wrote = id
  BY <1>1 DEF Memo, Resource!Answered, Place
<1>5. status # 204 /\ status # 200 /\ ~IsFailure(status)
  BY DEF IsFailure
<1>6. Course(d)
  BY <1>4 DEF Course
<1>7. Says(ps, es, d)
  BY <1>4, <1>5 DEF Says
<1> QED
  BY <1>3, <1>6, <1>7 DEF Courses

LEMMA DeletedAnswer ==
    ASSUME NEW ps, NEW es, NEW n \in Nat, NEW k \in Memo, Holds(ps, es, n, k),
           NEW id \in Nat, id < n, Gone(ps, es, id), NEW status \in Nat, status = 204,
           NEW m, m = [k EXCEPT !.wrote = id], NEW d, d = Resource!Answered(m, status, id)
    PROVE  d \in Memo /\ Holds(ps, es, n, d) /\ Courses(ps, es, d)
<1>1. /\ m \in Memo /\ m.project = k.project /\ m.environment = k.environment
      /\ m.command = k.command /\ m.answer = k.answer /\ m.wrote = id
  BY DEF Memo
<1>2. Holds(ps, es, n, m)
  BY <1>1 DEF Holds
<1>3. d \in Memo /\ Holds(ps, es, n, d)
  BY <1>1, <1>2, AnswerHolds
<1>4. d.at = "done" /\ d.status = status /\ d.answer = id
  BY <1>1 DEF Memo, Resource!Answered, Place
<1>5. status # 201 /\ status # 200 /\ ~IsFailure(status)
  BY DEF IsFailure
<1>6. Course(d)
  BY <1>4 DEF Course
<1>7. Says(ps, es, d)
  BY <1>4, <1>5 DEF Says
<1> QED
  BY <1>3, <1>6, <1>7 DEF Courses

(* What a row of the log does to what has been replayed. *)
Tables(ps, es) == [projects |-> {p.id : p \in ps}, environments |-> es]

LEMMA ProjectCreationReplays ==
    ASSUME NEW ps, NEW es, NEW id \in Nat, NEW slug, NEW p, p = [id |-> id, slug |-> slug],
           NEW row, row = Resource!Row("project.create", id, 0), NEW after, after = ps \cup {p}
    PROVE  Resource!Replayed(Tables(ps, es), row) = Tables(after, es)
<1>1. {x.id : x \in after} = {x.id : x \in ps} \cup {id}
  <2>1. p.id = id
    OBVIOUS
  <2>2. {x.id : x \in after} = {x.id : x \in ps} \cup {p.id}
    OBVIOUS
  <2> QED
    BY <2>1, <2>2
<1>2. Resource!Replayed(Tables(ps, es), row)
        = [projects |-> {x.id : x \in ps} \cup {id}, environments |-> es]
  BY DEF Resource!Replayed, Resource!Row, Tables
<1> QED
  BY <1>1, <1>2 DEF Tables

LEMMA EnvironmentCreationReplays ==
    ASSUME NEW ps, NEW es, NEW id \in Nat, NEW project, NEW e, e = [id |-> id, project |-> project],
           NEW row, row = Resource!Row("environment.create", project, id), NEW after, after = es \cup {e}
    PROVE  Resource!Replayed(Tables(ps, es), row) = Tables(ps, after)
  BY DEF Resource!Replayed, Resource!Row, Tables

LEMMA ProjectDeletionReplays ==
    ASSUME NEW ps, NEW es, NEW id, NEW row, row = Resource!Row("project.delete", id, 0),
           NEW left, left = {p \in ps : p.id # id}, NEW rest, rest = {e \in es : e.project # id}
    PROVE  Resource!Replayed(Tables(ps, es), row) = Tables(left, rest)
<1>1. {p.id : p \in left} = {p.id : p \in ps} \ {id}
  OBVIOUS
<1>2. Resource!Replayed(Tables(ps, es), row)
        = [projects |-> {p.id : p \in ps} \ {id}, environments |-> {e \in es : e.project # id}]
  BY DEF Resource!Replayed, Resource!Row, Tables
<1> QED
  BY <1>1, <1>2 DEF Tables

LEMMA EnvironmentDeletionReplays ==
    ASSUME NEW ps, NEW es, NEW id, NEW project, NEW row, row = Resource!Row("environment.delete", project, id),
           NEW rest, rest = {e \in es : e.id # id}
    PROVE  Resource!Replayed(Tables(ps, es), row) = Tables(ps, rest)
  BY DEF Resource!Replayed, Resource!Row, Tables

LEMMA ReplayedStep ==
    ASSUME ResourcesInv, NEW row \in LogRow, rows' = Append(rows, row),
           Resource!Replayed(Tables(projects, environments), row) = Tables(projects', environments')
    PROVE  rows' \in Seq(LogRow) /\ Replay(rows') = Existing'
<1>1. rows \in Seq(LogRow) /\ Replay(rows) = Tables(projects, environments)
  BY DEF ResourcesInv, ResourcesTyped, Existing, Tables
<1>2. rows' \in Seq(LogRow)
  BY <1>1
<1>3. Replay(rows') = Resource!Replayed(Replay(rows), row)
  BY <1>1, ReplayAppends
<1> QED
  BY <1>1, <1>2, <1>3 DEF Existing, Tables

(* What a creation at its batch finds, and that its new id is nobody's yet.  *)
LEMMA FreshHolds ==
    ASSUME NEW ps, NEW es, NEW n \in Nat, NEW k \in Memo, Holds(ps, es, n, k), NEW x, x.id = n
    PROVE  Holds(ps \cup {x}, es, n + 1, k) /\ Holds(ps, es \cup {x}, n + 1, k)
<1>1. k.project \in Nat /\ k.environment \in Nat /\ k.answer \in Nat
  BY DEF Memo
<1>2. k.project < n /\ k.environment < n /\ k.answer < n
  BY DEF Holds
<1>3. k.project # n /\ k.environment # n /\ k.project < n + 1 /\ k.environment < n + 1 /\ k.answer < n + 1
  BY <1>1, <1>2
<1> QED
  BY <1>3 DEF Holds

LEMMA FreshProjectHolds ==
    ASSUME NEW ps, NEW es, NEW n \in Nat, NEW k \in Memo, Holds(ps, es, n, k), NEW x, x.id = n,
           NEW after, after = ps \cup {x}, NEW next, next = n + 1
    PROVE  Holds(after, es, next, k)
  BY FreshHolds

LEMMA FreshEnvironmentHolds ==
    ASSUME NEW ps, NEW es, NEW n \in Nat, NEW k \in Memo, Holds(ps, es, n, k), NEW x, x.id = n,
           NEW after, after = es \cup {x}, NEW next, next = n + 1
    PROVE  Holds(ps, after, next, k)
  BY FreshHolds

LEMMA CreateProjectResources ==
    ASSUME ResourcesInv, NEW r \in Editor, Resource!CreateProject(r)
    PROVE  ResourcesInv'
<1>1. PICK k \in Memo : k = edit[r]
  BY EditFacts
<1>2. /\ Holds(projects, environments, nextId, k) /\ k.wrote = 0 /\ k.command.slug \in Called
      /\ nextId \in Nat \ {0}
  BY <1>1, EditFacts DEF Courses, Course, Resource!CreateProject, Bid
<1>3. CASE Resource!Named(k.command.slug) # {}
  <2>1. edit[r].wrote = 0 /\ UNCHANGED <<projects, environments, rows, nextId>>
    BY <1>1, <1>2, <1>3 DEF Resource!CreateProject, Resource!tables
  <2>2. PICK status \in {403, 404, 409, 500} : status = 409
    OBVIOUS
  <2>3. Resource!Set(r, Resource!Answered(edit[r], status, 0))
    BY <1>1, <1>3, <2>2 DEF Resource!CreateProject
  <2> QED
    BY <2>1, <2>3, RefusedResources
<1>4. CASE Resource!Named(k.command.slug) = {}
  <2>1. PICK id, slug, status, m, d, row, p :
           /\ id = nextId /\ slug = k.command.slug /\ status = 201
           /\ m = [k EXCEPT !.wrote = id] /\ d = Resource!Answered(m, status, id)
           /\ row = Resource!Row("project.create", id, 0)
           /\ p = [id |-> id, slug |-> slug]
    OBVIOUS
  <2>2. /\ projects' = projects \cup {p} /\ environments' = environments
        /\ rows' = Append(rows, row) /\ nextId' = id + 1 /\ Resource!Set(r, d)
    BY <1>1, <1>4, <2>1 DEF Resource!CreateProject
  <2>3. id \in Nat /\ id # 0 /\ slug \in Called
    BY <1>2, <2>1
  <2>4. row \in LogRow
    BY <2>1, <2>3 DEF Resource!Row, LogRow, LogAction
  <2>5. Resource!Replayed(Tables(projects, environments), row) = Tables(projects', environments')
    <3>1. p = [id |-> id, slug |-> slug] /\ row = Resource!Row("project.create", id, 0)
      BY <2>1
    <3>2. Resource!Replayed(Tables(projects, environments), row) = Tables(projects', environments)
      BY <2>2, <2>3, <3>1, ProjectCreationReplays
    <3> QED
      BY <2>2, <3>2
  <2>6. rows' \in Seq(LogRow) /\ Replay(rows') = Existing'
    BY <2>2, <2>4, <2>5, ReplayedStep
  <2>7. p.id = id /\ p.slug = slug /\ p \in [id: Nat \ {0}, slug: Called]
    BY <2>1, <2>3
  <2>8. IdsAreFresh'
    <3>1. /\ \A x \in projects \cup environments : x.id \in Nat /\ x.id < id
          /\ \A x \in projects, e \in environments : x.id # e.id
          /\ \A x, y \in projects : x.slug = y.slug \/ x.id = y.id => x = y
      BY <2>1 DEF ResourcesInv, ResourcesTyped, IdsAreFresh
    <3>2. \A x \in projects : x.slug # slug
      BY <1>4, <2>1 DEF Resource!Named
    <3>3. \A x \in projects \cup environments : x.id < id + 1 /\ x.id # id
      BY <2>3, <3>1
    <3> QED
      BY <2>2, <2>3, <2>7, <3>1, <3>2, <3>3 DEF IdsAreFresh
  <2>9. Holds(projects', environments', nextId', k)
    <3>1. Holds(projects, environments, id, k)
      BY <1>2, <2>1
    <3>2. Holds(projects', environments, nextId', k)
      BY <2>2, <2>3, <2>7, <3>1, FreshProjectHolds
    <3> QED
      BY <2>2, <3>2
  <2>10. d \in Memo /\ Holds(projects', environments', nextId', d) /\ Courses(projects', environments', d)
    <3>1. nextId' \in Nat /\ id < nextId' /\ status \in Nat /\ status = 201
      BY <2>1, <2>2, <2>3
    <3>2. m = [k EXCEPT !.wrote = id] /\ d = Resource!Answered(m, status, id)
      BY <2>1
    <3> QED
      BY <2>3, <2>9, <3>1, <3>2, CreatedAnswer
  <2>11. nextId' \in Nat /\ nextId <= nextId' /\ \A x \in projects' : x \in projects \/ x.id >= nextId
    BY <2>1, <2>2, <2>3, <2>7
  <2>12. /\ projects' \subseteq [id: Nat \ {0}, slug: Called]
         /\ environments' \subseteq [id: Nat \ {0}, project: Nat] /\ IsFiniteSet(environments')
    BY <2>2, <2>7 DEF ResourcesInv, ResourcesTyped
  <2>13. \A e \in environments' : e \in environments \/ e.id >= nextId
    BY <2>2
  <2> QED
    BY <2>2, <2>6, <2>8, <2>10, <2>11, <2>12, <2>13, ResourcesStep
<1> QED
  BY <1>3, <1>4

LEMMA CreateEnvironmentResources ==
    ASSUME ResourcesInv, NEW r \in Editor, Resource!CreateEnvironment(r)
    PROVE  ResourcesInv'
<1>1. PICK k \in Memo : k = edit[r]
  BY EditFacts
<1>2. /\ Holds(projects, environments, nextId, k) /\ k.wrote = 0 /\ k.project \in Nat
      /\ nextId \in Nat \ {0}
  BY <1>1, EditFacts DEF Courses, Course, Resource!CreateEnvironment, Memo
<1>3. ASSUME NEW status \in {403, 404, 409, 500}, Resource!Set(r, Resource!Answered(edit[r], status, 0)),
             UNCHANGED Resource!tables
      PROVE  ResourcesInv'
  <2>1. edit[r].wrote = 0 /\ UNCHANGED <<projects, environments, rows, nextId>>
    BY <1>1, <1>2, <1>3 DEF Resource!tables
  <2> QED
    BY <1>3, <2>1, RefusedResources
<1>4. CASE Resource!Set(r, Resource!Answered(edit[r], 409, 0)) /\ UNCHANGED Resource!tables
  <2>1. PICK status \in {403, 404, 409, 500} : status = 409
    OBVIOUS
  <2> QED
    BY <1>3, <1>4, <2>1
<1>5. CASE Resource!Set(r, Resource!Answered(edit[r], 500, 0)) /\ UNCHANGED Resource!tables
  <2>1. PICK status \in {403, 404, 409, 500} : status = 500
    OBVIOUS
  <2> QED
    BY <1>3, <1>5, <2>1
<1>6. CASE /\ \E p \in projects : p.id = k.project
           /\ \A e \in environments : e.project # k.project
           /\ environments' = environments \cup {[id |-> nextId, project |-> k.project]}
           /\ rows' = Append(rows, Resource!Row("environment.create", k.project, nextId))
           /\ nextId' = nextId + 1
           /\ Resource!Set(r, Resource!Answered([k EXCEPT !.wrote = nextId], 201, nextId))
           /\ UNCHANGED projects
  <2>1. PICK id, project, status, m, d, row, e :
           /\ id = nextId /\ project = k.project /\ status = 201
           /\ m = [k EXCEPT !.wrote = id] /\ d = Resource!Answered(m, status, id)
           /\ row = Resource!Row("environment.create", project, id)
           /\ e = [id |-> id, project |-> project]
    OBVIOUS
  <2>2. /\ projects' = projects /\ environments' = environments \cup {e}
        /\ rows' = Append(rows, row) /\ nextId' = id + 1 /\ Resource!Set(r, d)
    BY <1>6, <2>1
  <2>3. id \in Nat /\ id # 0 /\ project \in Nat
    BY <1>2, <2>1
  <2>4. row \in LogRow
    BY <2>1, <2>3 DEF Resource!Row, LogRow, LogAction
  <2>5. Resource!Replayed(Tables(projects, environments), row) = Tables(projects', environments')
    <3>1. e = [id |-> id, project |-> project] /\ row = Resource!Row("environment.create", project, id)
      BY <2>1
    <3>2. Resource!Replayed(Tables(projects, environments), row) = Tables(projects, environments')
      BY <2>2, <2>3, <3>1, EnvironmentCreationReplays
    <3> QED
      BY <2>2, <3>2
  <2>6. rows' \in Seq(LogRow) /\ Replay(rows') = Existing'
    BY <2>2, <2>4, <2>5, ReplayedStep
  <2>7. e.id = id /\ e.project = project /\ e \in [id: Nat \ {0}, project: Nat]
    BY <2>1, <2>3
  <2>8. IdsAreFresh'
    <3>1. /\ \A x \in projects \cup environments : x.id \in Nat /\ x.id < id
          /\ \A x \in projects, y \in environments : x.id # y.id
          /\ \A x, y \in projects : x.slug = y.slug \/ x.id = y.id => x = y
      BY <2>1 DEF ResourcesInv, ResourcesTyped, IdsAreFresh
    <3>3. \A x \in projects \cup environments : x.id < id + 1 /\ x.id # id
      BY <2>3, <3>1
    <3> QED
      BY <2>2, <2>3, <2>7, <3>1, <3>3 DEF IdsAreFresh
  <2>9. Holds(projects', environments', nextId', k)
    <3>1. Holds(projects, environments, id, k)
      BY <1>2, <2>1
    <3>2. Holds(projects, environments', nextId', k)
      BY <2>2, <2>3, <2>7, <3>1, FreshEnvironmentHolds
    <3> QED
      BY <2>2, <3>2
  <2>10. d \in Memo /\ Holds(projects', environments', nextId', d) /\ Courses(projects', environments', d)
    <3>1. nextId' \in Nat /\ id < nextId' /\ status \in Nat /\ status = 201
      BY <2>1, <2>2, <2>3
    <3>2. m = [k EXCEPT !.wrote = id] /\ d = Resource!Answered(m, status, id)
      BY <2>1
    <3> QED
      BY <2>3, <2>9, <3>1, <3>2, CreatedAnswer
  <2>11. nextId' \in Nat /\ nextId <= nextId' /\ \A x \in environments' : x \in environments \/ x.id >= nextId
    BY <2>1, <2>2, <2>3, <2>7
  <2>12. /\ projects' \subseteq [id: Nat \ {0}, slug: Called]
         /\ environments' \subseteq [id: Nat \ {0}, project: Nat] /\ IsFiniteSet(environments')
    BY <2>2, <2>7, FS_AddElement DEF ResourcesInv, ResourcesTyped
  <2>13. \A p \in projects' : p \in projects \/ p.id >= nextId
    BY <2>2
  <2> QED
    BY <2>2, <2>6, <2>8, <2>10, <2>11, <2>12, <2>13, ResourcesStep
<1> QED
  BY <1>1, <1>4, <1>5, <1>6 DEF Resource!CreateEnvironment

(* What a deletion leaves. *)
LEMMA LeftoversStep ==
    ASSUME ResourcesInv, NEW r \in Editor, NEW k \in Memo, k = edit[r],
           projects' \subseteq projects, environments' \subseteq environments, nextId' = nextId,
           NEW row \in LogRow, rows' = Append(rows, row),
           Resource!Replayed(Tables(projects, environments), row) = Tables(projects', environments'),
           NEW id \in Nat, id < nextId, Gone(projects', environments', id), NEW status \in Nat, status = 204,
           NEW m, m = [k EXCEPT !.wrote = id], NEW d, d = Resource!Answered(m, status, id), Resource!Set(r, d)
    PROVE  ResourcesInv'
<1>3. rows' \in Seq(LogRow) /\ Replay(rows') = Existing'
  BY ReplayedStep
<1>4. IdsAreFresh'
  BY DEF ResourcesInv, IdsAreFresh
<1>5. Holds(projects', environments', nextId', k)
  <2>1. Holds(projects, environments, nextId, k)
    BY EditFacts
  <2> QED
    BY <2>1 DEF Holds
<1>6. nextId \in Nat
  BY EditFacts
<1>7. d \in Memo /\ Holds(projects', environments', nextId', d) /\ Courses(projects', environments', d)
  <2>1. nextId' \in Nat /\ id < nextId'
    BY <1>6
  <2> QED
    BY <1>5, <2>1, DeletedAnswer
<1>8. /\ projects' \subseteq [id: Nat \ {0}, slug: Called]
      /\ environments' \subseteq [id: Nat \ {0}, project: Nat] /\ IsFiniteSet(environments')
  BY FS_Subset DEF ResourcesInv, ResourcesTyped
<1>9. nextId' \in Nat /\ nextId <= nextId'
  BY <1>6
<1>10. /\ \A p \in projects' : p \in projects \/ p.id >= nextId
       /\ \A e \in environments' : e \in environments \/ e.id >= nextId
  OBVIOUS
<1> QED
  BY <1>3, <1>4, <1>7, <1>8, <1>9, <1>10, ResourcesStep

LEMMA DeleteProjectResources ==
    ASSUME ResourcesInv, NEW r \in Editor, Resource!DeleteProject(r)
    PROVE  ResourcesInv'
<1>1. PICK k \in Memo : k = edit[r]
  BY EditFacts
<1>2. Holds(projects, environments, nextId, k)
  BY <1>1, EditFacts
<1>3. PICK id \in Nat : id = k.project
  BY DEF Memo
<1>4. PICK row, status, m, d :
         /\ row = Resource!Row("project.delete", id, 0) /\ status = 204
         /\ m = [k EXCEPT !.wrote = id] /\ d = Resource!Answered(m, status, id)
  OBVIOUS
<1>5. /\ projects' = {p \in projects : p.id # id} /\ environments' = {e \in environments : e.project # id}
      /\ rows' = Append(rows, row) /\ nextId' = nextId
      /\ Resource!Set(r, d)
  BY <1>1, <1>3, <1>4 DEF Resource!DeleteProject
<1>6. row \in LogRow
  BY <1>4 DEF Resource!Row, LogRow, LogAction
<1>7. Resource!Replayed(Tables(projects, environments), row) = Tables(projects', environments')
  BY <1>4, <1>5, ProjectDeletionReplays
<1>8. id < nextId /\ Gone(projects', environments', id)
  BY <1>2, <1>3, <1>5 DEF Holds, Gone
<1>9. projects' \subseteq projects /\ environments' \subseteq environments
  BY <1>5
<1>10. status \in Nat /\ status = 204
  BY <1>4
<1>11. m = [k EXCEPT !.wrote = id] /\ d = Resource!Answered(m, status, id)
  BY <1>4
<1> QED
  BY <1>1, <1>5, <1>6, <1>7, <1>8, <1>9, <1>10, <1>11, LeftoversStep

LEMMA DeleteEnvironmentResources ==
    ASSUME ResourcesInv, NEW r \in Editor, Resource!DeleteEnvironment(r)
    PROVE  ResourcesInv'
<1>1. PICK k \in Memo : k = edit[r]
  BY EditFacts
<1>2. Holds(projects, environments, nextId, k)
  BY <1>1, EditFacts
<1>3. PICK id \in Nat, project \in Nat : id = k.environment /\ project = k.project
  BY DEF Memo
<1>4. PICK row, status, m, d :
         /\ row = Resource!Row("environment.delete", project, id) /\ status = 204
         /\ m = [k EXCEPT !.wrote = id] /\ d = Resource!Answered(m, status, id)
  OBVIOUS
<1>5. /\ projects' = projects /\ environments' = {e \in environments : e.id # id}
      /\ rows' = Append(rows, row) /\ nextId' = nextId
      /\ Resource!Set(r, d)
  BY <1>1, <1>3, <1>4 DEF Resource!DeleteEnvironment
<1>6. row \in LogRow
  BY <1>4 DEF Resource!Row, LogRow, LogAction
<1>7. Resource!Replayed(Tables(projects, environments), row) = Tables(projects', environments')
  <2>1. Resource!Replayed(Tables(projects, environments), row) = Tables(projects, environments')
    BY <1>4, <1>5, EnvironmentDeletionReplays
  <2> QED
    BY <1>5, <2>1
<1>8. id < nextId /\ Gone(projects', environments', id)
  BY <1>2, <1>3, <1>5 DEF Holds, Gone
<1>9. projects' \subseteq projects /\ environments' \subseteq environments
  BY <1>5
<1>10. status \in Nat /\ status = 204
  BY <1>4
<1>11. m = [k EXCEPT !.wrote = id] /\ d = Resource!Answered(m, status, id)
  BY <1>4
<1> QED
  BY <1>1, <1>5, <1>6, <1>7, <1>8, <1>9, <1>10, <1>11, LeftoversStep

LEMMA ResourcesKept ==
    ASSUME ResourcesInv, Resource!Next
    PROVE  ResourcesInv'
<1>1. ASSUME NEW r \in Editor, NEW command \in Resource!Commands, Resource!Begin(r, command)
      PROVE  ResourcesInv'
  BY <1>1, BeginResources
<1> QED
  BY <1>1, AssertRoleResources, RequireProjectResources, RequireEnvironmentResources,
     CountResources,
     ListResources, CreateProjectResources, UpdateProjectResources, ReadBackResources,
     DeleteProjectResources, CreateEnvironmentResources, DeleteEnvironmentResources, FailResources
  DEF Resource!Next

-----------------------------------------------------------------------------
(* The secret of one service token. *)

AskPc == {"idle", "row", "rows", "list", "before", "refresh", "audit", "retire", "rotate", "issue",
       "enable", "record", "look", "remove", "answered", "dead"}
Asking == {"none", "create", "rotate", "refresh", "revoke", "list"}
RowState == {"none", "active", "revoked"}
LeakState == {"none", "current", "old"}
StatusSaid == {"none", "active", "missing", "revoked"}
AnswerSaid == {"none", "done", "NOT_FOUND", "CONFLICT", "UPSTREAM_FAILED", "INTERNAL",
               "SERVICE_TOKENS_UNCONFIGURED"}
Doing == {"rotated", "gone", "leaked", "disabled", "grace ended"}

Ask == [pc: AskPc, kind: Asking, grace: BOOLEAN, row: RowState, leak: LeakState, enabled: BOOLEAN,
        secret: Nat, old: Nat, warned: BOOLEAN, status: StatusSaid, answer: AnswerSaid,
        meanwhile: SUBSET Doing]
Tok == [state: {"unborn", "live", "gone"}, enabled: BOOLEAN, leak: LeakState,
        secret: Nat, previous: Nat]

(* The token itself: before it is made it has nothing. *)
TokenOK(tok, rec) ==
    /\ tok.state = "unborn" =>
          tok.secret = 0 /\ tok.previous = 0 /\ tok.enabled = TRUE /\ tok.leak = "none" /\ rec = "none"
    /\ tok.state # "unborn" => tok.secret # 0
    /\ tok.previous # 0 => tok.previous < tok.secret

(* How far a request has come, and what it may rely on there. *)
StepOK(tok, rec, tr, r) ==
    /\ r.pc \notin {"enable", "record", "look", "answered", "dead"} => r.secret = 0 /\ r.old = 0
    /\ r.pc = "idle" => r.kind = "none"
    /\ r.pc \in {"rows", "list"} => r.status = "none"
    /\ r.pc = "issue" => r.kind = "create" /\ tok.state = "unborn"
    /\ r.pc \in {"row", "rows", "list", "refresh", "audit", "retire"} => r.kind # "create"
    /\ r.kind = "create" /\ r.pc \in {"issue", "record", "remove"} => rec = "none"
    /\ r.pc \in {"before", "rotate", "enable"} => r.kind = "rotate"
    /\ r.pc \in {"before", "refresh", "audit", "retire", "rotate", "enable", "look"} => r.row = "active"
    /\ r.pc = "record" =>
          r.kind \in {"create", "rotate"} /\ r.secret # 0 /\ (r.kind = "rotate" => r.row = "active")
    /\ r.pc = "enable" => r.secret # 0
    /\ r.pc \in {"record", "remove"} => tok.state # "unborn"
    /\ r.pc = "look" => r.kind \in {"create", "rotate"} /\ <<r.kind, r.secret>> \in tr
    /\ r.row = "revoked" => rec = "revoked"
    /\ r.row # "none" => tok.state # "unborn" /\ (r.kind = "create" \/ rec # "none")
    /\ r.kind = "create" => r.old = 0 /\ r.grace = FALSE

(* What it has said, and the secrets it has had. *)
SaidOK(tok, rec, tr, r) ==
    /\ r.pc = "answered" /\ r.answer = "done" /\ r.secret # 0 => <<r.kind, r.secret>> \in tr
    /\ r.status = "missing" => tok.state # "unborn"
    /\ r.status = "revoked" => rec = "revoked"
    /\ r.secret <= tok.secret
    /\ r.secret # 0 => r.old # 0 \/ r.kind = "create"
    /\ r.old # 0 => r.old < tok.secret /\ (r.grace = FALSE => tok.previous # r.old)

(* Unless somebody has done something to the token, it is as the request    *)
(* left it.                                                                 *)
Undisturbed(r) == r.meanwhile \subseteq {"grace ended"}
Late == {"enable", "record", "look", "answered"}
Kept(tok, r) ==
    /\ tok.state = "live"
    /\ r.pc = "enable" => tok.leak # "current"
    /\ r.pc # "enable" /\ r.warned = FALSE => tok.enabled = TRUE
KeepsOK(tok, r) ==
    /\ r.pc = "rotate" /\ Undisturbed(r) =>
          tok.state = "live" /\ r.leak = tok.leak /\ (r.enabled = TRUE => tok.enabled = TRUE)
    /\ r.pc \in Late /\ r.secret # 0 /\ Undisturbed(r) => Kept(tok, r) /\ tok.secret = r.secret
    /\ r.pc \in Late /\ r.old # 0 /\ r.grace = TRUE /\ r.meanwhile = {} =>
          Kept(tok, r) /\ tok.previous = r.old

AskOK(tok, rec, tr, r) == StepOK(tok, rec, tr, r) /\ SaidOK(tok, rec, tr, r) /\ KeepsOK(tok, r)

(* One request creates, and no two have been given one secret. *)
Apart(x, y) ==
    /\ x.secret # 0 => y.secret # x.secret
    /\ ~(x.kind = "create" /\ y.kind = "create")

SecretsInv ==
    /\ token \in Tok /\ record \in RowState /\ asked \in [Slot -> Ask]
    /\ TokenOK(token, record)
    /\ \A s \in Slot : AskOK(token, record, trail, asked[s])
    /\ \A s, t \in Slot : s # t => Apart(asked[s], asked[t])

Same(r, d) ==
    /\ d.pc = r.pc /\ d.kind = r.kind /\ d.grace = r.grace /\ d.row = r.row /\ d.leak = r.leak
    /\ d.enabled = r.enabled /\ d.secret = r.secret /\ d.old = r.old /\ d.warned = r.warned
    /\ d.status = r.status /\ d.answer = r.answer

(* What becomes of the token and its row while a request waits, and what it *)
(* is told of it.                                                           *)
Changes(tok, rec, after, now) ==
    /\ tok.state # "unborn" => after.state # "unborn"
    /\ tok.state = "gone" => after.state = "gone"
    /\ rec = "revoked" => now = "revoked"
    /\ rec # "none" => now # "none"
    /\ tok.secret <= after.secret
    /\ after.previous \in {0, tok.previous, tok.secret}

Survives(tok, rec, after, now, r, d) ==
    /\ Changes(tok, rec, after, now)
    /\ Same(r, d) /\ r.meanwhile \subseteq d.meanwhile
    /\ r.kind = "create" => (tok.state = "unborn" => after.state = "unborn") /\ (rec = "none" => now = "none")
    /\ Undisturbed(d) /\ tok.state = "live" =>
          /\ after.state = "live"
          /\ after.leak = tok.leak /\ after.secret = tok.secret
          /\ tok.enabled = TRUE => after.enabled = TRUE
    /\ d.meanwhile = {} => after.previous = tok.previous

LEMMA WaitingStaysOK ==
    ASSUME NEW tok \in Tok, NEW after \in Tok, NEW rec \in RowState, NEW now \in RowState,
           NEW tr, NEW trl, tr \subseteq trl, NEW r \in Ask, NEW d \in Ask,
           AskOK(tok, rec, tr, r), Survives(tok, rec, after, now, r, d)
    PROVE  AskOK(after, now, trl, d)
<1>1. Same(r, d) /\ Changes(tok, rec, after, now)
  BY DEF Survives
<1>2. StepOK(after, now, trl, d)
  <2>1. StepOK(tok, rec, tr, r)
    BY DEF AskOK
  <2>2. r.kind = "create" => (tok.state = "unborn" => after.state = "unborn") /\ (rec = "none" => now = "none")
    BY DEF Survives
  <2> QED
    BY <1>1, <2>1, <2>2 DEF StepOK, Same, Changes
<1>3. SaidOK(after, now, trl, d)
  <2>1. SaidOK(tok, rec, tr, r)
    BY DEF AskOK
  <2>2. d.secret <= after.secret
    BY <1>1, <2>1 DEF SaidOK, Same, Changes, Tok, Ask
  <2>3. d.old # 0 => d.old < after.secret /\ (d.grace = FALSE => after.previous # d.old)
    <3>1. r.old # 0 => r.old < tok.secret /\ (r.grace = FALSE => tok.previous # r.old)
      BY <2>1 DEF SaidOK
    <3>2. d.old = r.old /\ d.grace = r.grace /\ tok.secret <= after.secret /\ after.previous \in {0, tok.previous, tok.secret}
      BY <1>1 DEF Same, Changes
    <3>3. r.old \in Nat /\ tok.secret \in Nat /\ after.secret \in Nat
      BY DEF Tok, Ask
    <3> QED
      BY <3>1, <3>2, <3>3
  <2> QED
    BY <1>1, <2>1, <2>2, <2>3 DEF SaidOK, Same, Changes
<1>4. KeepsOK(after, d)
  <2>1. KeepsOK(tok, r)
    BY DEF AskOK
  <2>2. (Undisturbed(d) => Undisturbed(r)) /\ (d.meanwhile = {} => Undisturbed(d) /\ r.meanwhile = {})
    BY DEF Survives, Undisturbed
  <2>3. /\ Undisturbed(d) /\ tok.state = "live" =>
            /\ after.state = "live"
            /\ after.leak = tok.leak /\ after.secret = tok.secret
            /\ tok.enabled = TRUE => after.enabled = TRUE
        /\ d.meanwhile = {} => after.previous = tok.previous
    BY DEF Survives
  <2>4. Undisturbed(d) /\ Kept(tok, r) => Kept(after, d)
    BY <1>1, <2>3 DEF Kept, Same
  <2>5. d.pc = "rotate" /\ Undisturbed(d) =>
           after.state = "live" /\ d.leak = after.leak /\ (d.enabled = TRUE => after.enabled = TRUE)
    BY <1>1, <2>1, <2>2, <2>3 DEF KeepsOK, Same
  <2>6. d.pc \in Late /\ d.secret # 0 /\ Undisturbed(d) => Kept(after, d) /\ after.secret = d.secret
    <3>1. d.pc = r.pc /\ d.secret = r.secret
      BY <1>1 DEF Same
    <3>2. r.pc \in Late /\ r.secret # 0 /\ Undisturbed(r) => Kept(tok, r) /\ tok.secret = r.secret
      BY <2>1 DEF KeepsOK
    <3>3. Kept(tok, r) => tok.state = "live"
      BY DEF Kept
    <3> QED
      BY <2>2, <2>3, <2>4, <3>1, <3>2, <3>3
  <2>7. d.pc \in Late /\ d.old # 0 /\ d.grace = TRUE /\ d.meanwhile = {} =>
           Kept(after, d) /\ after.previous = d.old
    <3>1. d.pc = r.pc /\ d.old = r.old /\ d.grace = r.grace
      BY <1>1 DEF Same
    <3>2. r.pc \in Late /\ r.old # 0 /\ r.grace = TRUE /\ r.meanwhile = {} =>
             Kept(tok, r) /\ tok.previous = r.old
      BY <2>1 DEF KeepsOK
    <3> QED
      BY <2>2, <2>3, <2>4, <3>1, <3>2
  <2> QED
    BY <2>5, <2>6, <2>7 DEF KeepsOK
<1> QED
  BY <1>2, <1>3, <1>4 DEF AskOK

(* A step of one request. *)
LEMMA SecretsStep ==
    ASSUME SecretsInv, NEW s \in Slot, NEW d \in Ask, asked' \in [Slot -> Ask], asked'[s] = d,
           token' \in Tok, record' \in RowState, trail \subseteq trail', TokenOK(token', record'),
           AskOK(token', record', trail', d),
           \A t \in Slot : t # s =>
              /\ Survives(token, record, token', record', asked[t], asked'[t])
              /\ Apart(d, asked[t]) /\ Apart(asked[t], d)
    PROVE  SecretsInv'
<1>1. ASSUME NEW t \in Slot, t # s
      PROVE  AskOK(token', record', trail', asked'[t])
  <2>1. PICK x \in Ask, y \in Ask : x = asked[t] /\ y = asked'[t]
    BY DEF SecretsInv
  <2>2. AskOK(token, record, trail, x) /\ Survives(token, record, token', record', x, y)
    BY <1>1, <2>1 DEF SecretsInv
  <2>3. token \in Tok /\ record \in RowState
    BY DEF SecretsInv
  <2>4. AskOK(token', record', trail', y)
    BY <2>2, <2>3, WaitingStaysOK
  <2> QED
    BY <2>1, <2>4
<1>2. ASSUME NEW t \in Slot, NEW u \in Slot, t # u
      PROVE  Apart(asked'[t], asked'[u])
  <2>1. Apart(asked[t], asked[u])
    BY <1>2 DEF SecretsInv
  <2>2. /\ t # s => Same(asked[t], asked'[t])
        /\ u # s => Same(asked[u], asked'[u])
    BY DEF Survives
  <2>3. CASE t = s
    BY <1>2, <2>2, <2>3 DEF Apart, Same
  <2>4. CASE u = s
    BY <1>2, <2>2, <2>4 DEF Apart, Same
  <2>5. CASE t # s /\ u # s
    BY <2>1, <2>2, <2>5 DEF Apart, Same
  <2> QED
    BY <2>3, <2>4, <2>5
<1>3. \A t \in Slot : AskOK(token', record', trail', asked'[t])
  BY <1>1
<1>4. \A t, u \in Slot : t # u => Apart(asked'[t], asked'[u])
  BY <1>2
<1> QED
  BY <1>3, <1>4 DEF SecretsInv

LEMMA NothingHappens ==
    ASSUME NEW tok \in Tok, NEW rec, NEW r \in Ask
    PROVE  Survives(tok, rec, tok, rec, r, r)
<1>1. tok.secret <= tok.secret
  BY DEF Tok
<1> QED
  BY <1>1 DEF Survives, Changes, Same

LEMMA AskFacts ==
    ASSUME SecretsInv, NEW s \in Slot
    PROVE  /\ asked[s] \in Ask /\ AskOK(token, record, trail, asked[s])
           /\ token \in Tok /\ record \in RowState /\ TokenOK(token, record)
  BY DEF SecretsInv

(* A step that leaves the token and its row alone.                          *)
LEMMA QuietSecretsStep ==
    ASSUME SecretsInv, NEW s \in Slot, NEW d \in Ask, asked' = [asked EXCEPT ![s] = d],
           UNCHANGED <<token, record>>, trail \subseteq trail',
           AskOK(token, record, trail', d), d.secret \in {0, asked[s].secret},
           d.kind = asked[s].kind \/ d.kind # "create"
    PROVE  SecretsInv'
<1>1. asked' \in [Slot -> Ask] /\ asked'[s] = d /\ \A t \in Slot : t # s => asked'[t] = asked[t]
  BY DEF SecretsInv
<1>2. token' \in Tok /\ record' \in RowState /\ TokenOK(token', record')
  BY DEF SecretsInv
<1>3. AskOK(token', record', trail', d)
  OBVIOUS
<1>4. ASSUME NEW t \in Slot, t # s
      PROVE  /\ Survives(token, record, token', record', asked[t], asked'[t])
             /\ Apart(d, asked[t]) /\ Apart(asked[t], d)
  <2>1. asked'[t] = asked[t] /\ asked[t] \in Ask /\ token \in Tok
    BY <1>1, <1>4 DEF SecretsInv
  <2>2. Survives(token, record, token, record, asked[t], asked[t])
    BY <2>1, NothingHappens
  <2>3. Apart(asked[s], asked[t]) /\ Apart(asked[t], asked[s])
    BY <1>4 DEF SecretsInv
  <2> QED
    BY <2>1, <2>2, <2>3 DEF Apart
<1> QED
  BY <1>1, <1>2, <1>3, <1>4, SecretsStep

(* What the answers need. *)
LEMMA SecretsAnswer ==
    ASSUME SecretsInv
    PROVE  /\ Secrets!HandedOutSecretsWork /\ Secrets!UnrecordedRotationsAreExplained
<1>1. Secrets!HandedOutSecretsWork
  <2> SUFFICES ASSUME NEW s \in Slot, Secrets!HandedOut(s)
               PROVE  /\ <<asked[s].kind, asked[s].secret>> \in trail
                      /\ \A t \in Slot : t # s /\ Secrets!HandedOut(t) => asked[t].secret # asked[s].secret
                      /\ ~asked[s].warned /\ asked[s].meanwhile \subseteq {"grace ended"} => Secrets!Works(asked[s].secret)
                      /\ ~asked[s].warned /\ asked[s].meanwhile = {} /\ asked[s].grace => Secrets!Works(asked[s].old)
    BY DEF Secrets!HandedOutSecretsWork
  <2>1. asked[s].pc = "answered" /\ asked[s].answer = "done" /\ asked[s].secret # 0
    BY DEF Secrets!HandedOut, Secrets!Answered, Secrets!NoSecret
  <2>2. PICK r \in Ask : r = asked[s]
    BY AskFacts
  <2>3. StepOK(token, record, trail, r) /\ SaidOK(token, record, trail, r) /\ KeepsOK(token, r)
    BY <2>2, AskFacts DEF AskOK
  <2>4. <<r.kind, r.secret>> \in trail
    BY <2>1, <2>2, <2>3 DEF SaidOK
  <2>5. \A t \in Slot : t # s => asked[t].secret # r.secret
    BY <2>1, <2>2 DEF SecretsInv, Apart
  <2>6. r.warned \in BOOLEAN /\ r.grace \in BOOLEAN
    BY DEF Ask
  <2>7. r.warned = FALSE /\ Undisturbed(r) => Secrets!Works(r.secret)
    <3>1. r.warned = FALSE /\ Undisturbed(r) =>
            token.state = "live" /\ token.enabled = TRUE /\ token.secret = r.secret
      BY <2>1, <2>2, <2>3 DEF KeepsOK, Kept, Late
    <3> QED
      BY <2>1, <2>2, <3>1 DEF Secrets!Works, Secrets!There, Secrets!NoSecret
  <2>8. r.warned = FALSE /\ r.meanwhile = {} /\ r.grace = TRUE => Secrets!Works(r.old)
    <3>1. r.grace = TRUE => r.old # 0
      BY <2>1, <2>2, <2>3 DEF SaidOK, StepOK
    <3>2. r.warned = FALSE /\ r.meanwhile = {} /\ r.grace = TRUE =>
            token.state = "live" /\ token.enabled = TRUE /\ token.previous = r.old
      BY <2>1, <2>2, <2>3, <3>1 DEF KeepsOK, Kept, Late
    <3> QED
      BY <3>1, <3>2 DEF Secrets!Works, Secrets!There, Secrets!NoSecret
  <2> QED
    BY <2>2, <2>4, <2>5, <2>6, <2>7, <2>8 DEF Undisturbed
<1>2. Secrets!UnrecordedRotationsAreExplained
  <2> SUFFICES ASSUME NEW s \in Slot, asked[s].pc = "answered", asked[s].old # 0
               PROVE  /\ ~asked[s].grace => ~Secrets!Works(asked[s].old)
                      /\ asked[s].grace /\ ~asked[s].warned /\ asked[s].meanwhile = {} => Secrets!Works(asked[s].old)
    BY DEF Secrets!UnrecordedRotationsAreExplained, Secrets!NoSecret
  <2>2. PICK r \in Ask : r = asked[s]
    BY AskFacts
  <2>3. SaidOK(token, record, trail, r) /\ KeepsOK(token, r)
    BY <2>2, AskFacts DEF AskOK
  <2>4. r.grace \in BOOLEAN /\ r.warned \in BOOLEAN /\ r.old \in Nat /\ token.secret \in Nat
    BY AskFacts DEF Ask, Tok
  <2>5. r.grace = FALSE => ~Secrets!Works(r.old)
    BY <2>2, <2>3, <2>4 DEF SaidOK, Secrets!Works
  <2>6. r.warned = FALSE /\ r.meanwhile = {} /\ r.grace = TRUE => Secrets!Works(r.old)
    <3>2. r.warned = FALSE /\ r.meanwhile = {} /\ r.grace = TRUE =>
            token.state = "live" /\ token.enabled = TRUE /\ token.previous = r.old
      BY <2>2, <2>3 DEF KeepsOK, Kept, Late
    <3> QED
      BY <2>2, <3>2 DEF Secrets!Works, Secrets!There, Secrets!NoSecret
  <2> QED
    BY <2>2, <2>4, <2>5, <2>6
<1> QED
  BY <1>1, <1>2

LEMMA LeastExists ==
    ASSUME NEW S \in SUBSET Nat, S # {}
    PROVE  \E n \in S : \A m \in S : n <= m
<1> DEFINE R == OpToRel(<, Nat)
<1>1. IsWellFoundedOn(R, Nat)
  BY NatLessThanWellFounded
<1> HIDE DEF R
<1>2. PICK n \in S : \A m \in S : ~(<<m, n>> \in R)
  BY <1>1, WFMin
<1>3. \A m \in S : m < n => <<m, n>> \in R
  BY DEF R, OpToRel
<1>4. \A m \in S : m \in Nat
  OBVIOUS
<1>5. \A m \in S : ~(m < n)
  BY <1>2, <1>3
<1> QED
  BY <1>4, <1>5

(* The pages of a listing: the first that ends it has the whole, and if none *)
(* does there are more tokens than pages hold.                               *)
LEMMA OnePage ==
    ASSUME NEW per \in Nat, per >= 1, per <= PageSize, NEW n \in Nat,
           NEW told \in SUBSET {"total_pages", "total_count", "per_page"},
           told # {} \/ per = PageSize, NEW page \in Nat, page >= 1
    PROVE  IF ~Secrets!More(n, per, told, page) \/ Secrets!Got(n, per, page) = Secrets!Got(n, per, page - 1)
           THEN Secrets!Got(n, per, page) = n ELSE n >= page * per
<1>1. PICK k \in Nat, j \in Nat : k = page * per /\ j = (page - 1) * per /\ k = j + per
  <2>1. page * per \in Nat /\ (page - 1) * per \in Nat
    OBVIOUS
  <2>2. page * per = (page - 1) * per + per
    OBVIOUS
  <2> QED
    BY <2>1, <2>2
<1>2. PICK x, y : x = Secrets!Got(n, per, page) /\ y = Secrets!Got(n, per, page - 1)
  OBVIOUS
<1>3. x = (IF n < k THEN n ELSE k) /\ y = (IF n < j THEN n ELSE j)
  BY <1>1, <1>2 DEF Secrets!Got, Secrets!Least
<1>4. CASE "total_pages" \in told
  <2>1. Secrets!More(n, per, told, page) <=> k < n
    BY <1>1, <1>4 DEF Secrets!More, Secrets!MoreAfter
  <2> QED
    BY <1>1, <1>2, <1>3, <2>1
<1>5. CASE "total_count" \in told /\ "total_pages" \notin told
  <2>1. Secrets!More(n, per, told, page) <=> x < n
    BY <1>2, <1>5 DEF Secrets!More, Secrets!MoreAfter
  <2> QED
    BY <1>1, <1>2, <1>3, <2>1
<1>6. CASE "total_count" \notin told /\ "total_pages" \notin told
  <2>1. Secrets!More(n, per, told, page) <=> x - y >= per
    <3>1. CASE "per_page" \in told
      BY <1>2, <1>6, <3>1 DEF Secrets!More, Secrets!MoreAfter
    <3>2. CASE "per_page" \notin told
      <4>1. told = {} /\ per = PageSize
        BY <1>6, <3>2
      <4> QED
        BY <1>2, <1>6, <3>2, <4>1 DEF Secrets!More, Secrets!MoreAfter
    <3> QED
      BY <3>1, <3>2
  <2> QED
    BY <1>1, <1>2, <1>3, <2>1
<1> QED
  BY <1>4, <1>5, <1>6

LEMMA ListingIsWhole ==
    ASSUME NEW per \in 1..PageSize, NEW n \in Nat,
           NEW told \in SUBSET {"total_pages", "total_count", "per_page"}, told # {} \/ per = PageSize
    PROVE  /\ Secrets!Listed(n, per, told) # "some"
           /\ Secrets!Listed(n, per, told) = "malformed" => n >= MaxPages * per
<1>1. PageSize \in Nat /\ MaxPages \in Nat /\ per \in Nat /\ per >= 1 /\ per <= PageSize
  BY PagesAssumption
<1>2. PICK last : last = Secrets!LastPage(n, per, told)
  OBVIOUS
<1>3. CASE last = {}
  <2>1. Secrets!Listed(n, per, told) = "malformed"
    BY <1>2, <1>3 DEF Secrets!Listed
  <2>2. CASE MaxPages = 0
    BY <1>1, <2>1, <2>2
  <2>3. CASE MaxPages # 0
    <3>1. MaxPages \in 1..MaxPages /\ MaxPages >= 1
      BY <1>1, <2>3
    <3>2. ~(~Secrets!More(n, per, told, MaxPages) \/ Secrets!Got(n, per, MaxPages) = Secrets!Got(n, per, MaxPages - 1))
      BY <1>2, <1>3, <3>1 DEF Secrets!LastPage
    <3>3. n >= MaxPages * per
      BY <1>1, <3>1, <3>2, OnePage
    <3> QED
      BY <2>1, <3>3
  <2> QED
    BY <2>2, <2>3
<1>4. CASE last # {}
  <2>1. last \subseteq 1..MaxPages
    BY <1>2 DEF Secrets!LastPage
  <2>2. \E p \in last : \A q \in last : p <= q
    <3>1. last \in SUBSET Nat
      BY <1>1, <2>1
    <3> QED
      BY <1>4, <3>1, LeastExists
  <2>3. PICK page : page = CHOOSE p \in last : \A q \in last : p <= q
    OBVIOUS
  <2>4. page \in last
    BY <2>2, <2>3
  <2>5. page \in Nat /\ page >= 1
    BY <1>1, <2>1, <2>4
  <2>6. ~Secrets!More(n, per, told, page) \/ Secrets!Got(n, per, page) = Secrets!Got(n, per, page - 1)
    BY <1>2, <2>4 DEF Secrets!LastPage
  <2>7. Secrets!Got(n, per, page) = n
    BY <1>1, <2>5, <2>6, OnePage
  <2>8. Secrets!Listed(n, per, told) = "all"
    BY <1>2, <1>4, <2>3, <2>7 DEF Secrets!Listed
  <2> QED
    BY <2>8
<1> QED
  BY <1>3, <1>4

LEMMA ListingsAreWhole == Secrets!ListingsAreWhole
<1>1. PageSize \in Nat /\ MaxPages \in Nat
  BY PagesAssumption
<1>2. 0..(MaxPages * PageSize + 1) \subseteq Nat
  BY <1>1
<1> QED
  BY <1>2, ListingIsWhole DEF Secrets!ListingsAreWhole, Secrets!Told

(* A request that ends with an error. *)
LEMMA ThrownSecrets ==
    ASSUME SecretsInv, NEW s \in Slot, NEW code \in AnswerSaid \ {"none", "done"}, Secrets!Throw(s, code),
           UNCHANGED <<token, record, trail>>,
           asked[s].old = 0 \/ asked[s].pc = "record"
    PROVE  SecretsInv'
<1>1. PICK r \in Ask : r = asked[s]
  BY AskFacts
<1>2. PICK d : d = [r EXCEPT !.pc = "answered", !.answer = code, !.secret = 0]
  OBVIOUS
<1>3. asked' = [asked EXCEPT ![s] = d]
  BY <1>1, <1>2 DEF Secrets!Throw, Secrets!NoSecret, SecretsInv
<1>4. /\ d \in Ask /\ d.pc = "answered" /\ d.answer = code /\ d.secret = 0 /\ d.kind = r.kind
      /\ d.grace = r.grace /\ d.row = r.row /\ d.leak = r.leak /\ d.enabled = r.enabled
      /\ d.old = r.old /\ d.warned = r.warned /\ d.status = r.status /\ d.meanwhile = r.meanwhile
  BY <1>2 DEF Ask, AskPc, AnswerSaid
<1>5. AskOK(token, record, trail, r) /\ (r.old = 0 \/ r.pc = "record")
  BY <1>1, AskFacts
<1>6. StepOK(token, record, trail, d)
  BY <1>4, <1>5 DEF AskOK, StepOK
<1>7. SaidOK(token, record, trail, d)
  <2>1. SaidOK(token, record, trail, r)
    BY <1>5 DEF AskOK
  <2>2. d.secret <= token.secret
    BY <1>4, AskFacts DEF Tok
  <2> QED
    BY <1>4, <2>1, <2>2 DEF SaidOK
<1>8. KeepsOK(token, d)
  BY <1>4, <1>5 DEF AskOK, KeepsOK, Late, Kept, Undisturbed
<1>9. AskOK(token, record, trail', d)
  BY <1>6, <1>7, <1>8 DEF AskOK
<1> QED
  BY <1>1, <1>3, <1>4, <1>9, QuietSecretsStep

LEMMA BeginSecrets ==
    ASSUME SecretsInv, NEW s \in Slot, Secrets!Begin(s)
    PROVE  SecretsInv'
<1>1. UNCHANGED <<token, record, trail>>
  BY DEF Secrets!Begin
<1>2. token \in Tok /\ record \in RowState
  BY AskFacts
<1>3. ASSUME NEW d \in Ask, asked' = [asked EXCEPT ![s] = d],
             d.secret = 0, d.old = 0, d.status = "none", d.row = "none",
             d.pc \in {"row", "rows"}, d.kind # "create"
      PROVE  SecretsInv'
  <2>1. AskOK(token, record, trail, d)
    BY <1>2, <1>3 DEF AskOK, StepOK, SaidOK, KeepsOK, Late, Tok
  <2> QED
    BY <1>1, <1>3, <2>1, QuietSecretsStep
<1>4. ASSUME NEW grace \in BOOLEAN,
             asked' = [asked EXCEPT ![s] = [Secrets!Idle EXCEPT !.pc = "row", !.kind = "rotate", !.grace = grace]]
      PROVE  SecretsInv'
  <2>1. PICK d : d = [Secrets!Idle EXCEPT !.pc = "row", !.kind = "rotate", !.grace = grace]
    OBVIOUS
  <2>2. /\ d \in Ask /\ d.secret = 0 /\ d.old = 0 /\ d.status = "none" /\ d.row = "none"
        /\ d.pc = "row" /\ d.kind = "rotate"
    BY <2>1 DEF Ask, AskPc, Asking, RowState, LeakState, StatusSaid, AnswerSaid, Doing,
       Secrets!Idle, Secrets!NoSecret
  <2> QED
    BY <1>3, <1>4, <2>1, <2>2
<1>5. ASSUME NEW kind \in {"refresh", "revoke"},
             asked' = [asked EXCEPT ![s] = [Secrets!Idle EXCEPT !.pc = "row", !.kind = kind]]
      PROVE  SecretsInv'
  <2>1. PICK d : d = [Secrets!Idle EXCEPT !.pc = "row", !.kind = kind]
    OBVIOUS
  <2>2. /\ d \in Ask /\ d.secret = 0 /\ d.old = 0 /\ d.status = "none" /\ d.row = "none"
        /\ d.pc = "row" /\ d.kind # "create"
    BY <2>1 DEF Ask, AskPc, Asking, RowState, LeakState, StatusSaid, AnswerSaid, Doing,
       Secrets!Idle, Secrets!NoSecret
  <2> QED
    BY <1>3, <1>5, <2>1, <2>2
<1>6. ASSUME asked' = [asked EXCEPT ![s] = [Secrets!Idle EXCEPT !.pc = "rows", !.kind = "list"]]
      PROVE  SecretsInv'
  <2>1. PICK d : d = [Secrets!Idle EXCEPT !.pc = "rows", !.kind = "list"]
    OBVIOUS
  <2>2. /\ d \in Ask /\ d.secret = 0 /\ d.old = 0 /\ d.status = "none" /\ d.row = "none"
        /\ d.pc = "rows" /\ d.kind # "create"
    BY <2>1 DEF Ask, AskPc, Asking, RowState, LeakState, StatusSaid, AnswerSaid, Doing,
       Secrets!Idle, Secrets!NoSecret
  <2> QED
    BY <1>3, <1>6, <2>1, <2>2
<1>7. ASSUME token.state = "unborn", \A t \in Slot : asked[t].kind # "create",
             asked' = [asked EXCEPT ![s] = [Secrets!Idle EXCEPT !.pc = "issue", !.kind = "create"]]
      PROVE  SecretsInv'
  <2>1. PICK d : d = [Secrets!Idle EXCEPT !.pc = "issue", !.kind = "create"]
    OBVIOUS
  <2>2. /\ d \in Ask /\ d.secret = 0 /\ d.old = 0 /\ d.status = "none" /\ d.row = "none"
        /\ d.pc = "issue" /\ d.kind = "create" /\ d.grace = FALSE
    BY <2>1 DEF Ask, AskPc, Asking, RowState, LeakState, StatusSaid, AnswerSaid, Doing,
       Secrets!Idle, Secrets!NoSecret
  <2>3. AskOK(token, record, trail, d)
    <3>1. record = "none" /\ token.secret = 0
      BY <1>7, AskFacts DEF TokenOK
    <3>2. StepOK(token, record, trail, d)
      BY <1>7, <2>2, <3>1 DEF StepOK
    <3>3. SaidOK(token, record, trail, d)
      BY <2>2, <3>1 DEF SaidOK
    <3>4. KeepsOK(token, d)
      BY <2>2 DEF KeepsOK, Late
    <3> QED
      BY <3>2, <3>3, <3>4 DEF AskOK
  <2>4. /\ asked' \in [Slot -> Ask] /\ asked'[s] = d /\ \A t \in Slot : t # s => asked'[t] = asked[t]
    BY <1>7, <2>1, <2>2 DEF SecretsInv
  <2>5. ASSUME NEW t \in Slot, t # s
        PROVE  /\ Survives(token, record, token', record', asked[t], asked'[t])
               /\ Apart(d, asked[t]) /\ Apart(asked[t], d)
    <3>1. asked'[t] = asked[t] /\ asked[t] \in Ask
      BY <2>4, <2>5, AskFacts
    <3>2. Survives(token, record, token, record, asked[t], asked[t])
      BY <1>2, <3>1, NothingHappens
    <3> QED
      BY <1>1, <1>7, <2>2, <3>1, <3>2 DEF Apart
  <2>6. token' \in Tok /\ record' \in RowState /\ trail \subseteq trail' /\ TokenOK(token', record')
        /\ AskOK(token', record', trail', d)
    BY <1>1, <1>2, <2>3, AskFacts
  <2> QED
    BY <2>2, <2>4, <2>5, <2>6, SecretsStep
<1> QED
  BY <1>4, <1>5, <1>6, <1>7 DEF Secrets!Begin

LEMMA RequireActiveSecrets ==
    ASSUME SecretsInv, NEW s \in Slot, Secrets!RequireActive(s)
    PROVE  SecretsInv'
<1>1. PICK r \in Ask : r = asked[s]
  BY AskFacts
<1>2. r.pc = "row" /\ AskOK(token, record, trail, r) /\ UNCHANGED <<token, record, trail>>
  BY <1>1, AskFacts DEF Secrets!RequireActive, Secrets!At
<1>3. r.secret = 0 /\ r.old = 0 /\ r.kind # "create"
  BY <1>2 DEF AskOK, StepOK
<1>4. CASE record # "active"
  <2>1. Secrets!Throw(s, "NOT_FOUND")
    BY <1>4 DEF Secrets!RequireActive
  <2>2. "NOT_FOUND" \in AnswerSaid \ {"none", "done"}
    BY DEF AnswerSaid
  <2> QED
    BY <1>1, <1>2, <1>3, <2>1, <2>2, ThrownSecrets
<1>5. CASE record = "active"
  <2>1. PICK pc : pc = CASE r.kind = "rotate" -> "before" [] r.kind = "refresh" -> "refresh" [] OTHER -> "retire"
    OBVIOUS
  <2>2. PICK d : d = [r EXCEPT !.row = "active", !.pc = pc]
    OBVIOUS
  <2>3. asked' = [asked EXCEPT ![s] = d]
    BY <1>1, <1>5, <2>1, <2>2 DEF Secrets!RequireActive, SecretsInv
  <2>4. pc \in {"before", "refresh", "retire"} /\ (pc = "before" => r.kind = "rotate")
    BY <2>1
  <2>5. /\ d \in Ask /\ d.pc = pc /\ d.row = "active" /\ d.secret = 0 /\ d.old = 0 /\ d.kind = r.kind
        /\ d.grace = r.grace /\ d.status = r.status
    BY <1>3, <2>2, <2>4 DEF Ask, AskPc, RowState
  <2>6. StepOK(token, record, trail, d)
    BY <1>2, <1>3, <1>5, <2>4, <2>5, AskFacts DEF StepOK, TokenOK
  <2>7. SaidOK(token, record, trail, d)
    BY <1>2, <1>3, <2>5 DEF AskOK, SaidOK
  <2>8. KeepsOK(token, d)
    BY <2>4, <2>5 DEF KeepsOK, Late
  <2>9. AskOK(token, record, trail', d)
    BY <1>2, <2>6, <2>7, <2>8 DEF AskOK
  <2> QED
    BY <1>1, <1>2, <1>3, <2>3, <2>5, <2>9, QuietSecretsStep
<1> QED
  BY <1>4, <1>5

LEMMA GetBeforeSecrets ==
    ASSUME SecretsInv, NEW s \in Slot, Secrets!GetBefore(s)
    PROVE  SecretsInv'
<1>1. PICK r \in Ask : r = asked[s]
  BY AskFacts
<1>2. r.pc = "before" /\ AskOK(token, record, trail, r) /\ UNCHANGED <<token, record, trail>>
  BY <1>1, AskFacts DEF Secrets!GetBefore, Secrets!At
<1>3. r.secret = 0 /\ r.old = 0 /\ r.kind = "rotate" /\ r.row = "active"
  BY <1>2 DEF AskOK, StepOK
<1>4. ASSUME NEW code \in {"NOT_FOUND", "CONFLICT"}, Secrets!Throw(s, code)
      PROVE  SecretsInv'
  <2>2. code \in AnswerSaid \ {"none", "done"}
    BY DEF AnswerSaid
  <2> QED
    BY <1>1, <1>2, <1>3, <1>4, <2>2, ThrownSecrets
<1>5. CASE Secrets!There /\ asked' = [asked EXCEPT ![s].pc = "rotate", ![s].leak = token.leak,
                                   ![s].enabled = token.enabled, ![s].meanwhile = {}]
  <2>2. PICK d : d = [r EXCEPT !.pc = "rotate", !.leak = token.leak, !.enabled = token.enabled, !.meanwhile = {}]
    OBVIOUS
  <2>3. asked' = [asked EXCEPT ![s] = d]
    BY <1>1, <1>5, <2>2 DEF SecretsInv
  <2>5. /\ d \in Ask /\ d.pc = "rotate" /\ d.row = "active" /\ d.secret = 0 /\ d.old = 0 /\ d.kind = r.kind
        /\ d.grace = r.grace /\ d.status = r.status /\ d.leak = token.leak /\ d.enabled = token.enabled
    BY <1>3, <2>2, AskFacts DEF Ask, AskPc, Tok, Doing
  <2>6. StepOK(token, record, trail, d)
    BY <1>2, <1>3, <2>5 DEF AskOK, StepOK
  <2>7. SaidOK(token, record, trail, d)
    BY <1>2, <1>3, <2>5 DEF AskOK, SaidOK
  <2>8. KeepsOK(token, d)
    BY <1>5, <2>5 DEF KeepsOK, Late, Secrets!There
  <2>9. AskOK(token, record, trail', d)
    BY <1>2, <2>6, <2>7, <2>8 DEF AskOK
  <2> QED
    BY <1>1, <1>2, <1>3, <2>3, <2>5, <2>9, QuietSecretsStep
<1> QED
  BY <1>4, <1>5 DEF Secrets!GetBefore

(* An answer that says what the token is. *)
LEMMA StatusGiven ==
    ASSUME SecretsInv, NEW s \in Slot, NEW status \in StatusSaid, NEW r \in Ask, r = asked[s],
           NEW d, d = [r EXCEPT !.pc = "answered", !.answer = "done", !.status = status],
           asked' = [asked EXCEPT ![s] = d], UNCHANGED <<token, record, trail>>,
           r.pc \in {"look", "audit", "list"},
           status = "missing" => token.state # "unborn", status = "revoked" => record = "revoked"
    PROVE  SecretsInv'
<1>1. /\ d \in Ask /\ d.pc = "answered" /\ d.answer = "done" /\ d.status = status /\ d.kind = r.kind
      /\ d.grace = r.grace /\ d.row = r.row /\ d.secret = r.secret /\ d.old = r.old
      /\ d.warned = r.warned /\ d.meanwhile = r.meanwhile
  BY DEF Ask, AskPc, AnswerSaid
<1>2. AskOK(token, record, trail, r)
  BY AskFacts
<1>3. r.pc # "look" => r.secret = 0 /\ r.old = 0
  BY <1>2 DEF AskOK, StepOK
<1>4. StepOK(token, record, trail, d)
  BY <1>1, <1>2 DEF AskOK, StepOK
<1>5. SaidOK(token, record, trail, d)
  BY <1>1, <1>2, <1>3 DEF AskOK, StepOK, SaidOK
<1>6. KeepsOK(token, d)
  BY <1>1, <1>2, <1>3 DEF AskOK, KeepsOK, Late, Kept, Undisturbed
<1>7. AskOK(token, record, trail', d)
  BY <1>4, <1>5, <1>6 DEF AskOK
<1> QED
  BY <1>1, <1>7, QuietSecretsStep

LEMMA LookSecrets ==
    ASSUME SecretsInv, NEW s \in Slot, Secrets!Look(s)
    PROVE  SecretsInv'
<1>1. PICK r \in Ask : r = asked[s]
  BY AskFacts
<1>2. r.pc = "look" /\ r.row = "active" /\ UNCHANGED <<token, record, trail>>
  BY <1>1, AskFacts DEF Secrets!Look, Secrets!At, AskOK, StepOK
<1>3. PICK status \in StatusSaid : status = "active"
  BY DEF StatusSaid
<1>5. PICK d : d = [r EXCEPT !.pc = "answered", !.answer = "done", !.status = status]
  OBVIOUS
<1>4. asked' = [asked EXCEPT ![s] = d]
  BY <1>1, <1>2, <1>3, <1>5 DEF Secrets!Look, Secrets!ToRecord, SecretsInv
<1> QED
  BY <1>1, <1>2, <1>3, <1>4, <1>5, StatusGiven

LEMMA AuditSecrets ==
    ASSUME SecretsInv, NEW s \in Slot, Secrets!Audit(s)
    PROVE  SecretsInv'
<1>1. PICK r \in Ask : r = asked[s]
  BY AskFacts
<1>2. r.pc = "audit" /\ r.row = "active" /\ UNCHANGED <<token, record, trail>>
  BY <1>1, AskFacts DEF Secrets!Audit, Secrets!At, AskOK, StepOK
<1>3. PICK status \in StatusSaid : status = "active"
  BY DEF StatusSaid
<1>5. PICK d : d = [r EXCEPT !.pc = "answered", !.answer = "done", !.status = status]
  OBVIOUS
<1>4. asked' = [asked EXCEPT ![s] = d]
  BY <1>1, <1>2, <1>3, <1>5 DEF Secrets!Audit, Secrets!ToRecord, SecretsInv
<1> QED
  BY <1>1, <1>2, <1>3, <1>4, <1>5, StatusGiven

LEMMA ListedStatus ==
    ASSUME SecretsInv, NEW s \in Slot, NEW r \in Ask, r = asked[s], r.pc = "list",
           UNCHANGED <<token, record, trail>>, NEW status \in StatusSaid,
           NEW d, d = [r EXCEPT !.pc = "answered", !.answer = "done", !.status = status],
           asked' = [asked EXCEPT ![s] = d],
           status = "missing" => r.row # "none", status = "revoked" => r.row = "revoked"
    PROVE  SecretsInv'
<1>1. AskOK(token, record, trail, r)
  BY AskFacts
<1>2. r.row # "none" => token.state # "unborn"
  BY <1>1 DEF AskOK, StepOK
<1>3. r.row = "revoked" => record = "revoked"
  BY <1>1 DEF AskOK, StepOK
<1>4. status = "missing" => token.state # "unborn"
  BY <1>2
<1>5. status = "revoked" => record = "revoked"
  BY <1>3
<1> QED
  BY <1>4, <1>5, StatusGiven

LEMMA SaysSecrets ==
    ASSUME SecretsInv, NEW s \in Slot, asked[s].pc = "list", NEW live \in BOOLEAN, NEW wasAsked \in BOOLEAN,
           Secrets!Says(s, live, wasAsked), UNCHANGED <<token, record, trail>>
    PROVE  SecretsInv'
<1>1. PICK r \in Ask : r = asked[s]
  BY AskFacts
<1>3. PICK status : status = IF r.row = "none" THEN "none" ELSE Secrets!ToRecord(r.row, live, wasAsked)
  OBVIOUS
<1>4. /\ status \in StatusSaid
      /\ status = "missing" => r.row # "none"
      /\ status = "revoked" => r.row = "revoked"
  BY <1>3 DEF Secrets!ToRecord, StatusSaid
<1>5. PICK d : d = [r EXCEPT !.pc = "answered", !.answer = "done", !.status = status]
  OBVIOUS
<1>6. asked' = [asked EXCEPT ![s] = d]
  BY <1>1, <1>3, <1>5 DEF Secrets!Says, SecretsInv
<1> QED
  BY <1>1, <1>4, <1>5, <1>6, ListedStatus

(* What changes nothing that SecretsInv speaks of. *)
LEMMA SecretsUntouched ==
    ASSUME SecretsInv, UNCHANGED <<token, record, trail, asked>>
    PROVE  SecretsInv'
  BY DEF SecretsInv

LEMMA ListSecrets ==
    ASSUME SecretsInv, NEW s \in Slot, Secrets!List(s)
    PROVE  SecretsInv'
<1>1. asked[s].pc = "list" /\ UNCHANGED <<token, record, trail>>
  BY DEF Secrets!List, Secrets!At
<1>2. PICK found \in BOOLEAN : found <=>
        (listing[s].found \/ (Secrets!There /\ Secrets!OnPage(account.ahead + 1, listing[s].page)))
  OBVIOUS
<1>3. Secrets!Says(s, listing[s].found \/ (Secrets!There /\ Secrets!OnPage(account.ahead + 1, listing[s].page)), TRUE)
        => Secrets!Says(s, found, TRUE)
  BY <1>2 DEF Secrets!Says, Secrets!ToRecord
<1>4. Secrets!Says(s, found, TRUE) \/ Secrets!Says(s, FALSE, FALSE) \/ UNCHANGED asked
  BY <1>3 DEF Secrets!List
<1> QED
  BY <1>1, <1>4, SaysSecrets, SecretsUntouched

LEMMA ReadRowsSecrets ==
    ASSUME SecretsInv, NEW s \in Slot, Secrets!ReadRows(s)
    PROVE  SecretsInv'
<1>1. PICK r \in Ask : r = asked[s]
  BY AskFacts
<1>2. r.pc = "rows" /\ AskOK(token, record, trail, r) /\ UNCHANGED <<token, record, trail>>
  BY <1>1, AskFacts DEF Secrets!ReadRows, Secrets!At
<1>3. r.secret = 0 /\ r.old = 0 /\ r.kind # "create" /\ r.status = "none"
  BY <1>2 DEF AskOK, StepOK
<1>4. PICK d : d = [r EXCEPT !.pc = "list", !.row = record]
  OBVIOUS
<1>5. asked' = [asked EXCEPT ![s] = d]
  BY <1>1, <1>4 DEF Secrets!ReadRows, SecretsInv
<1>6. /\ d \in Ask /\ d.pc = "list" /\ d.row = record /\ d.secret = 0 /\ d.old = 0 /\ d.kind = r.kind
      /\ d.grace = r.grace /\ d.status = r.status
  BY <1>3, <1>4, AskFacts DEF Ask, AskPc
<1>7. StepOK(token, record, trail, d)
  BY <1>2, <1>3, <1>6, AskFacts DEF StepOK, TokenOK
<1>8. SaidOK(token, record, trail, d)
  BY <1>2, <1>3, <1>6 DEF AskOK, SaidOK
<1>9. KeepsOK(token, d)
  BY <1>6 DEF KeepsOK, Late
<1>10. AskOK(token, record, trail', d)
  BY <1>2, <1>7, <1>8, <1>9 DEF AskOK
<1> QED
  BY <1>1, <1>2, <1>3, <1>5, <1>6, <1>10, QuietSecretsStep

(* A request that goes on to another step, or dies. *)
LEMMA GoneOn ==
    ASSUME SecretsInv, NEW s \in Slot, NEW pc \in AskPc, Secrets!Goto(s, pc), UNCHANGED <<token, record, trail>>,
           \/ pc = "dead"
           \/ pc = "audit" /\ asked[s].pc = "refresh"
    PROVE  SecretsInv'
<1>1. PICK r \in Ask : r = asked[s]
  BY AskFacts
<1>2. AskOK(token, record, trail, r)
  BY <1>1, AskFacts
<1>3. PICK d : d = [r EXCEPT !.pc = pc]
  OBVIOUS
<1>4. asked' = [asked EXCEPT ![s] = d]
  BY <1>1, <1>3 DEF Secrets!Goto, SecretsInv
<1>5. /\ d \in Ask /\ d.pc = pc /\ d.answer = r.answer /\ d.status = r.status /\ d.kind = r.kind
      /\ d.grace = r.grace /\ d.row = r.row /\ d.secret = r.secret /\ d.old = r.old
  BY <1>3 DEF Ask
<1>6. StepOK(token, record, trail, d)
  BY <1>1, <1>2, <1>5 DEF AskOK, StepOK
<1>7. SaidOK(token, record, trail, d)
  BY <1>1, <1>2, <1>5 DEF AskOK, SaidOK
<1>8. KeepsOK(token, d)
  BY <1>5 DEF KeepsOK, Late
<1>9. AskOK(token, record, trail', d)
  BY <1>6, <1>7, <1>8 DEF AskOK
<1> QED
  BY <1>1, <1>4, <1>5, <1>9, QuietSecretsStep

LEMMA RefreshSecrets ==
    ASSUME SecretsInv, NEW s \in Slot, Secrets!Refresh(s)
    PROVE  SecretsInv'
<1>1. asked[s].pc = "refresh" /\ UNCHANGED <<token, record, trail>>
  BY DEF Secrets!Refresh, Secrets!At
<1>2. asked[s].old = 0
  BY <1>1, AskFacts DEF AskOK, StepOK
<1>3. "audit" \in AskPc /\ "NOT_FOUND" \in AnswerSaid \ {"none", "done"}
  BY DEF AskPc, AnswerSaid
<1>4. CASE Secrets!Goto(s, "audit")
  BY <1>1, <1>3, <1>4, GoneOn
<1>5. CASE Secrets!Throw(s, "NOT_FOUND")
  BY <1>1, <1>2, <1>3, <1>5, ThrownSecrets
<1> QED
  BY <1>4, <1>5 DEF Secrets!Refresh

LEMMA DieSecrets ==
    ASSUME SecretsInv, NEW s \in Slot, Secrets!Die(s)
    PROVE  SecretsInv'
<1>1. "dead" \in AskPc /\ Secrets!Goto(s, "dead") /\ UNCHANGED <<token, record, trail>>
  BY DEF AskPc, Secrets!Die
<1> QED
  BY <1>1, GoneOn

(* The batch, and what is done when it was not applied. *)
LEMMA UnrecordedSecrets ==
    ASSUME SecretsInv, NEW s \in Slot, asked[s].pc = "record", Secrets!Unrecorded(s),
           UNCHANGED <<token, record, trail>>
    PROVE  SecretsInv'
<1>1. PICK r \in Ask : r = asked[s]
  BY AskFacts
<1>2. r.pc = "record" /\ AskOK(token, record, trail, r)
  BY <1>1, AskFacts
<1>3. CASE r.kind # "create"
  <2>1. "INTERNAL" \in AnswerSaid \ {"none", "done"} /\ Secrets!Throw(s, "INTERNAL")
    BY <1>1, <1>3 DEF AnswerSaid, Secrets!Unrecorded
  <2> QED
    BY <2>1, ThrownSecrets
<1>4. CASE r.kind = "create"
  <2>1. PICK d : d = [r EXCEPT !.pc = "remove", !.secret = 0]
    OBVIOUS
  <2>2. asked' = [asked EXCEPT ![s] = d]
    BY <1>1, <1>4, <2>1 DEF Secrets!Unrecorded, Secrets!NoSecret, SecretsInv
  <2>3. /\ d \in Ask /\ d.pc = "remove" /\ d.status = r.status /\ d.kind = r.kind
        /\ d.grace = r.grace /\ d.row = r.row /\ d.secret = 0 /\ d.old = r.old
    BY <2>1 DEF Ask, AskPc
  <2>4. StepOK(token, record, trail, d)
    BY <1>2, <1>4, <2>3 DEF AskOK, StepOK
  <2>5. SaidOK(token, record, trail, d)
    <3>1. SaidOK(token, record, trail, r) /\ r.old = 0
      BY <1>2, <1>4 DEF AskOK, StepOK
    <3>2. d.secret <= token.secret
      BY <2>3, AskFacts DEF Tok
    <3> QED
      BY <2>3, <3>1, <3>2 DEF SaidOK
  <2>6. KeepsOK(token, d)
    BY <2>3 DEF KeepsOK, Late
  <2>7. AskOK(token, record, trail', d)
    BY <2>4, <2>5, <2>6 DEF AskOK
  <2> QED
    BY <1>1, <2>2, <2>3, <2>7, QuietSecretsStep
<1> QED
  BY <1>3, <1>4

LEMMA RecordSecrets ==
    ASSUME SecretsInv, NEW s \in Slot, Secrets!Record(s)
    PROVE  SecretsInv'
<1>1. PICK r \in Ask : r = asked[s]
  BY AskFacts
<1>2. r.pc = "record" /\ AskOK(token, record, trail, r) /\ token' = token
  BY <1>1, AskFacts DEF Secrets!Record, Secrets!At
<1>3. /\ r.kind \in {"create", "rotate"} /\ r.secret # 0 /\ (r.kind = "rotate" => r.row = "active")
      /\ r.kind = "create" => record = "none"
      /\ token.state # "unborn" /\ (r.row # "none" => r.kind = "create" \/ record # "none")
  BY <1>2 DEF AskOK, StepOK
<1>4. PICK d : d = [r EXCEPT !.pc = "look", !.row = "active"]
  OBVIOUS
<1>5. asked' = [asked EXCEPT ![s] = d] /\ trail' = trail \cup {<<r.kind, r.secret>>}
      /\ record' = (IF r.kind = "create" THEN "active" ELSE record)
  BY <1>1, <1>4 DEF Secrets!Record, SecretsInv
<1>6. /\ d \in Ask /\ d.pc = "look" /\ d.row = "active" /\ d.answer = r.answer /\ d.status = r.status
      /\ d.kind = r.kind /\ d.grace = r.grace /\ d.secret = r.secret /\ d.old = r.old
      /\ d.warned = r.warned /\ d.meanwhile = r.meanwhile
  BY <1>4 DEF Ask, AskPc, RowState
<1>7. token' \in Tok /\ record' \in RowState /\ TokenOK(token', record')
  BY <1>2, <1>3, <1>5, AskFacts DEF TokenOK, RowState
<1>8. AskOK(token', record', trail', d)
  <2>1. StepOK(token', record', trail', d)
    <3>1. <<d.kind, d.secret>> \in trail' /\ record' # "none" /\ (r.kind = "create" => r.old = 0 /\ r.grace = FALSE)
      BY <1>2, <1>3, <1>5, <1>6 DEF AskOK, StepOK
    <3> QED
      BY <1>2, <1>3, <1>6, <3>1 DEF StepOK
  <2>2. SaidOK(token', record', trail', d)
    <3>1. SaidOK(token, record, trail, r)
      BY <1>2 DEF AskOK
    <3>2. record = "revoked" => record' = "revoked"
      BY <1>3, <1>5
    <3> QED
      BY <1>2, <1>6, <3>1, <3>2 DEF SaidOK
  <2>3. KeepsOK(token', d)
    BY <1>2, <1>6 DEF AskOK, KeepsOK, Late, Kept, Undisturbed
  <2> QED
    BY <2>1, <2>2, <2>3 DEF AskOK
<1>9. asked' \in [Slot -> Ask] /\ asked'[s] = d /\ trail \subseteq trail'
  BY <1>5, <1>6 DEF SecretsInv
<1>10. ASSUME NEW t \in Slot, t # s
       PROVE  /\ Survives(token, record, token', record', asked[t], asked'[t])
              /\ Apart(d, asked[t]) /\ Apart(asked[t], d)
  <2>1. PICK x \in Ask : x = asked[t] /\ x = asked'[t]
    BY <1>5, <1>10, AskFacts
  <2>2. Apart(r, x) /\ Apart(x, r)
    BY <1>1, <1>10, <2>1 DEF SecretsInv
  <2>3. Survives(token, record, token, record, x, x)
    BY <2>1, AskFacts, NothingHappens
  <2>4. Survives(token, record, token', record', x, x)
    <3>1. Changes(token, record, token, record)
      BY <2>3 DEF Survives
    <3>2. Changes(token, record, token', record')
      BY <1>2, <1>3, <1>5, <3>1 DEF Changes
    <3>3. x.kind = "create" => record' = record
      BY <1>5, <2>2 DEF Apart
    <3> QED
      BY <1>2, <2>3, <3>2, <3>3 DEF Survives
  <2> QED
    BY <1>6, <2>1, <2>2, <2>4 DEF Apart
<1> QED
  BY <1>6, <1>7, <1>8, <1>9, <1>10, SecretsStep

(* The token is made: by one request, before anything else could happen to it. *)
LEMMA MadeSurvives ==
    ASSUME NEW tok \in Tok, NEW rec, TokenOK(tok, rec), tok.state = "unborn",
           NEW after, after = [tok EXCEPT !.state = "live", !.secret = 1],
           NEW x \in Ask, x.kind # "create"
    PROVE  Survives(tok, rec, after, rec, x, x)
<1>1. /\ after \in Tok /\ after.state = "live" /\ after.secret = 1 /\ after.previous = 0
      /\ after.enabled = TRUE /\ after.leak = "none" /\ tok.secret = 0 /\ tok.previous = 0 /\ rec = "none"
  BY DEF Tok, TokenOK
<1> QED
  BY <1>1 DEF Survives, Changes, Same

LEMMA MakingSurvives ==
    ASSUME SecretsInv, Secrets!Made, token.state = "unborn", record' = record,
           NEW x \in Ask, x.kind # "create"
    PROVE  Survives(token, record, token', record', x, x)
<1>1. PICK tok \in Tok, rec \in RowState : tok = token /\ rec = record
  BY AskFacts DEF SecretsInv
<1>2. PICK after : after = token'
  OBVIOUS
<1>3. after = [tok EXCEPT !.state = "live", !.secret = 1]
  BY <1>1, <1>2 DEF Secrets!Made
<1>4. TokenOK(tok, rec) /\ tok.state = "unborn"
  BY <1>1 DEF SecretsInv
<1>5. Survives(tok, rec, after, rec, x, x)
  BY <1>3, <1>4, MadeSurvives
<1> QED
  BY <1>1, <1>2, <1>5

LEMMA MadeStep ==
    ASSUME SecretsInv, NEW s \in Slot, NEW r \in Ask, r = asked[s], r.pc = "issue", Secrets!Made,
           UNCHANGED <<record, trail>>, NEW d \in Ask, asked' = [asked EXCEPT ![s] = d],
           d.kind = "create", d.grace = r.grace, d.row = r.row, d.old = 0, d.status = r.status,
           d.meanwhile = r.meanwhile,
           \/ d.pc = "record" /\ d.secret = 1
           \/ d.pc = "answered" /\ d.secret = 0
    PROVE  SecretsInv'
<1>1. AskOK(token, record, trail, r)
  BY AskFacts
<1>2. /\ r.kind = "create" /\ token.state = "unborn" /\ r.row = "none" /\ r.grace = FALSE
  BY <1>1 DEF AskOK, StepOK
<1>3. token' = [token EXCEPT !.state = "live", !.secret = 1]
  BY DEF Secrets!Made
<1>4. token \in Tok /\ TokenOK(token, record) /\ record \in RowState
  BY AskFacts
<1>5. /\ token' \in Tok /\ TokenOK(token', record) /\ token'.state = "live" /\ token'.secret = 1
      /\ token'.previous = 0 /\ token'.enabled = TRUE /\ token'.leak = "none" /\ token.secret = 0
      /\ record = "none"
  <2>1. /\ token' \in Tok /\ token'.state = "live" /\ token'.secret = 1 /\ token'.previous = 0
        /\ token'.enabled = TRUE /\ token'.leak = "none" /\ token.secret = 0 /\ record = "none"
    BY <1>2, <1>3, <1>4 DEF Tok, TokenOK
  <2> QED
    BY <2>1 DEF TokenOK
<1>6. AskOK(token', record', trail', d)
  <2>1. StepOK(token', record', trail', d)
    BY <1>2, <1>5 DEF StepOK
  <2>2. SaidOK(token', record', trail', d)
    <3>1. SaidOK(token, record, trail, r)
      BY <1>1 DEF AskOK
    <3>2. d.secret <= token'.secret
      BY <1>5
    <3>3. d.status # "missing" /\ (d.status = "revoked" => record' = "revoked")
      BY <1>2, <3>1 DEF SaidOK
    <3>4. ~(d.pc = "answered" /\ d.secret # 0)
      OBVIOUS
    <3> QED
      BY <3>2, <3>3, <3>4 DEF SaidOK
  <2>3. KeepsOK(token', d)
    BY <1>2, <1>5 DEF KeepsOK, Late, Kept
  <2> QED
    BY <2>1, <2>2, <2>3 DEF AskOK
<1>7. asked' \in [Slot -> Ask] /\ asked'[s] = d
  BY DEF SecretsInv
<1>8. ASSUME NEW t \in Slot, t # s
      PROVE  /\ Survives(token, record, token', record', asked[t], asked'[t])
             /\ Apart(d, asked[t]) /\ Apart(asked[t], d)
  <2>1. PICK x \in Ask : x = asked[t] /\ x = asked'[t]
    BY <1>8, AskFacts
  <2>2. x.kind # "create"
    BY <1>2, <1>8, <2>1 DEF SecretsInv, Apart
  <2>3. Survives(token, record, token', record, x, x)
    BY <1>2, <2>2, MakingSurvives
  <2>4. x.secret = 0
    <3>1. x.secret <= token.secret /\ x.secret \in Nat
      BY <2>1, AskFacts DEF AskOK, SaidOK, Ask
    <3> QED
      BY <1>5, <3>1
  <2> QED
    BY <2>1, <2>2, <2>3, <2>4 DEF Apart
<1> QED
  BY <1>4, <1>5, <1>6, <1>7, <1>8, SecretsStep

LEMMA CreateSecrets ==
    ASSUME SecretsInv, NEW s \in Slot, Secrets!Create(s)
    PROVE  SecretsInv'
<1>1. PICK r \in Ask : r = asked[s]
  BY AskFacts
<1>2. r.pc = "issue" /\ Secrets!Made /\ UNCHANGED <<record, trail>>
  BY <1>1 DEF Secrets!Create, Secrets!At
<1>3. r.kind = "create" /\ r.old = 0
  BY <1>1, <1>2, AskFacts DEF AskOK, StepOK
<1>4. PICK d : d = [r EXCEPT !.pc = "record", !.secret = 1]
  OBVIOUS
<1>5. asked' = [asked EXCEPT ![s] = d]
  BY <1>1, <1>4 DEF Secrets!Create, SecretsInv
<1>6. /\ d \in Ask /\ d.pc = "record" /\ d.secret = 1 /\ d.kind = r.kind /\ d.grace = r.grace
      /\ d.row = r.row /\ d.old = r.old /\ d.status = r.status /\ d.meanwhile = r.meanwhile
  BY <1>4 DEF Ask, AskPc
<1> QED
  BY <1>1, <1>2, <1>3, <1>5, <1>6, MadeStep

(* What one request does to the token is told to the others. *)
LEMMA ToldFacts ==
    ASSUME NEW x \in Ask, NEW what \in Doing, NEW y, y = [x EXCEPT !.meanwhile = @ \cup {what}]
    PROVE  /\ y \in Ask /\ Same(x, y) /\ x.meanwhile \subseteq y.meanwhile /\ y.meanwhile # {}
           /\ what # "grace ended" => ~Undisturbed(y)
<1>1. y \in Ask /\ Same(x, y) /\ y.meanwhile = x.meanwhile \cup {what}
  BY DEF Ask, Same
<1> QED
  BY <1>1 DEF Undisturbed

LEMMA ToldOthers ==
    ASSUME SecretsInv, NEW s \in Slot, NEW what \in Doing, NEW d \in Ask,
           asked' = [Secrets!Tell(s, what) EXCEPT ![s] = d]
    PROVE  /\ asked' \in [Slot -> Ask] /\ asked'[s] = d
           /\ \A t \in Slot : t # s => asked'[t] = [asked[t] EXCEPT !.meanwhile = @ \cup {what}]
<1>1. PICK told : told = Secrets!Tell(s, what)
  OBVIOUS
<1>2. told = [t \in Slot |-> IF t = s THEN asked[t] ELSE [asked[t] EXCEPT !.meanwhile = @ \cup {what}]]
  BY <1>1 DEF Secrets!Tell
<1>3. \A t \in Slot : t # s => asked'[t] = [asked[t] EXCEPT !.meanwhile = @ \cup {what}]
  BY <1>1, <1>2
<1>4. \A t \in Slot : t # s => asked'[t] \in Ask
  <2> SUFFICES ASSUME NEW t \in Slot, t # s
               PROVE  asked'[t] \in Ask
    OBVIOUS
  <2>1. PICK x \in Ask, y \in {asked'[t]} : x = asked[t]
    BY AskFacts
  <2>2. y = [x EXCEPT !.meanwhile = @ \cup {what}]
    BY <1>3, <2>1
  <2>3. y \in Ask
    BY <2>2, ToldFacts
  <2> QED
    BY <2>1, <2>3
<1>5. asked'[s] = d
  BY <1>1, <1>2
<1>6. asked' = [t \in Slot |-> asked'[t]]
  BY <1>1, <1>2
<1> QED
  BY <1>3, <1>4, <1>5, <1>6

(* A step that changes the token under the others, who are told.            *)
LEMMA ToldStep ==
    ASSUME SecretsInv, NEW s \in Slot, NEW what \in Doing \ {"grace ended"}, NEW d \in Ask,
           asked' = [Secrets!Tell(s, what) EXCEPT ![s] = d], UNCHANGED <<record, trail>>,
           token' \in Tok, TokenOK(token', record), Changes(token, record, token', record),
           token.state # "unborn", AskOK(token', record, trail, d),
           \A t \in Slot : t # s => Apart(d, asked[t]) /\ Apart(asked[t], d)
    PROVE  SecretsInv'
<1>1. /\ asked' \in [Slot -> Ask] /\ asked'[s] = d
      /\ \A t \in Slot : t # s => asked'[t] = [asked[t] EXCEPT !.meanwhile = @ \cup {what}]
  BY ToldOthers
<1>2. ASSUME NEW t \in Slot, t # s
      PROVE  Survives(token, record, token', record', asked[t], asked'[t])
  <2>1. PICK x \in Ask, y \in {asked'[t]} : x = asked[t]
    BY AskFacts
  <2>2. y = [x EXCEPT !.meanwhile = @ \cup {what}]
    BY <1>1, <1>2, <2>1
  <2>3. Same(x, y) /\ x.meanwhile \subseteq y.meanwhile /\ y.meanwhile # {} /\ ~Undisturbed(y)
    BY <2>2, ToldFacts
  <2>4. Survives(token, record, token', record', x, y)
    BY <2>3 DEF Survives
  <2> QED
    BY <2>1, <2>4
<1>3. token' \in Tok /\ record' \in RowState /\ trail \subseteq trail' /\ TokenOK(token', record')
      /\ AskOK(token', record', trail', d)
  BY AskFacts
<1> QED
  BY <1>1, <1>2, <1>3, SecretsStep

LEMMA RotatedOK ==
    ASSUME NEW tok \in Tok, NEW after \in Tok, NEW rec, TokenOK(tok, rec), tok.state = "live",
           after.state = "live", NEW n \in Nat, n = tok.secret, after.secret = n + 1, after.previous \in {0, n}
    PROVE  TokenOK(after, rec) /\ Changes(tok, rec, after, rec)
<1>1. n # 0
  BY DEF TokenOK
<1>2. TokenOK(after, rec)
  BY <1>1 DEF TokenOK
<1>3. Changes(tok, rec, after, rec)
  BY DEF Changes
<1> QED
  BY <1>2, <1>3
LEMMA RotationFacts ==
    ASSUME SecretsInv, NEW grace \in BOOLEAN, Secrets!Rotatable(grace), Secrets!Rotated(grace)
    PROVE  /\ token' \in Tok /\ TokenOK(token', record) /\ Changes(token, record, token', record)
           /\ token'.state = "live" /\ token'.leak # "current" /\ token'.enabled = token.enabled
           /\ token'.secret = token.secret + 1
           /\ token'.previous = (IF grace THEN token.secret ELSE 0)
           /\ token.secret \in Nat \ {0} /\ token.state = "live"
<1>1. PICK leak \in {"none", "old"} :
        token' = [token EXCEPT !.secret = @ + 1, !.leak = leak,
                               !.previous = IF grace THEN token.secret ELSE 0]
  BY DEF Secrets!Rotated, Secrets!NoSecret
<1>2. PICK tok \in Tok, rec \in RowState : tok = token /\ rec = record
  BY AskFacts DEF SecretsInv
<1>3. PICK after : after = token'
  OBVIOUS
<1>4. TokenOK(tok, rec) /\ tok.state = "live"
  BY <1>2 DEF SecretsInv, Secrets!Rotatable, Secrets!There
<1>5. PICK n \in Nat, p \in Nat : n = tok.secret /\ p = (IF grace THEN n ELSE 0)
  <2>1. tok.secret \in Nat
    BY DEF Tok
  <2> QED
    BY <2>1
<1>6. PICK m \in Nat : m = n + 1
  OBVIOUS
<1>7. after = [tok EXCEPT !.secret = m, !.leak = leak, !.previous = p]
  BY <1>1, <1>2, <1>3, <1>5, <1>6
<1>8. /\ after \in Tok /\ after.state = tok.state /\ after.leak = leak /\ after.enabled = tok.enabled
      /\ after.secret = m /\ after.previous = p
  BY <1>7 DEF Tok, LeakState
<1>9. p \in {0, n} /\ n # 0
  BY <1>4, <1>5 DEF TokenOK
<1>10. TokenOK(after, rec) /\ Changes(tok, rec, after, rec)
  BY <1>4, <1>5, <1>6, <1>8, <1>9, RotatedOK
<1> QED
  BY <1>2, <1>3, <1>4, <1>5, <1>6, <1>8, <1>9, <1>10

LEMMA RotateSecrets ==
    ASSUME SecretsInv, NEW s \in Slot, Secrets!Rotate(s)
    PROVE  SecretsInv'
<1>1. PICK r \in Ask : r = asked[s]
  BY AskFacts
<1>2. r.pc = "rotate" /\ AskOK(token, record, trail, r) /\ UNCHANGED <<record, trail>>
  BY <1>1, AskFacts DEF Secrets!Rotate, Secrets!At
<1>3. r.secret = 0 /\ r.old = 0 /\ r.kind = "rotate" /\ r.row = "active"
  BY <1>2 DEF AskOK, StepOK
<1>4. CASE ~Secrets!Rotatable(r.grace)
  <2>1. PICK code \in {"UPSTREAM_FAILED", "NOT_FOUND"} : Secrets!Throw(s, code)
    BY <1>1, <1>4 DEF Secrets!Rotate
  <2>2. UNCHANGED token
    BY <1>1, <1>4 DEF Secrets!Rotate
  <2>3. code \in AnswerSaid \ {"none", "done"}
    BY DEF AnswerSaid
  <2> QED
    BY <1>1, <1>2, <1>3, <2>1, <2>2, <2>3, ThrownSecrets
<1>5. CASE Secrets!Rotatable(r.grace)
  <2>1. PICK grace \in BOOLEAN : grace = r.grace
    BY DEF Ask
  <2>2. Secrets!Rotatable(grace) /\ Secrets!Rotated(grace)
    BY <1>1, <1>5, <2>1 DEF Secrets!Rotate
  <2>3. /\ token' \in Tok /\ TokenOK(token', record) /\ Changes(token, record, token', record)
        /\ token'.state = "live" /\ token'.leak # "current" /\ token'.enabled = token.enabled
        /\ token'.secret = token.secret + 1
        /\ token'.previous = (IF grace THEN token.secret ELSE 0)
        /\ token.secret \in Nat \ {0} /\ token.state = "live"
    BY <2>2, RotationFacts
  <2>4. PICK n \in Nat \ {0}, m \in Nat \ {0} : n = token.secret /\ m = n + 1
    BY <2>3
  <2>5. PICK pc : pc = IF Secrets!NeedsEnabling(r) THEN "enable" ELSE "record"
    OBVIOUS
  <2>6. PICK d : d = [r EXCEPT !.pc = pc, !.secret = m, !.old = n]
    OBVIOUS
  <2>7. asked' = [Secrets!Tell(s, "rotated") EXCEPT ![s] = d]
    BY <1>1, <1>5, <2>4, <2>5, <2>6 DEF Secrets!Rotate, Secrets!Tell
  <2>8. /\ d \in Ask /\ d.pc = pc /\ d.secret = m /\ d.old = n /\ d.kind = r.kind /\ d.grace = r.grace
        /\ d.row = r.row /\ d.warned = r.warned /\ d.status = r.status /\ d.meanwhile = r.meanwhile
    BY <2>5, <2>6 DEF Ask, AskPc
  <2>9. AskOK(token', record, trail, d)
    <3>1. StepOK(token', record, trail, d)
      BY <1>2, <1>3, <2>3, <2>5, <2>8 DEF AskOK, StepOK
    <3>2. SaidOK(token', record, trail, d)
      <4>1. (r.status = "missing" => token'.state # "unborn") /\ (r.status = "revoked" => record = "revoked")
        BY <1>2, <2>3 DEF AskOK, SaidOK
      <4>2. token'.secret = m /\ (grace = FALSE => token'.previous = 0)
        BY <2>3, <2>4
      <4>3. n < m /\ m <= m /\ n # 0 /\ pc # "answered"
        BY <2>4, <2>5
      <4> QED
        BY <2>1, <2>8, <4>1, <4>2, <4>3 DEF SaidOK
    <3>3. KeepsOK(token', d)
      <4>1. Undisturbed(r) => r.leak = token.leak /\ (r.enabled = TRUE => token.enabled = TRUE)
        BY <1>2 DEF AskOK, KeepsOK
      <4>2. pc # "enable" => r.leak = "none" /\ r.enabled = TRUE
        BY <2>5 DEF Secrets!NeedsEnabling, Ask
      <4>3. Undisturbed(r) => Kept(token', d)
        BY <2>3, <2>8, <4>1, <4>2 DEF Kept
      <4>4. r.meanwhile = {} => Undisturbed(r)
        BY DEF Undisturbed
      <4>5. token'.secret = m /\ (grace = TRUE => token'.previous = n)
        BY <2>3, <2>4
      <4>6. Undisturbed(d) <=> Undisturbed(r)
        BY <2>8 DEF Undisturbed
      <4>7. pc # "rotate"
        BY <2>5
      <4> QED
        BY <2>1, <2>8, <4>3, <4>4, <4>5, <4>6, <4>7 DEF KeepsOK
    <3> QED
      BY <3>1, <3>2, <3>3 DEF AskOK
  <2>10. ASSUME NEW t \in Slot, t # s
         PROVE  Apart(d, asked[t]) /\ Apart(asked[t], d)
    <3>1. PICK x \in Ask : x = asked[t]
      BY AskFacts
    <3>2. x.secret <= token.secret /\ x.secret \in Nat
      BY <3>1, AskFacts DEF AskOK, SaidOK, Ask
    <3>3. x.secret # m
      BY <2>4, <3>2
    <3> QED
      BY <1>3, <2>8, <3>1, <3>3 DEF Apart
  <2>11. "rotated" \in Doing \ {"grace ended"} /\ token.state # "unborn"
    BY <2>3 DEF Doing
  <2> QED
    BY <1>2, <2>3, <2>7, <2>8, <2>9, <2>10, <2>11, ToldStep
<1> QED
  BY <1>4, <1>5

LEMMA EnabledFacts ==
    ASSUME NEW tok \in Tok, NEW rec, TokenOK(tok, rec), tok.state # "unborn",
           NEW after, after \in {tok, [tok EXCEPT !.enabled = TRUE]}
    PROVE  /\ after \in Tok /\ TokenOK(after, rec)
           /\ after.state = tok.state /\ after.leak = tok.leak /\ after.secret = tok.secret
           /\ after.previous = tok.previous /\ (tok.enabled = TRUE => after.enabled = TRUE)
<1>1. /\ after \in Tok /\ after.state = tok.state /\ after.leak = tok.leak /\ after.secret = tok.secret
      /\ after.previous = tok.previous /\ (tok.enabled = TRUE => after.enabled = TRUE)
  BY DEF Tok
<1>2. TokenOK(after, rec)
  BY <1>1 DEF TokenOK
<1> QED
  BY <1>1, <1>2

(* The token is enabled or is not, and the request that asked for it knows  *)
(* at most that it may not be.                                              *)
LEMMA EnableStep ==
    ASSUME SecretsInv, NEW s \in Slot, NEW r \in Ask, r = asked[s], r.pc = "enable",
           NEW warned \in BOOLEAN, NEW d, d = [r EXCEPT !.pc = "record", !.warned = warned],
           asked' = [asked EXCEPT ![s] = d], UNCHANGED <<record, trail>>,
           NEW tok, tok = token, NEW after, after = token',
           after \in {tok, [tok EXCEPT !.enabled = TRUE]},
           warned = FALSE => after.enabled = TRUE
    PROVE  SecretsInv'
<1>1. AskOK(tok, record, trail, r) /\ tok \in Tok /\ TokenOK(tok, record) /\ record \in RowState
  BY AskFacts
<1>2. r.kind = "rotate" /\ r.row = "active" /\ r.secret # 0 /\ tok.state # "unborn" /\ record # "none"
  BY <1>1 DEF AskOK, StepOK
<1>3. /\ after \in Tok /\ TokenOK(after, record)
      /\ after.state = tok.state /\ after.leak = tok.leak /\ after.secret = tok.secret
      /\ after.previous = tok.previous /\ (tok.enabled = TRUE => after.enabled = TRUE)
  BY <1>1, <1>2, EnabledFacts, ZenonT(40)
<1>4. /\ d \in Ask /\ d.pc = "record" /\ d.warned = warned /\ d.secret = r.secret /\ d.old = r.old
      /\ d.kind = r.kind /\ d.grace = r.grace /\ d.row = r.row /\ d.status = r.status
      /\ d.meanwhile = r.meanwhile
  BY DEF Ask, AskPc
<1>5. AskOK(after, record, trail, d)
  <2>1. StepOK(after, record, trail, d)
    BY <1>1, <1>2, <1>3, <1>4 DEF AskOK, StepOK
  <2>2. SaidOK(after, record, trail, d)
    <3>1. SaidOK(tok, record, trail, r)
      BY <1>1 DEF AskOK
    <3> QED
      BY <1>3, <1>4, <3>1 DEF SaidOK
  <2>3. KeepsOK(after, d)
    <3>1. KeepsOK(tok, r)
      BY <1>1 DEF AskOK
    <3>2. Kept(tok, r) => Kept(after, d)
      BY <1>3, <1>4 DEF Kept
    <3>3. Undisturbed(d) <=> Undisturbed(r)
      BY <1>4 DEF Undisturbed
    <3> QED
      BY <1>3, <1>4, <3>1, <3>2, <3>3 DEF KeepsOK, Late
  <2> QED
    BY <2>1, <2>2, <2>3 DEF AskOK
<1>6. ASSUME NEW x \in Ask
      PROVE  Survives(tok, record, after, record, x, x)
  <2>1. Survives(tok, record, tok, record, x, x)
    BY <1>1, NothingHappens
  <2> QED
    BY <1>3, <2>1 DEF Survives, Changes
<1>7. asked' \in [Slot -> Ask] /\ asked'[s] = d /\ \A t \in Slot : t # s => asked'[t] = asked[t]
  BY <1>4 DEF SecretsInv
<1>8. ASSUME NEW t \in Slot, t # s
      PROVE  /\ Survives(token, record, token', record', asked[t], asked'[t])
             /\ Apart(d, asked[t]) /\ Apart(asked[t], d)
  <2>1. PICK x \in Ask : x = asked[t] /\ x = asked'[t]
    BY <1>7, <1>8, AskFacts
  <2>2. Apart(r, x) /\ Apart(x, r)
    BY <1>8, <2>1 DEF SecretsInv
  <2>3. Apart(d, x) /\ Apart(x, d)
    BY <1>4, <2>2 DEF Apart
  <2>4. Survives(token, record, token', record', x, x)
    BY <1>6
  <2> QED
    BY <2>1, <2>3, <2>4
<1>9. token' \in Tok /\ record' \in RowState /\ trail \subseteq trail' /\ TokenOK(token', record')
      /\ AskOK(token', record', trail', d)
  BY <1>1, <1>3, <1>5
<1> QED
  BY <1>4, <1>7, <1>8, <1>9, SecretsStep

LEMMA EnableSecrets ==
    ASSUME SecretsInv, NEW s \in Slot, Secrets!Enable(s)
    PROVE  SecretsInv'
<1>1. PICK r \in Ask : r = asked[s]
  BY AskFacts
<1>2. PICK tok, after : tok = token /\ after = token'
  OBVIOUS
<1>3. PICK warned \in BOOLEAN : warned = ~Secrets!Enableable
  OBVIOUS
<1>4. PICK d : d = [r EXCEPT !.pc = "record", !.warned = warned]
  OBVIOUS
<1>5. asked' = [asked EXCEPT ![s] = d] /\ r.pc = "enable" /\ UNCHANGED <<record, trail>>
  BY <1>1, <1>3, <1>4 DEF Secrets!Enable, Secrets!At, SecretsInv
<1>6. after \in {tok, [tok EXCEPT !.enabled = TRUE]} /\ (warned = FALSE => after.enabled = TRUE)
  <2>1. token \in Tok
    BY AskFacts
  <2>2. CASE Secrets!Enableable
    BY <1>2, <2>1, <2>2 DEF Secrets!Enable, Secrets!Enabled, Tok
  <2>3. CASE ~Secrets!Enableable
    BY <1>2, <1>3, <2>3 DEF Secrets!Enable
  <2> QED
    BY <2>2, <2>3
<1> QED
  BY <1>1, <1>2, <1>4, <1>5, <1>6, EnableStep

(* The kill switch. *)
LEMMA RetireSecrets ==
    ASSUME SecretsInv, NEW s \in Slot, Secrets!Retire(s)
    PROVE  SecretsInv'
<1>1. PICK r \in Ask : r = asked[s]
  BY AskFacts
<1>2. r.pc = "retire" /\ AskOK(token, record, trail, r) /\ UNCHANGED <<token, trail>>
  BY <1>1, AskFacts DEF Secrets!Retire, Secrets!At
<1>3. r.secret = 0 /\ r.old = 0 /\ r.kind # "create" /\ r.row = "active" /\ token.state # "unborn" /\ record # "none"
  BY <1>2 DEF AskOK, StepOK
<1>4. CASE record = "revoked"
  <2>1. Secrets!Throw(s, "NOT_FOUND") /\ UNCHANGED record
    BY <1>4 DEF Secrets!Retire
  <2>2. "NOT_FOUND" \in AnswerSaid \ {"none", "done"}
    BY DEF AnswerSaid
  <2> QED
    BY <1>1, <1>2, <1>3, <2>1, <2>2, ThrownSecrets
<1>5. CASE record # "revoked"
  <2>1. PICK d : d = [r EXCEPT !.pc = "remove"]
    OBVIOUS
  <2>2. asked' = [asked EXCEPT ![s] = d] /\ record' = "revoked"
    BY <1>1, <1>5, <2>1 DEF Secrets!Retire, Secrets!Goto, SecretsInv
  <2>3. /\ d \in Ask /\ d.pc = "remove" /\ d.status = r.status /\ d.kind = r.kind
        /\ d.grace = r.grace /\ d.row = r.row /\ d.secret = 0 /\ d.old = 0
    BY <1>3, <2>1 DEF Ask, AskPc
  <2>4. AskOK(token', record', trail', d)
    <3>1. StepOK(token', record', trail', d)
      BY <1>2, <1>3, <2>2, <2>3 DEF StepOK
    <3>2. SaidOK(token', record', trail', d)
      <4>1. SaidOK(token, record, trail, r)
        BY <1>2 DEF AskOK
      <4>2. d.secret <= token.secret
        BY <2>3, AskFacts DEF Tok
      <4> QED
        BY <1>2, <2>2, <2>3, <4>1, <4>2 DEF SaidOK
    <3>3. KeepsOK(token', d)
      BY <2>3 DEF KeepsOK, Late
    <3> QED
      BY <3>1, <3>2, <3>3 DEF AskOK
  <2>5. token' \in Tok /\ record' \in RowState /\ trail \subseteq trail' /\ TokenOK(token', record')
    BY <1>2, <1>3, <2>2, AskFacts DEF TokenOK, RowState
  <2>6. asked' \in [Slot -> Ask] /\ asked'[s] = d /\ \A t \in Slot : t # s => asked'[t] = asked[t]
    BY <2>2, <2>3 DEF SecretsInv
  <2>7. ASSUME NEW t \in Slot, t # s
        PROVE  /\ Survives(token, record, token', record', asked[t], asked'[t])
               /\ Apart(d, asked[t]) /\ Apart(asked[t], d)
    <3>1. PICK x \in Ask : x = asked[t] /\ x = asked'[t]
      BY <2>6, <2>7, AskFacts
    <3>2. Survives(token, record, token, record, x, x)
      BY AskFacts, NothingHappens
    <3>3. Survives(token, record, token', record', x, x)
      BY <1>2, <1>3, <2>2, <3>2 DEF Survives, Changes
    <3>4. Apart(r, x) /\ Apart(x, r)
      BY <1>1, <2>7, <3>1 DEF SecretsInv
    <3>5. Apart(d, x) /\ Apart(x, d)
      BY <1>3, <2>3, <3>4 DEF Apart
    <3> QED
      BY <3>1, <3>3, <3>5
  <2> QED
    BY <2>3, <2>4, <2>5, <2>6, <2>7, SecretsStep
<1> QED
  BY <1>4, <1>5

LEMMA RemoveSecrets ==
    ASSUME SecretsInv, NEW s \in Slot, Secrets!Remove(s)
    PROVE  SecretsInv'
<1>1. PICK r \in Ask : r = asked[s]
  BY AskFacts
<1>2. r.pc = "remove" /\ AskOK(token, record, trail, r) /\ UNCHANGED <<record, trail>>
  BY <1>1, AskFacts DEF Secrets!Remove, Secrets!At
<1>3. r.secret = 0 /\ r.old = 0 /\ token.state # "unborn"
  BY <1>2 DEF AskOK, StepOK
<1>4. PICK answer \in {"INTERNAL", "done"} : answer = IF r.kind = "create" THEN "INTERNAL" ELSE "done"
  OBVIOUS
<1>5. PICK d : d = [r EXCEPT !.pc = "answered", !.answer = answer]
  OBVIOUS
<1>6. asked' = [Secrets!Tell(s, "gone") EXCEPT ![s] = d]
  BY <1>1, <1>4, <1>5 DEF Secrets!Remove, Secrets!Tell
<1>7. /\ d \in Ask /\ d.pc = "answered" /\ d.answer = answer /\ d.status = r.status /\ d.kind = r.kind
      /\ d.grace = r.grace /\ d.row = r.row /\ d.secret = 0 /\ d.old = 0
  BY <1>3, <1>5 DEF Ask, AskPc, AnswerSaid
<1>8. PICK tok \in Tok, after \in {token'} : tok = token
  BY AskFacts
<1>9. /\ after \in Tok /\ after.state = "gone" /\ after.leak = tok.leak /\ after.secret = tok.secret
      /\ after.previous = tok.previous
  BY <1>8 DEF Secrets!Remove, Tok
<1>10. TokenOK(after, record) /\ Changes(tok, record, after, record)
  <2>1. TokenOK(tok, record)
    BY <1>8, AskFacts
  <2>2. tok.secret <= tok.secret
    BY DEF Tok
  <2>3. TokenOK(after, record)
    BY <1>3, <1>8, <1>9, <2>1 DEF TokenOK
  <2> QED
    BY <1>9, <2>2, <2>3 DEF Changes
<1>11. AskOK(after, record, trail, d)
  <2>1. StepOK(after, record, trail, d)
    BY <1>2, <1>3, <1>7, <1>9 DEF AskOK, StepOK
  <2>2. SaidOK(after, record, trail, d)
    <3>1. SaidOK(token, record, trail, r)
      BY <1>2 DEF AskOK
    <3>2. d.secret <= after.secret
      BY <1>7, <1>9 DEF Tok
    <3> QED
      BY <1>7, <1>9, <3>1, <3>2 DEF SaidOK
  <2>3. KeepsOK(after, d)
    BY <1>7 DEF KeepsOK, Late
  <2> QED
    BY <2>1, <2>2, <2>3 DEF AskOK
<1>12. ASSUME NEW t \in Slot, t # s
       PROVE  Apart(d, asked[t]) /\ Apart(asked[t], d)
  <2>1. Apart(asked[s], asked[t]) /\ Apart(asked[t], asked[s])
    BY <1>12 DEF SecretsInv
  <2> QED
    BY <1>1, <1>7, <2>1 DEF Apart
<1>13. "gone" \in Doing \ {"grace ended"}
  BY DEF Doing
<1>14. token' \in Tok /\ TokenOK(token', record) /\ Changes(token, record, token', record)
       /\ AskOK(token', record, trail, d)
  BY <1>8, <1>9, <1>10, <1>11
<1> QED
  BY <1>2, <1>3, <1>6, <1>7, <1>12, <1>13, <1>14, ToldStep

(* What goes wrong. *)
LEMMA FailedLook ==
    ASSUME SecretsInv, NEW s \in Slot, asked[s].pc = "look", UNCHANGED <<token, record, trail>>,
           NEW status, asked' = [asked EXCEPT ![s].pc = "answered", ![s].answer = "done", ![s].status = status],
           status = Secrets!ToRecord(asked[s].row, FALSE, FALSE)
    PROVE  SecretsInv'
<1>1. PICK r \in Ask : r = asked[s]
  BY AskFacts
<1>2. status \in StatusSaid /\ status # "missing" /\ (status = "revoked" => r.row = "revoked")
  BY <1>1 DEF Secrets!ToRecord, StatusSaid
<1>3. r.row = "revoked" => record = "revoked"
  BY <1>1, AskFacts DEF AskOK, StepOK
<1>4. PICK d : d = [r EXCEPT !.pc = "answered", !.answer = "done", !.status = status]
  OBVIOUS
<1>5. asked' = [asked EXCEPT ![s] = d]
  BY <1>1, <1>4 DEF SecretsInv
<1>6. r.pc \in {"look", "audit", "list"}
  BY <1>1
<1> QED
  BY <1>1, <1>2, <1>3, <1>4, <1>5, <1>6, StatusGiven, ZenonT(40)

LEMMA FailedEnable ==
    ASSUME SecretsInv, NEW s \in Slot, asked[s].pc = "enable", UNCHANGED <<record, trail>>,
           asked' = [asked EXCEPT ![s].pc = "record", ![s].warned = TRUE],
           token' = token \/ Secrets!Enabled
    PROVE  SecretsInv'
<1>1. PICK r \in Ask : r = asked[s]
  BY AskFacts
<1>2. PICK tok, after : tok = token /\ after = token'
  OBVIOUS
<1>3. PICK warned \in BOOLEAN : warned = TRUE
  OBVIOUS
<1>4. PICK d : d = [r EXCEPT !.pc = "record", !.warned = warned]
  OBVIOUS
<1>5. asked' = [asked EXCEPT ![s] = d]
  BY <1>1, <1>3, <1>4 DEF SecretsInv
<1>6. after \in {tok, [tok EXCEPT !.enabled = TRUE]}
  BY <1>2 DEF Secrets!Enabled
<1>7. r.pc = "enable" /\ (warned = FALSE => after.enabled = TRUE)
  BY <1>1, <1>3
<1>8. SecretsInv /\ s \in Slot /\ UNCHANGED <<record, trail>> /\ r \in Ask /\ warned \in BOOLEAN
  OBVIOUS
<1> QED
  BY ONLY <1>1, <1>2, <1>4, <1>5, <1>6, <1>7, <1>8, EnableStep

LEMMA FailSecrets ==
    ASSUME SecretsInv, NEW s \in Slot, Secrets!Fail(s)
    PROVE  SecretsInv'
<1>1. UNCHANGED trail
  BY DEF Secrets!Fail
<1>2. asked[s].pc \in {"issue", "before", "rotate", "refresh", "list", "row", "rows", "retire", "audit", "remove"} =>
        asked[s].old = 0
  BY AskFacts DEF AskOK, StepOK
<1>3. ASSUME NEW code \in {"SERVICE_TOKENS_UNCONFIGURED", "UPSTREAM_FAILED", "INTERNAL"}, Secrets!Throw(s, code),
             UNCHANGED <<token, record>>, asked[s].old = 0
      PROVE  SecretsInv'
  <2>1. code \in AnswerSaid \ {"none", "done"}
    BY DEF AnswerSaid
  <2> QED
    BY <1>1, <1>3, <2>1, ThrownSecrets
<1>4. CASE /\ asked[s].pc \in {"issue", "before", "rotate", "refresh", "list"}
           /\ \E kind \in {"refused", "other"} :
                IF kind = "other" /\ Secrets!At(s, "list")
                THEN Secrets!Says(s, FALSE, FALSE)
                ELSE Secrets!Throw(s, IF kind = "refused" THEN "SERVICE_TOKENS_UNCONFIGURED"
                                      ELSE "UPSTREAM_FAILED")
           /\ UNCHANGED <<token, record>>
  <2>1. PICK kind \in {"refused", "other"} :
                IF kind = "other" /\ Secrets!At(s, "list")
                THEN Secrets!Says(s, FALSE, FALSE)
                ELSE Secrets!Throw(s, IF kind = "refused" THEN "SERVICE_TOKENS_UNCONFIGURED"
                                      ELSE "UPSTREAM_FAILED")
    BY <1>4
  <2>2. CASE kind = "other" /\ Secrets!At(s, "list")
    <3>1. asked[s].pc = "list"
      BY <2>2 DEF Secrets!At
    <3> QED
      BY <1>1, <1>4, <2>1, <2>2, <3>1, SaysSecrets
  <2>3. CASE ~(kind = "other" /\ Secrets!At(s, "list"))
    <3>1. PICK code \in {"SERVICE_TOKENS_UNCONFIGURED", "UPSTREAM_FAILED"} : Secrets!Throw(s, code)
      BY <2>1, <2>3
    <3> QED
      BY <1>2, <1>3, <1>4, <3>1
  <2> QED
    BY <2>2, <2>3
<1>5. CASE /\ Secrets!At(s, "enable")
           /\ asked' = [asked EXCEPT ![s].pc = "record", ![s].warned = TRUE]
           /\ UNCHANGED <<token, record>>
  BY <1>1, <1>5, FailedEnable DEF Secrets!At
<1>6. CASE /\ Secrets!At(s, "look")
           /\ asked' = [asked EXCEPT ![s].pc = "answered", ![s].answer = "done",
                                     ![s].status = Secrets!ToRecord(asked[s].row, FALSE, FALSE)]
           /\ UNCHANGED <<token, record>>
  <2>1. asked[s].pc = "look"
    BY <1>6 DEF Secrets!At
  <2>2. PICK status : status = Secrets!ToRecord(asked[s].row, FALSE, FALSE)
    OBVIOUS
  <2>3. asked' = [asked EXCEPT ![s].pc = "answered", ![s].answer = "done", ![s].status = status]
    BY <1>6, <2>2
  <2> QED
    BY <1>1, <1>6, <2>1, <2>2, <2>3, FailedLook
<1>7. CASE Secrets!At(s, "record") /\ Secrets!Unrecorded(s) /\ UNCHANGED <<token, record>>
  BY <1>1, <1>7, UnrecordedSecrets DEF Secrets!At
<1>8. CASE asked[s].pc \in {"row", "rows", "retire", "audit"} /\ Secrets!Throw(s, "INTERNAL") /\ UNCHANGED <<token, record>>
  BY <1>2, <1>3, <1>8
<1>9. CASE /\ Secrets!At(s, "remove")
           /\ Secrets!Throw(s, IF asked[s].kind = "create" THEN "INTERNAL" ELSE "UPSTREAM_FAILED")
           /\ UNCHANGED <<token, record>>
  <2>1. PICK code \in {"INTERNAL", "UPSTREAM_FAILED"} : Secrets!Throw(s, code)
    BY <1>9
  <2> QED
    BY <1>2, <1>3, <1>9, <2>1 DEF Secrets!At
<1> QED
  BY <1>4, <1>5, <1>6, <1>7, <1>8, <1>9 DEF Secrets!Fail

LEMMA LoseAnswerSecrets ==
    ASSUME SecretsInv, NEW s \in Slot, Secrets!LoseAnswer(s)
    PROVE  SecretsInv'
<1>1. PICK r \in Ask : r = asked[s]
  BY AskFacts
<1>2. AskOK(token, record, trail, r) /\ UNCHANGED <<record, trail>>
  BY <1>1, AskFacts DEF Secrets!LoseAnswer
<1>3. CASE /\ Secrets!At(s, "rotate") /\ Secrets!Rotatable(asked[s].grace) /\ token.secret < MaxSecrets
           /\ Secrets!Rotated(asked[s].grace)
           /\ asked' = [Secrets!Tell(s, "rotated") EXCEPT ![s].pc = "answered", ![s].answer = "UPSTREAM_FAILED"]
  <2>1. r.pc = "rotate" /\ r.secret = 0 /\ r.old = 0 /\ r.kind = "rotate" /\ r.row = "active"
    BY <1>1, <1>2, <1>3 DEF AskOK, StepOK, Secrets!At
  <2>2. PICK grace \in BOOLEAN : grace = r.grace
    BY DEF Ask
  <2>3. Secrets!Rotatable(grace) /\ Secrets!Rotated(grace)
    BY <1>1, <1>3, <2>2
  <2>4. /\ token' \in Tok /\ TokenOK(token', record) /\ Changes(token, record, token', record)
        /\ token'.state = "live" /\ token.state = "live"
    BY <2>3, RotationFacts
  <2>5. PICK d : d = [r EXCEPT !.pc = "answered", !.answer = "UPSTREAM_FAILED"]
    OBVIOUS
  <2>6. asked' = [Secrets!Tell(s, "rotated") EXCEPT ![s] = d]
    BY <1>1, <1>3, <2>5 DEF Secrets!Tell
  <2>7. /\ d \in Ask /\ d.pc = "answered" /\ d.answer = "UPSTREAM_FAILED" /\ d.status = r.status
        /\ d.kind = r.kind /\ d.grace = r.grace /\ d.row = r.row /\ d.secret = 0 /\ d.old = 0
    BY <2>1, <2>5 DEF Ask, AskPc, AnswerSaid
  <2>8. AskOK(token', record, trail, d)
    <3>1. StepOK(token', record, trail, d)
      BY <1>2, <2>1, <2>4, <2>7 DEF AskOK, StepOK
    <3>2. SaidOK(token', record, trail, d)
      <4>1. (r.status = "missing" => token'.state # "unborn") /\ (r.status = "revoked" => record = "revoked")
        BY <1>2, <2>4 DEF AskOK, SaidOK
      <4>2. d.secret <= token'.secret
        BY <2>4, <2>7 DEF Tok
      <4> QED
        BY <2>7, <4>1, <4>2 DEF SaidOK
    <3>3. KeepsOK(token', d)
      BY <2>7 DEF KeepsOK, Late
    <3> QED
      BY <3>1, <3>2, <3>3 DEF AskOK
  <2>9. ASSUME NEW t \in Slot, t # s
        PROVE  Apart(d, asked[t]) /\ Apart(asked[t], d)
    <3>1. Apart(asked[s], asked[t]) /\ Apart(asked[t], asked[s])
      BY <2>9 DEF SecretsInv
    <3> QED
      BY <1>1, <2>1, <2>7, <3>1 DEF Apart
  <2>10. "rotated" \in Doing \ {"grace ended"} /\ token.state # "unborn"
    BY <2>4 DEF Doing
  <2> QED
    BY <1>2, <2>4, <2>6, <2>7, <2>8, <2>9, <2>10, ToldStep
<1>4. CASE Secrets!At(s, "issue") /\ Secrets!Made /\ Secrets!Throw(s, "UPSTREAM_FAILED")
  <2>1. r.pc = "issue" /\ r.kind = "create" /\ r.old = 0
    BY <1>1, <1>2, <1>4 DEF AskOK, StepOK, Secrets!At
  <2>2. PICK d : d = [r EXCEPT !.pc = "answered", !.answer = "UPSTREAM_FAILED", !.secret = 0]
    OBVIOUS
  <2>3. asked' = [asked EXCEPT ![s] = d]
    BY <1>1, <1>4, <2>2 DEF Secrets!Throw, Secrets!NoSecret, SecretsInv
  <2>4. /\ d \in Ask /\ d.pc = "answered" /\ d.secret = 0 /\ d.kind = r.kind /\ d.grace = r.grace
        /\ d.row = r.row /\ d.old = r.old /\ d.status = r.status /\ d.meanwhile = r.meanwhile
    BY <2>2 DEF Ask, AskPc, AnswerSaid
  <2> QED
    BY <1>1, <1>2, <1>4, <2>1, <2>3, <2>4, MadeStep
<1>5. CASE /\ Secrets!At(s, "enable") /\ Secrets!Enableable /\ Secrets!Enabled
           /\ asked' = [asked EXCEPT ![s].pc = "record", ![s].warned = TRUE]
  BY <1>2, <1>5, FailedEnable DEF Secrets!At
<1> QED
  BY <1>3, <1>4, <1>5 DEF Secrets!LoseAnswer

(* What happens at Cloudflare, of which every request is told. *)
LEMMA Happening ==
    ASSUME SecretsInv, NEW what \in Doing, Secrets!Happens(what),
           token' \in Tok, TokenOK(token', record), Changes(token, record, token', record),
           what = "grace ended" =>
              /\ token'.state = token.state /\ token'.leak = token.leak
              /\ token'.secret = token.secret /\ token'.enabled = token.enabled,
           token.state = "unborn" => token'.state = "unborn"
    PROVE  SecretsInv'
<1>1. asked' = [s \in Slot |-> [asked[s] EXCEPT !.meanwhile = @ \cup {what}]] /\ UNCHANGED <<record, trail>>
  BY DEF Secrets!Happens
<1>2. ASSUME NEW s \in Slot
      PROVE  /\ asked'[s] \in Ask /\ Same(asked[s], asked'[s])
             /\ AskOK(token', record', trail', asked'[s])
  <2>1. PICK x \in Ask, y \in {asked'[s]} : x = asked[s]
    BY AskFacts
  <2>2. y = [x EXCEPT !.meanwhile = @ \cup {what}]
    BY <1>1, <2>1
  <2>3. /\ y \in Ask /\ Same(x, y) /\ x.meanwhile \subseteq y.meanwhile /\ y.meanwhile # {}
        /\ what # "grace ended" => ~Undisturbed(y)
    BY <2>2, ToldFacts
  <2>4. Survives(token, record, token', record, x, y)
    BY <2>3 DEF Survives
  <2>5. AskOK(token, record, trail, x) /\ token \in Tok /\ record \in RowState
    BY <2>1, AskFacts
  <2>6. AskOK(token', record, trail, y)
    BY <2>3, <2>4, <2>5, WaitingStaysOK
  <2> QED
    BY <1>1, <2>1, <2>3, <2>6
<1>3. asked' \in [Slot -> Ask]
  <2>1. asked' = [s \in Slot |-> asked'[s]]
    BY <1>1
  <2> QED
    BY <1>2, <2>1
<1>4. ASSUME NEW s \in Slot, NEW t \in Slot, s # t
      PROVE  Apart(asked'[s], asked'[t])
  <2>1. Apart(asked[s], asked[t])
    BY <1>4 DEF SecretsInv
  <2> QED
    BY <1>2, <2>1 DEF Apart, Same
<1> QED
  BY <1>1, <1>2, <1>3, <1>4 DEF SecretsInv

LEMMA EventFacts ==
    ASSUME NEW tok \in Tok, NEW rec, TokenOK(tok, rec), NEW after \in Tok, tok.state # "unborn",
           after.state # "unborn", tok.state = "gone" => after.state = "gone",
           after.secret = tok.secret, after.previous \in {0, tok.previous}
    PROVE  TokenOK(after, rec) /\ Changes(tok, rec, after, rec)
<1>1. TokenOK(after, rec)
  BY DEF TokenOK
<1>2. tok.secret <= after.secret
  BY DEF Tok
<1> QED
  BY <1>1, <1>2 DEF Changes

LEMMA LeakSecrets ==
    ASSUME SecretsInv, Secrets!Leak
    PROVE  SecretsInv'
<1>1. PICK tok \in Tok, after \in {token'} : tok = token
  BY DEF SecretsInv
<1>2. tok.state = "live" /\ TokenOK(tok, record)
  BY <1>1 DEF Secrets!Leak, Secrets!There, SecretsInv
<1>3. after = [tok EXCEPT !.leak = "current", !.enabled = FALSE]
  BY <1>1 DEF Secrets!Leak
<1>4. /\ after \in Tok /\ after.state = tok.state /\ after.secret = tok.secret /\ after.previous = tok.previous
  BY <1>3 DEF Tok, LeakState
<1>5. TokenOK(after, record) /\ Changes(tok, record, after, record)
  BY <1>2, <1>4, EventFacts
<1>6. PICK what \in Doing : what = "leaked"
  BY DEF Doing
<1>7. Secrets!Happens(what)
  BY <1>6 DEF Secrets!Leak
<1> QED
  BY <1>1, <1>2, <1>4, <1>5, <1>6, <1>7, Happening

LEMMA DisableSecrets ==
    ASSUME SecretsInv, Secrets!DisableInDashboard
    PROVE  SecretsInv'
<1>1. PICK tok \in Tok, after \in {token'} : tok = token
  BY DEF SecretsInv
<1>2. tok.state = "live" /\ TokenOK(tok, record)
  BY <1>1 DEF Secrets!DisableInDashboard, Secrets!There, SecretsInv
<1>3. after = [tok EXCEPT !.enabled = FALSE]
  BY <1>1 DEF Secrets!DisableInDashboard
<1>4. /\ after \in Tok /\ after.state = tok.state /\ after.secret = tok.secret /\ after.previous = tok.previous
  BY <1>3 DEF Tok
<1>5. TokenOK(after, record) /\ Changes(tok, record, after, record)
  BY <1>2, <1>4, EventFacts
<1>6. PICK what \in Doing : what = "disabled"
  BY DEF Doing
<1>7. Secrets!Happens(what)
  BY <1>6 DEF Secrets!DisableInDashboard
<1> QED
  BY <1>1, <1>2, <1>4, <1>5, <1>6, <1>7, Happening

LEMMA DeleteSecrets ==
    ASSUME SecretsInv, Secrets!DeleteInDashboard
    PROVE  SecretsInv'
<1>1. PICK tok \in Tok, after \in {token'} : tok = token
  BY DEF SecretsInv
<1>2. tok.state = "live" /\ TokenOK(tok, record)
  BY <1>1 DEF Secrets!DeleteInDashboard, Secrets!There, SecretsInv
<1>3. after = [tok EXCEPT !.state = "gone"]
  BY <1>1 DEF Secrets!DeleteInDashboard
<1>4. /\ after \in Tok /\ after.state = "gone" /\ after.secret = tok.secret /\ after.previous = tok.previous
  BY <1>3 DEF Tok
<1>5. TokenOK(after, record) /\ Changes(tok, record, after, record)
  BY <1>2, <1>4, EventFacts
<1>6. PICK what \in Doing : what = "gone"
  BY DEF Doing
<1>7. Secrets!Happens(what)
  BY <1>6 DEF Secrets!DeleteInDashboard
<1> QED
  BY <1>1, <1>2, <1>4, <1>5, <1>6, <1>7, Happening

LEMMA GraceSecrets ==
    ASSUME SecretsInv, Secrets!GraceEnds
    PROVE  SecretsInv'
<1>1. PICK tok \in Tok, after \in {token'} : tok = token
  BY DEF SecretsInv
<1>2. tok.state # "unborn" /\ TokenOK(tok, record)
  BY <1>1 DEF Secrets!GraceEnds, Secrets!NoSecret, SecretsInv, TokenOK
<1>3. after = [tok EXCEPT !.previous = 0]
  BY <1>1 DEF Secrets!GraceEnds, Secrets!NoSecret
<1>4. /\ after \in Tok /\ after.state = tok.state /\ after.secret = tok.secret /\ after.previous = 0
      /\ after.leak = tok.leak /\ after.enabled = tok.enabled
  BY <1>3 DEF Tok
<1>5. TokenOK(after, record) /\ Changes(tok, record, after, record)
  BY <1>2, <1>4, EventFacts
<1>6. PICK what \in Doing : what = "grace ended"
  BY DEF Doing
<1>7. Secrets!Happens(what)
  BY <1>6 DEF Secrets!GraceEnds
<1> QED
  BY <1>1, <1>2, <1>4, <1>5, <1>6, <1>7, Happening

LEMMA SecretsInit == Secrets!Init => SecretsInv
<1> SUFFICES ASSUME Secrets!Init
             PROVE  SecretsInv
  OBVIOUS
<1>1. PICK r : r = Secrets!Idle
  OBVIOUS
<1>2. /\ r \in Ask /\ r.pc = "idle" /\ r.kind = "none" /\ r.secret = 0 /\ r.old = 0 /\ r.row = "none"
      /\ r.status = "none"
  BY <1>1 DEF Secrets!Idle, Secrets!NoSecret, Ask, AskPc, Asking, RowState, LeakState,
     StatusSaid, AnswerSaid, Doing
<1>3. asked \in [Slot -> Ask] /\ \A s \in Slot : asked[s] = r
  BY <1>1, <1>2 DEF Secrets!Init
<1>4. token \in Tok /\ record \in RowState /\ TokenOK(token, record)
  <2>1. CASE /\ token = [state |-> "unborn", enabled |-> TRUE, leak |-> "none", secret |-> 0, previous |-> 0]
             /\ record = "none"
    BY <2>1 DEF Tok, RowState, LeakState, TokenOK
  <2>2. CASE /\ token = [state |-> "live", enabled |-> TRUE, leak |-> "none", secret |-> 1, previous |-> 0]
             /\ record = "active"
    BY <2>2 DEF Tok, RowState, LeakState, TokenOK
  <2> QED
    BY <2>1, <2>2 DEF Secrets!Init, Secrets!NoSecret
<1>5. AskOK(token, record, trail, r)
  BY <1>2, <1>4 DEF AskOK, StepOK, SaidOK, KeepsOK, Late, Tok
<1>6. Apart(r, r)
  BY <1>2 DEF Apart
<1> QED
  BY <1>3, <1>4, <1>5, <1>6 DEF SecretsInv

LEMMA SecretsKept ==
    ASSUME SecretsInv, Secrets!Next
    PROVE  SecretsInv'
<1>1. ASSUME NEW s \in Slot,
             \/ Secrets!Begin(s) \/ Secrets!RequireActive(s) \/ Secrets!Create(s)
             \/ Secrets!GetBefore(s) \/ Secrets!Rotate(s) \/ Secrets!Enable(s) \/ Secrets!Record(s)
             \/ Secrets!Look(s) \/ Secrets!Refresh(s) \/ Secrets!Audit(s) \/ Secrets!Retire(s)
             \/ Secrets!Remove(s) \/ Secrets!ReadRows(s) \/ Secrets!List(s)
             \/ Secrets!Fail(s) \/ Secrets!LoseAnswer(s) \/ Secrets!Die(s)
      PROVE  SecretsInv'
  BY <1>1, BeginSecrets, RequireActiveSecrets, CreateSecrets, GetBeforeSecrets, RotateSecrets,
     EnableSecrets, RecordSecrets, LookSecrets, RefreshSecrets, AuditSecrets, RetireSecrets,
     RemoveSecrets, ReadRowsSecrets, ListSecrets, FailSecrets, LoseAnswerSecrets, DieSecrets
<1>2. Secrets!AddOther \/ Secrets!RemoveOther => SecretsInv'
  BY SecretsUntouched DEF Secrets!AddOther, Secrets!RemoveOther, Secrets!OthersChange
<1> QED
  BY <1>1, <1>2, LeakSecrets, DisableSecrets, DeleteSecrets, GraceSecrets
  DEF Secrets!Next, Secrets!OneToken, Secrets!AllTokens

(* The pages of a list. As long as none is passed over, a token that is      *)
(* there has been found, or is on a page that has not been read.             *)
PagePlace == [ahead: Nat, behind: Nat, per: 1..PageSize]
PageCourse == [page: Nat \ {0}, got: Nat, found: BOOLEAN, shifted: BOOLEAN]

PageOK(tok, acc, r, l) ==
    /\ r.status = "missing" => l.shifted = TRUE \/ tok.state = "gone"
    /\ r.pc = "list" /\ r.row # "none" /\ l.shifted = FALSE /\ tok.state = "live" =>
          /\ l.found = TRUE \/ acc.ahead >= (l.page - 1) * acc.per
          /\ l.got = (l.page - 1) * acc.per

PagesInv ==
    /\ account \in PagePlace /\ listing \in [Slot -> PageCourse]
    /\ \A s \in Slot : PageOK(token, account, asked[s], listing[s])

(* What every other step leaves of a request: nobody comes to read pages but *)
(* by reading the rows, and nobody is told that a token is missing but by    *)
(* reading pages.                                                            *)
Onward(r, d) ==
    /\ d.status = "missing" => r.status = "missing"
    /\ d.pc = "list" => r.pc = "list" /\ d.row = r.row

LEMMA TypedAsked ==
    ASSUME SecretsInv
    PROVE  asked \in [Slot -> Ask] /\ token \in Tok
  BY DEF SecretsInv

(* What one request tells the others it did leaves them where they are.      *)
LEMMA OthersAreTold ==
    ASSUME asked \in [Slot -> Ask], NEW s \in Slot, NEW what, NEW t \in Slot
    PROVE  /\ DOMAIN Secrets!Tell(s, what) = Slot
           /\ Secrets!Tell(s, what)[s] = asked[s]
           /\ Secrets!Tell(s, what)[t].pc = asked[t].pc
           /\ Secrets!Tell(s, what)[t].row = asked[t].row
           /\ Secrets!Tell(s, what)[t].status = asked[t].status
  BY DEF Secrets!Tell, Ask

LEMMA OnwardSteps ==
    ASSUME SecretsInv, NEW s \in Slot, NEW t \in Slot,
           \/ Secrets!Begin(s) \/ Secrets!RequireActive(s) \/ Secrets!Create(s)
           \/ Secrets!GetBefore(s) \/ Secrets!Rotate(s) \/ Secrets!Enable(s) \/ Secrets!Record(s)
           \/ Secrets!Look(s) \/ Secrets!Refresh(s) \/ Secrets!Audit(s) \/ Secrets!Retire(s)
           \/ Secrets!Remove(s) \/ Secrets!Fail(s) \/ Secrets!LoseAnswer(s) \/ Secrets!Die(s)
    PROVE  Onward(asked[t], asked'[t])
<1>0. asked \in [Slot -> Ask]
  BY TypedAsked
<1> USE DEF Onward
<1>1. CASE Secrets!Begin(s)
  BY <1>0, <1>1 DEF Secrets!Begin, Secrets!Idle
<1>2. CASE Secrets!RequireActive(s)
  BY <1>0, <1>2 DEF Secrets!RequireActive, Secrets!Throw, Ask
<1>3. CASE Secrets!Create(s)
  BY <1>0, <1>3 DEF Secrets!Create, Ask
<1>4. CASE Secrets!GetBefore(s)
  BY <1>0, <1>4 DEF Secrets!GetBefore, Secrets!Throw, Ask
<1>5. CASE Secrets!Rotate(s)
  <2>1. CASE Secrets!Throw(s, IF Secrets!There THEN "UPSTREAM_FAILED" ELSE "NOT_FOUND")
    BY <1>0, <2>1 DEF Secrets!Throw, Ask
  <2>2. CASE asked' = [Secrets!Tell(s, "rotated") EXCEPT
                          ![s].pc = IF Secrets!NeedsEnabling(asked[s]) THEN "enable" ELSE "record",
                          ![s].secret = token.secret + 1, ![s].old = token.secret]
    <3>1. asked'[s].pc \in {"enable", "record"}
      BY <1>0, <1>5, <2>2, OthersAreTold DEF Secrets!Rotate, Secrets!At, Ask
    <3>2. asked'[t].status = asked[t].status
      BY <1>0, <2>2, OthersAreTold DEF Ask
    <3>3. t # s => asked'[t].pc = asked[t].pc /\ asked'[t].row = asked[t].row
      BY <1>0, <2>2, OthersAreTold
    <3> QED
      BY <3>1, <3>2, <3>3
  <2> QED
    BY <1>5, <2>1, <2>2 DEF Secrets!Rotate
<1>6. CASE Secrets!Enable(s)
  BY <1>0, <1>6 DEF Secrets!Enable, Ask
<1>7. CASE Secrets!Record(s)
  BY <1>0, <1>7 DEF Secrets!Record, Ask
<1>8. CASE Secrets!Look(s)
  BY <1>0, <1>8 DEF Secrets!Look, Secrets!ToRecord, Ask
<1>9. CASE Secrets!Refresh(s)
  BY <1>0, <1>9 DEF Secrets!Refresh, Secrets!Goto, Secrets!Throw, Ask
<1>10. CASE Secrets!Audit(s)
  BY <1>0, <1>10 DEF Secrets!Audit, Secrets!ToRecord, Ask
<1>11. CASE Secrets!Retire(s)
  BY <1>0, <1>11 DEF Secrets!Retire, Secrets!Goto, Secrets!Throw, Ask
<1>12. CASE Secrets!Remove(s)
  BY <1>0, <1>12 DEF Secrets!Remove, Secrets!Tell, Ask
<1>13. CASE Secrets!Fail(s)
  BY <1>0, <1>13 DEF Secrets!Fail, Secrets!Says, Secrets!Throw, Secrets!Unrecorded, Secrets!ToRecord, Ask
<1>14. CASE Secrets!LoseAnswer(s)
  <2>1. CASE Secrets!Throw(s, "UPSTREAM_FAILED")
    BY <1>0, <2>1 DEF Secrets!Throw, Ask
  <2>2. CASE asked' = [asked EXCEPT ![s].pc = "record", ![s].warned = TRUE]
    BY <1>0, <2>2 DEF Ask
  <2>3. CASE asked' = [Secrets!Tell(s, "rotated") EXCEPT ![s].pc = "answered",
                                                         ![s].answer = "UPSTREAM_FAILED"]
    <3>1. asked'[t].status = asked[t].status
      BY <1>0, <2>3, OthersAreTold DEF Ask
    <3>2. t # s => asked'[t].pc = asked[t].pc /\ asked'[t].row = asked[t].row
      BY <1>0, <2>3, OthersAreTold
    <3>3. asked'[s].pc = "answered"
      BY <1>0, <2>3, OthersAreTold DEF Ask
    <3> QED
      BY <3>1, <3>2, <3>3
  <2> QED
    BY <1>14, <2>1, <2>2, <2>3 DEF Secrets!LoseAnswer
<1>15. CASE Secrets!Die(s)
  BY <1>0, <1>15 DEF Secrets!Die, Secrets!Goto, Ask
<1> QED
  BY <1>1, <1>2, <1>3, <1>4, <1>5, <1>6, <1>7, <1>8, <1>9, <1>10, <1>11, <1>12, <1>13, <1>14, <1>15

LEMMA OnwardEvents ==
    ASSUME SecretsInv, NEW t \in Slot,
           Secrets!Leak \/ Secrets!DisableInDashboard \/ Secrets!DeleteInDashboard \/ Secrets!GraceEnds
    PROVE  Onward(asked[t], asked'[t])
<1>1. asked \in [Slot -> Ask]
  BY TypedAsked
<1>2. PICK what : asked' = [s \in Slot |-> [asked[s] EXCEPT !.meanwhile = @ \cup {what}]]
  BY DEF Secrets!Leak, Secrets!DisableInDashboard, Secrets!DeleteInDashboard, Secrets!GraceEnds, Secrets!Happens
<1> QED
  BY <1>1, <1>2 DEF Onward, Ask

(* A token that is gone does not come back. *)
LEMMA GoneForGood ==
    ASSUME SecretsInv, Secrets!Next, token.state = "gone"
    PROVE  token'.state = "gone"
<1>1. token \in Tok /\ \A s \in Slot : asked[s].pc # "issue"
  BY DEF SecretsInv, AskOK, StepOK
<1> QED
  BY <1>1 DEF Tok, Secrets!Next, Secrets!OneToken, Secrets!AllTokens, Secrets!Begin, Secrets!RequireActive,
     Secrets!Create, Secrets!GetBefore, Secrets!Rotate, Secrets!Rotated, Secrets!Enable, Secrets!Enabled,
     Secrets!Record, Secrets!Look, Secrets!Refresh, Secrets!Audit, Secrets!Retire, Secrets!Remove,
     Secrets!Fail, Secrets!LoseAnswer, Secrets!Die, Secrets!Leak, Secrets!DisableInDashboard,
     Secrets!DeleteInDashboard, Secrets!GraceEnds, Secrets!ReadRows, Secrets!List, Secrets!AddOther,
     Secrets!RemoveOther, Secrets!OthersChange, Secrets!At

LEMMA LiveBefore ==
    ASSUME SecretsInv, Secrets!Next, NEW s \in Slot, asked[s].row # "none", token'.state = "live"
    PROVE  token.state = "live"
<1>1. token.state # "unborn"
  BY DEF SecretsInv, AskOK, StepOK
<1>2. token.state # "gone"
  BY GoneForGood
<1> QED
  BY <1>1, <1>2, TypedAsked DEF Tok

LEMMA OnePageOn ==
    ASSUME NEW tok, NEW after, NEW acc, NEW r, NEW d, NEW l, PageOK(tok, acc, r, l), Onward(r, d),
           tok.state = "gone" => after.state = "gone",
           r.row # "none" /\ after.state = "live" => tok.state = "live"
    PROVE  PageOK(after, acc, d, l)
  BY DEF PageOK, Onward

LEMMA OneTokenPages ==
    ASSUME SecretsInv, PagesInv, Secrets!Next, Secrets!OneToken, UNCHANGED <<account, listing>>
    PROVE  PagesInv'
<1>1. ASSUME NEW t \in Slot
      PROVE  PageOK(token', account, asked'[t], listing[t])
  <2>1. Onward(asked[t], asked'[t])
    BY OnwardSteps, OnwardEvents DEF Secrets!OneToken
  <2>2. PageOK(token, account, asked[t], listing[t])
    BY DEF PagesInv
  <2> QED
    BY <2>1, <2>2, GoneForGood, LiveBefore, OnePageOn
<1> QED
  BY <1>1 DEF PagesInv

(* One more page: with p pages of per tokens read, and k on them. *)
LEMMA PageRead ==
    ASSUME NEW per \in Nat, per >= 1, per <= PageSize, NEW ahead \in Nat, NEW n \in Nat, n >= ahead + 1,
           NEW page \in Nat, page >= 1,
           NEW told \in SUBSET {"total_pages", "total_count", "per_page"}, told # {} \/ per = PageSize,
           NEW got, got = Secrets!Got(n, per, page) , ahead >= (page - 1) * per,
           NEW entries, entries = Secrets!Got(n, per, page) - Secrets!Got(n, per, page - 1),
           ahead + 1 > page * per
    PROVE  Secrets!MoreAfter(n, per, told, page, got, entries) /\ entries # 0
<1>1. PICK k \in Nat, j \in Nat : k = page * per /\ j = (page - 1) * per /\ k = j + per
  <2>1. page * per \in Nat /\ (page - 1) * per \in Nat
    OBVIOUS
  <2>2. page * per = (page - 1) * per + per
    OBVIOUS
  <2> QED
    BY <2>1, <2>2
<1>2. k < n /\ got = k /\ entries = per
  BY <1>1 DEF Secrets!Got, Secrets!Least
<1>3. "per_page" \notin told /\ "total_count" \notin told /\ "total_pages" \notin told => per = PageSize
  <2>1. "per_page" \notin told /\ "total_count" \notin told /\ "total_pages" \notin told => told = {}
    OBVIOUS
  <2> QED
    BY <2>1
<1>4. per >= (IF "per_page" \in told THEN per ELSE PageSize)
        \/ "total_pages" \in told \/ "total_count" \in told
  BY <1>3
<1>5. Secrets!MoreAfter(n, per, told, page, got, entries)
  BY <1>1, <1>2, <1>4 DEF Secrets!MoreAfter
<1> QED
  BY <1>2, <1>5

LEMMA PageFull ==
    ASSUME NEW per \in Nat, per >= 1, per <= PageSize, NEW n \in Nat, NEW page \in Nat, page >= 1,
           NEW told \in SUBSET {"total_pages", "total_count", "per_page"}, told # {} \/ per = PageSize,
           NEW entries, entries = Secrets!Got(n, per, page) - Secrets!Got(n, per, page - 1), entries # 0,
           NEW got, got = (page - 1) * per + entries, Secrets!MoreAfter(n, per, told, page, got, entries)
    PROVE  got = page * per
<1>1. PICK k \in Nat, j \in Nat : k = page * per /\ j = (page - 1) * per /\ k = j + per
  <2>1. page * per \in Nat /\ (page - 1) * per \in Nat
    OBVIOUS
  <2>2. page * per = (page - 1) * per + per
    OBVIOUS
  <2> QED
    BY <2>1, <2>2
<1>2. entries = (IF n < k THEN n ELSE k) - (IF n < j THEN n ELSE j) /\ got = j + entries
  BY <1>1 DEF Secrets!Got, Secrets!Least
<1>3. j < n
  BY <1>1, <1>2
<1>4. "per_page" \notin told /\ "total_count" \notin told /\ "total_pages" \notin told => per = PageSize
  <2>1. "per_page" \notin told /\ "total_count" \notin told /\ "total_pages" \notin told => told = {}
    OBVIOUS
  <2> QED
    BY <2>1
<1>5. k < n \/ got < n \/ entries >= per
  BY <1>1, <1>4 DEF Secrets!MoreAfter
<1> QED
  BY <1>1, <1>2, <1>3, <1>5

LEMMA ReadRowsPages ==
    ASSUME SecretsInv, PagesInv, NEW s \in Slot, Secrets!ReadRows(s)
    PROVE  PagesInv'
<1>1. asked \in [Slot -> Ask]
  BY TypedAsked
<1>2. PICK l : l = Secrets!Unlisted
  OBVIOUS
<1>3. l \in PageCourse /\ l.page = 1 /\ l.got = 0 /\ l.shifted = FALSE
  BY <1>2 DEF Secrets!Unlisted, PageCourse
<1>4. listing' = [listing EXCEPT ![s] = l] /\ UNCHANGED <<account, token>>
  BY <1>2 DEF Secrets!ReadRows
<1>5. asked[s].status = "none" /\ asked'[s].status = "none" /\ \A t \in Slot : t # s => asked'[t] = asked[t]
  BY <1>1 DEF Secrets!ReadRows, Secrets!At, SecretsInv, AskOK, StepOK, Ask
<1>6. account.ahead \in Nat /\ account.per \in Nat /\ (l.page - 1) * account.per = 0
  <2>1. account.ahead \in Nat /\ account.per \in Nat
    BY PagesAssumption DEF PagesInv, PagePlace
  <2>2. 0 * account.per = 0
    BY <2>1
  <2> QED
    BY <1>3, <2>1, <2>2
<1>7. PageOK(token, account, asked'[s], l)
  BY <1>3, <1>5, <1>6 DEF PageOK
<1>8. \A t \in Slot : PageOK(token', account', asked'[t], listing'[t])
  BY <1>4, <1>5, <1>7 DEF PagesInv
<1> QED
  BY <1>3, <1>4, <1>8 DEF PagesInv

LEMMA AddOtherPages ==
    ASSUME SecretsInv, PagesInv, Secrets!AddOther
    PROVE  PagesInv'
<1>1. /\ UNCHANGED <<token, asked, listing>>
      /\ \/ account' = [account EXCEPT !.ahead = @ + 1]
         \/ account' = [account EXCEPT !.behind = @ + 1]
  BY DEF Secrets!AddOther, Secrets!OthersChange
<1>2. account' \in PagePlace /\ account'.per = account.per /\ account'.ahead >= account.ahead
  BY <1>1 DEF PagesInv, PagePlace
<1>3. PICK was \in Nat, now \in Nat, per \in Nat : was = account.ahead /\ now = account'.ahead /\ per = account.per
  BY <1>2, PagesAssumption DEF PagesInv, PagePlace
<1>4. ASSUME NEW s \in Slot
      PROVE  PageOK(token, account', asked[s], listing[s])
  <2>1. listing[s].page - 1 \in Nat
    BY DEF PagesInv, PageCourse
  <2>2. PICK j \in Nat : j = (listing[s].page - 1) * per
    BY <2>1
  <2>3. was >= j => now >= j
    BY <1>2, <1>3
  <2> QED
    BY <1>2, <1>3, <2>2, <2>3 DEF PagesInv, PageOK
<1> QED
  BY <1>1, <1>2, <1>4 DEF PagesInv

LEMMA RemoveOtherPages ==
    ASSUME SecretsInv, PagesInv, Secrets!RemoveOther
    PROVE  PagesInv'
<1>1. /\ UNCHANGED <<token, asked>>
      /\ \/ account.ahead > 0 /\ account' = [account EXCEPT !.ahead = @ - 1]
         \/ account.behind > 0 /\ account' = [account EXCEPT !.behind = @ - 1]
      /\ listing' = [s \in Slot |-> IF asked[s].pc = "list" /\ listing[s].page > 1
                                     THEN [listing[s] EXCEPT !.shifted = TRUE] ELSE listing[s]]
  BY DEF Secrets!RemoveOther, Secrets!OthersChange, Secrets!At
<1>2. account' \in PagePlace /\ account'.per = account.per
  BY <1>1 DEF PagesInv, PagePlace
<1>3. listing' \in [Slot -> PageCourse]
  BY <1>1 DEF PagesInv, PageCourse
<1>4. account.per \in Nat /\ account'.ahead \in Nat
  BY <1>2, PagesAssumption DEF PagesInv, PagePlace
<1>5. ASSUME NEW s \in Slot
      PROVE  PageOK(token, account', asked[s], listing'[s])
  <2>1. PICK l \in PageCourse : l = listing[s]
    BY DEF PagesInv
  <2>2. PageOK(token, account, asked[s], l)
    BY <2>1 DEF PagesInv
  <2>3. CASE asked[s].pc = "list" /\ l.page > 1
    <3>1. listing'[s].shifted = TRUE
      BY <1>1, <2>1, <2>3 DEF PageCourse
    <3> QED
      BY <3>1 DEF PageOK
  <2>4. CASE asked[s].pc # "list"
    <3>1. listing'[s] = l
      BY <1>1, <2>1, <2>4
    <3> QED
      BY <2>2, <2>4, <3>1 DEF PageOK
  <2>5. CASE asked[s].pc = "list" /\ ~(l.page > 1)
    <3>1. listing'[s] = l /\ l.page = 1
      BY <1>1, <2>1, <2>5 DEF PageCourse
    <3>2. 0 * account.per = 0
      BY <1>4
    <3>3. (l.page - 1) * account.per = 0
      BY <3>1, <3>2
    <3>4. account'.ahead >= 0
      BY <1>4
    <3> QED
      BY <1>2, <2>2, <3>1, <3>3, <3>4 DEF PageOK
  <2> QED
    BY <2>3, <2>4, <2>5
<1> QED
  BY <1>1, <1>2, <1>3, <1>5 DEF PagesInv

LEMMA SaysOf ==
    ASSUME asked \in [Slot -> Ask], NEW s \in Slot, NEW live \in BOOLEAN, NEW wasAsked \in BOOLEAN,
           Secrets!Says(s, live, wasAsked)
    PROVE  /\ asked'[s].pc = "answered" /\ \A t \in Slot : t # s => asked'[t] = asked[t]
           /\ asked'[s].status = "missing" => asked[s].row # "none" /\ live = FALSE /\ wasAsked = TRUE
<1>1. PICK status : status = IF asked[s].row = "none" THEN "none" ELSE Secrets!ToRecord(asked[s].row, live, wasAsked)
  OBVIOUS
<1>2. status = "missing" => asked[s].row # "none" /\ live = FALSE /\ wasAsked = TRUE
  BY <1>1 DEF Secrets!ToRecord
<1>3. asked' = [asked EXCEPT ![s].pc = "answered", ![s].answer = "done", ![s].status = status]
  BY <1>1 DEF Secrets!Says
<1> QED
  BY <1>2, <1>3 DEF Ask

LEMMA ListPages ==
    ASSUME SecretsInv, PagesInv, NEW s \in Slot, Secrets!List(s)
    PROVE  PagesInv'
<1>1. PICK r \in Ask, l \in PageCourse, acc \in PagePlace, tok \in Tok :
        r = asked[s] /\ l = listing[s] /\ acc = account /\ tok = token
  BY AskFacts DEF PagesInv
<1>2. r.pc = "list" /\ UNCHANGED <<account, token>> /\ r.status = "none" /\ (r.row # "none" => tok.state # "unborn")
  BY <1>1, AskFacts DEF Secrets!List, Secrets!At, AskOK, StepOK
<1>3. PICK n, per, page, entries, got, found :
        /\ n = Secrets!Total /\ per = acc.per /\ page = l.page
        /\ entries = Secrets!Got(n, per, page) - Secrets!Got(n, per, page - 1)
        /\ got = l.got + entries
        /\ found = (l.found \/ (Secrets!There /\ Secrets!OnPage(acc.ahead + 1, page)))
  OBVIOUS
<1>4. PICK told \in SUBSET {"total_pages", "total_count", "per_page"} :
        /\ told # {} \/ per = PageSize
        /\ \/ /\ ~Secrets!MoreAfter(n, per, told, page, got, entries) \/ entries = 0
              /\ Secrets!Says(s, found, TRUE)
              /\ listing' = [listing EXCEPT ![s] = [Secrets!Unlisted EXCEPT !.shifted = l.shifted]]
           \/ /\ Secrets!Says(s, FALSE, FALSE)
              /\ listing' = [listing EXCEPT ![s] = [Secrets!Unlisted EXCEPT !.shifted = l.shifted]]
           \/ /\ Secrets!MoreAfter(n, per, told, page, got, entries) /\ entries # 0
              /\ listing' = [listing EXCEPT ![s].page = page + 1, ![s].got = got, ![s].found = found]
              /\ UNCHANGED asked
  BY <1>1, <1>3 DEF Secrets!List, Secrets!Told
<1>5. /\ per \in Nat /\ per >= 1 /\ per <= PageSize /\ acc.ahead \in Nat /\ acc.behind \in Nat
      /\ page \in Nat /\ page >= 1 /\ n \in Nat /\ (tok.state = "live" => n >= acc.ahead + 1)
      /\ entries \in Int /\ found \in BOOLEAN /\ l.found \in BOOLEAN /\ l.shifted \in BOOLEAN /\ l.got \in Nat
  <2>1. per \in Nat /\ per >= 1 /\ per <= PageSize /\ acc.ahead \in Nat /\ acc.behind \in Nat /\ page \in Nat /\ page >= 1
    BY <1>3, PagesAssumption DEF PagePlace, PageCourse
  <2>2. l.found \in BOOLEAN /\ l.shifted \in BOOLEAN /\ l.got \in Nat
    BY DEF PageCourse
  <2>3. n = acc.ahead + (IF tok.state = "live" THEN 1 ELSE 0) + acc.behind
    BY <1>1, <1>3 DEF Secrets!Total, Secrets!There
  <2>4. page * per \in Nat /\ (page - 1) * per \in Nat
    BY <2>1
  <2>5. entries \in Int
    BY <1>3, <2>1, <2>3, <2>4 DEF Secrets!Got, Secrets!Least
  <2>6. found \in BOOLEAN
    BY <1>3, <2>2
  <2> QED
    BY <2>1, <2>2, <2>3, <2>5, <2>6
<1>5a. PICK k \in Nat, j \in Nat, here \in Nat :
             k = page * per /\ j = (page - 1) * per /\ here = acc.ahead
  <2>1. page * per \in Nat /\ (page - 1) * per \in Nat /\ acc.ahead \in Nat
    BY ONLY <1>5
  <2> QED
    BY ONLY <2>1
<1>6. PageOK(tok, acc, r, l)
  BY <1>1 DEF PagesInv
<1>7. ASSUME r.row # "none", l.shifted = FALSE, tok.state = "live"
      PROVE  /\ l.got = (page - 1) * per
             /\ found = FALSE => acc.ahead >= page * per /\ acc.ahead >= (page - 1) * per
  <2>1. (l.found = TRUE \/ acc.ahead >= (page - 1) * per) /\ l.got = (page - 1) * per
    BY <1>2, <1>3, <1>6, <1>7 DEF PageOK
  <2>2. ASSUME found = FALSE
        PROVE  acc.ahead >= page * per /\ acc.ahead >= (page - 1) * per
    <3>1. l.found # TRUE /\ ~Secrets!OnPage(acc.ahead + 1, page)
      BY <1>1, <1>3, <1>5, <1>7, <2>2 DEF Secrets!There
    <3>2. ~((page - 1) * per < acc.ahead + 1 /\ acc.ahead + 1 <= page * per)
      BY <1>1, <1>3, <3>1 DEF Secrets!OnPage
    <3>3. here >= j
      BY <1>5a, <2>1, <3>1
    <3>4. ~(j < here + 1 /\ here + 1 <= k)
      BY <1>5a, <3>2
    <3>5. here >= k
      BY <3>3, <3>4
    <3> QED
      BY <1>5a, <3>3, <3>5
  <2> QED
    BY <2>1, <2>2
<1>8. ASSUME r.row # "none", l.shifted = FALSE, tok.state = "live", found = FALSE
      PROVE  Secrets!MoreAfter(n, per, told, page, got, entries) /\ entries # 0
  <2>2. l.got = (page - 1) * per /\ acc.ahead >= page * per /\ acc.ahead >= (page - 1) * per
    BY <1>7, <1>8
  <2>3. l.got = j /\ here >= k /\ here >= j /\ n \in Nat /\ n >= here + 1
    BY <1>5, <1>5a, <1>8, <2>2
  <2>4. Secrets!Got(n, per, page) = k /\ Secrets!Got(n, per, page - 1) = j
    BY <1>5a, <2>3 DEF Secrets!Got, Secrets!Least
  <2>5. got = Secrets!Got(n, per, page)
    BY <1>3, <2>3, <2>4
  <2>6. here >= (page - 1) * per /\ here + 1 > page * per
    BY <1>5a, <2>3
  <2> QED
    BY <1>3, <1>4, <1>5, <2>3, <2>5, <2>6, PageRead
<1>9. asked \in [Slot -> Ask] /\ listing \in [Slot -> PageCourse] /\ Secrets!Unlisted \in PageCourse
  BY TypedAsked DEF PagesInv, Secrets!Unlisted, PageCourse
<1>10. ASSUME Secrets!Says(s, found, TRUE) \/ Secrets!Says(s, FALSE, FALSE),
              Secrets!Says(s, FALSE, FALSE) \/ ~Secrets!MoreAfter(n, per, told, page, got, entries) \/ entries = 0,
              listing' = [listing EXCEPT ![s] = [Secrets!Unlisted EXCEPT !.shifted = l.shifted]]
       PROVE  PagesInv'
  <2>1. listing' \in [Slot -> PageCourse] /\ listing'[s].shifted = l.shifted /\ \A t \in Slot : t # s => listing'[t] = listing[t]
    BY <1>5, <1>9, <1>10 DEF PageCourse
  <2>2. asked'[s].pc = "answered" /\ \A t \in Slot : t # s => asked'[t] = asked[t]
    BY <1>5, <1>9, <1>10, SaysOf
  <2>3. asked'[s].status = "missing" => r.row # "none" /\ found = FALSE /\ ~Secrets!Says(s, FALSE, FALSE)
    BY <1>1, <1>5, <1>9, <1>10, SaysOf
  <2>4. asked'[s].status = "missing" => l.shifted = TRUE \/ tok.state = "gone"
    BY <1>2, <1>5, <1>8, <1>10, <2>3 DEF Tok
  <2>5. PageOK(token', account', asked'[s], listing'[s])
    BY <1>1, <1>2, <2>1, <2>2, <2>4 DEF PageOK
  <2>6. \A t \in Slot : PageOK(token', account', asked'[t], listing'[t])
    BY <1>2, <2>1, <2>2, <2>5 DEF PagesInv
  <2> QED
    BY <1>2, <2>1, <2>6 DEF PagesInv
<1>11. ASSUME Secrets!MoreAfter(n, per, told, page, got, entries), entries # 0, UNCHANGED asked,
              listing' = [listing EXCEPT ![s].page = page + 1, ![s].got = got, ![s].found = found],
              got \in Nat
       PROVE  PagesInv'
  <2>0. PICK q \in Nat \ {0} : q = page + 1
    BY <1>5
  <2>1. PICK m : m = [l EXCEPT !.page = q, !.got = got, !.found = found]
    OBVIOUS
  <2>2. m \in PageCourse /\ m.page = page + 1 /\ m.got = got /\ m.found = found /\ m.shifted = l.shifted
    BY <1>5, <1>11, <2>0, <2>1 DEF PageCourse
  <2>3. listing' = [listing EXCEPT ![s] = m]
    BY <1>1, <1>9, <1>11, <2>0, <2>1
  <2>4. ASSUME r.row # "none", l.shifted = FALSE, tok.state = "live"
        PROVE  (m.found = TRUE \/ acc.ahead >= (m.page - 1) * per) /\ m.got = (m.page - 1) * per
    <3>1. got = (page - 1) * per + entries
      BY <1>3, <1>7, <2>4
    <3>2. got = page * per
      BY <1>3, <1>4, <1>5, <1>11, <3>1, PageFull
    <3>3. m.page - 1 = page
      BY <1>5, <2>2
    <3> QED
      BY <1>5, <1>7, <2>2, <2>4, <3>2, <3>3
  <2>5. PageOK(tok, acc, r, m)
    BY <1>2, <1>3, <1>6, <2>2, <2>4 DEF PageOK
  <2>6. \A t \in Slot : PageOK(token', account', asked'[t], listing'[t])
    BY <1>1, <1>2, <1>9, <1>11, <2>3, <2>5 DEF PagesInv
  <2> QED
    BY <1>2, <1>9, <2>2, <2>3, <2>6 DEF PagesInv
<1>12. got \in Nat
  <2>1. page * per \in Nat /\ (page - 1) * per \in Nat /\ (page - 1) * per <= page * per
    <3>1. page * per = (page - 1) * per + per /\ (page - 1) * per \in Nat
      BY <1>5
    <3> QED
      BY <1>5, <3>1
  <2>2. entries \in Nat
    BY <1>3, <1>5, <2>1 DEF Secrets!Got, Secrets!Least
  <2> QED
    BY <1>3, <1>5, <2>2
<1> QED
  BY <1>4, <1>10, <1>11, <1>12

LEMMA PagesKept ==
    ASSUME SecretsInv, PagesInv, Secrets!Next
    PROVE  PagesInv'
<1>1. CASE Secrets!OneToken /\ UNCHANGED <<account, listing>>
  BY <1>1, OneTokenPages
<1>2. CASE Secrets!AllTokens
  BY <1>2, ReadRowsPages, ListPages, AddOtherPages, RemoveOtherPages DEF Secrets!AllTokens
<1> QED
  BY <1>1, <1>2 DEF Secrets!Next, Secrets!pages

LEMMA PagesInit == Secrets!Init => PagesInv
<1> SUFFICES ASSUME Secrets!Init PROVE PagesInv
  OBVIOUS
<1>1. account \in PagePlace
  BY PagesAssumption DEF Secrets!Init, PagePlace
<1>2. Secrets!Unlisted \in PageCourse
  BY DEF Secrets!Unlisted, PageCourse
<1>3. Secrets!Idle.status = "none" /\ Secrets!Idle.pc = "idle"
  BY DEF Secrets!Idle
<1>4. \A s \in Slot : PageOK(token, account, asked[s], listing[s])
  BY <1>3 DEF Secrets!Init, PageOK
<1>5. listing \in [Slot -> PageCourse]
  BY <1>2 DEF Secrets!Init
<1> QED
  BY <1>1, <1>4, <1>5 DEF PagesInv

LEMMA StatusesFollow == SecretsInv /\ PagesInv => Secrets!StatusesAreTrue
  BY DEF Secrets!StatusesAreTrue, SecretsInv, AskOK, SaidOK, PagesInv, PageOK, PageCourse

-----------------------------------------------------------------------------
(* The audit log: its ids. *)

PerTick == MaxCounter + 1
Number(id) == id.timestamp * PerTick + id.counter
IdState == [timestamp : Nat \cup {-1}, counter : 0 .. MaxCounter]

LEMMA TimesGrows ==
    ASSUME NEW x \in Int, NEW y \in Int, NEW n \in Nat, x <= y
    PROVE  x * n <= y * n /\ x * n \in Int /\ y * n \in Int
<1>1. y - x \in Nat
  OBVIOUS
<1>2. \A d \in Nat : d * n >= 0
  OBVIOUS
<1>3. (y - x) * n >= 0
  BY <1>1, <1>2
<1>4. (y - x) * n = y * n - x * n
  OBVIOUS
<1> QED
  BY <1>3, <1>4

(* Two numbers with one remainder have one quotient. *)
LEMMA OneRemainder ==
    ASSUME NEW n \in Nat, NEW k \in Nat, NEW l \in Nat, NEW i \in 0 .. n - 1, NEW j \in 0 .. n - 1,
           k * n + i = l * n + j
    PROVE  i = j
<1>1. CASE k = l
  BY <1>1
<1>2. ASSUME NEW m \in Nat, NEW o \in Nat, NEW x \in 0 .. n - 1, NEW y \in 0 .. n - 1, m < o
      PROVE  m * n + x < o * n + y
  <2>1. (m + 1) * n <= o * n
    BY <1>2, TimesGrows
  <2>2. (m + 1) * n = m * n + n
    OBVIOUS
  <2>3. m * n \in Int /\ o * n \in Int
    BY TimesGrows
  <2> QED
    BY <2>1, <2>2, <2>3
<1>3. CASE k < l
  BY <1>2, <1>3
<1>4. CASE l < k
  BY <1>2, <1>4
<1> QED
  BY <1>1, <1>3, <1>4

LEMMA NumberGrows ==
    ASSUME NEW id \in IdState, NEW now \in Nat
    PROVE  \E next \in IdState :
               /\ next = Audit!Advance(id, now)
               /\ next.timestamp \in Nat
               /\ next.timestamp >= now
               /\ Number(id) < Number(next)
               /\ Number(next) \in Nat
<1> DEFINE next == Audit!Advance(id, now)
<1>1. MaxCounter \in Nat /\ PerTick \in Nat /\ PerTick = MaxCounter + 1
  BY AuditAssumption DEF PerTick
<1>2. id.timestamp \in Int /\ id.timestamp >= -1 /\ id.counter \in 0 .. MaxCounter
  BY DEF IdState
<1>3. next \in IdState /\ next.timestamp \in Nat /\ next.timestamp >= now
  BY <1>1, <1>2 DEF Audit!Advance, IdState
<1>4. ASSUME now > id.timestamp \/ ~(id.counter < MaxCounter)
      PROVE  Number(id) < Number(next)
  <2>1. next.timestamp >= id.timestamp + 1
    BY <1>2, <1>4 DEF Audit!Advance
  <2>2. (id.timestamp + 1) * PerTick <= next.timestamp * PerTick
    BY <2>1, <1>1, <1>2, <1>3, TimesGrows
  <2>3. (id.timestamp + 1) * PerTick = id.timestamp * PerTick + PerTick
    BY <1>1, <1>2
  <2>4. id.timestamp * PerTick \in Int /\ next.timestamp * PerTick \in Int
    BY <1>1, <1>2, <1>3, TimesGrows
  <2>5. next.counter \in Nat
    BY <1>3, <1>1 DEF IdState
  <2> HIDE DEF next
  <2> QED
    BY <2>2, <2>3, <2>4, <2>5, <1>1, <1>2 DEF Number
<1>5. ASSUME ~(now > id.timestamp), id.counter < MaxCounter
      PROVE  Number(id) < Number(next)
  <2>1. next.timestamp = id.timestamp /\ next.counter = id.counter + 1
    BY <1>5 DEF Audit!Advance, IdState
  <2>2. id.timestamp * PerTick \in Int
    BY <1>1, <1>2, TimesGrows
  <2> HIDE DEF next
  <2> QED
    BY <2>1, <2>2, <1>1, <1>2 DEF Number
<1>6. Number(next) \in Nat
  <2>1. 0 * PerTick <= next.timestamp * PerTick /\ next.timestamp * PerTick \in Int
    BY <1>1, <1>3, TimesGrows
  <2>2. next.counter \in Nat
    BY <1>3, <1>1 DEF IdState
  <2> QED
    BY <2>1, <2>2, <1>1 DEF Number
<1>7. Number(id) < Number(next)
  BY <1>4, <1>5
<1>8. next = Audit!Advance(id, now)
  OBVIOUS
<1> HIDE DEF next
<1> QED
  BY <1>3, <1>6, <1>7, <1>8

LEMMA SameCardinality == \A S : Audit!Cardinality(S) = Cardinality(S)
  BY Zenon DEF Audit!Cardinality, Cardinality

(* A finite set of rows can be put in the order of their ids. *)
IsNewestFirst(s, R) ==
    /\ s \in [1 .. Cardinality(R) -> R]
    /\ \A i, j \in DOMAIN s : i < j => s[i].id > s[j].id

LEMMA OrderExists ==
    ASSUME NEW R, IsFiniteSet(R), \A r \in R : r.id \in Nat, \A r, q \in R : r.id = q.id => r = q
    PROVE  \E s : IsNewestFirst(s, R)
<1> DEFINE Good == {n \in Nat : \A S \in SUBSET R : Cardinality(S) = n => \E s : IsNewestFirst(s, S)}
<1>1. \A S \in SUBSET R : IsFiniteSet(S) /\ Cardinality(S) \in Nat
  BY FS_Subset, FS_CardinalityType
<1>2. 0 \in Good
  <2> SUFFICES ASSUME NEW S \in SUBSET R, Cardinality(S) = 0
               PROVE  IsNewestFirst(<<>>, S)
    OBVIOUS
  <2>1. S = {}
    BY <1>1, FS_EmptySet
  <2> QED
    BY <2>1, FS_EmptySet DEF IsNewestFirst
<1>3. ASSUME NEW n \in Good
      PROVE  n + 1 \in Good
  <2> SUFFICES ASSUME NEW S \in SUBSET R, Cardinality(S) = n + 1
               PROVE  \E s : IsNewestFirst(s, S)
    BY <1>3
  <2>1. S # {}
    BY FS_EmptySet, <1>3
  <2>2. PICK m \in {r.id : r \in S} : \A k \in {r.id : r \in S} : m <= k
    <3>1. {r.id : r \in S} \in SUBSET Nat /\ {r.id : r \in S} # {}
      BY <2>1
    <3> QED
      BY <3>1, LeastExists
  <2>3. PICK last \in S : last.id = m
    BY <2>2
  <2> DEFINE T == S \ {last}
  <2>4. Cardinality(T) = n /\ T \in SUBSET R
    <3>1. Cardinality(T) = Cardinality(S) - 1
      BY <1>1, FS_RemoveElement
    <3> QED
      BY <3>1, <1>3
  <2>5. PICK s : IsNewestFirst(s, T)
    BY <2>4, <1>3
  <2>6. s \in [1 .. n -> T] /\ \A i, j \in 1 .. n : i < j => s[i].id > s[j].id
    BY <2>5, <2>4 DEF IsNewestFirst
  <2> DEFINE t == [i \in 1 .. n + 1 |-> IF i = n + 1 THEN last ELSE s[i]]
  <2> HIDE DEF T
  <2>7. \A r \in T : r \in S /\ r.id > last.id
    <3> SUFFICES ASSUME NEW r \in T
                 PROVE  r \in S /\ r.id > last.id
      OBVIOUS
    <3>1. r \in S /\ r # last /\ r \in R /\ last \in R
      BY DEF T
    <3>2. r.id >= last.id /\ r.id # last.id /\ r.id \in Nat /\ last.id \in Nat
      BY <3>1, <2>2, <2>3
    <3> QED
      BY <3>1, <3>2
  <2>8. t \in [1 .. n + 1 -> S]
    BY <2>6, <2>7, <1>3
  <2>9. \A i, j \in 1 .. n + 1 : i < j => t[i].id > t[j].id
    <3> SUFFICES ASSUME NEW i \in 1 .. n + 1, NEW j \in 1 .. n + 1, i < j
                 PROVE  t[i].id > t[j].id
      OBVIOUS
    <3>1. i \in 1 .. n /\ t[i] = s[i] /\ s[i] \in T
      BY <2>6, <1>3
    <3>2. CASE j = n + 1
      BY <3>1, <3>2, <2>7
    <3>3. CASE j \in 1 .. n
      BY <3>1, <3>3, <2>6, <1>3
    <3> QED
      BY <3>2, <3>3, <1>3
  <2> QED
    BY <2>8, <2>9 DEF IsNewestFirst
<1>4. Good = Nat
  <2> HIDE DEF Good
  <2>1. Good \in SUBSET Nat
    BY DEF Good
  <2> QED
    BY <1>2, <1>3, <2>1, SetInduction
<1> QED
  BY <1>1, <1>4

LEMMA NewestFirstIsAll ==
    ASSUME NEW R, IsFiniteSet(R), \A r \in R : r.id \in Nat, \A r, q \in R : r.id = q.id => r = q
    PROVE  \E s \in Seq(R) :
               /\ s = Audit!NewestFirst(R)
               /\ \A i, j \in 1 .. Len(s) : i < j => s[i].id > s[j].id
               /\ \A r \in R : \E i \in 1 .. Len(s) : s[i] = r
<1> DEFINE s == Audit!NewestFirst(R)
           n == Cardinality(R)
<1>1. n \in Nat
  BY FS_CardinalityType
<1>2. IsNewestFirst(s, R)
  <2>1. s = CHOOSE t \in [1 .. n -> R] : \A i, j \in DOMAIN t : i < j => t[i].id > t[j].id
    BY SameCardinality DEF Audit!NewestFirst
  <2>2. \E t \in [1 .. n -> R] : \A i, j \in DOMAIN t : i < j => t[i].id > t[j].id
    BY OrderExists DEF IsNewestFirst
  <2> QED
    BY <2>1, <2>2 DEF IsNewestFirst
<1>6. s = Audit!NewestFirst(R)
  OBVIOUS
<1> HIDE DEF s
<1>3. s \in [1 .. n -> R] /\ \A i, j \in 1 .. n : i < j => s[i].id > s[j].id
  BY <1>2 DEF IsNewestFirst
<1>4. s \in Seq(R) /\ Len(s) = n
  BY <1>1, <1>3
<1>5. ASSUME NEW r \in R
      PROVE  \E i \in 1 .. n : s[i] = r
  <2>1. IsFiniteSet(1 .. n) /\ Cardinality(1 .. n) = n
    BY <1>1, FS_Interval
  <2>2. \A i, j \in 1 .. n : s[i] = s[j] => i = j
    <3> SUFFICES ASSUME NEW i \in 1 .. n, NEW j \in 1 .. n, i < j, s[i] = s[j]
                 PROVE  FALSE
      BY <1>1
    <3>1. s[i].id > s[j].id /\ s[i].id \in Nat
      BY <1>3
    <3> QED
      BY <3>1
  <2>3. s \in Injection(1 .. n, R)
    BY <1>3, <2>2 DEF Injection, IsInjective
  <2>4. s \in Surjection(1 .. n, R)
    BY <2>1, <2>3, FS_Injection
  <2> QED
    BY <2>4 DEF Surjection
<1> HIDE DEF n
<1> QED
  BY <1>1, <1>3, <1>4, <1>5, <1>6

Grants == [global : BOOLEAN, projects : SUBSET AuditedProject, envs : SUBSET Env]

(* An id is a number of its isolate, none it has still to give.              *)
RowOK(r) ==
    /\ r.isolate \in Audit!Isolate
    /\ r.scope \in Scenes[theme].scopes
    /\ \E k \in Nat : r.id = k * Isolates + r.isolate /\ k <= Number(ids[r.isolate])

LogInv ==
    /\ theme \in DOMAIN Scenes
    /\ time \in Nat \ {0}
    /\ ids \in [Audit!Isolate -> IdState]
    /\ envs \subseteq Env
    /\ administers \in Grants
    /\ IsFiniteSet(log)
    /\ \A r \in pending \cup log : RowOK(r)
    /\ \A r, q \in pending \cup log : r.id = q.id => r = q

NewRows ==
    \A new \in pending' \ (pending \cup log) :
        /\ new.at >= new.ts
        /\ \A r \in pending \cup log :
              /\ r.id # new.id
              /\ r.isolate = new.isolate => r.id < new.id

LEMMA RowFacts ==
    ASSUME NEW r, RowOK(r), theme \in DOMAIN Scenes
    PROVE  /\ r.id \in Nat /\ r.isolate \in 0 .. Isolates - 1
           /\ r.scope.env # "none" =>
                 r.scope.env \in Env /\ r.scope.project \in {"none", Parent[r.scope.env]}
<1>1. PICK k \in Nat : r.id = k * Isolates + r.isolate
  BY DEF RowOK
<1>2. k * Isolates \in Nat
  BY AuditAssumption
<1> QED
  BY <1>1, <1>2, AuditAssumption DEF RowOK, Audit!Isolate

LEMMA BuildLog ==
    ASSUME LogInv, NEW i \in Audit!bounds.isolates, NEW scope \in Audit!bounds.scopes,
           NEW now \in {time, time - 1}, Audit!Build(i, scope, now)
    PROVE  LogInv' /\ NewRows
<1> DEFINE id == Audit!Advance(ids[i], now)
<1>0. PICK new : new = [id |-> Audit!Uuid(id, i), ts |-> now, isolate |-> i,
                        at |-> id.timestamp, scope |-> scope]
  OBVIOUS
<1>1. i \in Audit!Isolate /\ Isolates \in Nat /\ i \in 0 .. Isolates - 1
  BY AuditAssumption DEF LogInv, Audit!bounds, Audit!Isolate
<1>2. ids[i] \in IdState /\ now \in Nat
  BY <1>1 DEF LogInv
<1>3. /\ id \in IdState /\ id.timestamp >= now
      /\ Number(ids[i]) < Number(id) /\ Number(id) \in Nat
  BY <1>2, NumberGrows
<1>4. Number(ids[i]) \in Int
  <2>1. ids[i].timestamp \in Int /\ ids[i].counter \in Int /\ PerTick \in Nat
    BY <1>2, AuditAssumption DEF IdState, PerTick
  <2> QED
    BY <2>1, TimesGrows DEF Number
<1>5. /\ ids' = [ids EXCEPT ![i] = id]
      /\ pending' = pending \cup {new}
      /\ UNCHANGED <<theme, time, log, envs, administers>>
  BY <1>0 DEF Audit!Build
<1>6. new.id = Number(id) * Isolates + i
  BY <1>0 DEF Audit!Uuid, Number, PerTick
<1>7. new.isolate = i /\ new.scope = scope /\ new.at = id.timestamp /\ new.ts = now
  BY <1>0
<1> HIDE DEF id
<1>8. \A j \in Audit!Isolate : Number(ids[j]) <= Number(ids'[j]) /\ ids'[j] \in IdState
  <2> SUFFICES ASSUME NEW j \in Audit!Isolate
               PROVE  Number(ids[j]) <= Number(ids'[j]) /\ ids'[j] \in IdState
    OBVIOUS
  <2>1. CASE j = i
    BY <2>1, <1>3, <1>4, <1>5, <1>1 DEF LogInv
  <2>2. CASE j # i
    <3>1. ids'[j] = ids[j] /\ ids[j] \in IdState
      BY <2>2, <1>5 DEF LogInv
    <3>2. ids[j].timestamp \in Int /\ ids[j].counter \in Int /\ PerTick \in Nat
      BY <3>1, AuditAssumption DEF IdState, PerTick
    <3>3. Number(ids[j]) \in Int
      BY <3>2, TimesGrows DEF Number
    <3> QED
      BY <3>1, <3>3
  <2> QED
    BY <2>1, <2>2
<1>9. Number(ids'[i]) = Number(id)
  BY <1>5, <1>1 DEF LogInv
<1>10. RowOK(new)'
  <2>1. new.isolate \in Audit!Isolate /\ new.scope \in Scenes[theme].scopes
    BY <1>1, <1>7 DEF Audit!bounds
  <2>2. new.id = Number(id) * Isolates + new.isolate /\ Number(id) <= Number(ids'[new.isolate])
    BY <1>3, <1>6, <1>7, <1>9
  <2> QED
    BY <2>1, <2>2, <1>3, <1>5 DEF RowOK
<1>11. ASSUME NEW r \in pending \cup log
       PROVE  RowOK(r)' /\ r.id # new.id /\ (r.isolate = i => r.id < new.id)
  <2>1. RowOK(r)
    BY <1>11 DEF LogInv
  <2>2. PICK k \in Nat : r.id = k * Isolates + r.isolate /\ k <= Number(ids[r.isolate])
    BY <2>1 DEF RowOK
  <2>3. r.isolate \in Audit!Isolate /\ r.isolate \in 0 .. Isolates - 1
    BY <2>1 DEF RowOK, Audit!Isolate
  <2>4. Number(ids[r.isolate]) \in Int /\ Number(ids'[r.isolate]) \in Int
    <3>1. \A s \in IdState : Number(s) \in Int
      <4> SUFFICES ASSUME NEW s \in IdState PROVE Number(s) \in Int
        OBVIOUS
      <4>1. s.timestamp \in Int /\ s.counter \in Int /\ PerTick \in Nat
        BY AuditAssumption DEF IdState, PerTick
      <4> QED
        BY <4>1, TimesGrows DEF Number
    <3>2. ids[r.isolate] \in IdState /\ ids'[r.isolate] \in IdState
      BY <2>3, <1>8 DEF LogInv
    <3> QED
      BY <3>1, <3>2
  <2>5. k <= Number(ids'[r.isolate])
    BY <2>2, <2>3, <2>4, <1>8
  <2>6. RowOK(r)'
    BY <2>1, <2>2, <2>5, <1>5 DEF RowOK
  <2>7. ASSUME r.id = new.id
        PROVE  r.isolate = i
    BY <2>2, <2>3, <2>7, <1>1, <1>3, <1>6, OneRemainder
  <2>8. ASSUME r.isolate = i
        PROVE  r.id < new.id
    <3>1. k + 1 <= Number(id)
      BY <2>2, <2>8, <1>3, <1>4
    <3>2. (k + 1) * Isolates <= Number(id) * Isolates /\ Number(id) * Isolates \in Int
      BY <3>1, <1>1, <1>3, TimesGrows
    <3>3. (k + 1) * Isolates = k * Isolates + Isolates /\ k * Isolates \in Int
      BY <1>1
    <3> QED
      BY <3>2, <3>3, <2>2, <2>8, <1>1, <1>6
  <2>9. r.id # new.id
    <3> SUFFICES ASSUME r.id = new.id PROVE FALSE
      OBVIOUS
    <3>1. r.id < new.id
      BY <2>7, <2>8
    <3>2. r.id \in Nat
      BY <2>1, RowFacts DEF LogInv
    <3> QED
      BY <3>1, <3>2
  <2> QED
    BY <2>6, <2>8, <2>9
<1>12. ids' \in [Audit!Isolate -> IdState]
  BY <1>5, <1>3 DEF LogInv
<1>13. LogInv'
  <2>1. \A r \in (pending \cup log)' : RowOK(r)' /\ (r = new \/ r \in pending \cup log)
    BY <1>5, <1>10, <1>11
  <2>2. \A r, q \in (pending \cup log)' : r.id = q.id => r = q
    BY <2>1, <1>11 DEF LogInv
  <2> QED
    BY <1>5, <1>12, <2>1, <2>2 DEF LogInv
<1>14. NewRows
  BY <1>3, <1>5, <1>7, <1>11 DEF NewRows
<1> QED
  BY <1>13, <1>14

LEMMA AuditInitLog == Audit!Init => LogInv
<1> SUFFICES ASSUME Audit!Init PROVE LogInv
  OBVIOUS
<1>1. theme \in DOMAIN Scenes /\ envs = Scenes[theme].envs /\ administers \in Scenes[theme].grants
  BY DEF Audit!Init, Audit!bounds
<1>2. ids \in [Audit!Isolate -> IdState]
  BY AuditAssumption DEF Audit!Init, IdState
<1> QED
  BY <1>1, <1>2, AuditAssumption, FS_EmptySet DEF Audit!Init, LogInv, Grants

LEMMA AuditStepLog ==
    ASSUME LogInv, Audit!Next
    PROVE  LogInv' /\ NewRows
<1>1. CASE \E i \in Audit!bounds.isolates, scope \in Audit!bounds.scopes, now \in {time, time - 1} :
              Audit!Build(i, scope, now)
  BY <1>1, BuildLog
<1>2. ASSUME NEW row \in pending, Audit!Commit(row) \/ Audit!Abort(row)
      PROVE  LogInv' /\ NewRows
  <2>1. /\ UNCHANGED <<theme, time, ids, envs, administers>>
        /\ pending' \subseteq pending /\ log' \in {log, log \cup {row}}
        /\ row \in pending
    BY <1>2 DEF Audit!Commit, Audit!Abort
  <2>2. IsFiniteSet(log')
    BY <2>1, FS_AddElement DEF LogInv
  <2>3. \A r \in (pending \cup log)' : r \in pending \cup log /\ (RowOK(r) => RowOK(r)')
    BY <2>1 DEF RowOK
  <2> QED
    BY <2>1, <2>2, <2>3 DEF LogInv, NewRows
<1>3. ASSUME /\ UNCHANGED <<theme, ids, pending, log>>
             /\ time' \in {time, time + 1}
             /\ envs' \subseteq Env
             /\ administers' \in Grants
      PROVE  LogInv' /\ NewRows
  BY <1>3 DEF LogInv, NewRows, RowOK
<1>4. CASE Audit!Tick
  BY <1>3, <1>4 DEF Audit!Tick, LogInv
<1>5. ASSUME NEW e \in Env, Audit!CreateEnvironment(e) \/ Audit!DeleteEnvironment(e)
      PROVE  LogInv' /\ NewRows
  BY <1>3, <1>5 DEF Audit!CreateEnvironment, Audit!DeleteEnvironment, LogInv, Grants
<1>6. CASE Audit!Revoke
  BY <1>3, <1>6 DEF Audit!Revoke, Audit!NoGrants, LogInv, Grants
<1>7. CASE \/ \E query \in Audit!bounds.queries : Audit!Ask(query)
           \/ Audit!AskForMore \/ Audit!ResolveView \/ Audit!Filter \/ Audit!Select
  BY <1>3, <1>7 DEF Audit!Ask, Audit!AskForMore, Audit!ResolveView, Audit!Filter, Audit!Select, LogInv
<1> QED
  BY <1>1, <1>2, <1>4, <1>5, <1>6, <1>7 DEF Audit!Next

-----------------------------------------------------------------------------
(* The audit log: its reader. *)

ReaderTyped ==
    reader \in [at : {"off", "authorized", "denied", "viewed", "not found", "filtered", "shown"},
                query : {reader.query}, cursor : Int, pages : {reader.pages},
                shown : Seq(log), old : SUBSET log, lost : BOOLEAN, snapshot : Grants,
                view : {reader.view}, covered : {reader.covered}]

(* What a page is to show of the rows there were when he began.              *)
Living(r) == r.scope.env # "none" => r.scope.env \in envs
Due(r) ==
    /\ Audit!Owned(reader.snapshot, r.scope)
    /\ Audit!Wanted(reader.query, r.scope)
    /\ Living(r)

Passed(r) ==
    IF reader.at = "shown" THEN reader.cursor = -1 \/ r.id >= reader.cursor
    ELSE reader.cursor # -1 /\ r.id >= reader.cursor

IsShown(r) == \E i \in 1 .. Len(reader.shown) : reader.shown[i] = r

(* Environments may have come and gone since the view was made, but none of  *)
(* a row that was there.                                                     *)
ViewOK ==
    reader.at \in {"viewed", "filtered"} =>
        /\ reader.view.all = reader.snapshot.global
        /\ reader.view.projects = reader.snapshot.projects
        /\ reader.view.envs \subseteq
              reader.snapshot.envs \cup {e \in Env : Parent[e] \in reader.snapshot.projects}
        /\ \A r \in reader.old :
              /\ r.scope.env # "none" /\ r.scope.env \in envs
              /\ \/ r.scope.env \in reader.snapshot.envs
                 \/ Parent[r.scope.env] \in reader.snapshot.projects
              => r.scope.env \in reader.view.envs

FilterOK ==
    reader.at = "filtered" =>
        \A r \in reader.old : Due(r) =>
            IF reader.query.environment # "none" THEN r.scope.env \in reader.covered.envs
            ELSE reader.query.project # "none" => Audit!Covers(reader.covered, r.scope)

(* Grants are only taken away, so an earlier snapshot has what a later has.  *)
GrantsOK ==
    reader.at # "off" /\ ~reader.lost =>
        /\ administers.global => reader.snapshot.global
        /\ administers.projects \subseteq reader.snapshot.projects
        /\ administers.envs \subseteq reader.snapshot.envs

ShownOK ==
    /\ \A i, j \in 1 .. Len(reader.shown) : i < j => reader.shown[i].id > reader.shown[j].id
    /\ reader.cursor # -1 =>
          \A i \in 1 .. Len(reader.shown) : reader.shown[i].id >= reader.cursor
    /\ reader.cursor = -1 /\ reader.at # "shown" => reader.shown = <<>>
    /\ reader.at = "off" => reader.cursor = -1
    /\ ~reader.lost => \A r \in reader.old : Due(r) /\ Passed(r) => IsShown(r)

ReaderInv == ReaderTyped /\ ViewOK /\ FilterOK /\ GrantsOK /\ ShownOK

OnlyOwn ==
    \A i \in DOMAIN reader'.shown :
        i > Len(reader.shown) => Audit!Owned(reader.snapshot, reader'.shown[i].scope)

LEMMA ReaderFields ==
    ASSUME ReaderTyped
    PROVE  /\ reader.cursor \in Int /\ reader.shown \in Seq(log) /\ reader.old \subseteq log
           /\ reader.lost \in BOOLEAN /\ reader.snapshot \in Grants
  BY DEF ReaderTyped

LEMMA AuditInitReader == Audit!Init => ReaderInv
<1> SUFFICES ASSUME Audit!Init PROVE ReaderInv
  OBVIOUS
<1>1. /\ reader.at = "off" /\ reader.cursor = -1 /\ reader.shown = <<>> /\ reader.old = {}
      /\ reader.lost = FALSE
      /\ reader.snapshot \in Grants
  BY DEF Audit!Init, Audit!NoCursor, Audit!NoGrants, Grants
<1>2. ReaderTyped
  BY <1>1 DEF Audit!Init, ReaderTyped
<1> QED
  BY <1>1, <1>2 DEF ReaderInv, ViewOK, FilterOK, GrantsOK, ShownOK

(* Steps that leave the reader alone, or take rows and grants from him.      *)
LEMMA OthersReader ==
    ASSUME ReaderInv, log \subseteq log',
           \A r \in reader'.old : Living(r)' => Living(r),
           reader' = [reader EXCEPT !.old = reader'.old, !.lost = reader'.lost],
           reader'.old \subseteq reader.old, reader'.lost \in BOOLEAN, reader.lost => reader'.lost,
           ~reader'.lost => /\ administers'.global => administers.global
                            /\ administers'.projects \subseteq administers.projects
                            /\ administers'.envs \subseteq administers.envs
    PROVE  ReaderInv' /\ OnlyOwn
<1>1. ReaderTyped
  BY DEF ReaderInv
<1>2. /\ reader'.at = reader.at /\ reader'.query = reader.query /\ reader'.cursor = reader.cursor
      /\ reader'.shown = reader.shown /\ reader'.snapshot = reader.snapshot
      /\ reader'.view = reader.view /\ reader'.covered = reader.covered
  BY <1>1 DEF ReaderTyped
<1>3. reader.shown \in Seq(log') /\ Len(reader.shown) \in Nat
  <2>1. reader.shown \in Seq(log)
    BY <1>1, ReaderFields
  <2>2. /\ Len(reader.shown) \in Nat /\ DOMAIN reader.shown = 1 .. Len(reader.shown)
        /\ \A i \in 1 .. Len(reader.shown) : reader.shown[i] \in log
    BY <2>1
  <2> QED
    BY <2>1, <2>2
<1>4. ReaderTyped'
  <2>1. reader'.old \in SUBSET log'
    BY <1>1, ReaderFields
  <2> QED
    BY <1>1, <1>3, <2>1 DEF ReaderTyped
<1>5. \A r \in reader'.old : r \in reader.old /\ (Due(r)' => Due(r))
  BY <1>2 DEF Due, Audit!Owned, Audit!Wanted, Audit!None
<1>6. ViewOK'
  BY <1>2, <1>5 DEF ReaderInv, ViewOK, Living
<1>7. FilterOK'
  BY <1>2, <1>5 DEF ReaderInv, FilterOK, Audit!Covers
<1>8. GrantsOK'
  BY <1>2 DEF ReaderInv, GrantsOK
<1>9. ShownOK'
  BY <1>2, <1>5 DEF ReaderInv, ShownOK, Passed, IsShown
<1>10. OnlyOwn
  BY <1>2, <1>3 DEF OnlyOwn
<1> QED
  BY <1>4, <1>6, <1>7, <1>8, <1>9, <1>10 DEF ReaderInv

LEMMA AskReader ==
    ASSUME LogInv, ReaderInv, NEW query \in Audit!bounds.queries, Audit!Ask(query)
    PROVE  ReaderInv' /\ OnlyOwn
<1>1. ReaderTyped /\ ShownOK /\ reader.at = "off" /\ administers \in Grants
  BY DEF ReaderInv, LogInv, Audit!Ask
<1>2. /\ reader'.at = "authorized" /\ reader'.query = query /\ reader'.cursor = reader.cursor
      /\ reader'.shown = reader.shown /\ reader'.old = log /\ reader'.lost = reader.lost
      /\ reader'.snapshot = administers
      /\ UNCHANGED <<log, envs, administers>>
  BY <1>1 DEF ReaderTyped, Audit!Ask
<1>3. ReaderTyped'
  BY <1>1 DEF ReaderTyped, Audit!Ask
<1>4. ShownOK'
  <2>1. reader.cursor = -1 /\ reader.shown = <<>>
    BY <1>1 DEF ShownOK
  <2>2. \A r : ~Passed(r)'
    BY <1>2, <2>1 DEF Passed
  <2> QED
    BY <1>2, <2>1, <2>2 DEF ShownOK
<1> QED
  BY <1>2, <1>3, <1>4 DEF ReaderInv, ViewOK, FilterOK, GrantsOK, OnlyOwn

LEMMA AskForMoreReader ==
    ASSUME LogInv, ReaderInv, Audit!AskForMore
    PROVE  ReaderInv' /\ OnlyOwn
<1>1. /\ ReaderTyped /\ ShownOK /\ GrantsOK /\ administers \in Grants
      /\ reader.at = "shown" /\ reader.cursor # -1
  BY DEF ReaderInv, LogInv, Audit!AskForMore, Audit!NoCursor
<1>2. /\ reader'.at = "authorized" /\ reader'.query = reader.query
      /\ reader'.cursor = reader.cursor
      /\ reader'.shown = reader.shown /\ reader'.old = reader.old /\ reader'.lost = reader.lost
      /\ reader'.snapshot = administers
      /\ UNCHANGED <<log, envs, administers>>
  BY <1>1 DEF ReaderTyped, Audit!AskForMore
<1>3. ReaderTyped'
  BY <1>1 DEF ReaderTyped, Audit!AskForMore
<1>4. ASSUME ~reader.lost, NEW r \in reader.old, Due(r)', Passed(r)'
      PROVE  IsShown(r)'
  <2>1. Due(r)
    BY <1>1, <1>2, <1>4 DEF Due, Living, GrantsOK, Audit!Owned, Audit!Wanted, Audit!None
  <2>2. Passed(r)
    BY <1>1, <1>2, <1>4 DEF Passed
  <2>3. IsShown(r)
    BY <1>1, <1>4, <2>1, <2>2 DEF ShownOK
  <2> QED
    BY <1>2, <2>3 DEF IsShown
<1>5. ShownOK'
  BY <1>1, <1>2, <1>4 DEF ShownOK
<1> QED
  BY <1>2, <1>3, <1>5 DEF ReaderInv, ViewOK, FilterOK, GrantsOK, OnlyOwn

LEMMA ResolveViewReader ==
    ASSUME LogInv, ReaderInv, Audit!ResolveView
    PROVE  ReaderInv' /\ OnlyOwn
<1>1. ReaderTyped /\ ShownOK /\ GrantsOK /\ reader.at = "authorized" /\ envs \subseteq Env
  BY DEF ReaderInv, LogInv, Audit!ResolveView
<1>2. /\ reader'.at \in {"denied", "viewed"} /\ reader'.query = reader.query
      /\ reader'.cursor = reader.cursor
      /\ reader'.shown = reader.shown /\ reader'.old = reader.old /\ reader'.lost = reader.lost
      /\ reader'.snapshot = reader.snapshot
      /\ reader'.at = "viewed" => reader'.view = Audit!View(reader.snapshot)
      /\ UNCHANGED <<log, envs, administers>>
  BY <1>1 DEF ReaderTyped, Audit!ResolveView, Audit!EndWith
<1>3. ReaderTyped'
  BY <1>1 DEF ReaderTyped, Audit!ResolveView, Audit!EndWith
<1>4. ViewOK'
  <2> SUFFICES ASSUME reader'.at = "viewed"
               PROVE  ViewOK'
    BY <1>2 DEF ViewOK
  <2>1. /\ reader'.view.all = reader.snapshot.global
        /\ reader'.view.projects = reader.snapshot.projects
        /\ reader'.view.envs = reader.snapshot.envs
                                \cup {e \in envs : Parent[e] \in reader.snapshot.projects}
    BY <1>2 DEF Audit!View
  <2> QED
    BY <1>1, <1>2, <2>1 DEF ViewOK
<1>5. ShownOK'
  BY <1>1, <1>2 DEF ShownOK, Due, Living, Passed, IsShown
<1> QED
  BY <1>1, <1>2, <1>3, <1>4, <1>5 DEF ReaderInv, FilterOK, GrantsOK, OnlyOwn

LEMMA FilterReader ==
    ASSUME LogInv, ReaderInv, Audit!Filter
    PROVE  ReaderInv' /\ OnlyOwn
<1>1. /\ ReaderTyped /\ ViewOK /\ ShownOK /\ GrantsOK
      /\ reader.at = "viewed" /\ envs \subseteq Env
  BY DEF ReaderInv, LogInv, Audit!Filter
<1> DEFINE q == reader.query
           named == IF q.environment # "none" THEN Audit!Named(reader.view, q)
                    ELSE {e \in envs : Parent[e] = q.project}
<1>2. /\ reader'.at \in {"not found", "filtered"} /\ reader'.query = reader.query
      /\ reader'.cursor = reader.cursor
      /\ reader'.shown = reader.shown /\ reader'.old = reader.old /\ reader'.lost = reader.lost
      /\ reader'.snapshot = reader.snapshot /\ reader'.view = reader.view
      /\ UNCHANGED <<log, envs, administers>>
  BY <1>1 DEF ReaderTyped, Audit!Filter, Audit!EndWith
<1>3. ReaderTyped'
  BY <1>1 DEF ReaderTyped, Audit!Filter, Audit!EndWith
<1>4. reader'.at = "filtered" =>
         reader'.covered.projects = {q.project} \ {"none"} /\ reader'.covered.envs = named
  <2>1. reader'.at = "filtered" =>
           reader' = [reader EXCEPT !.at = "filtered",
                         !.covered = [Audit!NoView EXCEPT !.projects = {q.project} \ {"none"},
                                                          !.envs = named]]
    BY <1>1 DEF Audit!Filter, Audit!EndWith, ReaderTyped, Audit!None
  <2>2. reader'.at = "filtered" =>
           reader'.covered = [Audit!NoView EXCEPT !.projects = {q.project} \ {"none"},
                                                  !.envs = named]
    <3> HIDE DEF named, q
    <3> QED
      BY <1>1, <2>1 DEF ReaderTyped
  <2> HIDE DEF named, q
  <2> QED
    BY <2>2 DEF Audit!NoView
<1>5. ASSUME NEW r \in reader.old, Due(r)
      PROVE  IF q.environment # "none" THEN r.scope.env \in named
             ELSE q.project # "none" =>
                     r.scope.project \in {q.project} \ {"none"} \/ r.scope.env \in named
  <2>1. RowOK(r) /\ theme \in DOMAIN Scenes
    BY <1>1, ReaderFields DEF LogInv
  <2>2. r.scope.env # "none" => /\ r.scope.env \in envs
                                /\ r.scope.project \in {"none", Parent[r.scope.env]}
    BY <2>1, <1>5, RowFacts DEF Due, Living
  <2>3. CASE q.environment # "none"
    <3>1. r.scope.env # "none" /\ Slug[r.scope.env] = q.environment
      BY <1>5, <2>3 DEF Due, Audit!Wanted, Audit!None
    <3>2. q.project # "none" => Parent[r.scope.env] = q.project
      BY <1>5, <2>2, <3>1 DEF Due, Audit!Wanted, Audit!None
    <3>3. reader.view.all \/ r.scope.env \in reader.view.envs
      BY <1>1, <1>5, <2>2, <3>1 DEF ViewOK, Due, Audit!Owned, Audit!None
    <3> QED
      BY <2>2, <2>3, <3>1, <3>2, <3>3 DEF Audit!Named, Audit!None
  <2>4. CASE q.environment = "none"
    BY <1>5, <2>2, <2>4 DEF Due, Audit!Wanted, Audit!None
  <2> QED
    BY <2>3, <2>4
<1> HIDE DEF named
<1>6. FilterOK'
  BY <1>2, <1>4, <1>5 DEF FilterOK, Due, Living, Audit!Covers
<1> HIDE DEF q
<1>7. ViewOK'
  BY <1>1, <1>2 DEF ViewOK
<1>8. ShownOK'
  <2>1. \A r : (Due(r)' => Due(r)) /\ (IsShown(r) => IsShown(r)')
    BY <1>2 DEF Due, Living, IsShown
  <2>2. \A r : Passed(r)' => Passed(r)
    BY <1>1, <1>2 DEF Passed
  <2>3. reader'.at # "off" /\ reader'.at # "shown" /\ reader.at # "shown"
    BY <1>1, <1>2
  <2> QED
    BY <1>1, <1>2, <2>1, <2>2, <2>3 DEF ShownOK
<1>9. GrantsOK' /\ OnlyOwn
  <2>1. OnlyOwn
    <3>1. reader.shown \in Seq(log)
      BY <1>1, ReaderFields
    <3>2. DOMAIN reader.shown = 1 .. Len(reader.shown) /\ Len(reader.shown) \in Nat
      BY <3>1
    <3>3. DOMAIN reader'.shown = DOMAIN reader.shown
      BY <1>2
    <3> QED
      BY <3>2, <3>3 DEF OnlyOwn
  <2>2. reader.at # "off"
    BY <1>1
  <2>3. GrantsOK'
    BY <1>1, <1>2, <2>2 DEF GrantsOK
  <2> QED
    BY <2>1, <2>3
<1> QED
  BY <1>3, <1>6, <1>7, <1>8, <1>9 DEF ReaderInv

(* Who is shown a row administers it.                                        *)
LEMMA MatchedIsOwned ==
    ASSUME LogInv, ReaderInv, reader.at = "filtered", NEW r \in log, Audit!Matches(r)
    PROVE  Audit!Owned(reader.snapshot, r.scope)
<1>1. RowOK(r) /\ theme \in DOMAIN Scenes
  BY DEF LogInv
<1>2. r.scope.env # "none" => /\ r.scope.env \in Env
                              /\ r.scope.project \in {"none", Parent[r.scope.env]}
  BY <1>1, RowFacts
<1>3. /\ reader.view.all = reader.snapshot.global
      /\ reader.view.projects = reader.snapshot.projects
      /\ reader.view.envs \subseteq
            reader.snapshot.envs \cup {e \in Env : Parent[e] \in reader.snapshot.projects}
  BY DEF ReaderInv, ViewOK
<1>4. "none" \notin reader.snapshot.projects /\ "none" \notin reader.snapshot.envs /\ "none" \notin Env
  BY AuditAssumption, ReaderFields DEF ReaderInv, Grants
<1>5. \/ reader.view.all
      \/ r.scope.project \in reader.view.projects
      \/ r.scope.env \in reader.view.envs
  BY DEF Audit!Matches, Audit!Covers
<1> QED
  BY <1>2, <1>3, <1>4, <1>5 DEF Audit!Owned, Audit!None

(* And each row he is due below the cursor is matched.                       *)
LEMMA DueIsMatched ==
    ASSUME LogInv, ReaderInv, reader.at = "filtered", NEW r \in reader.old, Due(r), ~Passed(r)
    PROVE  r \in log /\ Audit!Matches(r)
<1>1. r \in log /\ RowOK(r) /\ theme \in DOMAIN Scenes /\ reader.cursor \in Int
  BY ReaderFields DEF ReaderInv, LogInv
<1>2. r.scope.env # "none" => r.scope.env \in envs
  BY DEF Due, Living
<1>3. reader.view.all \/ Audit!Covers(reader.view, r.scope)
  BY <1>2 DEF ReaderInv, ViewOK, Due, Audit!Owned, Audit!Covers, Audit!None
<1>4. IF reader.query.environment # "none" THEN r.scope.env \in reader.covered.envs
      ELSE reader.query.project # "none" => Audit!Covers(reader.covered, r.scope)
  BY DEF ReaderInv, FilterOK
<1>5. reader.query.action # "none" => r.scope.action = reader.query.action
  BY DEF Due, Audit!Wanted, Audit!None
<1>6. reader.cursor # -1 => r.id < reader.cursor
  BY <1>1, RowFacts DEF Passed
<1> QED
  BY <1>1, <1>3, <1>4, <1>5, <1>6 DEF Audit!Matches, Audit!None, Audit!NoCursor

LEMMA Joined ==
    ASSUME NEW S, NEW x \in Seq(S), NEW y \in Seq(S)
    PROVE  /\ x \o y \in Seq(S) /\ Len(x \o y) = Len(x) + Len(y)
           /\ \A i \in 1 .. Len(x) : (x \o y)[i] = x[i]
           /\ \A i \in 1 .. Len(y) : (x \o y)[Len(x) + i] = y[i]
  OBVIOUS

LEMMA SelectReader ==
    ASSUME LogInv, ReaderInv, Audit!Select
    PROVE  ReaderInv' /\ OnlyOwn
<1> DEFINE R == {r \in log : Audit!Matches(r)}
<1>1. ReaderTyped /\ GrantsOK /\ ShownOK /\ reader.at = "filtered"
  BY DEF ReaderInv, Audit!Select
<1>2. /\ reader.cursor \in Int /\ reader.shown \in Seq(log) /\ reader.old \subseteq log
      /\ Len(reader.shown) \in Nat
  BY <1>1, ReaderFields
<1>3. /\ IsFiniteSet(R)
      /\ \A r \in log : r.id \in Nat
      /\ \A r, p \in R : r.id = p.id => r = p
  <2>1. IsFiniteSet(R)
    BY FS_Subset DEF LogInv
  <2>2. \A r \in log : r.id \in Nat
    BY RowFacts DEF LogInv
  <2> QED
    BY <2>1, <2>2 DEF LogInv
<1>4. PICK s \in Seq(R) :
         /\ s = Audit!NewestFirst(R)
         /\ \A i, j \in 1 .. Len(s) : i < j => s[i].id > s[j].id
         /\ \A r \in R : \E i \in 1 .. Len(s) : s[i] = r
  <2> HIDE DEF R
  <2>1. \A r \in R : r.id \in Nat
    BY <1>3 DEF R
  <2> QED
    BY <1>3, <2>1, NewestFirstIsAll
<1>5. PICK m \in 0 .. Len(s) : m = IF Len(s) > Limit THEN Limit ELSE Len(s)
  BY AuditAssumption
<1>6. PICK page : page = SubSeq(s, 1, m)
  OBVIOUS
<1>7. PICK next : next = Audit!Cursor(s)
  OBVIOUS
<1>8. /\ reader' = [reader EXCEPT !.at = "shown", !.shown = @ \o page, !.cursor = next]
      /\ UNCHANGED <<log, envs, administers>>
  BY <1>4, <1>5, <1>6, <1>7 DEF Audit!Select
<1>9. /\ reader'.at = "shown" /\ reader'.query = reader.query /\ reader'.cursor = next
      /\ reader'.shown = reader.shown \o page /\ reader'.old = reader.old
      /\ reader'.lost = reader.lost /\ reader'.snapshot = reader.snapshot
  BY <1>1, <1>8 DEF ReaderTyped
<1>10. \A i \in 1 .. Len(s) : /\ s[i] \in log /\ Audit!Matches(s[i]) /\ s[i].id \in Nat
                              /\ reader.cursor # -1 => s[i].id < reader.cursor
  <2>1. \A i \in 1 .. Len(s) : s[i] \in R
    BY <1>4
  <2> QED
    BY <2>1, <1>3 DEF Audit!Matches, Audit!NoCursor
<1> HIDE DEF R
<1>11. /\ page \in Seq(log) /\ Len(page) = m
       /\ \A i \in 1 .. m : page[i] = s[i]
  <2>1. Len(s) \in Nat
    BY <1>4
  <2>2. m \in Nat /\ m <= Len(s)
    BY <2>1, <1>5
  <2>3. page = [i \in 1 .. m |-> s[i]]
    BY <1>4, <1>6, <2>1, <2>2
  <2> QED
    BY <1>10, <2>1, <2>2, <2>3
<1> DEFINE n == Len(reader.shown)
<1>12. /\ reader'.shown \in Seq(log) /\ Len(reader'.shown) = n + m
       /\ \A i \in 1 .. n : reader'.shown[i] = reader.shown[i]
       /\ \A i \in 1 .. m : reader'.shown[n + i] = s[i]
       /\ \A i \in 1 .. n + m : i > n => i - n \in 1 .. m /\ reader'.shown[i] = s[i - n]
  <2>1. reader.shown \o page \in Seq(log) /\ Len(reader.shown \o page) = n + m
    BY <1>2, <1>11, Joined
  <2>2. \A i \in 1 .. n : (reader.shown \o page)[i] = reader.shown[i]
    BY <1>2, <1>11, Joined
  <2>3. \A i \in 1 .. m : (reader.shown \o page)[n + i] = s[i]
    BY <1>2, <1>11, Joined
  <2>4. \A i \in 1 .. n + m : i > n => i - n \in 1 .. m /\ (reader.shown \o page)[i] = s[i - n]
    <3> SUFFICES ASSUME NEW i \in 1 .. n + m, i > n
                 PROVE  i - n \in 1 .. m /\ (reader.shown \o page)[i] = s[i - n]
      OBVIOUS
    <3>1. n \in Nat /\ m \in Nat
      BY <1>2, <1>4, <1>5
    <3> HIDE DEF n
    <3>2. i - n \in 1 .. m /\ n + (i - n) = i
      BY <3>1
    <3> QED
      BY <2>3, <3>2
  <2> QED
    BY <1>9, <2>1, <2>2, <2>3, <2>4
<1>13. n \in Nat /\ m \in Nat /\ Len(s) \in Nat /\ m <= Len(s)
  <2>1. Len(s) \in Nat
    BY <1>4
  <2> QED
    BY <1>2, <1>5, <2>1
<1>22. n = Len(reader.shown)
  OBVIOUS
<1> HIDE DEF n
<1>14. next \in Int /\ (IF Len(s) > Limit THEN m = Limit /\ m \in 1 .. Len(s) /\ next = s[m].id
                        ELSE next = -1 /\ m = Len(s))
  BY <1>5, <1>7, <1>10, <1>13, AuditAssumption DEF Audit!Cursor, Audit!NoCursor
<1>15. ReaderTyped'
  <2>1. reader'.cursor \in Int /\ reader'.shown \in Seq(log)
    BY <1>9, <1>12, <1>14
  <2> QED
    BY <1>1, <1>8, <2>1 DEF ReaderTyped
<1>16. OnlyOwn
  <2>3. DOMAIN reader'.shown = 1 .. n + m
    BY <1>12
  <2> SUFFICES ASSUME NEW i \in 1 .. n + m, i > n
               PROVE  Audit!Owned(reader.snapshot, reader'.shown[i].scope)
    BY <2>3, <1>22 DEF OnlyOwn
  <2>1. i - n \in 1 .. Len(s) /\ reader'.shown[i] = s[i - n]
    BY <1>12, <1>13
  <2> QED
    BY <2>1, <1>1, <1>10, MatchedIsOwned
<1>17. \A i, j \in 1 .. n + m : i < j => reader'.shown[i].id > reader'.shown[j].id
  <2> SUFFICES ASSUME NEW i \in 1 .. n + m, NEW j \in 1 .. n + m, i < j
               PROVE  reader'.shown[i].id > reader'.shown[j].id
    OBVIOUS
  <2>1. CASE j <= n
    <3>1. i \in 1 .. n /\ j \in 1 .. n
      BY <2>1, <1>13
    <3>2. reader'.shown[i] = reader.shown[i] /\ reader'.shown[j] = reader.shown[j]
      BY <3>1, <1>12
    <3>3. reader.shown[i].id > reader.shown[j].id
      BY <3>1, <1>1, <1>22 DEF ShownOK
    <3> QED
      BY <3>2, <3>3
  <2>2. CASE i > n
    <3>1. i - n \in 1 .. m /\ j - n \in 1 .. m /\ j > n
      BY <2>2, <1>13
    <3>2. reader'.shown[i] = s[i - n] /\ reader'.shown[j] = s[j - n]
      BY <3>1, <2>2, <1>12
    <3>3. i - n \in 1 .. Len(s) /\ j - n \in 1 .. Len(s) /\ i - n < j - n
      BY <3>1, <1>13
    <3>4. s[i - n].id > s[j - n].id
      BY <3>3, <1>4
    <3> QED
      BY <3>2, <3>4
  <2>3. CASE i <= n /\ j > n
    <3>1. reader'.shown[i] = reader.shown[i] /\ reader'.shown[j] = s[j - n] /\ j - n \in 1 .. Len(s)
      BY <2>3, <1>12, <1>13
    <3>2. reader.cursor # -1
      <4> SUFFICES ASSUME reader.cursor = -1 PROVE FALSE
        OBVIOUS
      <4>1. reader.shown = <<>>
        BY <1>1 DEF ShownOK
      <4> QED
        BY <4>1, <2>3, <1>13, <1>22
    <3>3. reader.shown[i].id >= reader.cursor /\ reader.shown[i].id \in Nat
      BY <3>2, <2>3, <1>1, <1>2, <1>3, <1>13, <1>22 DEF ShownOK
    <3>4. s[j - n].id < reader.cursor /\ s[j - n].id \in Nat
      BY <3>1, <3>2, <1>10
    <3> QED
      BY <3>1, <3>3, <3>4, <1>2
  <2> QED
    BY <2>1, <2>2, <2>3, <1>13
<1>18. next # -1 => \A i \in 1 .. n + m : reader'.shown[i].id >= next
  <2> SUFFICES ASSUME next # -1, NEW i \in 1 .. n + m
               PROVE  reader'.shown[i].id >= next
    OBVIOUS
  <2>1. m \in 1 .. Len(s) /\ next = s[m].id /\ next = reader'.shown[n + m].id /\ next \in Nat
    BY <1>10, <1>12, <1>13, <1>14
  <2>2. CASE i = n + m
    BY <2>1, <2>2
  <2>3. CASE i < n + m
    <3>1. reader'.shown[i].id > reader'.shown[n + m].id
      BY <2>1, <2>3, <1>13, <1>17
    <3>2. reader'.shown[i].id \in Nat
      BY <1>3, <1>12, <1>13
    <3> QED
      BY <2>1, <3>1, <3>2
  <2> QED
    BY <2>2, <2>3, <1>13
<1>19. ASSUME ~reader.lost, NEW r \in reader.old, Due(r)', Passed(r)'
       PROVE  IsShown(r)'
  <2>1. Due(r)
    BY <1>9, <1>19, <1>8 DEF Due, Living
  <2>2. CASE Passed(r)
    <3>1. IsShown(r)
      BY <1>1, <1>19, <2>1, <2>2 DEF ShownOK
    <3>2. PICK i \in 1 .. n : reader.shown[i] = r
      BY <3>1, <1>13, <1>22 DEF IsShown
    <3>3. i \in 1 .. n + m /\ reader'.shown[i] = r
      BY <3>2, <1>12, <1>13
    <3> QED
      BY <3>3, <1>12 DEF IsShown
  <2>3. CASE ~Passed(r)
    <3>1. r \in R
      BY <1>1, <2>1, <2>3, DueIsMatched DEF R
    <3>2. PICK i \in 1 .. Len(s) : s[i] = r
      BY <3>1, <1>4
    <3>3. i \in 1 .. m
      <4>1. CASE Len(s) > Limit
        <5>1. r.id >= s[m].id /\ m \in 1 .. Len(s) /\ s[m].id \in Nat
          BY <4>1, <1>9, <1>10, <1>14, <1>19 DEF Passed
        <5>2. ~(m < i)
          <6> SUFFICES ASSUME m < i PROVE FALSE
            OBVIOUS
          <6>1. s[m].id > s[i].id /\ s[i].id \in Nat
            BY <1>4, <1>10, <3>2, <5>1
          <6> QED
            BY <3>2, <5>1, <6>1
        <5> QED
          BY <5>2, <3>2, <1>13
      <4>2. CASE ~(Len(s) > Limit)
        BY <4>2, <1>14, <3>2
      <4> QED
        BY <4>1, <4>2
    <3>4. n + i \in 1 .. n + m /\ reader'.shown[n + i] = r
      BY <3>2, <3>3, <1>12, <1>13
    <3> QED
      BY <3>4, <1>12 DEF IsShown
  <2> QED
    BY <2>2, <2>3
<1>20. ShownOK'
  BY <1>9, <1>12, <1>17, <1>18, <1>19 DEF ShownOK
<1>21. GrantsOK' /\ ViewOK' /\ FilterOK'
  BY <1>1, <1>8, <1>9 DEF GrantsOK, ViewOK, FilterOK
<1> QED
  BY <1>15, <1>16, <1>20, <1>21 DEF ReaderInv

AuditInv == LogInv /\ ReaderInv

LEMMA AuditStep ==
    ASSUME AuditInv, Audit!Next
    PROVE  AuditInv' /\ NewRows /\ OnlyOwn
<1>1. LogInv /\ ReaderInv /\ LogInv' /\ NewRows
  BY AuditStepLog DEF AuditInv
<1>2. /\ reader.old \subseteq log /\ reader.lost \in BOOLEAN
      /\ reader = [reader EXCEPT !.old = reader.old, !.lost = reader.lost]
  BY <1>1 DEF ReaderInv, ReaderTyped
<1>3. ASSUME UNCHANGED <<envs, administers, reader>>, log \subseteq log'
      PROVE  ReaderInv' /\ OnlyOwn
  BY <1>1, <1>2, <1>3, OthersReader DEF Living
<1>4. CASE \E i \in Audit!bounds.isolates, scope \in Audit!bounds.scopes, now \in {time, time - 1} :
              Audit!Build(i, scope, now)
  BY <1>1, <1>3, <1>4 DEF Audit!Build, AuditInv
<1>5. ASSUME NEW row \in pending, Audit!Commit(row) \/ Audit!Abort(row)
      PROVE  AuditInv' /\ NewRows /\ OnlyOwn
  BY <1>1, <1>3, <1>5 DEF Audit!Commit, Audit!Abort, AuditInv
<1>6. CASE Audit!Tick
  BY <1>1, <1>3, <1>6 DEF Audit!Tick, AuditInv
<1>7. ASSUME NEW e \in Env, Audit!CreateEnvironment(e)
      PROVE  ReaderInv' /\ OnlyOwn
  <2>1. UNCHANGED <<log, administers, reader>> /\ envs' = envs \cup {e}
    BY <1>7 DEF Audit!CreateEnvironment
  <2>2. \A r \in log : r.scope.env # e
    BY <1>7 DEF Audit!CreateEnvironment
  <2>3. \A r \in reader'.old : Living(r)' => Living(r)
    BY <1>2, <2>1, <2>2 DEF Living
  <2> QED
    BY <1>1, <1>2, <2>1, <2>3, OthersReader
<1>8. ASSUME NEW e \in Env, Audit!DeleteEnvironment(e)
      PROVE  ReaderInv' /\ OnlyOwn
  <2>1. /\ log' = log /\ envs' = envs \ {e}
        /\ administers' = [administers EXCEPT !.envs = @ \ {e}]
        /\ reader' = [reader EXCEPT !.old = {r \in reader.old : r.scope.env # e}]
    BY <1>8 DEF Audit!DeleteEnvironment
  <2>2. /\ reader'.old = {r \in reader.old : r.scope.env # e} /\ reader'.lost = reader.lost
        /\ reader' = [reader EXCEPT !.old = reader'.old, !.lost = reader'.lost]
    BY <1>1, <2>1 DEF ReaderInv, ReaderTyped
  <2>3. /\ administers'.global = administers.global
        /\ administers'.projects = administers.projects
        /\ administers'.envs \subseteq administers.envs
    BY <1>1, <2>1 DEF LogInv, Grants
  <2>4. \A r \in reader'.old : Living(r)' => Living(r)
    BY <2>1 DEF Living
  <2> QED
    BY <1>1, <1>2, <2>1, <2>2, <2>3, <2>4, OthersReader
<1>9. ASSUME Audit!Revoke
      PROVE  ReaderInv' /\ OnlyOwn
  <2>1. UNCHANGED <<log, envs>> /\ reader' = [reader EXCEPT !.lost = TRUE]
    BY <1>9 DEF Audit!Revoke
  <2>2. /\ reader'.old = reader.old /\ reader'.lost = TRUE
        /\ reader' = [reader EXCEPT !.old = reader'.old, !.lost = reader'.lost]
    BY <1>1, <2>1 DEF ReaderInv, ReaderTyped
  <2>3. \A r \in reader'.old : Living(r)' => Living(r)
    BY <2>1 DEF Living
  <2> QED
    BY <1>1, <1>2, <2>1, <2>2, <2>3, OthersReader
<1>10. CASE \E query \in Audit!bounds.queries : Audit!Ask(query)
  BY <1>1, <1>10, AskReader DEF AuditInv
<1>11. CASE Audit!AskForMore \/ Audit!ResolveView \/ Audit!Filter \/ Audit!Select
  BY <1>1, <1>11, AskForMoreReader, ResolveViewReader, FilterReader, SelectReader DEF AuditInv
<1> QED
  BY <1>1, <1>4, <1>5, <1>6, <1>7, <1>8, <1>9, <1>10, <1>11 DEF Audit!Next, AuditInv

LEMMA AuditStutters ==
    ASSUME AuditInv, UNCHANGED audit
    PROVE  AuditInv' /\ NewRows /\ OnlyOwn
<1>1. UNCHANGED <<theme, time, ids, pending, log, envs, administers, reader>>
  BY DEF audit
<1>2. LogInv'
  BY <1>1 DEF AuditInv, LogInv, RowOK
<1>3. NewRows
  BY <1>1 DEF NewRows
<1>4. ReaderInv' /\ OnlyOwn
  <2>1. ReaderInv
    BY DEF AuditInv
  <2>2. /\ reader.lost \in BOOLEAN
        /\ reader = [reader EXCEPT !.old = reader.old, !.lost = reader.lost]
    BY <2>1 DEF ReaderInv, ReaderTyped
  <2>3. \A r : Living(r)' => Living(r)
    BY <1>1 DEF Living
  <2> QED
    BY <1>1, <2>1, <2>2, <2>3, OthersReader
<1> QED
  BY <1>2, <1>3, <1>4 DEF AuditInv

(* What a reader at the end has been shown.                                  *)
LEMMA PagesFollow == AuditInv => Audit!PagesAreComplete
<1> SUFFICES ASSUME AuditInv PROVE Audit!PagesAreComplete
  OBVIOUS
<1>1. ShownOK /\ reader.shown \in Seq(log)
  BY ReaderFields DEF AuditInv, ReaderInv
<1>2. DOMAIN reader.shown = 1 .. Len(reader.shown)
  BY <1>1
<1>3. \A i, j \in DOMAIN reader.shown : i < j => reader.shown[i].id > reader.shown[j].id
  BY <1>1, <1>2 DEF ShownOK
<1>4. ASSUME reader.at = "shown", reader.cursor = -1, ~reader.lost, NEW r \in reader.old, Due(r)
      PROVE  r \in {reader.shown[i] : i \in DOMAIN reader.shown}
  <2>1. IsShown(r)
    BY <1>1, <1>4 DEF ShownOK, Passed
  <2> QED
    BY <2>1, <1>2 DEF IsShown
<1> QED
  BY <1>3, <1>4 DEF Audit!PagesAreComplete, Due, Living, Audit!NoCursor, Audit!None

-----------------------------------------------------------------------------
(* The three scenes together. *)

ServerInv ==
    /\ scene = "resources" => ResourcesInv
    /\ scene = "secrets" => SecretsInv /\ PagesInv
    /\ scene = "audit" => AuditInv

LEMMA ServerInvInit == ServerInit => ServerInv
  BY ResourcesInit, SecretsInit, PagesInit, AuditInitLog, AuditInitReader DEF ServerInit, ServerInv, AuditInv

LEMMA ServerInvStep == ServerInv /\ [ServerNext]_allVars => ServerInv'
<1> SUFFICES ASSUME ServerInv, [ServerNext]_allVars
             PROVE  ServerInv'
  OBVIOUS
<1>1. UNCHANGED scene
  BY DEF ServerNext, allVars
<1>2. ASSUME scene = "resources"
      PROVE  ResourcesInv'
  <2>1. ResourcesInv
    BY <1>2 DEF ServerInv
  <2>2. Resource!Next \/ UNCHANGED resources
    BY <1>2 DEF ServerNext, allVars
  <2>3. CASE Resource!Next
    BY <2>1, <2>3, ResourcesKept
  <2>4. CASE UNCHANGED resources
    BY <2>1, <2>4 DEF resources, ResourcesInv, ResourcesTyped, IdsAreFresh, Existing
  <2> QED
    BY <2>2, <2>3, <2>4
<1>3. ASSUME scene = "secrets"
      PROVE  SecretsInv' /\ PagesInv'
  <2>1. SecretsInv /\ PagesInv
    BY <1>3 DEF ServerInv
  <2>2. Secrets!Next \/ UNCHANGED secrets
    BY <1>3 DEF ServerNext, allVars
  <2>3. CASE Secrets!Next
    BY <2>1, <2>3, SecretsKept, PagesKept
  <2>4. CASE UNCHANGED secrets
    BY <2>1, <2>4 DEF secrets, SecretsInv, PagesInv
  <2> QED
    BY <2>2, <2>3, <2>4
<1>4. ASSUME scene = "audit"
      PROVE  AuditInv'
  <2>1. AuditInv
    BY <1>4 DEF ServerInv
  <2>2. Audit!Next \/ UNCHANGED audit
    BY <1>4 DEF ServerNext, allVars
  <2> QED
    BY <2>1, <2>2, AuditStep, AuditStutters
<1> QED
  BY <1>1, <1>2, <1>3, <1>4 DEF ServerInv

(* In each scene, whatever its requests have awaited, each still holds only  *)
(* what it may rely on.                                                      *)
THEOREM ServerInvariant == ServerSpec => []ServerInv
  BY ServerInvInit, ServerInvStep, PTL DEF ServerSpec

(* The audit log replays to the projects and environments there are, and    *)
(* every answer about one is true of them; a secret that was handed out is  *)
(* on record, nobody else's and works until somebody is known to have       *)
(* ended it, and what is said of one that is not on record is so. A status  *)
(* is true, but for one from a list between two of whose pages another      *)
(* token was removed: there "missing" says nothing. A list of an account    *)
(* that nobody touches meanwhile is of all of it, or refused.               *)
THEOREM ResourcesAndTokensAreAsReported == ServerSpec => []ResourcesAreAsReported
<1>1. ServerInv => ResourcesAreAsReported
  BY ResourcesAnswer, SecretsAnswer, StatusesFollow, ListingsAreWhole DEF ServerInv, ResourcesAreAsReported
<1> QED
  BY <1>1, ServerInvariant, PTL

(* Whoever pages through the audit log has, at its end, been shown each row  *)
(* that was there when he began and is his to see, once and newest first;    *)
(* no page shows a row about what he does not administer; and the ids of an  *)
(* isolate increase, none made twice, whatever its clock does.               *)
THEOREM LogIsCompleteAndPrivateAlways == ServerSpec => LogIsCompleteAndPrivate
<1>1. ServerInv => (scene = "audit" => Audit!PagesAreComplete)
  BY PagesFollow DEF ServerInv
<1>2. ServerInv /\ [ServerNext]_allVars =>
         /\ [OnlyOwn]_(Audit!vars)
         /\ [NewRows]_(Audit!vars)
  <2> SUFFICES ASSUME ServerInv, [ServerNext]_allVars, ~UNCHANGED Audit!vars
               PROVE  OnlyOwn /\ NewRows
    OBVIOUS
  <2>1. UNCHANGED audit => UNCHANGED Audit!vars
    BY DEF audit, Audit!vars
  <2>2. scene = "audit" /\ Audit!Next
    BY <2>1 DEF ServerNext, allVars
  <2> QED
    BY <2>2, AuditStep DEF ServerInv
<1>3. [][OnlyOwn]_(Audit!vars) => Audit!OnlyOwnRows
  BY PTL DEF OnlyOwn, Audit!OnlyOwnRows
<1>4. [][NewRows]_(Audit!vars) => Audit!IdsIncrease
  BY PTL DEF NewRows, Audit!IdsIncrease
<1> QED
  BY <1>1, <1>2, <1>3, <1>4, ServerInvariant, PTL DEF ServerSpec, LogIsCompleteAndPrivate

-----------------------------------------------------------------------------
(* Access. *)

(* What the records of a request hold, by the operation. *)
LEMMA OpFacts ==
    ASSUME NEW op \in Op
    PROVE  /\ op.op \in {"visit", "grant", "revoke", "revokeGroup", "createGroup",
                         "deleteGroup", "addMember", "removeMember", "setDisabled"}
           /\ op.op = "grant" =>
                /\ op.holder \in Holder /\ op.scope \in Scope
                /\ op.role \in Role /\ op.expires \in Time
           /\ op.op \in {"revoke", "revokeGroup"} => op.id \in GrantId
           /\ op.op \in {"revokeGroup", "createGroup", "deleteGroup", "addMember", "removeMember"} =>
                op.group \in Group
           /\ op.op \in {"addMember", "removeMember", "setDisabled"} => op.identity \in Identity
           /\ op.op = "setDisabled" => op.disabled \in BOOLEAN
  BY DEF Op

LEMMA RequestFacts ==
    ASSUME TypeOK, NEW s \in Slot, ~At(s, "idle")
    PROVE  /\ req[s] \in Request
           /\ req[s].pc \in Pc
           /\ req[s].actor \in Identity
           /\ req[s].now \in Time
           /\ req[s].boot \in SUBSET Identity
           /\ req[s].op \in Op
           /\ req[s].snap \in SUBSET Pair
           /\ req[s].scope \in Scope
           /\ req[s].found \in SUBSET Grant
  BY DEF TypeOK, At, Idle, Request

(* A request moves on, or ends. *)
LEMMA Moves ==
    ASSUME TypeOK, NEW s \in Slot, ~At(s, "idle"), NEW pc \in Pc, Goto(s, pc)
    PROVE  /\ req' \in [Slot -> {Idle} \cup Request]
           /\ req'[s] = [req[s] EXCEPT !.pc = pc]
           /\ \A t \in Slot : t # s => req'[t] = req[t]
<1>1. [req[s] EXCEPT !.pc = pc] \in Request
  BY RequestFacts DEF Request
<1> QED
  BY <1>1 DEF TypeOK, Goto

LEMMA Ends ==
    ASSUME TypeOK, NEW s \in Slot, End(s)
    PROVE  /\ req' \in [Slot -> {Idle} \cup Request]
           /\ req'[s] = Idle
           /\ \A t \in Slot : t # s => req'[t] = req[t]
  BY DEF TypeOK, End

LEMMA OpAtCommit ==
    ASSUME TypeOK, NEW s \in Slot, At(s, "commit")
    PROVE  ~At(s, "idle") /\ req[s].op \in Op /\ req[s].scope \in Scope
  BY RequestFacts DEF At

(* A row that is inserted. *)
LEMMA Inserted ==
    ASSUME TypeOK, NEW h \in Holder, NEW c \in Scope, NEW role \in Role, NEW x \in Time,
           Insert(h, c, role, x)
    PROVE  \E g \in Grant :
              /\ g.holder = h /\ g.scope = c /\ g.role = role /\ g.expires = x
              /\ g.id.holder = h /\ g.id.scope = c
              /\ ~InUse(g.id)
              /\ grants' = grants \cup {g}
<1>1. PICK id \in NewId(h, c) :
        grants' = grants \cup {[id |-> id, holder |-> h, scope |-> c, role |-> role, expires |-> x]}
  BY DEF Insert
<1>2. id \in GrantId /\ id.holder = h /\ id.scope = c /\ ~InUse(id)
  BY <1>1 DEF NewId, FreshIds
<1>3. [id |-> id, holder |-> h, scope |-> c, role |-> role, expires |-> x] \in Grant
  BY <1>2 DEF Grant
<1> QED
  BY <1>1, <1>2, <1>3

LEMMA Constants ==
    /\ Never \in Time
    /\ Global \in Scope
    /\ \A i \in Identity : i \in Holder /\ i \notin Group
    /\ \A B \in Deploys : B \subseteq Identity
    /\ "admin" \in Role
  BY NamesAssumption, InputsAssumption DEF Never, Time, Scope, Holder, Role

LEMMA SnapshotIsTyped ==
    ASSUME TypeOK, NEW i \in Identity, NEW now, NEW B
    PROVE  Snapshot(i, now, B) \in SUBSET Pair
<1>1. BootstrapRole(i, B) \in SUBSET Pair
  BY Constants DEF BootstrapRole, Pair
<1>2. \A g \in Held(i, now) : [scope |-> g.scope, role |-> g.role] \in Pair
  BY DEF TypeOK, Held, Grant, Pair
<1> QED
  BY <1>1, <1>2 DEF Snapshot
----------------------------------------------------------------------------
(* Types. *)

LEMMA TypeStep == TypeOK /\ [Next]_vars => TypeOK'
<1> SUFFICES ASSUME TypeOK, [Next]_vars PROVE TypeOK'
  OBVIOUS
<1>1. ASSUME NEW s \in Slot, Arrive(s) PROVE TypeOK'
  <2>1. Visit \in Op
    BY DEF Visit, Op
  <2>2. PICK i \in Identity : req' = [req EXCEPT ![s] =
                [pc |-> "upsert", actor |-> i, now |-> clock, boot |-> boot,
                 op |-> Visit, snap |-> {}, scope |-> Global, found |-> {}]]
    BY <1>1 DEF Arrive
  <2>3. [pc |-> "upsert", actor |-> i, now |-> clock, boot |-> boot,
         op |-> Visit, snap |-> {}, scope |-> Global, found |-> {}] \in Request
    BY <2>1, Constants DEF Request, Pc, TypeOK
  <2> QED
    BY <1>1, <2>2, <2>3 DEF Arrive, TypeOK
<1>2. ASSUME NEW s \in Slot, UpsertIdentity(s) PROVE TypeOK'
  <2>1. ~At(s, "idle") /\ req[s].actor \in Identity
    BY <1>2, RequestFacts DEF UpsertIdentity, At
  <2>2. \E pc \in Pc : Goto(s, pc)
    BY <1>2 DEF UpsertIdentity, Pc
  <2> QED
    BY <1>2, <2>1, <2>2, Moves DEF UpsertIdentity, TypeOK
<1>3. ASSUME NEW s \in Slot, ProbeGrant(s) \/ Inspect(s) \/ CountAdmins(s) PROVE TypeOK'
  <2>1. ~At(s, "idle")
    BY <1>3 DEF ProbeGrant, Inspect, CountAdmins, At
  <2>2. \E pc \in Pc : Goto(s, pc)
    BY <1>3 DEF ProbeGrant, Inspect, CountAdmins, Pc
  <2> QED
    BY <1>3, <2>1, <2>2, Moves DEF ProbeGrant, Inspect, CountAdmins, TypeOK
<1>4. ASSUME NEW s \in Slot, Heal(s) PROVE TypeOK'
  <2>1. ~At(s, "idle") /\ req[s].actor \in Holder
    BY <1>4, RequestFacts, Constants DEF Heal, At
  <2>2. grants' \subseteq Grant
    BY <1>4, <2>1, Inserted, Constants DEF Heal, TypeOK
  <2>3. "snapshot" \in Pc
    BY DEF Pc
  <2> QED
    BY <1>4, <2>1, <2>2, <2>3, Moves DEF Heal, TypeOK
<1>5. ASSUME NEW s \in Slot, ReadSnapshot(s) PROVE TypeOK'
  <2>1. ~At(s, "idle") /\ req[s] \in Request /\ req[s].actor \in Identity
    BY <1>5, RequestFacts DEF ReadSnapshot, At
  <2>2. Snapshot(req[s].actor, req[s].now, req[s].boot) \in SUBSET Pair
    BY <2>1, SnapshotIsTyped
  <2>3. [req[s] EXCEPT !.pc = "find", !.snap = Snapshot(req[s].actor, req[s].now, req[s].boot)]
            \in Request
    BY <2>1, <2>2 DEF Request, Pc
  <2> QED
    BY <1>5, <2>3 DEF ReadSnapshot, TypeOK
<1>6. ASSUME NEW s \in Slot, Find(s) PROVE TypeOK'
  <2>1. ~At(s, "idle") /\ req[s] \in Request /\ req[s].actor \in Identity
    BY <1>6, RequestFacts DEF Find, At
  <2> DEFINE Moved(op, where) ==
        req' = [req EXCEPT ![s].pc = Guard(op), ![s].op = op, ![s].scope = where,
                          ![s].found = Found(op)]
  <2>2. PICK op \in Asked(s) : \E where \in Authority(op) : Moved(op, where)
    BY <1>6 DEF Find
  <2>3. PICK where \in Authority(op) : Moved(op, where)
    BY <2>2
  <2>4. op \in Op
    BY <2>1, <2>2, InputsAssumption DEF Asked
  <2>5. where \in Scope
    BY <2>3, <2>4, OpFacts, Constants DEF Authority, RowOf, TypeOK, Grant
  <2>6. Guard(op) \in Pc
    BY DEF Guard, Pc
  <2>7. Found(op) \in SUBSET Grant
    BY DEF Found, RowOf, TypeOK
  <2>8. [req[s] EXCEPT !.pc = Guard(op), !.op = op, !.scope = where, !.found = Found(op)] \in Request
    BY <2>1, <2>4, <2>5, <2>6, <2>7 DEF Request
  <2> QED
    BY <1>6, <2>3, <2>8 DEF Find, TypeOK
<1>7. ASSUME NEW s \in Slot, Read(s) \/ NotFound(s) \/ Forbidden(s) \/ LastAdmin(s) PROVE TypeOK'
  BY <1>7, Ends DEF Read, NotFound, Forbidden, LastAdmin, TypeOK
<1>8. ASSUME NEW s \in Slot, CreateGrant(s) PROVE TypeOK'
  <2>1. req[s].op \in Op /\ req[s].op.op = "grant"
    BY <1>8, OpAtCommit DEF CreateGrant, Commit
  <2>2. grants' \subseteq Grant
    BY <1>8, <2>1, OpFacts, Inserted DEF CreateGrant, TypeOK
  <2> QED
    BY <1>8, <2>2, Ends DEF CreateGrant, Commit, TypeOK
<1>9. ASSUME NEW s \in Slot, CreateGrantFails(s) \/ RevokeGrant(s) \/ AddMemberFails(s)
      PROVE  TypeOK'
  BY <1>9, Ends DEF CreateGrantFails, RevokeGrant, AddMemberFails, Commit, TypeOK
<1>10. ASSUME NEW s \in Slot, CreateGroup(s) \/ DeleteGroup(s) PROVE TypeOK'
  BY <1>10, Ends DEF CreateGroup, DeleteGroup, Commit, TypeOK
<1>11. ASSUME NEW s \in Slot, AddMember(s) \/ RemoveMember(s) PROVE TypeOK'
  <2>1. req[s].op \in Op /\ req[s].op.op \in {"addMember", "removeMember"}
    BY <1>11, OpAtCommit DEF AddMember, RemoveMember, Commit
  <2> QED
    BY <1>11, <2>1, Ends, OpFacts DEF AddMember, RemoveMember, Commit, TypeOK
<1>12. ASSUME NEW s \in Slot, SetDisabled(s) PROVE TypeOK'
  BY <1>12, Ends DEF SetDisabled, Commit, TypeOK
<1>13. ASSUME Deploy PROVE TypeOK'
  BY <1>13, Constants DEF Deploy, TypeOK
<1>14. ASSUME Tick PROVE TypeOK'
  BY <1>14, InputsAssumption DEF Tick, TypeOK, Time
<1>15. ASSUME UNCHANGED vars PROVE TypeOK'
  BY <1>15 DEF vars, TypeOK
<1> QED
  BY <1>1, <1>2, <1>3, <1>4, <1>5, <1>6, <1>7, <1>8, <1>9, <1>10, <1>11, <1>12, <1>13,
     <1>14, <1>15 DEF Next, Step

LEMMA TypeInit == Init => TypeOK
  BY Constants, InputsAssumption DEF Init, TypeOK, Time

(* The tables, the configuration and the requests keep their types. *)
THEOREM TypeCorrect == Spec => []TypeOK
  BY TypeInit, TypeStep, PTL DEF Spec
----------------------------------------------------------------------------
(* The inductive invariant. *)

(* What no step undoes: an identity that was recorded stays recorded, and a  *)
(* row that appears has an id that no request in flight names.               *)
SeenKept == \A i \in Identity : Seen(i) => Seen(i)'
NewRowsAreNew == \A g \in grants' : g \in grants \/ ~InUse(g.id)

LEMMA GrantsKept ==
    ASSUME TypeOK, [Next]_vars
    PROVE  SeenKept /\ NewRowsAreNew
<1>1. ASSUME UNCHANGED <<identities, grants>> PROVE SeenKept /\ NewRowsAreNew
  BY <1>1 DEF SeenKept, NewRowsAreNew, Seen
<1>2. ASSUME NEW s \in Slot, UpsertIdentity(s) PROVE SeenKept /\ NewRowsAreNew
  BY <1>2 DEF UpsertIdentity, SeenKept, NewRowsAreNew, Seen, TypeOK
<1>3. ASSUME NEW s \in Slot, Heal(s) PROVE SeenKept /\ NewRowsAreNew
  <2>1. req[s].actor \in Holder
    BY <1>3, RequestFacts, Constants DEF Heal, At
  <2> QED
    BY <1>3, <2>1, Inserted, Constants DEF Heal, SeenKept, NewRowsAreNew, Seen
<1>4. ASSUME NEW s \in Slot, CreateGrant(s) PROVE SeenKept /\ NewRowsAreNew
  <2>1. req[s].op \in Op /\ req[s].op.op = "grant"
    BY <1>4, OpAtCommit DEF CreateGrant, Commit
  <2> QED
    BY <1>4, <2>1, OpFacts, Inserted DEF CreateGrant, SeenKept, NewRowsAreNew, Seen
<1>5. ASSUME NEW s \in Slot, RevokeGrant(s) \/ DeleteGroup(s) PROVE SeenKept /\ NewRowsAreNew
  BY <1>5 DEF RevokeGrant, DeleteGroup, SeenKept, NewRowsAreNew, Seen
<1>6. ASSUME NEW s \in Slot, SetDisabled(s) PROVE SeenKept /\ NewRowsAreNew
  BY <1>6 DEF SetDisabled, SeenKept, NewRowsAreNew, Seen, TypeOK
<1> QED
  BY <1>1, <1>2, <1>3, <1>4, <1>5, <1>6 DEF Next, Step, vars, Deploy, Tick, Arrive,
     ProbeGrant,
     ReadSnapshot, Find, Read, NotFound, Forbidden, Inspect, CountAdmins, LastAdmin,
     CreateGrantFails, CreateGroup, AddMember, AddMemberFails, RemoveMember

(* What a request holds stays true while it does not move. *)
LEMMA AuthorisedKept ==
    ASSUME SeenKept, NewRowsAreNew, NEW s \in Slot, ~At(s, "idle"), req[s].op \in Op,
           Authorised(req[s]), req'[s].op = req[s].op, req'[s].scope = req[s].scope,
           req'[s].snap = req[s].snap, req'[s].found = req[s].found
    PROVE  Authorised(req[s])'
<1>1. \A h \in Identity : Seen(h) => Seen(h)'
  BY DEF SeenKept
<1>2. ASSUME req[s].op.op \in {"revoke", "revokeGroup"}
      PROVE  \A g \in grants' : g.id = req[s].op.id => g \in grants
  BY <1>2 DEF NewRowsAreNew, InUse, Named
<1>3. ASSUME req[s].op.op \in {"revoke", "revokeGroup"} PROVE SameRow(req[s])'
  BY <1>2, <1>3 DEF SameRow, Authorised
<1> QED
  BY <1>1, <1>3, OpFacts DEF Authorised

LEMMA InFlightKept ==
    ASSUME TypeOK, SeenKept, NewRowsAreNew, NEW s \in Slot, InFlight(s), req'[s] = req[s]
    PROVE  InFlight(s)'
<1>1. CASE At(s, "idle")
  BY <1>1 DEF InFlight, At
<1>2. CASE ~At(s, "idle")
  <2>1. req[s].op \in Op /\ req[s].actor \in Identity
    BY <1>2, RequestFacts
  <2> QED
    BY <1>2, <2>1, AuthorisedKept DEF InFlight, At, SeenKept
<1> QED
  BY <1>1, <1>2

(* A request that has ended holds nothing. *)
LEMMA IdleIsInFlight ==
    ASSUME NEW s \in Slot, req'[s].pc \in {"idle", "upsert", "snapshot", "find"}
    PROVE  InFlight(s)'
  BY DEF InFlight, At

(* Only the request that steps has anything to show. *)
LEMMA OthersKept ==
    ASSUME IInv, SeenKept, NewRowsAreNew, NEW s \in Slot, InFlight(s)',
           \A t \in Slot : t # s => req'[t] = req[t]
    PROVE  RequestsAreAuthorised'
  BY InFlightKept DEF IInv, RequestsAreAuthorised

LEMMA RequestsStep == IInv /\ [Next]_vars => RequestsAreAuthorised'
<1> SUFFICES ASSUME IInv, [Next]_vars PROVE RequestsAreAuthorised'
  OBVIOUS
<1> USE DEF IInv
<1>k. SeenKept /\ NewRowsAreNew
  BY GrantsKept
<1>1. ASSUME NEW s \in Slot, Arrive(s) PROVE RequestsAreAuthorised'
  <2>1. req'[s].pc = "upsert" /\ \A t \in Slot : t # s => req'[t] = req[t]
    BY <1>1 DEF Arrive, TypeOK
  <2> QED
    BY <1>k, <2>1, IdleIsInFlight, OthersKept
<1>2. ASSUME NEW s \in Slot, UpsertIdentity(s) PROVE RequestsAreAuthorised'
  <2>1. ~At(s, "idle") /\ req[s].actor \in Identity
    BY <1>2, RequestFacts DEF UpsertIdentity, At
  <2>2. PICK pc \in Pc : /\ Goto(s, pc)
                         /\ pc = IF req[s].actor \in req[s].boot THEN "probe" ELSE "snapshot"
    BY <1>2 DEF UpsertIdentity, Pc
  <2>3. req'[s] = [req[s] EXCEPT !.pc = pc] /\ \A t \in Slot : t # s => req'[t] = req[t]
    BY <2>1, <2>2, Moves
  <2>4. req'[s].pc = pc /\ req'[s].actor = req[s].actor /\ req'[s].boot = req[s].boot
    BY <2>1, <2>3, RequestFacts DEF Request
  <2>5. Seen(req[s].actor)'
    BY <1>2, <2>1, <2>4 DEF UpsertIdentity, Seen, TypeOK
  <2>6. InFlight(s)'
    BY <2>2, <2>4, <2>5 DEF InFlight, At
  <2> QED
    BY <1>k, <2>3, <2>6, OthersKept
<1>3. ASSUME NEW s \in Slot, ProbeGrant(s) \/ Inspect(s) \/ CountAdmins(s)
      PROVE  RequestsAreAuthorised'
  <2>1. ~At(s, "idle") /\ InFlight(s) /\ req[s].actor \in Identity /\ req[s].op \in Op
    BY <1>3, RequestFacts DEF ProbeGrant, Inspect, CountAdmins, At, RequestsAreAuthorised
  <2>2. PICK pc \in Pc : /\ Goto(s, pc)
                         /\ \/ ProbeGrant(s) /\ pc \in {"snapshot", "heal"}
                            \/ Inspect(s) /\ pc \in {"count", "commit"}
                            \/ CountAdmins(s) /\ pc = "commit"
    BY <1>3 DEF ProbeGrant, Inspect, CountAdmins, Pc
  <2>3. req'[s] = [req[s] EXCEPT !.pc = pc] /\ \A t \in Slot : t # s => req'[t] = req[t]
    BY <2>1, <2>2, Moves
  <2>4. /\ req'[s].pc = pc /\ req'[s].actor = req[s].actor /\ req'[s].boot = req[s].boot
        /\ req'[s].op = req[s].op /\ req'[s].scope = req[s].scope /\ req'[s].snap = req[s].snap
        /\ req'[s].found = req[s].found
    BY <2>1, <2>3, RequestFacts DEF Request
  <2>5. ASSUME ProbeGrant(s) /\ pc \in {"snapshot", "heal"}
      PROVE  InFlight(s)'
    BY <1>k, <2>1, <2>4, <2>5 DEF ProbeGrant, InFlight, At, SeenKept
  <2>6. ASSUME Inspect(s) /\ pc \in {"count", "commit"}
      PROVE  InFlight(s)'
    <3>1. Authorised(req[s])' /\ IsRemoval(req[s].op)
      BY <1>k, <2>1, <2>4, <2>6, AuthorisedKept DEF Inspect, InFlight, At, IsRemoval
    <3> QED
      BY <2>4, <2>6, <3>1 DEF InFlight, At
  <2>7. ASSUME CountAdmins(s) /\ pc = "commit"
      PROVE  InFlight(s)'
    <3>1. Authorised(req[s])'
      BY <1>k, <2>1, <2>4, <2>7, AuthorisedKept DEF CountAdmins, InFlight, At
    <3> QED
      BY <2>4, <2>7, <3>1 DEF InFlight, At
  <2> QED
    BY <1>k, <2>2, <2>3, <2>5, <2>6, <2>7, OthersKept
<1>4. ASSUME NEW s \in Slot, Heal(s) PROVE RequestsAreAuthorised'
  <2>1. ~At(s, "idle") /\ "snapshot" \in Pc /\ Goto(s, "snapshot")
    BY <1>4 DEF Heal, At, Pc
  <2>2. req'[s] = [req[s] EXCEPT !.pc = "snapshot"] /\ \A t \in Slot : t # s => req'[t] = req[t]
    BY <2>1, Moves
  <2> QED
    BY <1>k, <2>1, <2>2, RequestFacts, IdleIsInFlight, OthersKept DEF Request
<1>5. ASSUME NEW s \in Slot, ReadSnapshot(s) PROVE RequestsAreAuthorised'
  <2>1. ~At(s, "idle") /\ \A t \in Slot : t # s => req'[t] = req[t]
    BY <1>5 DEF ReadSnapshot, At, TypeOK
  <2>2. req'[s].pc = "find"
    BY <1>5, <2>1, RequestFacts DEF ReadSnapshot, Request, TypeOK
  <2> QED
    BY <1>k, <2>1, <2>2, IdleIsInFlight, OthersKept
<1>6. ASSUME NEW s \in Slot, Find(s) PROVE RequestsAreAuthorised'
  <2> DEFINE Moved(op, where) ==
        req' = [req EXCEPT ![s].pc = Guard(op), ![s].op = op, ![s].scope = where,
                          ![s].found = Found(op)]
  <2>1. ~At(s, "idle") /\ req[s] \in Request /\ req[s].actor \in Identity
    BY <1>6, RequestFacts DEF Find, At
  <2>2. PICK op \in Asked(s) :
            /\ op # Visit /\ Allowed(req[s].snap, op) /\ Exists(op)
            /\ \E where \in Authority(op) : Moved(op, where)
    BY <1>6 DEF Find
  <2>3. PICK where \in Authority(op) : Moved(op, where)
    BY <2>2
  <2>4. op \in Op
    BY <2>1, <2>2, InputsAssumption DEF Asked
  <2>5. /\ req'[s].pc = Guard(op) /\ req'[s].op = op /\ req'[s].scope = where
        /\ req'[s].snap = req[s].snap /\ req'[s].found = Found(op)
        /\ \A t \in Slot : t # s => req'[t] = req[t]
    BY <2>1, <2>3 DEF TypeOK, Request
  <2>6. UNCHANGED <<identities, grants>>
    BY <1>6 DEF Find
  <2>7. Can(req[s].snap, where, "admin")
    BY <2>2, <2>3 DEF Allowed
  <2>8. op.op \in {"addMember", "setDisabled"} => Seen(op.identity)
    BY <2>2 DEF Exists
  <2>9. op.op = "grant" => where = op.scope /\ (op.holder \in Identity => Seen(op.holder))
    BY <2>2, <2>3 DEF Exists, Authority
  <2>10. ASSUME op.op \in {"revoke", "revokeGroup"}
         PROVE  /\ \A g \in grants : g.id = op.id => g \in Found(op)
                /\ \A g \in Found(op) :
                      /\ g.id = op.id /\ g.scope = where
                      /\ g.holder \in IF op.op = "revoke" THEN Identity ELSE {op.group}
    <3>1. PICK h \in RowOf(op) : h.scope = where
      BY <2>3, <2>10 DEF Authority
    <3>2. \A g \in grants : g.id = op.id => g = h
      BY <3>1 DEF RowOf, Coherent, RowsAreKeyed
    <3>3. Found(op) = RowOf(op)
      BY <2>10 DEF Found
    <3> QED
      BY <3>1, <3>2, <3>3 DEF RowOf
  <2>11. op.op \notin {"grant", "revoke", "revokeGroup"} => where = Global
    BY <2>3, <2>4, OpFacts DEF Authority
  <2>12. Authorised(req[s])'
    BY <2>4, <2>5, <2>6, <2>7, <2>8, <2>9, <2>10, <2>11, OpFacts DEF Authorised, SameRow, Seen
  <2>13. /\ Guard(op) \notin {"probe", "heal"}
         /\ Guard(op) = "inspect" => op.op = "revoke"
         /\ Guard(op) = "count" => IsRemoval(op)
    BY DEF Guard, IsRemoval
  <2>14. InFlight(s)'
    BY <2>5, <2>12, <2>13 DEF InFlight, At
  <2> QED
    BY <1>k, <2>5, <2>14, OthersKept
<1>7. ASSUME NEW s \in Slot, End(s) PROVE RequestsAreAuthorised'
  BY <1>k, <1>7, Ends, IdleIsInFlight, OthersKept DEF Idle
<1>8. ASSUME UNCHANGED req PROVE RequestsAreAuthorised'
  BY <1>k, <1>8, InFlightKept DEF RequestsAreAuthorised
<1> QED
  BY <1>1, <1>2, <1>3, <1>4, <1>5, <1>6, <1>7, <1>8 DEF Next, Step, vars, Deploy, Tick,
     Read, NotFound, Forbidden, LastAdmin, CreateGrant, CreateGrantFails, RevokeGrant,
     CreateGroup, DeleteGroup, AddMember, AddMemberFails, RemoveMember, SetDisabled, Commit
----------------------------------------------------------------------------
(* Keys and references. *)

LEMMA CoherentInsert ==
    ASSUME TypeOK, Coherent, NEW g \in Grant, ~InUse(g.id), ~Taken(g.holder, g.scope),
           IF g.holder \in Group THEN IsLive(g.holder) ELSE Seen(g.holder),
           grants' = grants \cup {g}, UNCHANGED <<identities, groups, members>>
    PROVE  Coherent'
<1>1. RowsAreKeyed'
  BY DEF Coherent, RowsAreKeyed, InUse
<1>2. OneGrantPerScope'
  BY DEF Coherent, OneGrantPerScope, Taken
<1>3. NoOrphans'
  BY DEF Coherent, NoOrphans, IsLive, Seen
<1> QED
  BY <1>1, <1>2, <1>3 DEF Coherent

(* Rows only go, and what the others refer to stays. *)
LEMMA CoherentRemove ==
    ASSUME TypeOK, Coherent, grants' \subseteq grants, members' \subseteq members, SeenKept,
           \A g \in grants' : g.holder \in Group => IsLive(g.holder)',
           \A m \in members' : IsLive(m[1])'
    PROVE  Coherent'
<1>1. \A g \in grants : g.holder \in Group \/ g.holder \in Identity
  BY DEF TypeOK, Grant, Holder
<1>2. \A m \in members : m[2] \in Identity
  BY DEF TypeOK
<1>3. NoOrphans'
  BY <1>1, <1>2 DEF Coherent, NoOrphans, SeenKept
<1> QED
  BY <1>3 DEF Coherent, RowsAreKeyed, OneGrantPerScope

LEMMA CoherentStep == IInv /\ [Next]_vars => Coherent'
<1> SUFFICES ASSUME IInv, [Next]_vars PROVE Coherent'
  OBVIOUS
<1> USE DEF IInv
<1>k. SeenKept
  BY GrantsKept
<1>g. \A g \in grants : g.holder \in Group \/ g.holder \in Identity
  BY DEF TypeOK, Grant, Holder
<1>1. ASSUME UNCHANGED tables PROVE Coherent'
  BY <1>1 DEF tables, Coherent, RowsAreKeyed, OneGrantPerScope, NoOrphans, IsLive, Seen
<1>2. ASSUME NEW s \in Slot, UpsertIdentity(s) PROVE Coherent'
  BY <1>2, <1>k, CoherentRemove DEF UpsertIdentity, Coherent, NoOrphans, IsLive
<1>3. ASSUME NEW s \in Slot, Heal(s) PROVE Coherent'
  <2>1. ~At(s, "idle") /\ req[s].actor \in Identity /\ Seen(req[s].actor)
    BY <1>3, RequestFacts DEF Heal, At, RequestsAreAuthorised, InFlight
  <2>2. CASE Taken(req[s].actor, Global)
    BY <1>1, <1>3, <2>2 DEF Heal, tables
  <2>3. CASE ~Taken(req[s].actor, Global)
    <3>1. PICK g \in Grant : /\ g.holder = req[s].actor /\ g.scope = Global
                             /\ ~InUse(g.id) /\ grants' = grants \cup {g}
      BY <1>3, <2>1, <2>3, Inserted, Constants DEF Heal
    <3> QED
      BY <1>3, <2>1, <2>3, <3>1, Constants, CoherentInsert DEF Heal
  <2> QED
    BY <2>2, <2>3
<1>4. ASSUME NEW s \in Slot, CreateGrant(s) PROVE Coherent'
  <2>1. req[s].op \in Op /\ req[s].op.op = "grant" /\ Authorised(req[s])
    BY <1>4, OpAtCommit DEF CreateGrant, Commit, RequestsAreAuthorised, InFlight
  <2>2. req[s].op.holder \in Holder /\ (req[s].op.holder \in Identity => Seen(req[s].op.holder))
    BY <2>1, OpFacts DEF Authorised
  <2>3. PICK g \in Grant : /\ g.holder = req[s].op.holder /\ g.scope = req[s].op.scope
                           /\ ~InUse(g.id) /\ grants' = grants \cup {g}
    BY <1>4, <2>1, OpFacts, Inserted DEF CreateGrant
  <2>4. IF g.holder \in Group THEN IsLive(g.holder) ELSE Seen(g.holder)
    BY <1>4, <2>2, <2>3 DEF CreateGrant, HolderGone, Holder
  <2> QED
    BY <1>4, <2>3, <2>4, CoherentInsert DEF CreateGrant
<1>5. ASSUME NEW s \in Slot, RevokeGrant(s) PROVE Coherent'
  BY <1>5, <1>k, CoherentRemove DEF RevokeGrant, Coherent, NoOrphans, IsLive
<1>6. ASSUME NEW s \in Slot, CreateGroup(s) PROVE Coherent'
  <2>1. \A group \in Group : IsLive(group) => IsLive(group)'
    BY <1>6 DEF CreateGroup, IsLive, TypeOK
  <2>2. \A m \in members : m[1] \in Group
    BY DEF TypeOK
  <2> QED
    BY <1>6, <1>k, <2>1, <2>2, CoherentRemove DEF CreateGroup, Coherent, NoOrphans
<1>7. ASSUME NEW s \in Slot, DeleteGroup(s) PROVE Coherent'
  <2> DEFINE group == req[s].op.group
  <2>1. \A other \in Group : other # group /\ IsLive(other) => IsLive(other)'
    BY <1>7 DEF DeleteGroup, IsLive, TypeOK
  <2>2. \A m \in members : m[1] \in Group
    BY DEF TypeOK
  <2>3. /\ grants' \subseteq grants /\ \A g \in grants' : g.holder # group
        /\ members' \subseteq members /\ \A m \in members' : m[1] # group
    BY <1>7 DEF DeleteGroup
  <2>4. /\ \A g \in grants' : g.holder \in Group => IsLive(g.holder)'
        /\ \A m \in members' : IsLive(m[1])'
    BY <2>1, <2>2, <2>3 DEF Coherent, NoOrphans
  <2> QED
    BY <1>k, <2>3, <2>4, CoherentRemove
<1>8. ASSUME NEW s \in Slot, AddMember(s) PROVE Coherent'
  <2>1. req[s].op.op = "addMember" /\ Seen(req[s].op.identity)
    BY <1>8 DEF AddMember, Commit, RequestsAreAuthorised, InFlight, Authorised
  <2>2. IsLive(req[s].op.group) /\ members' = members \cup {<<req[s].op.group, req[s].op.identity>>}
    BY <1>8 DEF AddMember
  <2>3. NoOrphans'
    BY <1>8, <2>1, <2>2 DEF AddMember, Coherent, NoOrphans, IsLive, Seen
  <2> QED
    BY <1>8, <2>3 DEF AddMember, Coherent, RowsAreKeyed, OneGrantPerScope
<1>9. ASSUME NEW s \in Slot, RemoveMember(s) PROVE Coherent'
  BY <1>9, <1>k, CoherentRemove DEF RemoveMember, Coherent, NoOrphans, IsLive
<1>10. ASSUME NEW s \in Slot, SetDisabled(s) PROVE Coherent'
  BY <1>10, <1>k, CoherentRemove DEF SetDisabled, Coherent, NoOrphans, IsLive
<1> QED
  BY <1>1, <1>2, <1>3, <1>4, <1>5, <1>6, <1>7, <1>8, <1>9, <1>10 DEF Next, Step, vars, tables,
     Deploy, Tick, Arrive, ProbeGrant, ReadSnapshot, Find, Read, NotFound, Forbidden, Inspect,
     CountAdmins, LastAdmin, CreateGrantFails, AddMemberFails

LEMMA InductiveInit == Init => IInv
<1> SUFFICES ASSUME Init PROVE IInv
  OBVIOUS
<1>1. Coherent
  BY DEF Init, Coherent, RowsAreKeyed, OneGrantPerScope, NoOrphans
<1>2. RequestsAreAuthorised
  BY DEF Init, RequestsAreAuthorised, InFlight, At, Idle
<1> QED
  BY <1>1, <1>2, TypeInit DEF IInv

LEMMA InductiveStep == IInv /\ [Next]_vars => IInv'
  BY TypeStep, CoherentStep, RequestsStep DEF IInv

(* The three parts hold together: a reference holds because the request that *)
(* writes it was authorised, and the id in its hand still names one row.     *)
THEOREM Inductive == Spec => []IInv
  BY InductiveInit, InductiveStep, PTL DEF Spec

(* One row per id, one per holder and scope, and every reference holds,      *)
(* whatever is in flight together (bootstrap.ts, grants.ts, groups.ts).      *)
THEOREM GraphIsCoherent == Spec => []Coherent
  BY Inductive, PTL DEF IInv

----------------------------------------------------------------------------
(* Roles. *)

LEMMA CoversTransitive ==
    ASSUME NEW x \in Scope, NEW y \in Scope, NEW z \in Scope, Covers(x, y), Covers(y, z)
    PROVE  Covers(x, z)
  BY NamesAssumption DEF Covers, Scope

LEMMA Ranks ==
    /\ \A r \in Role : Rank[r] \in 1..3
    /\ \A r \in Role : Rank[r] >= Rank["admin"] <=> r = "admin"
  BY DEF Rank, Role

LEMMA AdminReachesDown ==
    ASSUME NEW snap \in SUBSET Pair, NEW x \in Scope, NEW y \in Scope,
           Can(snap, x, "admin"), Covers(x, y)
    PROVE  Can(snap, y, "admin")
  BY CoversTransitive DEF Can, Pair

(* A role is conferred by a row that reaches the identity, or by the variable. *)
Confers(g, i, scope, role, now) ==
    Reaches(g, i) /\ Live(g, now) /\ Covers(g.scope, scope) /\ Rank[g.role] >= Rank[role]

LEMMA EffectiveIff ==
    ASSUME NEW i, NEW scope, NEW role
    PROVE  Effective(i, scope, role) <=>
              /\ identities[i] # "disabled"
              /\ \/ \E g \in grants : Confers(g, i, scope, role, clock)
                 \/ i \in boot /\ Rank["admin"] >= Rank[role]
<1>1. \A p : p \in BootstrapRole(i, boot) <=> i \in boot /\ p = [scope |-> Global, role |-> "admin"]
  BY DEF BootstrapRole
<1>2. CASE identities[i] = "disabled"
  BY <1>2 DEF Effective, Roles, Can, Snapshot
<1>3. CASE identities[i] # "disabled"
  <2>1. \A p : p \in Snapshot(i, clock, boot) <=>
            \/ \E g \in Held(i, clock) : p = [scope |-> g.scope, role |-> g.role]
            \/ i \in boot /\ p = [scope |-> Global, role |-> "admin"]
    BY <1>1, <1>3 DEF Snapshot
  <2>2. Effective(i, scope, role) =>
            \/ \E g \in grants : Confers(g, i, scope, role, clock)
            \/ i \in boot /\ Rank["admin"] >= Rank[role]
    BY <2>1 DEF Effective, Roles, Can, Held, Confers
  <2>3. ASSUME NEW g \in grants, Confers(g, i, scope, role, clock)
        PROVE  Effective(i, scope, role)
    <3>1. g \in Held(i, clock)
      BY <2>3 DEF Held, Confers
    <3>2. [scope |-> g.scope, role |-> g.role] \in Snapshot(i, clock, boot)
      BY <2>1, <3>1
    <3> QED
      BY <2>3, <3>2 DEF Effective, Roles, Can, Confers
  <2>4. ASSUME i \in boot, Rank["admin"] >= Rank[role] PROVE Effective(i, scope, role)
    <3>1. [scope |-> Global, role |-> "admin"] \in Snapshot(i, clock, boot)
      BY <2>1, <2>4
    <3> QED
      BY <2>4, <3>1 DEF Effective, Roles, Can, Covers
  <2> QED
    BY <1>3, <2>2, <2>3, <2>4
<1> QED
  BY <1>2, <1>3

Characterised ==
    \A i \in Identity, scope \in Scope, role \in Role :
        Effective(i, scope, role) <=>
            /\ identities[i] # "disabled"
            /\ \/ \E g \in grants : Confers(g, i, scope, role, clock)
               \/ i \in boot /\ Rank["admin"] >= Rank[role]

LEMMA EffectiveNow == Characterised
  BY EffectiveIff DEF Characterised

LEMMA EffectiveNext == Characterised'
  BY EffectiveNow, PTL
----------------------------------------------------------------------------
(* Access changes by authority. *)

ByAuthority ==
    \A i \in Identity, scope \in Scope, role \in Role :
        Effective(i, scope, role)' # Effective(i, scope, role) =>
            \/ clock' # clock /\ Effective(i, scope, role)
            \/ boot' # boot /\ (i \in boot') # (i \in boot)
            \/ \E s \in Slot : At(s, "heal") /\ ~At(s, "heal")' /\ req[s].actor = i /\ i \in req[s].boot
            \/ \E s \in Slot : At(s, "commit") /\ ~At(s, "commit")' /\ Can(req[s].snap, scope, "admin")

RolesByAuthority ==
    \A i \in Identity : UNCHANGED Roles(i) \/ \A scope \in Scope, role \in Role :
        Effective(i, scope, role)' # Effective(i, scope, role) =>
            \/ clock' # clock /\ Effective(i, scope, role)
            \/ boot' # boot /\ (i \in boot') # (i \in boot)
            \/ \E s \in Slot : At(s, "heal") /\ ~At(s, "heal")' /\ req[s].actor = i /\ i \in req[s].boot
            \/ \E s \in Slot : At(s, "commit") /\ ~At(s, "commit")' /\ Can(req[s].snap, scope, "admin")

(* Steps that leave every role as it was. *)
LEMMA SameRoles ==
    ASSUME UNCHANGED <<members, grants, boot, clock>>,
           \A i \in Identity : identities'[i] = "disabled" <=> identities[i] = "disabled"
    PROVE  ByAuthority
<1>1. \A i \in Identity, scope \in Scope, role \in Role :
        Effective(i, scope, role)' <=> Effective(i, scope, role)
  BY EffectiveNow, EffectiveNext DEF Characterised, Confers, Reaches
<1>2. \A i, scope, role :
        /\ Effective(i, scope, role) \in BOOLEAN
        /\ Effective(i, scope, role)' \in BOOLEAN
  BY DEF Effective, Roles, Can
<1> QED
  BY <1>1, <1>2 DEF ByAuthority

(* Batches whose actor was admin of the installation. *)
LEMMA GlobalBatch ==
    ASSUME IInv, NEW s \in Slot, At(s, "commit"), End(s),
           req[s].op.op \notin {"grant", "revoke", "revokeGroup"}
    PROVE  ByAuthority
<1>1. req[s].scope = Global /\ Can(req[s].snap, Global, "admin")
  BY DEF IInv, RequestsAreAuthorised, InFlight, Authorised
<1>2. req[s].snap \in SUBSET Pair /\ ~At(s, "commit")'
  BY RequestFacts, Ends DEF IInv, At, Idle
<1>3. \A scope \in Scope : Can(req[s].snap, scope, "admin")
  BY <1>1, <1>2, AdminReachesDown, Constants DEF Covers
<1> QED
  BY <1>2, <1>3 DEF ByAuthority

(* Batches that add or remove rows at one scope. *)
LEMMA ScopedBatch ==
    ASSUME IInv, NEW s \in Slot, At(s, "commit"), End(s),
           UNCHANGED <<identities, members, boot, clock>>,
           \A g \in grants : g \in grants' \/ g.scope = req[s].scope,
           \A g \in grants' : g \in grants \/ g.scope = req[s].scope
    PROVE  ByAuthority
<1>1. /\ Can(req[s].snap, req[s].scope, "admin") /\ req[s].scope \in Scope
      /\ req[s].snap \in SUBSET Pair /\ ~At(s, "commit")'
  BY RequestFacts, Ends DEF IInv, RequestsAreAuthorised, InFlight, Authorised, At, Idle
<1>2. ASSUME NEW i \in Identity, NEW scope \in Scope, NEW role \in Role,
             ~Covers(req[s].scope, scope)
      PROVE  Effective(i, scope, role)' <=> Effective(i, scope, role)
  BY <1>2, EffectiveNow, EffectiveNext DEF Characterised, Confers, Reaches
<1>3. \A i, scope, role :
        /\ Effective(i, scope, role) \in BOOLEAN
        /\ Effective(i, scope, role)' \in BOOLEAN
  BY DEF Effective, Roles, Can
<1>4. ASSUME NEW scope \in Scope, Covers(req[s].scope, scope)
      PROVE  Can(req[s].snap, scope, "admin")
  BY <1>1, <1>4, AdminReachesDown
<1> QED
  BY <1>1, <1>2, <1>3, <1>4 DEF ByAuthority

LEMMA AuthorityStep == IInv /\ [Next]_vars => ByAuthority
<1> SUFFICES ASSUME IInv, [Next]_vars PROVE ByAuthority
  OBVIOUS
<1>t. TypeOK
  BY DEF IInv
<1>b. \A i, scope, role :
        /\ Effective(i, scope, role) \in BOOLEAN
        /\ Effective(i, scope, role)' \in BOOLEAN
  BY DEF Effective, Roles, Can
<1>1. ASSUME UNCHANGED <<identities, members, grants, boot, clock>> PROVE ByAuthority
  BY <1>1, SameRoles
<1>2. ASSUME NEW s \in Slot, UpsertIdentity(s) PROVE ByAuthority
  BY <1>2, <1>t, SameRoles DEF UpsertIdentity, TypeOK
<1>3. ASSUME NEW s \in Slot, Heal(s) PROVE ByAuthority
  <2>1. ~At(s, "idle") /\ req[s].actor \in Identity /\ req[s].actor \in req[s].boot
    BY <1>3, <1>t, RequestFacts DEF Heal, At, IInv, RequestsAreAuthorised, InFlight
  <2>2. At(s, "heal") /\ ~At(s, "heal")'
    BY <1>3, <1>t, <2>1, Moves, RequestFacts DEF Heal, At, Pc, Request
  <2>3. \A i \in Identity \ {req[s].actor} :
            {g \in grants' : Reaches(g, i)'} = {g \in grants : Reaches(g, i)}
    <3>1. CASE UNCHANGED grants
      BY <1>3, <3>1 DEF Heal, Reaches
    <3>2. CASE Insert(req[s].actor, Global, "admin", Never)
      <4>1. PICK g \in Grant : g.holder = req[s].actor /\ grants' = grants \cup {g}
        BY <1>t, <2>1, <3>2, Inserted, Constants
      <4>2. \A i \in Identity \ {req[s].actor} : ~Reaches(g, i)
        BY <1>t, <2>1, <4>1, Constants DEF Reaches, TypeOK
      <4> QED
        BY <1>3, <4>1, <4>2 DEF Heal, Reaches
    <3> QED
      BY <1>3, <3>1, <3>2 DEF Heal
  <2>4. UNCHANGED <<identities, members, boot, clock>>
    BY <1>3 DEF Heal
  <2>5. ASSUME NEW i \in Identity \ {req[s].actor}, NEW scope \in Scope, NEW role \in Role
        PROVE  Effective(i, scope, role)' <=> Effective(i, scope, role)
    <3>1. \A g : (g \in grants' /\ Reaches(g, i)') <=> (g \in grants /\ Reaches(g, i))
      BY <2>3
    <3> QED
      BY <2>4, <3>1, EffectiveNow, EffectiveNext DEF Characterised, Confers
  <2> QED
    BY <1>b, <2>1, <2>2, <2>5 DEF ByAuthority
<1>4. ASSUME NEW s \in Slot, CreateGrant(s) PROVE ByAuthority
  <2>1. req[s].op \in Op /\ req[s].op.op = "grant" /\ req[s].scope = req[s].op.scope
    BY <1>4, <1>t, OpAtCommit DEF CreateGrant, Commit, IInv, RequestsAreAuthorised, InFlight,
       Authorised
  <2>2. \E g \in Grant : g.scope = req[s].scope /\ grants' = grants \cup {g}
    BY <1>4, <1>t, <2>1, OpFacts, Inserted DEF CreateGrant
  <2> QED
    BY <1>4, <2>2, ScopedBatch DEF CreateGrant, Commit
<1>5. ASSUME NEW s \in Slot, RevokeGrant(s) PROVE ByAuthority
  <2>1. SameRow(req[s])
    BY <1>5 DEF RevokeGrant, Commit, IInv, RequestsAreAuthorised, InFlight, Authorised
  <2>2. At(s, "commit") /\ End(s)
    BY <1>5 DEF RevokeGrant, Commit
  <2>3. /\ \A g \in grants : g \in grants' \/ g.scope = req[s].scope
        /\ grants' \subseteq grants
    BY <1>5, <2>1 DEF RevokeGrant, SameRow
  <2> QED
    BY <1>5, <2>2, <2>3, ScopedBatch DEF RevokeGrant
<1>6. ASSUME NEW s \in Slot, DeleteGroup(s) \/ AddMember(s) \/ RemoveMember(s) \/ SetDisabled(s)
      PROVE  ByAuthority
  BY <1>6, GlobalBatch DEF DeleteGroup, AddMember, RemoveMember, SetDisabled, Commit
<1>7. ASSUME Deploy PROVE ByAuthority
  <2>1. \A i \in Identity, scope \in Scope, role \in Role :
            (i \in boot' <=> i \in boot) => (Effective(i, scope, role)' <=> Effective(i, scope, role))
    BY <1>7, EffectiveNow, EffectiveNext DEF Deploy, Characterised, Confers, Reaches
  <2> QED
    BY <1>7, <1>b, <2>1 DEF Deploy, ByAuthority
<1>8. ASSUME Tick PROVE ByAuthority
  <2>1. clock \in Nat /\ clock' = clock + 1
    BY <1>8, <1>t DEF Tick, TypeOK, Time
  <2>2. \A g \in grants : g.expires \in Nat
    BY <1>t DEF TypeOK, Grant, Time
  <2>3. \A g \in grants : Live(g, clock') => Live(g, clock)
    BY <2>1, <2>2 DEF Live
  <2>4. \A i \in Identity, scope \in Scope, role \in Role :
            Effective(i, scope, role)' => Effective(i, scope, role)
    BY <1>8, <2>3, EffectiveNow, EffectiveNext DEF Tick, Characterised, Confers, Reaches
  <2> QED
    BY <1>b, <2>1, <2>4 DEF ByAuthority
<1> QED
  BY <1>1, <1>2, <1>3, <1>4, <1>5, <1>6, <1>7, <1>8 DEF Next, Step, vars, Arrive, ProbeGrant,
     ReadSnapshot, Find, Read, NotFound, Forbidden, Inspect, CountAdmins, LastAdmin,
     CreateGroup, CreateGrantFails, AddMemberFails

(* However grants, groups, memberships and requests in flight combine, no one *)
(* gains or loses a role at a scope but by the clock, by BOOTSTRAP_ADMINS, by *)
(* its own heal, or by a request that was admin over that whole scope.        *)
THEOREM AccessByAuthority == Spec => AccessChangesByAuthority
<1>1. IInv /\ [Next]_vars => [RolesByAuthority]_<<tables, boot, clock>>
  BY AuthorityStep DEF ByAuthority, RolesByAuthority
<1> QED
  BY <1>1, Inductive, PTL DEF Spec, AccessChangesByAuthority, RolesByAuthority
----------------------------------------------------------------------------
(* The count behind the last-administrator guard. *)

(* A snapshot finds its identity to be administrator of the installation. *)
LEMMA AdminIff ==
    ASSUME TypeOK, NEW i \in Identity, NEW now
    PROVE  Can(Snapshot(i, now, {}), Global, "admin") <=>
              /\ identities[i] # "disabled"
              /\ \E g \in grants : Reaches(g, i) /\ GlobalAdminRow(g, now)
<1>1. BootstrapRole(i, {}) = {}
  BY DEF BootstrapRole
<1>2. \A g \in grants : g.scope \in Scope /\ g.role \in Role
  BY DEF TypeOK, Grant
<1>3. \A x \in Scope : Covers(x, Global) <=> x = Global
  BY NamesAssumption DEF Covers, Scope
<1>4. \A p : p \in Snapshot(i, now, {}) <=>
        /\ identities[i] # "disabled"
        /\ \E g \in Held(i, now) : p = [scope |-> g.scope, role |-> g.role]
  BY <1>1 DEF Snapshot
<1>5. ASSUME Can(Snapshot(i, now, {}), Global, "admin")
      PROVE  /\ identities[i] # "disabled"
             /\ \E g \in grants : Reaches(g, i) /\ GlobalAdminRow(g, now)
  <2>1. PICK p \in Snapshot(i, now, {}) : Covers(p.scope, Global) /\ Rank[p.role] >= Rank["admin"]
    BY <1>5 DEF Can
  <2>2. PICK g \in Held(i, now) : p = [scope |-> g.scope, role |-> g.role]
    BY <1>4, <2>1
  <2> QED
    BY <1>2, <1>3, <1>4, <2>1, <2>2, Ranks DEF Held, GlobalAdminRow
<1>6. ASSUME identities[i] # "disabled", NEW g \in grants, Reaches(g, i), GlobalAdminRow(g, now)
      PROVE  Can(Snapshot(i, now, {}), Global, "admin")
  <2>1. g \in Held(i, now)
    BY <1>6 DEF Held, GlobalAdminRow
  <2>2. [scope |-> g.scope, role |-> g.role] \in Snapshot(i, now, {})
    BY <1>4, <1>6, <2>1
  <2> QED
    BY <1>2, <1>6, <2>2, Ranks DEF Can, Covers, GlobalAdminRow
<1> QED
  BY <1>5, <1>6

AdminsCharacterised ==
    TypeOK => \A i \in Identity, now \in Time :
        Can(Snapshot(i, now, {}), Global, "admin") <=>
            /\ identities[i] # "disabled"
            /\ \E g \in grants : Reaches(g, i) /\ GlobalAdminRow(g, now)

LEMMA AdminsNow == AdminsCharacterised
  BY AdminIff DEF AdminsCharacterised

LEMMA AdminsNext == AdminsCharacterised'
  BY AdminsNow, PTL

CountIsExact ==
    \A s \in Slot, t \in Time :
        /\ At(s, "commit") /\ ~At(s, "commit")'
        /\ IsRemoval(req[s].op)
        /\ t = req[s].now
        => CountedAdmins(req[s].op, t) = AdminsAt(t)'

(* The removals leave the rows that the count looked at, and no others. *)
LEMMA RemovalLeaves ==
    ASSUME IInv, IInv', NEW s \in Slot, NEW i \in Identity,
           RevokeGrant(s) \/ DeleteGroup(s) \/ RemoveMember(s)
    PROVE  \A g : g \in grants' /\ Reaches(g, i)' <=>
                      /\ g \in grants /\ ~ExcludesRow(req[s].op, g)
                      /\ \/ g.holder = i
                         \/ <<g.holder, i>> \in members /\ ~ExcludesMembership(req[s].op, g.holder, i)
<1> USE DEF Reaches, ExcludesRow, ExcludesMembership, Commit
<1>1. CASE RevokeGrant(s)
  BY <1>1 DEF RevokeGrant
<1>2. CASE DeleteGroup(s)
  BY <1>2 DEF DeleteGroup
<1>3. CASE RemoveMember(s)
  BY <1>3 DEF RemoveMember
<1> QED
  BY <1>1, <1>2, <1>3

LEMMA RemovalCounts ==
    ASSUME IInv, IInv', NEW s \in Slot, NEW now \in Time,
           RevokeGrant(s) \/ DeleteGroup(s) \/ RemoveMember(s)
    PROVE  CountedAdmins(req[s].op, now) = AdminsAt(now)'
<1> DEFINE left(g, i) == /\ g \in grants /\ ~ExcludesRow(req[s].op, g)
                         /\ \/ g.holder = i
                            \/ /\ <<g.holder, i>> \in members
                               /\ ~ExcludesMembership(req[s].op, g.holder, i)
<1>1. UNCHANGED identities
  BY DEF RevokeGrant, DeleteGroup, RemoveMember
<1>2. \A i \in Identity : \A g : g \in grants' /\ Reaches(g, i)' <=> left(g, i)
  BY RemovalLeaves
<1>3. \A i \in Identity : \A g : left(g, i) => identities[i] # "unseen"
  BY Constants DEF IInv, Coherent, NoOrphans, Seen
<1>4. \A i \in Identity : identities[i] \in {"unseen", "enabled", "disabled"}
  BY DEF IInv, TypeOK
<1>5. ASSUME NEW i \in Identity
      PROVE  i \in CountedAdmins(req[s].op, now) <=>
                identities[i] # "disabled" /\ \E g : left(g, i) /\ GlobalAdminRow(g, now)
  BY <1>3, <1>4 DEF CountedAdmins
<1>6. ASSUME NEW i \in Identity
      PROVE  Can(Snapshot(i, now, {}), Global, "admin")' <=>
                identities[i] # "disabled" /\ \E g : left(g, i) /\ GlobalAdminRow(g, now)
  <2> HIDE DEF left
  <2> QED
    BY <1>1, <1>2, AdminsNext DEF AdminsCharacterised, IInv
<1> QED
  BY <1>5, <1>6 DEF AdminsAt, CountedAdmins

(* A request is moved by its own steps only. *)
LEMMA OnlyItsOwnSteps ==
    ASSUME TypeOK, [Next]_vars, NEW s \in Slot, req'[s] # req[s]
    PROVE  Step(s)
<1>1. PICK other \in Slot : Step(other)
  BY DEF Next, vars, Deploy, Tick
<1>2. \A t \in Slot : t # other => req'[t] = req[t]
  BY <1>1 DEF Step, Arrive, UpsertIdentity, ProbeGrant, Heal, ReadSnapshot, Find, Read,
     NotFound,
     Forbidden, Inspect, CountAdmins, LastAdmin, CreateGrant, CreateGrantFails, RevokeGrant,
     CreateGroup, DeleteGroup, AddMember, AddMemberFails, RemoveMember, SetDisabled, Commit,
     Goto, End, TypeOK
<1> QED
  BY <1>1, <1>2

LEMMA ExactStep == IInv /\ IInv' /\ [Next]_vars => CountIsExact
<1> SUFFICES ASSUME IInv, IInv', [Next]_vars, NEW s \in Slot, NEW now \in Time,
                    At(s, "commit"), ~At(s, "commit")', IsRemoval(req[s].op)
             PROVE  CountedAdmins(req[s].op, now) = AdminsAt(now)'
  BY DEF CountIsExact
<1>1. Step(s)
  BY OnlyItsOwnSteps DEF IInv, At
<1>2. RevokeGrant(s) \/ DeleteGroup(s) \/ RemoveMember(s)
  BY <1>1 DEF Step, Arrive, UpsertIdentity, ProbeGrant, Heal, ReadSnapshot, Find, Read,
     NotFound,
     Forbidden, Inspect, CountAdmins, LastAdmin, CreateGrant, CreateGrantFails,
     CreateGroup, AddMember, AddMemberFails, SetDisabled, Commit, At, IsRemoval
<1> QED
  BY <1>2, RemovalCounts

(* What the guard of a removal counts is what is left when the batch is     *)
(* applied: administrators are identities, by whichever rows they hold it.  *)
THEOREM CountIsWhatIsLeft == Spec => ExclusionIsExact
<1>1. IInv /\ IInv' /\ [Next]_vars => [CountIsExact]_req
  BY ExactStep
<1> QED
  BY <1>1, Inductive, PTL DEF Spec, ExclusionIsExact, CountIsExact
-----------------------------------------------------------------------------
(* What a revocation takes. *)

TakesWhatWasFound ==
    \A s \in Slot :
        /\ At(s, "commit") /\ ~At(s, "commit")'
        /\ req[s].op.op \in {"revoke", "revokeGroup"}
        => grants' = grants \ req[s].found

LEMMA RevocationStep == IInv /\ [Next]_vars => TakesWhatWasFound
<1> SUFFICES ASSUME IInv, [Next]_vars, NEW s \in Slot, At(s, "commit"), ~At(s, "commit")',
                    req[s].op.op \in {"revoke", "revokeGroup"}
             PROVE  grants' = grants \ req[s].found
  BY DEF TakesWhatWasFound
<1>1. Step(s)
  BY OnlyItsOwnSteps DEF IInv, At
<1>2. RevokeGrant(s)
  BY <1>1 DEF Step, Arrive, UpsertIdentity, ProbeGrant, Heal, ReadSnapshot, Find, Read,
     NotFound, Forbidden, Inspect, CountAdmins, LastAdmin, CreateGrant, CreateGrantFails,
     CreateGroup, DeleteGroup, AddMember, AddMemberFails, RemoveMember, SetDisabled, Commit, At
<1>3. SameRow(req[s])
  BY DEF IInv, RequestsAreAuthorised, InFlight, Authorised
<1> QED
  BY <1>2, <1>3 DEF RevokeGrant, SameRow

(* A revocation takes the row that was found for it and that its actor was    *)
(* checked against, or nothing, whatever was revoked, granted and found       *)
(* meanwhile: no id comes back (grants.ts, groups.ts, identities.ts).         *)
THEOREM RevocationsTakeTheirRow == Spec => RevocationsTakeWhatWasFound
<1>1. IInv /\ [Next]_vars => [TakesWhatWasFound]_req
  BY RevocationStep
<1> QED
  BY <1>1, Inductive, PTL DEF Spec, RevocationsTakeWhatWasFound, TakesWhatWasFound
----------------------------------------------------------------------------
(* The explanation of a role. *)

LEMMA ExplainCoversIsCovers ==
    ASSUME NEW x \in Scope, NEW y \in Scope
    PROVE  ExplainCovers(x, y) <=> Covers(x, y)
  BY NamesAssumption DEF ExplainCovers, Covers, TargetProject, Scope

LEMMA SourcesAreTyped ==
    ASSUME TypeOK, NEW i \in Identity
    PROVE  Sources(i) \in SUBSET Pair
<1>1. BootstrapRole(i, boot) \in SUBSET Pair
  BY Constants DEF BootstrapRole, Pair
<1>2. \A g \in Held(i, clock) : [scope |-> g.scope, role |-> g.role] \in Pair
  BY DEF TypeOK, Held, Grant, Pair
<1> QED
  BY <1>1, <1>2 DEF Sources

(* A set of roles that is not empty has a strongest one. *)
LEMMA Strongest ==
    ASSUME NEW S \in SUBSET Pair, NEW p \in S
    PROVE  \E x \in S : \A y \in S : Rank[x.role] >= Rank[y.role]
<1>1. \A y \in S : Rank[y.role] \in 1..3
  BY Ranks DEF Pair
<1>2. CASE \E x \in S : Rank[x.role] = 3
  BY <1>1, <1>2
<1>3. CASE ~(\E x \in S : Rank[x.role] = 3) /\ \E x \in S : Rank[x.role] = 2
  BY <1>1, <1>3
<1>4. CASE \A x \in S : Rank[x.role] = 1
  BY <1>4
<1> QED
  BY <1>1, <1>2, <1>3, <1>4

LEMMA Explains == TypeOK => ExplainAgrees
<1> SUFFICES ASSUME TypeOK, NEW i \in Identity, NEW target \in Scope, NEW role \in Role
             PROVE  Effective(i, target, role) <=>
                       \E r \in Explained(i, target) : Rank[r] >= Rank[role]
  BY SourcesAreTyped DEF ExplainAgrees, Pair
<1> DEFINE reaching == {p \in Sources(i) : ExplainCovers(p.scope, target)}
<1>1. reaching \in SUBSET Pair
  BY SourcesAreTyped
<1>2. \A p \in reaching : Rank[p.role] \in Nat
  BY <1>1, Ranks DEF Pair
<1>3. Rank[role] \in Nat
  BY Ranks
<1>4. CASE identities[i] = "disabled"
  BY <1>4 DEF Effective, Roles, Can, Snapshot, Explained
<1>5. CASE identities[i] # "disabled"
  <2>1. Snapshot(i, clock, boot) = Sources(i)
    BY <1>5 DEF Snapshot, Sources
  <2>2. Effective(i, target, role) <=> \E p \in reaching : Rank[p.role] >= Rank[role]
    BY <2>1, SourcesAreTyped, ExplainCoversIsCovers DEF Effective, Roles, Can, Pair
  <2>3. Explained(i, target) =
            {p.role : p \in {x \in reaching : \A y \in reaching : Rank[x.role] >= Rank[y.role]}}
    BY <1>5 DEF Explained
  <2> HIDE DEF reaching
  <2>4. ASSUME NEW r \in Explained(i, target), Rank[r] >= Rank[role]
        PROVE  Effective(i, target, role)
    BY <2>2, <2>3, <2>4
  <2>5. ASSUME NEW p \in reaching, Rank[p.role] >= Rank[role]
        PROVE  \E r \in Explained(i, target) : Rank[r] >= Rank[role]
    <3>1. PICK x \in reaching : \A y \in reaching : Rank[x.role] >= Rank[y.role]
      BY <1>1, <2>5, Strongest
    <3>2. x.role \in Explained(i, target)
      BY <2>3, <3>1
    <3>3. Rank[x.role] >= Rank[role]
      BY <1>2, <1>3, <2>5, <3>1
    <3> QED
      BY <3>2, <3>3
  <2> QED
    BY <2>2, <2>4, <2>5
<1> QED
  BY <1>4, <1>5

(* The effective-permissions screen names the role that a request would have, *)
(* at every scope it lists, however the grants came about.                    *)
THEOREM ExplanationAgrees == Spec => []ExplainAgrees
  BY Explains, TypeCorrect, PTL
=============================================================================
